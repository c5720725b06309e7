# Verification of saku

Saku runs coding-agent sessions ("threads") on a laptop daemon or on Durable
Objects (DOs) with remote sandbox machines, and shows them in a web console.
This directory holds TLA+ models of the parts of it that are hard to test, the
TLC configurations that check them on small instances, and proofs that TLAPS
checks for every value of the constants.

All paths below are relative to `src/packages/` unless they start with `docs/`.

## 1. The system

### Who talks to whom

```
 console (frontend) --wire--> hub (hub) --wire--> worker (worker)        laptop
                                 |                    |
                                 |                    +-- trail (store)
                                 +-- registry of threads, machines
                                 +-- provisioner --> machine (env daemon)
                                                        ^
                             worker -- env relay -------+

 console --wire--> hub DO (deploy/hub-do) --rpc--> thread DO (deploy/thread-do)
                       |  <--rpc: reports, events, idle-stop firings--|
                       +-- Box provisioner --> sandbox machine <------+ env
```

A *thread* is a conversation with an agent. Its *trail* is the durable log. Its
*host* is the live actor that runs the agent on the trail. Its *env* is where
the agent's tools run: this process, or a sandbox machine reached through a
socket. The *hub* knows the threads, routes commands to the worker that hosts
each of them, and keeps sandbox machines alive only while they are used.

### Components

| component | source | state | operations |
|---|---|---|---|
| session trail | `worker/src/do-session.ts`, `session-state.ts`, `trail-session.ts`, `do-session-repo.ts` | memory of used ids, parents, lane leaves, open operations; write permit | create, load, append entry or record, start and finish operation, create and move lane, name, label; import, fork, delete |
| key-value store | `store/src/kv.ts`, `records.ts` | files (with `.tmp` siblings) or DO storage | get, put, list, delete |
| thread host | `worker/src/session-machine.ts`, `session-host.ts`, `agent-events.ts` | actor state, mailbox, run and compaction fibers, abort controller, model | run commands, abort, compact, config, branch, dispose |
| host cache | `worker/src/host-cache.ts`, `session-commands.ts`, `hub-commands.ts` | map of hosts, build semaphore | hostFor, disposeHost, disposeAll, thread commands |
| daemon registry, hub registry | `worker/src/registry.ts`, `hub/src/registry.ts` | records in memory and in the store, volatile states, subscribers | create, patch, delete, broadcast |
| hub env gate | `hub/src/hub.ts`, `idle-stop.ts`, `providers/box.ts`, `remote-machine.ts` | the env axis of a record, machine id and handle, idle alarm | ensureEnv (create, resume, poll, bootstrap, read the address, probe), applyReport, arm, disarm, fire, deleteThread |
| thread DO | `deploy/src/thread-do.ts` | env handle, lazy host, alarm, retry count | command, set-env-handle, alarm, event sink |
| hub DO | `deploy/src/hub-do.ts`, `rpc.ts` | the hub, per activation | fetch, socket messages |
| env relay | `hub/src/relay-core.ts`, `relay.ts` | registered daemons, waiting workers, pipes | register, dial, data, close |
| remote env client, env daemon | `env/src/remote.ts`, `daemon.ts` | socket, pending requests, hello deadline | connect, request, close |
| wire client, wire server | `wire/src/client.ts`, `server-core.ts` | connection state, pending commands, heartbeat | connect, command, broadcast, close |
| console | `frontend/src/thread`, `root`, `conn`, `rail`, `wire.ts` | route, trail on screen, buffered entries, streaming copy, draft and mounted editor, list of threads, projects, picker and menus | events, loads, route changes, reconnects, gestures |
| session adoption | `worker/src/pi-sessions` | none (parsers), then an import | parse v3 and v4, import |
| configuration and presentation | catalogs, credentials, skills, views, cli | none that outlives a call | pure |

### What is hard, and what makes each component correct

* **Trail.** A write awaits the store between validating against the memory and
  applying to it; it may fail or the process may die at any step; with files a
  write is two steps. Correct: keys without gaps, acknowledged records stay,
  every load succeeds and rebuilds the memory the live process had, at most one
  open operation in a lane.
* **Thread host.** The actor pushes its state to the registry before it enters
  it; fibers report through the same mailbox callers fill; branch, rename and
  dispose go past the mailbox. Correct: one fiber at a time, and a busy machine
  always has one, or its report; the registry agrees with the machine; one settled event for each
  accepted run; every command answered at acceptance; a rename wins over the
  automatic title; an abort stops what it was sent to stop.
* **Env gate.** A command provisions in many awaited steps while reports, other
  commands and the idle alarm arrive; the hub may die in any of them. Correct:
  an idle machine is always on its way to be suspended, none is billed that no
  record names, none is suspended under a run, a failed attempt can be retried.
* **Console.** Events and answers race; a connection may drop at any time; the
  route may change while a read is in flight. Correct: a loaded trail has every
  entry of the log once and in order, and keeps what it showed.
* **Console, the rest.** Gestures, their answers, broadcasts and listings cross;
  the draft is in the model and in an editor that is changed imperatively.
  Correct: at rest rail and header show what the registry has, the editor takes
  keys when the view says so, nothing is born twice.
* **Registries, host cache, adoption.** Read, await, write, publish: two patches
  may lose one; a delete may be undone; two hosts may be built over one trail; an
  import writes key by key. Correct: one live host for a thread, what was
  acknowledged is there, an import is all or nothing and keeps the conversation.
* **Thread DO and hub DO.** RPCs fail before or after they took effect, reports
  overtake each other, DOs are evicted. Correct: a deleted thread stays deleted,
  its host works on the machine last handed over, the consoles' last word is the
  record.
* **Relay, remote env, wire client.** Sockets replaced while events of the old
  ones are still coming; requests whose socket is gone; timeouts racing answers.
  Correct: who waits is answered or told, a pipe has one worker, a command does
  not outlive its caller's interest.

## 2. What is modelled

Eleven groups of modules. Each MC module only names the model values, files and
scenes its configurations use.

| where | modules | joined by |
|---|---|---|
| laptop daemon | `Trail`, `SessionMachine`, `Threads` with `PiSessions` | a host of `Threads` is a `SessionMachine` on a `Trail`; both are one object there |
| deployment | `EnvGate`, `ThreadDO` | `ThreadDO` takes from `EnvGate` that a provision yields a handle or fails, `EnvGate` from `ThreadDO` the thread as a handle and a run |
| a worker and its machine | `RemoteEnv`, `Relay` | `Relay` carries the hello of `RemoteEnv` |
| console | `Wire`, `Live`, `Console` | `Wire` is the connection of both; `Live` the open trail, `Console` all around it |

### Trail, AppendLog, MCTrail, TrailProofs

`Trail` is one session: the disk (`meta`, `log`, `tmp`), the storage object
(`mode`, `mem`, `left`, `holder`) and its callers (`calls`).

| code | model |
|---|---|
| `DoSessionRepo.create`, the meta record | `Create`, `PutMeta` |
| `DoSessionStorage.load`, replay by sequence | `Load`, `Replay`, `Loaded` |
| a method's arrival at the semaphore | `Request` |
| validation under the permit, or a throw | `Validate`, `Admits`, `MutationOf` |
| `KvStore.doStorage.put` | `Put` |
| `KvStore.file.put`: write `.tmp`, rename | `WriteTmp`, `Rename` |
| a failing put | `WriteFails` |
| `SessionState.applyMutation`, permit released | `Commit`, `Applicable`, `Apply` |
| death of the process at any step | `Crash` |

A mutation keeps the ids, lane and reference its validation reads; payloads,
times, names and statistics are left out. `FileBackend` chooses the store.
`AppendLog` is the abstract promise: records are appended one at a time, and
acknowledged only while newest.

### SessionMachine, RunEvents, MCSessionMachine, SessionMachineProofs

`SessionMachine` is one host. A handler that awaits `pushState` is two actions
(`StartRun` then `EnterWorking`; `TakeReport` then `Leave`), with the state seen
by others unchanged in between. `run` is the phase of the Working fiber
(`runCommand`): prompt, auto-compaction, settled, title. `compaction` is that of
the Compacting fiber. `Branch` and `MoveLane` are the two halves of
`session-host.ts` `branch`; `Rename` is `rename_thread`; `Dispose`, `Drain`,
`Close`, `Rebuild` are the host cache's use of `dispose` and `hostFor`;
`Restart` is a death of the daemon. The agent, the compaction call and the title
call are external, with any outcome; pi's functions on a list of entries
(`prepareCompaction`, `buildSessionContext`) are taken not to throw. A title ends
in three ways: it is stored, it is not (any typed failure, which `Effect.ignore`
drops), or its put is a defect, which nothing catches (`TitleDies`, phase
`died`): the fiber ends without a report. That the actor library leaves the
machine where it was is an assumption, for its source is not here. `prompt`, `steer` and `follow_up` share
their transitions and are one operation. `RunEvents` is the abstract view of a
console: an accepted run settles once, compactions pair and do not enclose the
start or the end of a run.

### EnvGate, MCEnvGate, EnvGateProofs

One sandbox thread. Every await of `ensureEnv`, `fire` and the Box provisioner's
`ensure` is a step boundary, named by `pc` and `firing`.

| code | model |
|---|---|
| `ensureEnv`'s start: read the record, push a ready handle, disarm | `Begin`, `PushHandle`, `Disarm` |
| `BoxProvisioner.ensure`: its refusal of an incomplete state, create, resume | `StateIncomplete`, `Create`, `Resume` |
| `pollUntilReady`, `bootstrap`, the second probe of a machine that was there | `PollUntilReady`, `Bootstrap`, `Reprobe` |
| reading `host.url` on the machine, the daemon's probe | `ReadHostUrl`, `ProbeDaemon` |
| the three patches of the record | `SaveMachine`, `SaveHandle`, `SaveReady` |
| the handle's push to the thread DO, the command | `HandOver`, `Arm`, `Command` |
| `thread-do.ts` `alarm` and the platform's retries | `AlarmFires`, `HubRestarts` |
| `IdleStop.fire` | `FireDisarm`, `FireCheck`, `FireRelease`, `FireClear`, `FireStop` |

A handle is a machine and the address its daemon had when it was read; a resumed
machine may come back at another one (`urls`), which is what makes a saved handle
stale. The token is minted once for each machine and left out. Faults are chosen
by the configuration: the hub dies, a report is lost or overtaken, a machine does
not boot (or its url file is missing or its daemon silent), a suspend fails.
`clean` and `alone` are history: no fault yet, no overlapping commands yet.

### Live, MCLive (and SessionMachineProofs)

A console against a server. The server appends the messages of a run
(`AppendMessage`), announces each (`Announce`), and streams it (`Stream`,
`EndMessage`, `RunSettles`). Events keep their order; reads and their answers have a
path of their own (`Serve`, `TrailLoaded`, `TrailFailed`). The folds have the
names of `live.ts`. `ChangedRoute` resets the pane and reads when online;
`Connected` reads the open thread, since its tail when a trail is loaded;
`ConnectionClosed` loses the events under way and fails the reads. `foreign`,
`reloaded` and `cut` are history, and so is the page a read carries, which the
code's read does not. Entries are messages; tools, notices and panels are left
out.

### Wire, MCWire, WireProofs

`Wire` is the connection below `Live`: the client's actor, its sockets, the calls
it correlates, the machine of the console that retries, and the server's end of
every socket.

| code | model |
|---|---|
| `connect`: deferred, `ConnectRequested`, `waitFor(Connected)` | `dial`, `ConnectRequested`, `Land` |
| the listeners of a socket, whose events carry no identity | `frames[s]`, taken by `Take` in the order of that socket |
| `Opened`, `Errored`, `Frame`, `Closed` in each state | `Open`, `Errored`, `HelloOk`, `ErrorFrame`, `Response`, `Closed` |
| `request`: snapshot, registration, timeout | `Ask`, `Register`, `Timeout` |
| `CommandSent`, dropped outside Connected | `CommandSent` |
| `heartbeat` | `Heartbeat`, on a socket that went silent |
| `handleHello`, `handleCommand`, a close | `Greet`, `Reject`, `Respond`, `ServerCloses` |
| `connMachine`, `retry` | `TakeOutcome`, `TakeClose`, `Retry` |

Two paths lead from the client to the console: the result of `connect()`
(`outcome`) and the close event (`closes`); either may be taken first. `sentOn`,
`rejected` and `early` are history. Event frames belong to `Live`; `disconnect`,
`start` and the exchange of the client when the endpoint moves are left out.

### RemoteEnv, MCRemoteEnv, RemoteEnvProofs

The three parties of a tool call on another machine: the client
(`env/src/remote.ts`: `Ask`, `Send`, `GiveUp`, `HelloTimeout`, `Timeout`,
`Abort`, `Close` and the socket's events `Open`, `TakeHelloOk`, `TakeStream`,
`TakeResponse`, `TakeClose`), the daemon's end of each socket
(`env/src/daemon.ts`: `Greet`, `Reject`, `RunOp`, `ReceiveAbort`,
`ReceiveClose`), and the operation (`env/src/local-env.ts`: `ExecTimer`,
`Output`, `ExecEnds`, `FileOp`). Events of a socket carry no identity and meet
whatever state the client is in by then. `stray` is history: a handshake was
given up while its socket lived on.

### Relay, MCRelay, RelayProofs

The hub's relay between the two ends above (`hub/src/relay-core.ts`):
`AttachWorker`, `Register`, `Timer` (the grace of a waiting worker),
`FromWorker`, `FromDaemon`, `WorkerCloses`, `DaemonCloses`, `Close`. The peers
are as much of `remote.ts`, `env/src/relay.ts` and `daemon.ts` as decides when
they dial, leave and answer. `PipeOut` is what one pairing sends: the frames the
worker had buffered, and the end of the worker piped before.

### PiSessions, Threads, MCThreads, ThreadsProofs

`PiSessions` is the parser of adopted pi session files
(`worker/src/pi-sessions`): `ReadPiSession` folds the lines of a v3 file into the
mutations of a trail, with `ResolveParent`, `ApplyFactLine`, `RetainedTail` and
`PinMain` as in `v3.ts`, and takes those of a v4 file as they are; `Load` is the
replay of `session-state.ts` on them. A line is its type, id, parent and target.

`Threads` is the local daemon around it: commands of consoles, each up to its
next await.

| code | model |
|---|---|
| `registry.ts` create, patch, delete | `Create`, `Patch` – `Put` – `Publish`, `Delete` – `Forget` – `Erase` – `RemoveDir` |
| `host-cache.ts` `readOnlyHost`, `hostFor` under the semaphore, rebuild | `ReadOnlyHost`, `HostFor`, `Rebuild`, `SessionStarted`, `OpenSession`, `Build` |
| `disposeHost`, outside the semaphore | `DisposeHost` |
| `import_pi_session`: parse, create, write key by key, load back, roll back | `ImportPiSession`, `Parse`, `ImportMeta`, `ReplayOne`, `LoadBack`, `WriteFails` |
| a run that crashes its host; the daemon killed at any step | `HostCrashes`, `Restart` |

### ThreadDO, MCThreadDO, ThreadDOProofs

One sandbox thread from both Durable Objects. What lies between two RPCs,
connections or disposals is one step, because a DO's input gate is closed while
it waits for its own storage. In the thread DO: `CreateWorker`, `DeleteHost` and
`DeleteAll`, `SetHandle`, `CommandOnHost`, `CommandNeedsHost`, `Connect`,
`Connected`, `Rebuild`, `RunEnds`, `RunCrashes`, `Evict`. In the hub: `Begin` for
every thread command, the steps after each answer (`Created`, `Deleted`,
`HandOver`, `TellReady`, `Armed`, `ClearHandle`, `Stopped`), and `Report` and
`Applied` for what the thread DO pushes. A call waits for its env at `connect`. A
connection that is closed settles nobody's wait (`remote.ts:466`): `Closed` leaves
who waits on it at `cut`, where it fails when the socket reports its end
(`ConnectFails`), or is connected after all by an `env_hello_ok` that was under way
(`Connected`), as `Close` and `TakeHelloOk` of `RemoteEnv` have it. `cut` of a host
says that it was built so. `told` is the last `thread_changed` the
consoles got. `gone`, `orphaned`, `late` and `missed` are history.

### Console, MCConsole

Everything of the console but the entries of a trail: the rail (`rail/update.ts`
and the gestures of `rail/view.ts`), the pane with its draft, models and menus
(`thread/update.ts`, `composer.ts`, `composer-menu.ts`, `model-picker.ts`), the
routes and the boot (`root/`), the connection (`conn/machine.ts`, `wire.ts`), and
a server that answers (`ServeBirth`, `ServePatch`, `ServeDelete`, `ServeList`,
`ServeRead`, `ServeProject`) and tells of other consoles (`Elsewhere`). An update
is one step with the commands it starts and the editor it mounts. An answer lands
when it arrives, an event goes through the bridge and may be applied later; a
listing is read in one moment and answered later (`Read`). A gesture is enabled
as the view offers it. `raced`, `unread` and `foreign` are history.

## 3. What the runs check

| run | instance | states | shows |
|---|---|---|---|
| `trail_do` | 2 callers, 2 ids, 2 lanes, 3 records, every method, DO storage | 500 k | prefix of keys, memory equals log, loads never fail; refines `AppendLog` |
| `trail_file` | the same with files, 2 records, fairness | 74 k | commits accepted, acknowledged records stay, every call answered |
| `machine` | 2 callers, adopted trail, fairness | 42 k | one fiber, which reports but for a title that cannot be stored, registry agrees, refines `RunEvents`, calls answered |
| `env` | 2 commands, 2 machines with 2 addresses, all faults, 1 restart, 3 commands in all | 811 k | ready is armed, billed is ready and reachable, a firing outlives the hub |
| `env_mid_run` | 1 command, no fault | | violated: a machine is suspended under a run |
| `live` | 2 threads, one with a run of 2 messages, 3 route changes, 1 lost connection | 169 k | first load complete, order, nothing left streaming, what is opened is read |
| `wire` | 2 calls, 3 sockets, rejected handshakes, silent connections | 396 k | one socket lives, no call is sent after it failed, the console agrees with the client, silence is noticed |
| `remote_env` | a command and a file operation, 2 sockets, every fault | 53 k | who waits is answered or told, ok is whole, no command runs on for nobody |
| `relay` | 2 attaches, 2 registrations, 1 fault of any kind | 164 k | the open registration is the one, one worker a daemon, no worker waits for ever |
| `threads` | 3 commands in chosen scenes, 1 kill, 1 crash or failed write; every chained v3 file of 4 lines (the first a message) alone | 1.45 M | one live host a thread, the acknowledged survives, imports are all or nothing and keep the tree |
| `thread_do` | up to 3 calls at once, in 9 scenes, every fault, 1 eviction | 1.44 M | a deleted thread stays gone, the host has the handle, the consoles know |
| `console` | 3 threads, 1 project, 19 scenes of 3 to 6 gestures and faults | 1.42 M | rows and header are current, the editor agrees with the view, nothing is born twice |

**Bounds.** Two callers are enough for the trail, because the permit makes any
third one wait like the second; three records give a record before, at and after
a failure, and two ids force reuse. Two callers of the machine fill the mailbox
on both sides of a fiber's report; the mailbox is bounded by them, not by a
constant. For the env, two overlapping commands and a third give
provision–stop–resume; one restart may fall in any step, and `MaxRetries` (2) is
at least `MaxRestarts`. The code has 10 retries. `live` has a message before and a
message after the read that races it; three routes leave a page, come back, and
open another one; the reads of all pages may be in flight at once. Three sockets of `wire` are one
that fails or is rejected, one that is lost with calls on it, and one that the
late events of both could reach; a call is used once, and two of them are a call
queued and a call on the wire when the connection goes. Two addresses of a machine
are the one saved and the one it came back with; `ReportFault` is spent before any
other fault, since a report lost beside a restart is a restart's loss of the cached
state. `remote_env` needs a socket given up and the next one, `relay` a
registration or attach and its replacement; a third attach finds what the second
did. The scenes of `threads`, `thread_do` and `console` name which calls meet,
because three calls of any kind at once exceed TLC: each pair that shares a step
boundary is in one, with the third call or fault that makes it hurt. Four lines of
a file are an entry, a fact, a compaction and a line that hangs on any of them.

**Fairness.** Trail: a fiber that may run does (weak), and a waiter that keeps
finding the permit free gets it (strong), because the semaphore serves waiters in
order; a started write resolves or fails. Machine: weak on the handlers only,
which await storage and the registry; the agent, the compaction and the title
are never assumed to end, so `CallsAreAnswered` holds with a provider that hangs.
Env: weak on the alarm, on delivery and on the firing's steps, since the platform
delivers alarms and the hub's fibers run while it lives; nothing is assumed of
commands. Live: weak on connecting (the retry loop), serving and landing reads.
Wire: weak on the actor's handlers and on the heartbeat, a loop of its own;
nothing is assumed of the network, the server or the callers. RemoteEnv: weak on
the events of sockets, on the daemon's handlers, on a dial's outcome, on file
operations, and on the end of a command that was signalled (SIGKILL ends it); a
command that was not may run for ever. Relay: weak on frames, on the grace timer
and on what peers do with what they get; nothing makes a daemon dial. Threads,
ThreadDO and Console are checked for safety only: their calls end because their
parts do, which `machine`, `wire` and `trail_file` check.

**Deadlock.** It is checked for `machine`. The other specifications stop: a full
log, spent commands, sockets, gestures or routes.

**Type invariants.** `trail_do` checks `Trail`'s. Those of `SessionMachine`,
`EnvGate`, `Wire` and `RemoteEnv` are proved (section 4); `Relay`, `Threads` and
`ThreadDO` have theirs in the invariant of their proofs. The passing runs spend
their properties on behaviour.

### Disagreements between code and documentation

`env_mid_run` is kept as a run: "Never mid-run" (`idle-stop.ts:146`), but the
check and the release are two awaits apart.

The next ones were met the same way. The definition is in the module, and TLC
violates it under the constants given; what is not named is as in the module's
passing run, or has no effect.

| property | module and constants | the text | what the code does |
|---|---|---|---|
| `LoadNeverFails` | `Trail`, files, `MaxSeq` 3 | a put is atomic (`do-session.ts:17`) | the file backend lists a leftover `.tmp`, which replays as a record (`kv.ts:165`) |
| `UserNameStays` | `SessionMachine`, `Adopted` FALSE | "A user rename wins over auto-title forever" (`hub-commands.ts:304`) | the title is written from a record read before the call to the model (`session-machine.ts:391`) |
| `NoCompactionAfterAbort` | `SessionMachine`, `Adopted` FALSE | "Abort settles the in-flight run" (`session-machine.ts:538`) | an abort before the prompt, or during the check for auto-compaction, is acknowledged and lost |
| `TitleIsBestEffort` | `SessionMachine`, `Adopted` FALSE | "Best-effort, never fails or delays the run or the prompt response" (`session-machine.ts:424`) | a put of the title that fails is a defect (390; `kv.ts:183`, 217; `thread-do.ts:486`), which neither `Effect.ignore` nor `catchEager` catches: the fiber dies unreported |
| `RetryCanSucceed` | `EnvGate`, 1 command, `Faults` {"restart"}, `MaxRuns` 2 | "the next prompt retries" (`docs/architecture.md:212`) | a hub that dies between two patches leaves a machine without a handle, which the provisioner refuses for ever |
| `HistoryStays` | `Live`, 1 thread, `MaxSeq` 1, `MaxRoutes` 1 | "this fold reconciles both into one trail" (`live.ts:208`) | the incremental read of a reconnect replaces the trail, so the pane shows only the gap |
| `LatestSurvives` | `Relay`, `Faults` {} | a second attach "replaces the old pipe" (`relay-core.ts:142`) | closing the previous worker closes the daemon (169), and the daemon's end closes the new worker (185) |
| `DraftIsShown` | `Console` | "the next Mount initializes from the Model's draft" (`composer.ts:368`) | a send acknowledged after the user went to the welcome empties the model's draft and leaves the words in the editor |

What passing properties except, because there they are false:

* `Wire`: a client whose handshake was rejected leaves its socket to the server,
  so that a retry may overlap it and meet its close (`rejected`); a connection
  that closes before the console took its hello leaves the console online, or
  connecting for good, since Connecting takes no close (`early`). A handshake
  that nobody answers is not given up: the heartbeat looks at Connected only. A
  command dropped because the connection went first waits for its timeout.
* `SessionMachine`: after a title that could not be stored the machine stays
  Working with no fiber and nothing queued (`died`, which `OneFiber` excepts).
  Prompts are refused, an abort is acknowledged and does nothing, the registry
  says "working", so that the idle window of a sandbox is not armed and its
  machine is billed on; it ends when the host is disposed or its process restarts.
* `Live`: an answer of a page that was left is folded into the open one, since
  `TrailLoaded` names no thread (`foreign`); `message_end` is emitted behind its
  entry, so the streaming copy reappears beside it until the next event.
* `EnvGate`: overlapping commands may provision twice, and a machine that a fault
  left out of the record is billed on (`alone`, `clean`); a failed suspend is
  recorded as stopped; a missing url file fails the boot instead of being waited
  for (`box.ts`).
* `RemoteEnv`: a handshake given up while its socket lives (`stray`) leaves the
  requests of the next one to that socket's late close; an abort before the
  request was sent is heard by nobody.
* `Threads`: a deletion drops the cache's entry outside the semaphore and a host
  built meanwhile lives on (`deleted`); a thread commanded while it is imported
  gets a host over half a trail (`early`). Two imports of one file at once make
  two threads (`hub-commands.ts:195`), and a kill between the record and the last
  key leaves a thread that blocks the next import. A repeated id is found among
  entries or facts, not across them, though `v3.ts:29` says the file fails; a
  session_info line without a parent refuses the file.
* `ThreadDO`: a host that a late connection brought up beside the current one
  (`orphaned`) may write to a deleted thread; when arming the alarm fails the
  rest of a report is dropped (`missed`). Two others may write to a
  deleted thread (`late`). One is a command that was disposing a crashed host when
  the delete ended: a prompt rebuilds, the delete finds no host and empties the
  storage, the next prompt stores a handle again, and the first one goes on to
  connect and writes a record and a trail (`thread-do.ts:362`). The other waits on
  a connection that the delete closes (245) while an `env_hello_ok` of it is under
  way: close leaves the attempt and its listeners (`remote.ts:314`, 466), so that
  `hostFor` goes on (381) behind the delete. The same hello after a new handle was
  stored (265, 272), or after `envFor` replaced the connection (432), brings up a
  host that works on the previous machine (`cut`), until it crashes, the handle
  changes again or the thread is deleted.
* `Console`: a listing that races a change shows the older word (`raced`), and a
  row of a deleted thread comes back when its deletion is broadcast with the
  thread as it was (`hub-commands.ts:178`, `rail/update.ts:419`). `StateLoaded`,
  `TrailLoaded` and the models' answers name no thread (`foreign`). A list of
  models that lands after its picker was closed opens it again; a quick start
  whose thread is made and whose prompt fails makes a second thread on retry.
* `Relay`: a worker that left while it waited is paired first and the live ones
  are refused; a `hello_ok` under way reaches a second worker as its own.

Met while modelling, in no property: `branch` is for "Idle threads only"
(`session-host.ts:134`), but reads the state two awaits before it moves the lane,
and leaves the live context as it was; an acknowledged compaction that fails
before its first event ends without one (`session-machine.ts:554` says the end
rides the events); a thread stays "working" in the registry after a disposed run
was cut short, and refuses prompts while its title is generated; two patches of
one thread in the daemon's registry may lose one, or write back a thread that was
deleted (`worker/src/registry.ts:197`, 268).

## 4. What is proved

Eight modules hold theorems, beside the components they are about. Those of `Live`
are in `SessionMachineProofs`, with the machine whose events it shows, and those of
`Console` in `EnvGateProofs`, beside the other component whose theorems are about a
guard that is read and taken in different steps: their specifications are called
`LiveSpec` and `UiSpec`, so that one module can speak of two. The theorems speak of
every value of the constants: any number of callers, commands, sockets, hosts,
machines, requests, threads and projects, any bound on faults, restarts and
gestures, whichever kinds of fault are allowed.

| module | theorem | states |
|---|---|---|
| `TrailProofs` | `TypeCorrect` | `Spec => []TypeOK` |
| | `CommitsAreAccepted` | `Spec => []CommitNeverRejected`: what reached the disk is accepted by the memory |
| | `AckedIsDurable` | `Spec => AckedStays`: a key is written once |
| | `PrefixOnDurableObject` * | `Spec => []LogIsPrefix` |
| | `TrailImplementsAppendLog` * | `Spec => Durable!Spec` |
| | `EveryLoadSucceeds` * | `Spec => []LoadNeverFails` |
| | `MemoryIsTheLog` * | `Spec => []MemoryMatchesLog` |
| `SessionMachineProofs` | `TypeCorrect` | `Spec => []TypeOK` |
| | `BusyMachineHasOneFiber` | `Spec => []OneFiber` |
| | `RegistryShowsTheState` | `Spec => []PushedMatches` |
| | `ImplementsRunEvents` | `Spec => ConsoleSpec`: it implements `RunEvents` |
| | `PaneOrdered` | `LiveSpec => []Ordered` |
| | `PaneComplete` | `LiveSpec => []Complete` |
| | `PaneSettled` | `LiveSpec => []SettledIsBlank` |
| `EnvGateProofs` | `TypeCorrect` | `Spec => []TypeOK` |
| | `ReadyEnvIsArmed` | `Spec => []ReadyIsArmed` |
| | `OnlyReadyIsBilled` | `Spec => []BilledIsReady` |
| | `OneBirthAtATime` | `UiSpec => []OneBirth` |
| | `EditorFollows` | `UiSpec => []EditorAgrees` |
| | `RowsFollow` | `UiSpec => []RowsAreCurrent` |
| | `PinnedFollows` | `UiSpec => []PinnedIsCurrent` |
| `WireProofs` | `TypeCorrect` | `Spec => []TypeOK` |
| | `OneSocketLives` | `Spec => []OneSocket` |
| | `ConsoleAndClientAgree` | `Spec => []ConsoleAgrees` |
| | `NoCommandAfterItsFailure` | `Spec => NoGhosts` |
| `RemoteEnvProofs` | `TypeCorrect` | `Spec => []TypeOK` |
| | `OkMeansWhole` | `Spec => []OkIsWhole` |
| | `CallsHaveASocket` | `Spec => []Answerable` |
| `RelayProofs` | `RegistrationFollowsTheSocket` | `Spec => []OpenIsRegistered` |
| | `OneWorkerPerDaemon` | `Spec => []OnePipe` |
| `ThreadsProofs` | `ServedOnce` | `Spec => []OneHost` |
| | `Survives` | `Spec => []AcknowledgedSurvives` |
| | `ImportsWhole` | `Spec => []AllOrNothing` |
| `ThreadDOProofs` | `DeletedStays` | `Spec => []DeletedStaysGone` |
| | `HostFollowsHandle` | `Spec => []HostHasTheHandle` |
| | `ConsolesHear` | `Spec => []ConsolesKnow` |

\* with `FileBackend = FALSE`. With files they are false after a torn listing
(section 3, `LoadNeverFails`).

**Assumptions.** Each component's own (`TrailAssumption`, `MachineAssumption`, …):
sentinels differ from the values they stand beside, bounds are natural numbers,
sets of faults name faults. TLC evaluates them in every run. Two say more.
`RemoteEnvAssumption` has the requests finite, since a client whose connection
goes fails them one after another. `ThreadsAssumption` says that a parser yields a
sequence of mutations, which is not proved: the parser is a recursive function, and
what one computes needs induction over its data.

**The arguments.** None of the properties is inductive. Every module names the
invariant it needs, `IInv` (`LiveInv` for the view, `UiInv` and `Shown` for the
console), as a conjunction of named parts, and shows that the initial states have it and that each action keeps it.

* *Trail.* Types alone need `mem.seq < MaxSeq` at a commit, which needs to know who
  holds the permit. `Permit`: exactly the holder is past validation, and a caller
  that is renaming finds its mutation in the `.tmp`. `Covered`: every key on disk is
  known to the memory, or is the one the holder has written and not applied, or is
  still to be replayed. `Validated`: a lane's leaf is an entry, and what the holder
  carries is applicable to the memory as it is now. `NoGap` adds the prefix, and the
  refinement maps `Put` to `AppendRecord`, `Commit` to `Acknowledge`, all else to
  stuttering. `Rebuilt` adds what a load needs: there is a function `h` from key
  numbers to memories such that every key is applicable to the one before it and
  leads to its own, and the memory is always `h` of the number of keys applied
  (`Replayable`). `Put` extends `h`, a crash goes back to `h[0]`, a replay walks
  along it. Beside it, `Knows` says element by element what the keys say of the
  used ids, the leaves and the open operations; `KnowsNext` carries it over one
  mutation, whichever it is, and `KnowsDescribes` turns it into `MemoryMatchesLog`.
* *Host.* `Suspended`: a handler that awaits the push was entered from a state it
  may be entered from, and the registry shows the state it goes on to. `Told`: what
  the console was told follows from the phases of the fibers. `Stopped`: a closed
  host has nothing left. `OneFiber` is inductive beside them; a fiber that died in
  its title was settled before (`Told`), so that the console's view is whole.
* *Env gate.* `Reported` and `Watched`: without faults the hub's newest word on the
  thread is right, and a ready env has its window, a firing, a run or a command
  that will arm. For one command at a time `Lonely`: what the command read is what
  the record still says but for its own patches, a machine that runs is the ready
  env's or the command's (`Accounted`), and the ready handle reaches it.
* *Wire.* A socket reports while it lives and its close comes last (`Reported`);
  unless a handshake was rejected the machine's state is that of its one socket
  (`Matched`); a call that was not sent has no answer (`Called`); `Phases` lists how
  the console's and the client's state may differ in passing.
* *Live.* The announcements of a thread are under way in order, and after one come
  all the rest (`AnnouncedOK`); of the open page one read is under way (`FlightsOK`),
  alone when it catches up (`AloneOK`), from the start when nothing is loaded
  (`FirstOK`). What the answer of a first read does not bring is buffered or still
  comes (`FirstOK`, `BufferOK`), so that merging is the log again (`FirstLanding`),
  and what is missing from a loaded trail still comes (`WholeOK`). The merge is a
  choice among the enumerations of a set: `SortedExists` shows by a least
  counterexample that there is one in order, `Squeeze` that entries numbered 1 to n
  have no other.
* *RemoteEnv.* A request goes up once, on the socket it was sent on, and runs once
  (`Asked`, `Replied`). Output that its caller has not heard is on its way, before
  the answer, or is lost, and then so is the answer (`Told`): this makes "ok" whole.
  `SocketAt` has the order of frames on one socket, and unless a socket outlived its
  attempt (`stray`) there is one at a time (`One`), the attempt's or the
  connection's, which is why who waits on it hears of its end.
* *Relay.* A worker that waits or was piped has attached, and an open pipe is that of
  the worker piped last (`Attached`); the daemon's sockets are opened in order.
* *Threads.* `Permitted`: who builds a host of a thread holds the permit and finds
  the map empty or with the host it disposed, so that two are never built. `Kept`:
  the disk has what the memory has, but for a command that is about to put it. For
  imports, `Solo`: until one has answered nobody else has its thread, unless a
  command got to it first (`early`); `Adopting` is how far it has come, `Adopted`
  that later sessions append behind what it wrote.
* *ThreadDO.* `Current`: a live host is this.host, unless it was forgotten
  (`orphaned`). `Keyed`: the connection and whoever waits for it have the handle that
  is stored, but for who waits on a connection that was closed (`cut`). `Emptied`: a
  deleted thread has no host, and nobody who would build one but those; whoever
  does is `late`.
  `Owed`: if the consoles know another view, somebody is about to tell them.

* *Console.* `Guarded`: of the calls of a quick start that somebody waits for and the
  answers of one that have not landed there is one in all while the guard is up, and
  none otherwise; of an adoption the same. The proof follows the two queues, whatever
  else is in them (`ReplyStep`, `TimeOutNext`, `DisconnectNext`, which cuts both, and
  `UiStep`, a turn of the update loop), and needs of each turn only which kinds it
  takes and asks (`Fits`). `Unheard`: nobody waits for a call while the client is not
  connected, so that calls it fails at once are the only ones. `Edits` is the editor's
  half, with the kind of editor that is mounted; it is why an unlock that reaches only
  an editor of its kind is enough.

  What the console *shows* needs a second invariant on top, `Shown`, for a row or a
  header is wrong much of the time: the registry is ahead of the console whenever
  something is on its way. `Current` says, while the client is connected, what will
  put it right. `Listed` and `Pinned`: each row, and the header of the open page, is
  the registry's word, or an event of its thread is still on the wire or in the
  bridge (`Told`), or a read is (`Due`: a call that is waited for, or its answer that
  was not refused). That is not inductive alone, since what is on its way may itself
  be out of date, so two parts speak of order. `Truth`: any frame on the wire that
  says of a thread what is no longer so (`Stale`: an event, the answer of a rename, a
  state or a listing) has an event of that thread behind it; it rests on the server's
  broadcasting with the write and before it answers, which `WriteShown` uses once for
  every action that changes a thread. `BridgeTruth` is the same for the bridge, which
  is applied later than the wire; an answer may overtake the events in it, and a
  stale event there either has a newer one behind it or there is one on the wire.
  `Mended`: a failed listing on the wire, which will blank the rows, has another one
  behind it or under way. Where a listing was being answered while a thread changed,
  the thread is in `raced`, and `CallSure` says that what a listing read is otherwise
  still so. `Sound` has the rest that calls and frames carry: nothing of a thread
  that never was, no trail asked for before there is a connection, a deletion's
  answer only of a thread that is gone. `Dialed` ties the machine's word to the
  client's: a lost connection has its close at the end of the bridge. The lemmas
  follow the same two ways a queue changes: what the server appends (`AnswerShown`,
  `WriteShown`), and what a turn of the update loop takes and asks (`TurnKeeps`,
  `TurnDue`, `TurnShown`); a reconnect owes nothing to what was before it, because it
  reads the open page and the list again (`ConnectShown`).

TLC finds each `IInv` to hold under the constants of its component's run
(`trail_file` for the trail; the scenes of several commands for `Threads`; for
`Live` also with 3 messages and with 2 lost connections).
`Rebuilt`, whose `Replayable` ranges over functions to memories, is only proved.
The first `late` of `ThreadDO` came of a proof that failed for a good reason: with
two calls at once TLC had not reached that trace, with three it does, in the scene of
two prompts, a read and a delete.

**Only model-checked.** Liveness and anything about ENABLED: `CallsAreAnswered`,
`FiringIsDurable`, `OpenedIsLoaded`, `SilenceIsNoticed`, `NoOrphans`, `Decided`.
What needs induction over data: `AdoptedTree` (the parser of `PiSessions`). Every
other invariant and action property of the runs that pass is a theorem.

## 5. What is not modelled

`PROJECT.json` lists every component with its status and what it leaves out.

* Rendering, formatting, argument parsing, catalogs and credentials have no state
  that outlives a call; the wire schemas are declarations; lint rules are no part
  of the program.
* `cli/src/lifecycle.ts` and the daemon's own start and stop: probe, spawn, wait,
  SIGTERM. No lock lies between the probe and the spawn, so that two consoles that
  start the daemon at once get two over one store; a daemon on its way out removes
  `worker.url` last (`worker/src/daemon.ts:213`), which may by then be its
  successor's; and its server waits for clients that reconnected while it disposed
  its hosts. These are worth a module of its own.
* The exchange of the client in `frontend/src/wire.ts` when the daemon comes back
  on another port: the events the old bridge had queued go with it.
* Forks of sessions, which no command of the program reaches; the hub of a Node
  process with its own timer (the tests' and the laptop's form of what the Durable
  Objects do); tools, notices, usage and panels of the console.

## 6. Plan

1. What `AdoptedTree` says of one line of a file, as lemmas about `ApplyV3Line`.
2. A module for the daemon's lifecycle (section 5).
