------------------------------- MODULE ThreadDO -------------------------------
(***************************************************************************)
(* One sandbox thread of the deployment, from both of its Durable Objects: *)
(* the hub's record and what it tells the consoles (hub.ts, registry.ts of *)
(* the hub, hub-do.ts), and the thread DO that builds, rebuilds and drops  *)
(* the session host (thread-do.ts), joined by the RPCs of rpc.ts.          *)
(*                                                                         *)
(* A DO receives nothing while it waits for its own storage, so what lies  *)
(* between two RPCs, connections or disposals is one step.  Reports are    *)
(* pushed without an acknowledgement, in no order; two equal ones under    *)
(* way count as one.  Faults: an RPC fails before or after it took effect, *)
(* an env refuses, a run crashes its host, the thread DO is evicted.       *)
(*                                                                         *)
(* What the env gate decides and what it costs is EnvGate's; here it only  *)
(* yields a handle or fails.                                               *)
(***************************************************************************)
EXTENDS Naturals, FiniteSets

CONSTANTS
    Calls,       \* the calls the hub may have in flight
    Kinds,       \* what is called: create, delete, rename, ... (see Begin)
    Scenes,      \* how it starts (new, created, evicted), and how often each is called
    Handles,     \* the handles the provisioner returns
    NoHandle,    \* null
    Unset,       \* undefined, of the env key
    NoRecord,    \* the hub has no such thread
    Slots,       \* bound: reports the hub applies at once
    Faults,      \* which faults happen: rpc, env, crash, evict
    MaxHosts,    \* bound: hosts that are built
    MaxEvicts    \* bound: evictions of the thread DO

\* A thread as the wire shows it (ThreadInfo).
Infos == [name : {"given", "user", "title"}, sid : BOOLEAN, archived : BOOLEAN,
          env : {"stopped", "ready", "error"}, state : {"idle", "working"}]

ASSUME DeploymentAssumption ==
    /\ NoRecord \notin Infos
    /\ {NoHandle, Unset} \cap Handles = {} /\ NoHandle # Unset
    /\ Faults \subseteq {"rpc", "env", "crash", "evict"}
    /\ \A s \in Scenes : s.start \in {"new", "created", "evicted"} /\ s.calls \in [Kinds -> Nat]
    /\ MaxHosts \in Nat /\ MaxEvicts \in Nat

VARIABLES
    \* the hub DO
    rec,       \* the registry's record
    seen,      \* its cached state of the thread
    told,      \* the last thread_changed the consoles got
    call,      \* the calls in flight: [kind, at, rec, seen, handle, host]
    applying,  \* the reports being applied: the view before, or NoRecord
    mail,      \* pushes on their way from the thread DO
    \* the thread DO
    stored,    \* its storage: [rec, sid, auto, handle, trail]
    envKey,    \* the handle of the live env connection
    host,      \* the current host, 0 for none
    hosts,     \* every host built: [at, env, running, cut]; cut: over a connection
               \* that was closed while it greeted
    \* bounds and history
    left,      \* the calls that may still begin
    evicts,
    gone,      \* the thread DO completed a delete
    orphaned,  \* a live host is no longer the current one
    late,      \* a call from before a delete went on after it: it was disposing a
               \* crashed host, or its closed connection still greeted it
    missed     \* a report was not applied to its end

hub == <<rec, seen, told, call, applying>>
thread == <<stored, envKey, host, hosts>>
history == <<left, evicts, gone, orphaned, late, missed>>
vars == <<hub, mail, thread, history>>

HostIds == 1 .. MaxHosts
Fresh == [name |-> "given", auto |-> TRUE, sid |-> FALSE, archived |-> FALSE,
          env |-> "stopped", handle |-> NoHandle]
Blank == [rec |-> FALSE, sid |-> FALSE, auto |-> FALSE, handle |-> NoHandle, trail |-> FALSE]
Idle == [kind |-> "none", at |-> "idle", rec |-> NoRecord, seen |-> "idle",
         handle |-> NoHandle, host |-> 0]

\* toInfo: what the wire shows of the record and the cached state.
InfoOf(r, s) == [name |-> r.name, sid |-> r.sid, archived |-> r.archived,
                 env |-> r.env, state |-> s]
View == IF rec = NoRecord THEN NoRecord ELSE InfoOf(rec, seen)

\* Nothing yet; a thread that was created; one that has run, in a DO that was
\* evicted since.
Init ==
    \E scene \in Scenes, h \in Handles :
        LET s == scene.start
            r == CASE s = "new" -> NoRecord
                   [] s = "created" -> Fresh
                   [] s = "evicted" -> [Fresh EXCEPT !.sid = TRUE, !.env = "ready", !.handle = h]
        IN /\ rec = r /\ seen = "idle"
           /\ told = (IF r = NoRecord THEN NoRecord ELSE InfoOf(r, "idle"))
           /\ stored = [rec |-> s # "new", sid |-> s = "evicted", auto |-> s # "new",
                        handle |-> IF s = "evicted" THEN h ELSE NoHandle,
                        trail |-> s = "evicted"]
           /\ call = [c \in Calls |-> Idle] /\ applying = [x \in Slots |-> NoRecord]
           /\ mail = {} /\ envKey = Unset /\ host = 0
           /\ hosts = [i \in HostIds |-> [at |-> "unborn", env |-> NoHandle, running |-> FALSE,
                                       cut |-> FALSE]]
           /\ left = scene.calls /\ evicts = 0
           /\ gone = FALSE /\ orphaned = FALSE /\ late = FALSE /\ missed = FALSE

----------------------------------------------------------------------------
(* The thread DO.                                                          *)

At(c, l) == call[c].at = l
Goto(c, l) == call' = [call EXCEPT ![c].at = l]
Done(c) == call' = [call EXCEPT ![c] = Idle]
Fault(f) == f \in Faults

\* RemoteEnv.close() closes the socket but settles no handshake: a call that waits
\* for one fails when the socket reports its end, unless an env_hello_ok that was
\* under way comes first and connects it all the same.
Closed(calls) == [c \in Calls |-> IF calls[c].at = "connect"
                                  THEN [calls[c] EXCEPT !.at = "cut"] ELSE calls[c]]

\* dispose: the run is aborted and settles; the await ends in a later step.
Disposing(i) == [hosts EXCEPT ![i].at = "closing", ![i].running = FALSE]
Settled(i) == IF hosts[i].running THEN {"idle"} ELSE {}
Disposed(i) == [hosts EXCEPT ![i].at = "gone"]

\* Live hosts that this.host does not name.
Orphans(hs, h) == {i \in HostIds : hs[i].at = "live" /\ i # h}

\* Mutant: another handle drops the host but leaves the connection under way.
SetHandle_KeepsConnecting(c, h, wait, next) ==
    /\ stored' = [stored EXCEPT !.handle = h]
    /\ IF h # envKey /\ host # 0
       THEN /\ hosts' = Disposing(host) /\ mail' = mail \cup Settled(host)
            /\ call' = [call EXCEPT ![c].at = wait, ![c].host = host]
            /\ envKey' = Unset
       ELSE /\ Goto(c, next) /\ envKey' = (IF h = envKey THEN envKey ELSE Unset)
            /\ UNCHANGED <<hosts, mail>>
    /\ UNCHANGED host

\* handleSetEnvHandle: another endpoint closes the connection and disposes the
\* host; this.host is cleared once that is done.
SetHandle(c, h, wait, next) ==
    /\ stored' = [stored EXCEPT !.handle = h]
    /\ IF h = envKey THEN Goto(c, next) /\ UNCHANGED <<hosts, mail, envKey>>
       ELSE /\ envKey' = Unset
            /\ IF host = 0
               THEN /\ call' = [Closed(call) EXCEPT ![c].at = next]
                    /\ UNCHANGED <<hosts, mail>>
               ELSE /\ hosts' = Disposing(host) /\ mail' = mail \cup Settled(host)
                    /\ call' = [Closed(call) EXCEPT ![c].at = wait, ![c].host = host]
    /\ UNCHANGED host

\* The await of a dispose ends, and this.host is cleared, whichever host it is.
Clear(c) ==
    /\ hosts' = Disposed(call[c].host)
    /\ host' = 0
    /\ orphaned' = (orphaned \/ Orphans(Disposed(call[c].host), 0) # {})

\* handleCreate
CreateWorker(c) ==
    /\ At(c, "create")
    /\ stored' = [stored EXCEPT !.rec = TRUE, !.auto = TRUE]
    /\ Goto(c, "created") \/ (Fault("rpc") /\ Goto(c, "create failed"))
    /\ UNCHANGED <<rec, seen, told, applying, mail, envKey, host, hosts, history>>

\* The create of the same thread was sent first and arrives first.
Deletes(c) == At(c, "delete") /\ \A d \in Calls : ~At(d, "create")

\* handleDelete, in two parts around the dispose of the host.
DeleteHost(c) ==
    /\ Deletes(c) /\ host # 0
    /\ hosts' = Disposing(host) /\ mail' = mail \cup Settled(host)
    /\ call' = [call EXCEPT ![c].at = "deleting", ![c].host = host]
    /\ UNCHANGED <<rec, seen, told, applying, stored, envKey, host, history>>

\* Mutant: the connection under way outlives the thread.
DeleteAll_LeavesConnecting(c) ==
    /\ \/ Deletes(c) /\ host = 0 /\ UNCHANGED <<hosts, host, orphaned>>
       \/ At(c, "deleting") /\ Clear(c)
    /\ stored' = Blank
    /\ gone' = TRUE /\ late' = (late \/ \E d \in Calls : At(d, "rebuild"))
    /\ Goto(c, "release")
    /\ UNCHANGED <<rec, seen, told, applying, mail, envKey, left, evicts, missed>>

DeleteAll(c) ==
    /\ \/ Deletes(c) /\ host = 0 /\ UNCHANGED <<hosts, host, orphaned>>
       \/ At(c, "deleting") /\ Clear(c)
    /\ stored' = Blank
    /\ gone' = TRUE /\ late' = (late \/ \E d \in Calls : At(d, "rebuild"))
    /\ call' = [Closed(call) EXCEPT ![c].at = "release"]
    /\ UNCHANGED <<rec, seen, told, applying, mail, envKey, left, evicts, missed>>

\* A command on the current host: a prompt starts a run, if none is under way.
Act(c, i, hs) ==
    IF call[c].kind = "prompt" /\ hs[i].at = "live" /\ ~hs[i].running
    THEN hosts' = [hs EXCEPT ![i].running = TRUE] /\ mail' = mail \cup {"working"}
    ELSE hosts' = hs /\ UNCHANGED mail

\* hostFor, as far as the connection: without a handle it fails.
Connect(c) ==
    IF stored.handle = NoHandle THEN Done(c) /\ UNCHANGED envKey
    ELSE LET others == IF stored.handle = envKey THEN call ELSE Closed(call)
         IN /\ call' = [others EXCEPT ![c].at = "connect", ![c].handle = stored.handle]
            /\ envKey' = stored.handle

\* handleCommand, runCommand, readOnlyHost.
CommandOnHost(c) ==
    /\ At(c, "command") /\ stored.rec /\ host # 0 /\ hosts[host].at # "crashed"
    /\ Act(c, host, hosts)
    /\ stored' = [stored EXCEPT !.trail = @ \/ call[c].kind = "prompt"]
    /\ Done(c)
    /\ UNCHANGED <<rec, seen, told, applying, envKey, host, history>>

CommandNeedsHost(c) ==
    /\ At(c, "command") /\ stored.rec /\ host = 0
    /\ call[c].kind = "prompt" \/ stored.sid
    /\ Connect(c)
    /\ UNCHANGED <<rec, seen, told, applying, mail, stored, host, hosts, history>>

\* Without a record, or a read of a thread that never ran.
CommandAnswered(c) ==
    /\ At(c, "command")
    /\ ~stored.rec \/ (host = 0 /\ call[c].kind = "read" /\ ~stored.sid)
    /\ Done(c)
    /\ UNCHANGED <<rec, seen, told, applying, mail, thread, history>>

\* A crashed host is disposed and another built from the trail.
CommandOnCrashed(c) ==
    /\ At(c, "command") /\ stored.rec /\ host # 0 /\ hosts[host].at = "crashed"
    /\ hosts' = Disposing(host)
    /\ call' = [call EXCEPT ![c].at = "rebuild", ![c].host = host]
    /\ UNCHANGED <<rec, seen, told, applying, mail, stored, envKey, host, history>>

Rebuild(c) ==
    /\ At(c, "rebuild")
    /\ Clear(c)
    /\ Connect(c)
    /\ UNCHANGED <<rec, seen, told, applying, mail, stored, left, evicts, gone, late, missed>>

\* The env answers, to a closed connection too: the host is created and becomes
\* the current one, whatever happened since; the session id is back-filled when
\* the record had none, and the command runs.
Connected(c) ==
    /\ At(c, "connect") \/ At(c, "cut")
    /\ \E i \in HostIds :
          /\ hosts[i].at = "unborn" /\ \A j \in 1 .. i - 1 : hosts[j].at # "unborn"
          /\ LET hs == [hosts EXCEPT ![i] = [at |-> "live", env |-> call[c].handle,
                                             running |-> call[c].kind = "prompt",
                                             cut |-> At(c, "cut")]]
             IN hosts' = hs /\ orphaned' = (orphaned \/ Orphans(hs, i) # {})
          /\ host' = i
    /\ stored' = [stored EXCEPT !.rec = TRUE, !.sid = TRUE, !.trail = TRUE]
    /\ mail' = mail \cup (IF stored.sid THEN {} ELSE {"session"})
                    \cup (IF call[c].kind = "prompt" THEN {"working"} ELSE {})
    /\ Done(c)
    /\ late' = (late \/ (gone /\ At(c, "cut")))
    /\ UNCHANGED <<rec, seen, told, applying, envKey, left, evicts, gone, missed>>

ConnectFails(c) ==
    /\ At(c, "cut") \/ (Fault("env") /\ At(c, "connect"))
    /\ Done(c)
    /\ UNCHANGED <<rec, seen, told, applying, mail, thread, history>>

\* The run settles; the first one of a thread with a generated name titles it.
RunEnds(i) ==
    /\ hosts[i].running
    /\ hosts' = [hosts EXCEPT ![i].running = FALSE]
    /\ \/ mail' = mail \cup {"idle"} /\ stored' = [stored EXCEPT !.trail = TRUE]
       \/ /\ stored.auto /\ hosts[i].at = "live"
          /\ mail' = mail \cup {"idle", "title"}
          /\ stored' = [stored EXCEPT !.trail = TRUE, !.rec = TRUE, !.auto = FALSE]
    /\ UNCHANGED <<hub, envKey, host, history>>

RunCrashes(i) ==
    /\ Fault("crash") /\ hosts[i].at = "live" /\ hosts[i].running
    /\ hosts' = [hosts EXCEPT ![i].at = "crashed", ![i].running = FALSE]
    /\ mail' = mail \cup {"idle"}
    /\ UNCHANGED <<hub, stored, envKey, host, history>>

\* Where a hub fiber goes on when the RPC it waits for fails.
AfterFailure(x) ==
    CASE x.at = "pushing" -> [x EXCEPT !.at = "arm"]
      [] x.at = "handing over" -> [x EXCEPT !.at = "tell"]
      [] x.at = "clearing" -> [x EXCEPT !.at = "stop"]
      [] x.at = "deleting" -> [x EXCEPT !.at = "release"]
      [] x.at \in {"connect", "cut", "rebuild"} -> Idle
      [] OTHER -> x

\* The DO leaves memory: hosts and requests are gone, storage stays.
Evict ==
    /\ Fault("evict") /\ evicts < MaxEvicts
    /\ evicts' = evicts + 1
    /\ host' = 0 /\ envKey' = Unset
    /\ hosts' = [i \in HostIds |->
                    IF hosts[i].at = "unborn" THEN hosts[i]
                    ELSE [hosts[i] EXCEPT !.at = "gone", !.running = FALSE]]
    /\ call' = [c \in Calls |-> AfterFailure(call[c])]
    /\ UNCHANGED <<rec, seen, told, applying, mail, stored, left, gone, orphaned, late, missed>>

----------------------------------------------------------------------------
(* The hub: what worker and alarm push.                                    *)

\* Its arm does nothing unless the env is ready and the thread idle; its disarm
\* always calls the thread DO.
CallsWorker(p) == p = "working" \/ (p = "idle" /\ rec # NoRecord /\ rec.env = "ready")

\* An auto-title counts only while the name is still generated.
Named(r, p) ==
    IF p = "title" /\ r.auto THEN [r EXCEPT !.name = "title", !.auto = FALSE] ELSE r

Backfilled(r, p) == IF p = "session" THEN [r EXCEPT !.sid = TRUE] ELSE r

\* What a report makes of the record; a deleted thread has none to patch.
Patched(p) == IF rec = NoRecord THEN rec ELSE Backfilled(Named(rec, p), p)
Seen(p) == IF p \in {"working", "idle"} THEN p ELSE seen

\* Mutant: the view "before" is read once the state is set.
Report_BeforeIsLate(p) ==
    /\ p \in mail /\ mail' = mail \ {p}
    /\ rec' = Patched(p) /\ seen' = Seen(p)
    /\ IF CallsWorker(p) /\ rec # NoRecord
       THEN /\ \E s \in Slots : /\ applying[s] = NoRecord
                                /\ applying' = [applying EXCEPT ![s] = InfoOf(rec', seen')]
            /\ UNCHANGED told
       ELSE /\ UNCHANGED applying
            /\ told' = IF rec' # NoRecord /\ InfoOf(rec', seen') # View
                       THEN InfoOf(rec', seen') ELSE told
    /\ UNCHANGED <<call, thread, history>>

\* applyReport, up to the alarm of the thread DO ...
Report(p) ==
    /\ p \in mail /\ mail' = mail \ {p}
    /\ rec' = Patched(p) /\ seen' = Seen(p)
    /\ IF CallsWorker(p) /\ rec # NoRecord
       THEN /\ \E s \in Slots : /\ applying[s] = NoRecord
                                /\ applying' = [applying EXCEPT ![s] = View]
            /\ UNCHANGED told
       ELSE /\ UNCHANGED applying
            /\ told' = IF rec' # NoRecord /\ InfoOf(rec', seen') # View
                       THEN InfoOf(rec', seen') ELSE told
    /\ UNCHANGED <<call, thread, history>>

\* ... and from there: the consoles are told when the view has changed.
Applied(s) ==
    /\ applying[s] # NoRecord
    /\ applying' = [applying EXCEPT ![s] = NoRecord]
    /\ told' = IF View \notin {NoRecord, applying[s]} THEN View ELSE told
    /\ UNCHANGED <<rec, seen, call, mail, thread, history>>

\* Setting the alarm fails, and the rest of applyReport is dropped.
ApplyFails(s) ==
    /\ Fault("rpc") /\ applying[s] # NoRecord
    /\ applying' = [applying EXCEPT ![s] = NoRecord]
    /\ missed' = TRUE
    /\ UNCHANGED <<rec, seen, told, call, mail, thread, left, evicts, gone, orphaned, late>>

LosePush ==
    /\ Fault("rpc")
    /\ \E p \in mail : mail' = mail \ {p}
    /\ UNCHANGED <<hub, thread, history>>

----------------------------------------------------------------------------
(* The hub: calls.                                                         *)

\* Registry writes with nothing to wait for (rename, archive, unarchive), and
\* thread_changed to every console.
Now(r) ==
    /\ rec' = r
    /\ UNCHANGED <<call, seen>>
    /\ told' = View'

\* The call goes on with the record it has read, if it uses it later.
Await(c, k, l) ==
    call' = [call EXCEPT ![c] =
        [Idle EXCEPT !.kind = k, !.at = l,
                     !.rec = IF l \in {"delete", "push"} THEN rec ELSE NoRecord,
                     !.seen = IF l = "delete" THEN seen ELSE "idle"]]

Begin(c, k) ==
    /\ At(c, "idle") /\ left[k] > 0
    /\ left' = [left EXCEPT ![k] = @ - 1]
    /\ \/ /\ k = "create" /\ rec = NoRecord /\ ~gone /\ \A d \in Calls : At(d, "idle")
          /\ ~stored.rec
          /\ rec' = Fresh
          /\ Await(c, k, "create")
          /\ UNCHANGED <<seen, told>>
       \/ /\ rec # NoRecord
          /\ \/ k = "rename" /\ Now([rec EXCEPT !.name = "user", !.auto = FALSE])
             \/ k = "archive" /\ Now([rec EXCEPT !.archived = TRUE])
             \/ k = "unarchive" /\ Now([rec EXCEPT !.archived = FALSE])
             \/ /\ \/ k = "delete" /\ Await(c, k, "delete")
                   \/ k = "read" /\ Await(c, k, "command")
                   \/ k = "prompt" /\ Await(c, k, IF rec.env = "ready" THEN "push" ELSE "ensure")
                   \/ k = "fire" /\ rec.env = "ready" /\ seen = "idle" /\ Await(c, k, "clear")
                /\ UNCHANGED <<rec, seen, told>>
    /\ UNCHANGED <<applying, mail, thread, evicts, gone, orphaned, late, missed>>

\* createThread, once the worker has answered.
Created(c) ==
    /\ At(c, "created")
    /\ Done(c)
    /\ told' = IF rec = NoRecord THEN told ELSE View
    /\ UNCHANGED <<rec, seen, applying, mail, thread, history>>

\* "Roll back: a thread whose worker cannot exist must not exist."
CreateFails(c) ==
    /\ At(c, "create failed") \/ (Fault("rpc") /\ At(c, "create"))
    /\ Done(c)
    /\ rec' = NoRecord
    /\ UNCHANGED <<seen, told, applying, mail, thread, history>>

\* deleteThread: the worker, best-effort, then the machine, then the record.
DeleteWorkerFails(c) ==
    /\ Fault("rpc") /\ At(c, "delete")
    /\ Goto(c, "release")
    /\ UNCHANGED <<rec, seen, told, applying, mail, thread, history>>

Deleted(c) ==
    /\ At(c, "release")
    /\ Done(c)
    /\ rec' = NoRecord
    /\ told' = InfoOf(call[c].rec, call[c].seen)
    /\ UNCHANGED <<seen, applying, mail, thread, history>>

\* ensureEnv of a ready env: the persisted handle is pushed again.
Push(c) ==
    /\ At(c, "push")
    /\ \/ SetHandle(c, call[c].rec.handle, "pushing", "arm")
       \/ Fault("rpc") /\ Goto(c, "arm") /\ UNCHANGED <<mail, thread>>
    /\ UNCHANGED <<rec, seen, told, applying, history>>

\* ... and of another: the provisioner's handle is saved, then handed over.
Ensure(c) ==
    /\ At(c, "ensure")
    /\ \E h \in Handles :
          /\ rec' = IF rec = NoRecord THEN rec ELSE [rec EXCEPT !.handle = h, !.env = "ready"]
          /\ call' = [call EXCEPT ![c].at = "hand over", ![c].handle = h]
    /\ UNCHANGED <<seen, told, applying, mail, thread, history>>

EnsureFails(c) ==
    /\ Fault("env") /\ At(c, "ensure")
    /\ Done(c)
    /\ rec' = IF rec = NoRecord THEN rec ELSE [rec EXCEPT !.env = "error"]
    /\ told' = IF rec = NoRecord THEN told ELSE InfoOf(rec', seen)
    /\ UNCHANGED <<seen, applying, mail, thread, history>>

HandOver(c) ==
    /\ At(c, "hand over")
    /\ \/ SetHandle(c, call[c].handle, "handing over", "tell")
       \/ Fault("rpc") /\ Goto(c, "tell") /\ UNCHANGED <<mail, thread>>
    /\ UNCHANGED <<rec, seen, told, applying, history>>

\* infoOf fails when the thread was deleted meanwhile, and the call with it.
TellReady(c) ==
    /\ At(c, "tell")
    /\ IF rec = NoRecord THEN Done(c) /\ UNCHANGED told
       ELSE Goto(c, "arm") /\ told' = View
    /\ UNCHANGED <<rec, seen, applying, mail, thread, history>>

Armed(c) ==
    /\ At(c, "arm")
    /\ Goto(c, "command") \/ (Fault("rpc") /\ Done(c))
    /\ UNCHANGED <<rec, seen, told, applying, mail, thread, history>>

CommandFails(c) ==
    /\ Fault("rpc") /\ At(c, "command")
    /\ Done(c)
    /\ UNCHANGED <<rec, seen, told, applying, mail, thread, history>>

\* The idle stop clears the worker's handle, then flips the axis.
ClearHandle(c) ==
    /\ At(c, "clear")
    /\ \/ SetHandle(c, NoHandle, "clearing", "stop")
       \/ Fault("rpc") /\ Goto(c, "stop") /\ UNCHANGED <<mail, thread>>
    /\ UNCHANGED <<rec, seen, told, applying, history>>

Stopped(c) ==
    /\ At(c, "stop")
    /\ Done(c)
    /\ rec' = IF rec = NoRecord THEN rec ELSE [rec EXCEPT !.env = "stopped"]
    /\ told' = IF rec = NoRecord THEN told ELSE InfoOf(rec', seen)
    /\ UNCHANGED <<seen, applying, mail, thread, history>>

\* /set-env-handle answers once the old host is disposed.
HandleSet(c) ==
    /\ call[c].at \in {"pushing", "handing over", "clearing"}
    /\ Clear(c)
    /\ call' = [call EXCEPT ![c] = AfterFailure(@)]
    /\ UNCHANGED <<rec, seen, told, applying, mail, stored, envKey,
                   left, evicts, gone, late, missed>>

----------------------------------------------------------------------------
HubStep(c) ==
    \/ \E k \in Kinds : Begin(c, k)
    \/ Created(c) \/ CreateFails(c) \/ DeleteWorkerFails(c) \/ Deleted(c)
    \/ Push(c) \/ Ensure(c) \/ EnsureFails(c) \/ HandOver(c) \/ TellReady(c)
    \/ Armed(c) \/ CommandFails(c) \/ ClearHandle(c) \/ Stopped(c)

WorkerStep(c) ==
    \/ CreateWorker(c) \/ DeleteHost(c) \/ DeleteAll(c) \/ HandleSet(c)
    \/ CommandOnHost(c) \/ CommandNeedsHost(c) \/ CommandAnswered(c) \/ CommandOnCrashed(c)
    \/ Rebuild(c) \/ Connected(c) \/ ConnectFails(c)

Next ==
    \/ \E c \in Calls : HubStep(c) \/ WorkerStep(c)
    \/ \E i \in HostIds : RunEnds(i) \/ RunCrashes(i)
    \/ \E p \in mail : Report(p)
    \/ \E s \in Slots : Applied(s) \/ ApplyFails(s)
    \/ LosePush \/ Evict

Spec == Init /\ [][Next]_vars

----------------------------------------------------------------------------
(* Properties.                                                             *)

Quiet == /\ \A c \in Calls : At(c, "idle")
         /\ \A s \in Slots : applying[s] = NoRecord

\* A deleted thread stays deleted: no call that was under way when the thread DO
\* emptied its storage puts a record or a trail back, because the connection it
\* waits for is closed.  Three still can, and are excepted: a host that this.host
\* has forgotten; a command that was disposing of a crashed host, for hostFor goes
\* on with the record it was called with, and connects if another call has handed
\* a machine over meanwhile; and a call whose closed connection is greeted by an
\* env_hello_ok that was already under way.
DeletedStaysGone == gone /\ ~orphaned /\ ~late => ~stored.rec /\ ~stored.trail

\* The host that answers works on the machine the hub last handed over, even
\* when another handle arrives while it is being connected: the connection is
\* closed.  Excepted is the host that got its connection through an env_hello_ok
\* that was under way at that moment: it works on the previous machine until it
\* crashes, the handle changes again or the thread is deleted.
HostHasTheHandle ==
    host # 0 /\ hosts[host].at = "live" /\ ~hosts[host].cut
        => hosts[host].env = stored.handle

\* When the hub is at rest the consoles' last word on the thread is its record
\* and state: no broadcast is overtaken by an older one or missing, unless the
\* rest of a report was dropped.
ConsolesKnow == Quiet /\ ~missed /\ rec # NoRecord => told = View

=============================================================================
