------------------------------- MODULE EnvGate -------------------------------
(***************************************************************************)
(* One sandbox thread in the deployment: the hub's env gate (hub.ts), its  *)
(* idle-stop policy (idle-stop.ts), the Box provisioner (box.ts), and the  *)
(* thread DO's alarm, env handle and run (thread-do.ts).                   *)
(*                                                                         *)
(* Every await of a hub fiber is a step boundary: commands, the reports of *)
(* the thread DO and the idle-stop firing interleave.  Faults: the hub DO  *)
(* restarts, a report is lost or overtaken, a machine fails to boot, a     *)
(* suspend fails.                                                          *)
(*                                                                         *)
(* The registry's patches are taken as atomic; its own interleavings are   *)
(* another component.  A handle is an address on a machine: the token that *)
(* goes with it is minted once for each machine.                           *)
(***************************************************************************)
EXTENDS Naturals, Sequences

CONSTANTS
    Commands,     \* the commands that may be in flight at once
    Machines,     \* bound: the machines the provider can create
    NoMachine,    \* null, of machine and handle
    Faults,       \* which faults happen: restart, report, boot, suspend
    MaxRetries,   \* IDLE_STOP_MAX_RETRIES, scaled down
    MaxUrls,      \* bound: the addresses a machine has had
    MaxRestarts,  \* bound: restarts of the hub
    MaxRuns       \* bound: commands that begin

ASSUME GateAssumption ==
    /\ NoMachine \notin Machines
    /\ Faults \subseteq {"restart", "report", "boot", "suspend"}
    /\ MaxRetries \in Nat /\ MaxUrls \in Nat \ {0} /\ MaxRestarts \in Nat /\ MaxRuns \in Nat

VARIABLES
    \* the hub
    record,    \* the registry's record: [env, machine, handle]
    state,     \* the registry's cached thread state, volatile
    pc,        \* where each command is
    copy,      \* the record each command read
    got,       \* the machine and address its provisioner has come to
    firing,    \* where the idle-stop firing is
    target,    \* the machine it releases
    \* the thread DO
    worker,    \* [handle, running]
    alarm,     \* the durable alarm is set
    retries,   \* RETRIES_KEY
    reports,   \* states on their way to the hub
    \* the provider
    machines,  \* each machine: unborn, running, suspended
    urls,      \* the address its env daemon has now, 0 before it is installed
    \* bounds and history
    restarts, begun,
    clean,     \* no fault has happened
    alone      \* no two commands were in flight at once

hub == <<record, state, pc, copy, got, firing, target>>
thread == <<worker, alarm, retries, reports>>
bounds == <<restarts, begun, alone>>
provider == <<machines, urls>>
vars == <<hub, thread, provider, bounds, clean>>

Pc == {"idle", "push", "disarm", "ensure", "poll", "bootstrap", "reprobe", "url",
       "probe", "machine", "handle", "ready", "hand over", "arm", "command"}
Firings == {"none", "sent", "check", "release", "clear", "stop"}
Refs == Machines \cup {NoMachine}
Handles == [machine : Refs, url : 0 .. MaxUrls]
NoHandle == [machine |-> NoMachine, url |-> 0]
Records == [env : {"stopped", "ready", "error"}, machine : Refs, handle : Handles]
Fresh == [env |-> "stopped", machine |-> NoMachine, handle |-> NoHandle]
States == {"idle", "working"}
Workers == [handle : Handles, running : BOOLEAN]

Init ==
    /\ record = Fresh /\ state = "idle"
    /\ pc = [c \in Commands |-> "idle"]
    /\ copy = [c \in Commands |-> Fresh]
    /\ got = [c \in Commands |-> NoHandle]
    /\ firing = "none" /\ target = NoMachine
    /\ worker = [handle |-> NoHandle, running |-> FALSE]
    /\ alarm = FALSE /\ retries = 0 /\ reports = <<>>
    /\ machines = [m \in Machines |-> "unborn"]
    /\ urls = [m \in Machines |-> 0]
    /\ restarts = 0 /\ begun = 0 /\ clean = TRUE /\ alone = TRUE

Quiet == \A c \in Commands : pc[c] = "idle"
Goto(c, l) == pc' = [pc EXCEPT ![c] = l]
Fault(f) == f \in Faults /\ clean' = FALSE

\* Bound: one report is lost or overtaken, before any other fault.
ReportFault == clean /\ Fault("report")

----------------------------------------------------------------------------
(* The provider.  A call that fails is a fault of its own.                 *)

\* Which of the machines to come is created makes no difference.
NextMachine == CHOOSE m \in Machines :
    machines[m] = "unborn" \/ \A n \in Machines : machines[n] # "unborn"

MachineCreated(m) == machines[m] = "unborn" /\ machines' = [machines EXCEPT ![m] = "running"]

\* A machine that was suspended may come back at another address.
MachineResumed(m) ==
    /\ machines' = [machines EXCEPT ![m] = "running"]
    /\ \/ UNCHANGED urls
       \/ /\ machines[m] = "suspended" /\ urls[m] < MaxUrls
          /\ urls' = [urls EXCEPT ![m] = @ + 1]

MachineSuspended(m) == machines' = [machines EXCEPT ![m] = "suspended"]

CallFails == Fault("boot")

\* A handle's machine is up, and its env daemon answers at the handle's address.
Runs(h) == h.machine # NoMachine /\ machines[h.machine] = "running"
Reaches(h) == Runs(h) /\ urls[h.machine] = h.url

----------------------------------------------------------------------------
(* The thread DO.                                                          *)

\* /set-env-handle: another endpoint disposes the host, which ends its run.
SetHandle(h) ==
    /\ worker' = [handle |-> h,
                  running |-> worker.running /\ h = worker.handle]
    /\ reports' = IF worker.running /\ h # worker.handle
                  THEN Append(reports, "idle") ELSE reports

\* /command: a prompt on an idle host runs; without an env or while a run is in
\* flight it fails.
Run ==
    IF worker.handle # NoHandle /\ ~worker.running
    THEN /\ worker' = [worker EXCEPT !.running = TRUE]
         /\ reports' = Append(reports, "working")
    ELSE UNCHANGED <<worker, reports>>

RunEnds ==
    /\ worker.running
    /\ worker' = [worker EXCEPT !.running = FALSE]
    /\ reports' = Append(reports, "idle")
    /\ UNCHANGED <<hub, alarm, retries, provider, bounds, clean>>

\* alarm(): the alarm is consumed and the firing pushed to the hub.  The window
\* outlasts what was under way when it was set: the command and its reports.
AlarmFires ==
    /\ alarm /\ firing = "none"
    /\ reports = <<>> /\ \A c \in Commands : pc[c] # "command"
    /\ alarm' = FALSE
    /\ firing' = "sent"
    /\ UNCHANGED <<record, state, pc, copy, got, target, worker, retries, reports,
                   provider, bounds, clean>>

----------------------------------------------------------------------------
(* The hub: idle-stop.                                                     *)

\* arm sets the alarm only for an idle thread with a ready env.
Arm == alarm' = (alarm \/ (record.env = "ready" /\ state = "idle"))

\* Mutant: only an event arms the window, not the run's end.
Deliver_IdleNeverArms ==
    \E i \in 1 .. Len(reports) :
        /\ IF i = 1 THEN UNCHANGED clean ELSE ReportFault
        /\ reports' = [j \in 1 .. Len(reports) - 1 |-> reports[IF j < i THEN j ELSE j + 1]]
        /\ state' = reports[i]
        /\ alarm' = (alarm /\ reports[i] = "idle")
        /\ UNCHANGED <<record, pc, copy, got, firing, target, worker, retries,
                       provider, bounds>>

\* applyReport; a report may be overtaken or lost on its way.
Deliver ==
    \E i \in 1 .. Len(reports) :
        /\ IF i = 1 THEN UNCHANGED clean ELSE ReportFault
        /\ reports' = [j \in 1 .. Len(reports) - 1 |-> reports[IF j < i THEN j ELSE j + 1]]
        /\ state' = reports[i]
        /\ alarm' = IF reports[i] = "working" THEN FALSE
                    ELSE alarm \/ record.env = "ready"
        /\ UNCHANGED <<record, pc, copy, got, firing, target, worker, retries,
                       provider, bounds>>

Lose ==
    /\ ReportFault /\ reports # <<>>
    /\ reports' = Tail(reports)
    /\ UNCHANGED <<hub, worker, alarm, retries, provider, bounds>>

\* sessionEvent: an event of the run resets the window.
SessionEvent ==
    /\ worker.running
    /\ Arm
    /\ UNCHANGED <<hub, worker, retries, reports, provider, bounds, clean>>

\* fire: disarm first.
FireDisarm ==
    /\ firing = "sent"
    /\ alarm' = FALSE
    /\ firing' = "check"
    /\ UNCHANGED <<record, state, pc, copy, got, target, worker, retries, reports,
                   provider, bounds, clean>>

Acked == firing' = "none" /\ target' = NoMachine /\ retries' = 0

\* The arm in fire's busy branch finds the same busy state and does nothing.
FireCheck ==
    /\ firing = "check"
    /\ IF state = "idle" /\ record.env = "ready"
       THEN firing' = "release" /\ target' = record.machine /\ UNCHANGED retries
       ELSE Acked
    /\ UNCHANGED <<record, state, pc, copy, got, worker, alarm, reports,
                   provider, bounds, clean>>

\* release; its failure is swallowed.
FireRelease ==
    /\ firing = "release"
    /\ firing' = "clear"
    /\ \/ MachineSuspended(target) /\ UNCHANGED clean
       \/ Fault("suspend") /\ UNCHANGED machines
    /\ UNCHANGED <<record, state, pc, copy, got, target, thread, urls, bounds>>

FireClear ==
    /\ firing = "clear"
    /\ firing' = "stop"
    /\ SetHandle(NoHandle)
    /\ UNCHANGED <<record, state, pc, copy, got, target, alarm, retries,
                   provider, bounds, clean>>

FireStop ==
    /\ firing = "stop"
    /\ record' = [record EXCEPT !.env = "stopped"]
    /\ Acked
    /\ UNCHANGED <<state, pc, copy, got, worker, alarm, reports,
                   provider, bounds, clean>>

----------------------------------------------------------------------------
(* The hub: a command that is not read-only, through ensureEnv.            *)

\* Every step of a command but the few that touch more.
Step(c, from, to) ==
    /\ pc[c] = from /\ Goto(c, to)
    /\ UNCHANGED <<state, copy, firing, target, retries, bounds>>

\* ... and its last, which drops what the command held.
Finish(c, from) ==
    /\ pc[c] = from /\ Goto(c, "idle")
    /\ copy' = [copy EXCEPT ![c] = Fresh]
    /\ got' = [got EXCEPT ![c] = NoHandle]
    /\ UNCHANGED <<state, firing, target, retries, bounds>>

Begin(c) ==
    /\ pc[c] = "idle" /\ begun < MaxRuns
    /\ Goto(c, IF record.env = "ready" THEN "push" ELSE "disarm")
    /\ copy' = [copy EXCEPT ![c] = record]
    /\ begun' = begun + 1
    /\ alone' = (alone /\ Quiet)
    /\ UNCHANGED <<record, state, got, firing, target, thread, provider, restarts, clean>>

\* A ready env: the worker may have lost the handle, so it is pushed again.
PushHandle(c) ==
    /\ Step(c, "push", "arm")
    /\ SetHandle(copy[c].handle)
    /\ UNCHANGED <<record, got, alarm, provider, clean>>

Disarm(c) ==
    /\ Step(c, "disarm", "ensure")
    /\ alarm' = FALSE
    /\ UNCHANGED <<record, got, worker, reports, provider, clean>>

\* Box's ensure, with what it polls, installs and probes.  A known machine needs
\* a known handle.
Create(c) ==
    /\ copy[c].machine = NoMachine /\ copy[c].handle = NoHandle
    /\ Step(c, "ensure", "poll")
    /\ \E m \in Machines :
          /\ m = NextMachine
          /\ MachineCreated(m)
          /\ got' = [got EXCEPT ![c].machine = m]
    /\ UNCHANGED <<record, worker, alarm, reports, urls, clean>>

\* Mutant: a known machine's handle is returned without resuming it.
Resume_HandleOnly(c) ==
    /\ copy[c].machine # NoMachine /\ copy[c].handle # NoHandle
    /\ Step(c, "ensure", "machine")
    /\ got' = [got EXCEPT ![c] = copy[c].handle]
    /\ UNCHANGED <<record, worker, alarm, reports, provider, clean>>

Resume(c) ==
    /\ copy[c].machine # NoMachine /\ copy[c].handle # NoHandle
    /\ Step(c, "ensure", "poll")
    /\ MachineResumed(copy[c].machine)
    /\ got' = [got EXCEPT ![c] = copy[c].handle]
    /\ UNCHANGED <<record, worker, alarm, reports, clean>>

PollUntilReady(c) ==
    /\ Runs(got[c])
    /\ Step(c, "poll", IF copy[c].machine = NoMachine THEN "bootstrap" ELSE "reprobe")
    /\ UNCHANGED <<record, got, worker, alarm, reports, provider, clean>>

\* bootstrapBox: the bundle, the unit and node, then the daemon is started.
Bootstrap(c) ==
    /\ Runs(got[c])
    /\ Step(c, "bootstrap", "url")
    /\ urls' = [urls EXCEPT ![got[c].machine] = 1]
    /\ UNCHANGED <<record, got, worker, alarm, reports, machines, clean>>

\* resumeBox: when the known address does not answer, the file is read again.
Reprobe(c) ==
    /\ \/ Reaches(got[c]) /\ Step(c, "reprobe", "machine")
       \/ Step(c, "reprobe", "url")
    /\ UNCHANGED <<record, got, worker, alarm, reports, provider, clean>>

ReadHostUrl(c) ==
    /\ Runs(got[c])
    /\ Step(c, "url", "probe")
    /\ got' = [got EXCEPT ![c].url = urls[got[c].machine]]
    /\ UNCHANGED <<record, worker, alarm, reports, provider, clean>>

ProbeDaemon(c) ==
    /\ Reaches(got[c])
    /\ Step(c, "probe", "machine")
    /\ UNCHANGED <<record, got, worker, alarm, reports, provider, clean>>

\* A record with a machine and no handle, or the other way round.
StateIncomplete(r) == (r.machine = NoMachine) # (r.handle = NoHandle)

\* The record is incomplete, the machine was suspended or moved
\* under the provisioner, or a call of the provider fails.
EnsureFails(c) ==
    /\ \/ /\ Finish(c, "ensure")
          /\ StateIncomplete(copy[c])
          /\ UNCHANGED clean
       \/ /\ \E l \in {"poll", "bootstrap", "url"} : Finish(c, l) /\ ~Runs(got[c])
          /\ UNCHANGED clean
       \/ /\ Finish(c, "probe") /\ ~Reaches(got[c])
          /\ UNCHANGED clean
       \/ /\ \E l \in {"ensure", "poll", "bootstrap", "url", "probe"} : Finish(c, l)
          /\ CallFails
    /\ record' = [record EXCEPT !.env = "error"]
    /\ UNCHANGED <<worker, alarm, reports, provider>>

\* Three patches, each a write of its own.
SaveMachine(c) ==
    /\ Step(c, "machine", "handle")
    /\ record' = [record EXCEPT !.machine = got[c].machine]
    /\ UNCHANGED <<got, worker, alarm, reports, provider, clean>>

SaveHandle(c) ==
    /\ Step(c, "handle", "ready")
    /\ record' = [record EXCEPT !.handle = got[c]]
    /\ UNCHANGED <<got, worker, alarm, reports, provider, clean>>

SaveReady(c) ==
    /\ Step(c, "ready", "hand over")
    /\ record' = [record EXCEPT !.env = "ready"]
    /\ UNCHANGED <<got, worker, alarm, reports, provider, clean>>

HandOver(c) ==
    /\ Step(c, "hand over", "arm")
    /\ SetHandle(got[c])
    /\ UNCHANGED <<record, got, alarm, provider, clean>>

ArmIdle(c) ==
    /\ Step(c, "arm", "command")
    /\ Arm
    /\ UNCHANGED <<record, got, worker, reports, provider, clean>>

Command(c) ==
    /\ Finish(c, "command")
    /\ Run
    /\ UNCHANGED <<record, alarm, provider, clean>>

\* Mutant: a firing that was not acknowledged is forgotten.
HubRestarts_DropsFiring ==
    /\ Fault("restart") /\ restarts < MaxRestarts
    /\ restarts' = restarts + 1
    /\ state' = "idle"
    /\ pc' = [c \in Commands |-> "idle"]
    /\ copy' = [c \in Commands |-> Fresh]
    /\ got' = [c \in Commands |-> NoHandle]
    /\ firing' = "none" /\ target' = NoMachine
    /\ UNCHANGED <<record, worker, alarm, retries, reports, provider, begun, alone>>

\* The hub DO dies and is activated again: its fibers and caches are gone.  A
\* firing that was not acknowledged sets the alarm again, so many times.
HubRestarts ==
    /\ Fault("restart") /\ restarts < MaxRestarts
    /\ restarts' = restarts + 1
    /\ state' = "idle"
    /\ pc' = [c \in Commands |-> "idle"]
    /\ copy' = [c \in Commands |-> Fresh]
    /\ got' = [c \in Commands |-> NoHandle]
    /\ firing' = "none" /\ target' = NoMachine
    /\ IF firing = "none" THEN UNCHANGED <<alarm, retries>>
       ELSE IF retries < MaxRetries THEN alarm' = TRUE /\ retries' = retries + 1
       ELSE retries' = 0 /\ UNCHANGED alarm
    /\ UNCHANGED <<record, worker, reports, provider, begun, alone>>

----------------------------------------------------------------------------
Gate(c) ==
    \/ PushHandle(c) \/ Disarm(c) \/ Create(c) \/ Resume(c)
    \/ PollUntilReady(c) \/ Bootstrap(c) \/ Reprobe(c) \/ ReadHostUrl(c)
    \/ ProbeDaemon(c) \/ EnsureFails(c)
    \/ SaveMachine(c) \/ SaveHandle(c) \/ SaveReady(c) \/ HandOver(c) \/ ArmIdle(c)
    \/ Command(c)

Fire == FireDisarm \/ FireCheck \/ FireRelease \/ FireClear \/ FireStop

Next ==
    \/ \E c \in Commands : Begin(c) \/ Gate(c)
    \/ RunEnds \/ AlarmFires \/ Deliver \/ Lose \/ SessionEvent
    \/ Fire
    \/ HubRestarts

Spec == Init /\ [][Next]_vars

\* The platform delivers alarms and what is sent, and the hub's fibers go on
\* while it lives.
FairSpec == Spec /\ WF_vars(AlarmFires) /\ WF_vars(Deliver) /\ WF_vars(Fire)

----------------------------------------------------------------------------
(* Properties.                                                             *)

TypeOK ==
    /\ record \in Records /\ state \in States
    /\ pc \in [Commands -> Pc] /\ copy \in [Commands -> Records]
    /\ got \in [Commands -> Handles]
    /\ firing \in Firings /\ target \in Refs
    /\ worker \in Workers
    /\ alarm \in BOOLEAN /\ retries \in 0 .. MaxRetries
    /\ reports \in Seq(States)
    /\ machines \in [Machines -> {"unborn", "running", "suspended"}]
    /\ urls \in [Machines -> 0 .. MaxUrls]
    /\ restarts \in 0 .. MaxRestarts /\ begun \in 0 .. MaxRuns
    /\ clean \in BOOLEAN /\ alone \in BOOLEAN

\* Without faults a ready env that nothing uses is on its way to be stopped:
\* the alarm is set or firing, or a report that will set it is under way.
ReadyIsArmed ==
    clean /\ Quiet /\ ~worker.running /\ reports = <<>> /\ record.env = "ready"
        => alarm \/ firing # "none"

\* One command at a time, without faults: the handle of a ready env reaches its
\* running machine, but while it is being released, and between commands nothing
\* else is billed.
BilledIsReady ==
    clean /\ alone =>
        /\ record.env = "ready" /\ firing \notin {"clear", "stop"}
              => record.handle.machine = record.machine /\ Reaches(record.handle)
        /\ Quiet => \A m \in Machines :
              machines[m] = "running" => m = record.machine /\ record.env = "ready"

\* A firing is not lost, whatever step of it the hub dies in, as long as its
\* retries last: the env is stopped, unless the thread was used meanwhile.
FiringIsDurable ==
    firing # "none" /\ record.env = "ready"
        ~> record.env # "ready" \/ ~Quiet \/ worker.running \/ state = "working"

\* "Never mid-run" (idle-stop.ts, fire): the check and the release are two
\* steps, and a command that finds the env ready runs in between.
NeverMidRun == [][FireRelease => ~worker.running]_vars

\* "A provisioning failure flips the axis to error; the next prompt retries"
\* (architecture.md): a record that holds a machine without its handle, or the
\* other way round, makes every later attempt fail.
RetryCanSucceed == Quiet => ~StateIncomplete(record)
=============================================================================
