---------------------------- MODULE EnvGateProofs ----------------------------
(***************************************************************************)
(* Theorems of EnvGate, for every set of commands and machines, every      *)
(* bound, and whichever faults happen; and of Console, for every set of    *)
(* threads, projects and words, every page it starts with and every budget *)
(* of gestures and faults.                                                 *)
(***************************************************************************)
EXTENDS EnvGate, Console, FiniteSetTheorems, FunctionTheorems, SequenceTheorems, TLAPS

\* Without faults the newest state, reported or on its way, is the worker's.
Newest == IF reports = <<>> THEN state ELSE reports[Len(reports)]

Reported == clean => (Newest = "working" <=> worker.running)

\* Without faults a ready env is watched: its window is set or firing, or the
\* hub thinks it runs, or a command has its arm still to come.
Watched ==
    clean /\ record.env = "ready" =>
        alarm \/ firing # "none" \/ state = "working"
        \/ \E c \in Commands : pc[c] \notin {"idle", "command"}

\* A command past ensure holds a machine; up to the ready patch the env is not
\* ready.
Holding == {"poll", "bootstrap", "reprobe", "url", "probe", "machine", "handle", "ready"}
Early == {"disarm", "ensure"} \cup Holding

Single == \A c, d \in Commands : pc[c] # "idle" /\ pc[d] # "idle" => c = d

\* What an early command read is what the record still says, but for the patches
\* it has written itself; its machine runs and, once probed, is reached.
Provisions(c) ==
    /\ pc[c] \in Early => record.env # "ready"
    /\ pc[c] \in Early \ {"handle", "ready"} =>
          copy[c].machine = record.machine /\ copy[c].handle = record.handle
    /\ pc[c] \in Holding =>
          /\ Runs(got[c])
          /\ copy[c].machine # NoMachine => copy[c].machine = got[c].machine
          /\ copy[c].handle # NoHandle => copy[c].handle.machine = got[c].machine
    /\ pc[c] \in {"probe", "machine", "handle", "ready"} => Reaches(got[c])
    /\ pc[c] = "handle" => record.machine = got[c].machine /\ record.handle = copy[c].handle
    /\ pc[c] = "ready" => record.machine = got[c].machine /\ record.handle = got[c]

\* From its check on a firing releases the ready record's machine; no command
\* provisions beside it.
Releases ==
    firing \in {"release", "clear", "stop"} =>
        /\ record.env = "ready" /\ target = record.machine

\* A machine that runs is the ready env's or held by a command.
Accounted ==
    \A m \in Machines : machines[m] = "running" =>
        \/ m = record.machine /\ record.env = "ready" /\ firing \notin {"clear", "stop"}
        \/ \E c \in Commands : pc[c] \in Holding /\ got[c].machine = m

ReadyReaches ==
    record.env = "ready" /\ firing \notin {"clear", "stop"} =>
        record.handle.machine = record.machine /\ Reaches(record.handle)

Paired == record.machine # NoMachine /\ record.handle # NoHandle
             => record.handle.machine = record.machine

Lonely ==
    /\ Single /\ Releases /\ Accounted /\ ReadyReaches /\ Paired
    /\ \A c \in Commands : Provisions(c)

IInv == TypeOK /\ Reported /\ Watched /\ (clean /\ alone => Lonely)

----------------------------------------------------------------------------
(* Lemmas about the records.                                               *)

LEMMA NoHandleType == NoHandle \in Handles /\ Fresh \in Records
BY GateAssumption DEF NoHandle, Handles, Refs, Fresh, Records

LEMMA EnvType ==
    ASSUME NEW r \in Records, NEW e \in {"stopped", "ready", "error"}
    PROVE  [r EXCEPT !.env = e] \in Records
BY DEF Records

LEMMA MachineType ==
    ASSUME NEW r \in Records, NEW m \in Refs
    PROVE  [r EXCEPT !.machine = m] \in Records
BY DEF Records

LEMMA HandleType ==
    ASSUME NEW r \in Records, NEW h \in Handles
    PROVE  [r EXCEPT !.handle = h] \in Records
BY DEF Records

\* The worker's updates; what it reports is a state.
LEMMA WorkerType ==
    ASSUME NEW h \in Handles, NEW b \in BOOLEAN
    PROVE  [handle |-> h, running |-> b] \in Workers
BY DEF Workers

LEMMA ReportType ==
    ASSUME NEW q \in Seq(States)
    PROVE  Append(q, "idle") \in Seq(States) /\ Append(q, "working") \in Seq(States)
<1>1. "idle" \in States /\ "working" \in States
  BY DEF States
<1> QED
  BY <1>1

\* A new handle ends the worker's run (thread-do.ts); one report goes with it.
LEMMA SetHandleType ==
    ASSUME TypeOK, NEW h \in Handles, SetHandle(h)
    PROVE  worker' \in Workers /\ reports' \in Seq(States)
<1>1. (worker.running /\ h = worker.handle) \in BOOLEAN
  BY DEF TypeOK, Workers
<1>2. worker' \in Workers
  BY <1>1, WorkerType DEF SetHandle
<1>3. reports' \in Seq(States)
  BY ReportType DEF SetHandle, TypeOK
<1> QED
  BY <1>2, <1>3

LEMMA RunType ==
    ASSUME TypeOK, Run
    PROVE  worker' \in Workers /\ reports' \in Seq(States)
<1>1. \/ UNCHANGED <<worker, reports>>
      \/ worker' = [worker EXCEPT !.running = TRUE] /\ reports' = Append(reports, "working")
  BY DEF Run
<1> QED
  BY <1>1, ReportType DEF TypeOK, Workers

----------------------------------------------------------------------------
LEMMA InitType == Init => TypeOK
<1> SUFFICES ASSUME Init PROVE TypeOK
  OBVIOUS
<1>1. record \in Records /\ copy \in [Commands -> Records] /\ got \in [Commands -> Handles]
  BY NoHandleType DEF Init
<1>2. worker \in Workers
  BY NoHandleType, WorkerType DEF Init
<1>3. <<>> \in Seq(States)
  OBVIOUS
<1>4. /\ 0 \in 0 .. MaxRetries /\ 0 \in 0 .. MaxRestarts /\ 0 \in 0 .. MaxRuns
      /\ pc \in [Commands -> Pc] /\ urls \in [Machines -> 0 .. MaxUrls]
  BY GateAssumption DEF Init, Pc
<1> QED
  BY <1>1, <1>2, <1>3, <1>4 DEF Init, TypeOK, Firings, Refs, States

LEMMA Types == TypeOK /\ [Next]_vars => TypeOK'
<1> SUFFICES ASSUME TypeOK, [Next]_vars PROVE TypeOK'
  OBVIOUS
<1> USE DEF hub, thread, provider, bounds
<1>1. ASSUME NEW c \in Commands, Begin(c)
      PROVE  TypeOK'
  <2>1. pc' \in [Commands -> Pc] /\ copy' \in [Commands -> Records]
    BY <1>1 DEF Begin, TypeOK, Goto, Pc
  <2>2. begun' \in 0 .. MaxRuns
    BY <1>1, GateAssumption DEF Begin, TypeOK
  <2>3. alone' \in BOOLEAN
    BY <1>1 DEF Begin
  <2> QED
    BY <1>1, <2>1, <2>2, <2>3 DEF Begin, TypeOK
<1>2. ASSUME NEW c \in Commands, NEW h \in Handles, SetHandle(h), PushHandle(c) \/ HandOver(c)
      PROVE  TypeOK'
  <2>1. /\ worker' \in Workers
        /\ reports' \in Seq(States)
    BY <1>2, SetHandleType
  <2> QED
    BY <1>2, <2>1 DEF TypeOK, PushHandle, HandOver, Step, Goto, Pc
<1>3. ASSUME NEW c \in Commands, PushHandle(c) \/ HandOver(c)
      PROVE  TypeOK'
  <2>1. copy[c].handle \in Handles /\ got[c] \in Handles
    BY DEF TypeOK, Records
  <2> QED
    BY <1>2, <1>3, <2>1 DEF PushHandle, HandOver
<1>4. ASSUME NEW c \in Commands,
             Disarm(c) \/ PollUntilReady(c) \/ Reprobe(c) \/ ProbeDaemon(c) \/ ArmIdle(c)
      PROVE  TypeOK'
  BY <1>4 DEF Disarm, PollUntilReady, Reprobe, ProbeDaemon, ArmIdle, Arm, TypeOK, Step, Goto, Pc
<1>5. ASSUME NEW c \in Commands, Create(c)
      PROVE  TypeOK'
  <2>1. PICK m \in Machines : MachineCreated(m) /\ got' = [got EXCEPT ![c].machine = m]
    BY <1>5 DEF Create
  <2>2. got' \in [Commands -> Handles]
    BY <2>1 DEF TypeOK, Handles, Refs
  <2>3. machines' \in [Machines -> {"unborn", "running", "suspended"}]
    BY <2>1 DEF MachineCreated, TypeOK
  <2> QED
    BY <1>5, <2>2, <2>3 DEF Create, TypeOK, Step, Goto, Pc
<1>6. ASSUME NEW c \in Commands, Resume(c)
      PROVE  TypeOK'
  <2>1. copy[c].handle \in Handles /\ copy[c].machine \in Machines
    BY <1>6 DEF TypeOK, Records, Refs, Resume
  <2>2. got' \in [Commands -> Handles]
    BY <1>6, <2>1 DEF Resume, TypeOK
  <2>3. /\ machines' \in [Machines -> {"unborn", "running", "suspended"}]
        /\ urls' \in [Machines -> 0 .. MaxUrls]
    BY <1>6, <2>1, GateAssumption DEF Resume, MachineResumed, TypeOK
  <2> QED
    BY <1>6, <2>2, <2>3 DEF Resume, TypeOK, Step, Goto, Pc
<1>7. ASSUME NEW c \in Commands, Bootstrap(c)
      PROVE  TypeOK'
  <2>1. 1 \in 0 .. MaxUrls
    BY GateAssumption
  <2>2. urls' \in [Machines -> 0 .. MaxUrls]
    BY <1>7, <2>1 DEF Bootstrap, TypeOK
  <2> QED
    BY <1>7, <2>2 DEF Bootstrap, TypeOK, Step, Goto, Pc
<1>8. ASSUME NEW c \in Commands, ReadHostUrl(c)
      PROVE  TypeOK'
  <2>1. urls[got[c].machine] \in 0 .. MaxUrls
    BY <1>8 DEF ReadHostUrl, Runs, TypeOK, Handles, Refs
  <2>2. got' \in [Commands -> Handles]
    BY <1>8, <2>1 DEF ReadHostUrl, TypeOK, Handles
  <2> QED
    BY <1>8, <2>2 DEF ReadHostUrl, TypeOK, Step, Goto, Pc
<1>9. ASSUME NEW c \in Commands, EnsureFails(c)
      PROVE  TypeOK'
  <2>1. record' \in Records
    BY <1>9, EnvType DEF EnsureFails, TypeOK
  <2>2. /\ UNCHANGED <<worker, alarm, reports, provider, state, firing, target, retries, bounds>>
        /\ pc' = [pc EXCEPT ![c] = "idle"] /\ copy' = [copy EXCEPT ![c] = Fresh]
        /\ got' = [got EXCEPT ![c] = NoHandle]
        /\ clean' \in {clean, FALSE}
    BY <1>9 DEF EnsureFails, Finish, Goto, CallFails, Fault
  <2> QED
    BY <2>1, <2>2, NoHandleType DEF TypeOK, Pc
<1>10. ASSUME NEW c \in Commands, SaveMachine(c) \/ SaveHandle(c) \/ SaveReady(c)
       PROVE  TypeOK'
  <2>1. got[c] \in Handles /\ got[c].machine \in Refs
    BY DEF TypeOK, Handles
  <2>2. record' \in Records
    <3>1. /\ record \in Records
          /\ \/ record' = [record EXCEPT !.machine = got[c].machine]
             \/ record' = [record EXCEPT !.handle = got[c]]
             \/ record' = [record EXCEPT !.env = "ready"]
      BY <1>10 DEF SaveMachine, SaveHandle, SaveReady, TypeOK
    <3> QED
      BY <2>1, <3>1, EnvType, MachineType, HandleType
  <2> QED
    BY <1>10, <2>2 DEF SaveMachine, SaveHandle, SaveReady, TypeOK, Step, Goto, Pc
<1>11. ASSUME NEW c \in Commands, Command(c)
       PROVE  TypeOK'
  <2>1. /\ worker' \in Workers
        /\ reports' \in Seq(States)
    BY <1>11, RunType DEF Command
  <2> QED
    BY <1>11, <2>1, NoHandleType DEF Command, TypeOK, Finish, Goto, Pc
<1>12. CASE RunEnds
  <2>1. worker' \in Workers /\ reports' \in Seq(States)
    BY <1>12, ReportType DEF RunEnds, TypeOK, Workers
  <2> QED
    BY <1>12, <2>1 DEF RunEnds, TypeOK
<1>13. CASE Deliver \/ Lose
  <2>1. ASSUME Deliver
        PROVE  reports' \in Seq(States) /\ state' \in States
    <3>1. PICK i \in 1 .. Len(reports) :
             /\ reports' = [j \in 1 .. Len(reports) - 1 |-> reports[IF j < i THEN j ELSE j + 1]]
             /\ state' = reports[i]
      BY <2>1 DEF Deliver
    <3>2. Len(reports) \in Nat /\ \A k \in 1 .. Len(reports) : reports[k] \in States
      BY DEF TypeOK
    <3>3. \A j \in 1 .. Len(reports) - 1 : reports[IF j < i THEN j ELSE j + 1] \in States
      BY <3>2
    <3> QED
      BY <3>1, <3>2, <3>3
  <2>2. ASSUME Lose
        PROVE  reports' \in Seq(States) /\ state' \in States
    BY <2>2 DEF Lose, hub, TypeOK
  <2>3. reports' \in Seq(States) /\ state' \in States
    BY <1>13, <2>1, <2>2
  <2>4. clean' \in {clean, FALSE} /\ alarm' \in BOOLEAN
    BY <1>13 DEF Deliver, Lose, TypeOK, ReportFault, Fault
  <2> QED
    BY <1>13, <2>3, <2>4 DEF Deliver, Lose, TypeOK
<1>14. CASE AlarmFires \/ SessionEvent \/ FireDisarm \/ FireCheck
  <2>1. record.machine \in Refs
    BY DEF TypeOK, Records
  <2>2. CASE AlarmFires \/ FireDisarm
    BY <1>14, <2>2 DEF AlarmFires, FireDisarm, TypeOK, Firings
  <2>3. CASE SessionEvent
    BY <2>3 DEF SessionEvent, Arm, TypeOK
  <2>4. CASE FireCheck
    BY <2>1, <2>4, GateAssumption DEF FireCheck, Acked, TypeOK, Firings, Refs
  <2> QED
    BY <1>14, <2>2, <2>3, <2>4
<1>15. CASE FireRelease
  BY <1>15 DEF FireRelease, MachineSuspended, Fault, TypeOK, Firings
<1>16. CASE FireClear
  <2>1. /\ worker' \in Workers
        /\ reports' \in Seq(States)
    BY <1>16, NoHandleType, SetHandleType DEF FireClear
  <2> QED
    BY <1>16, <2>1 DEF FireClear, TypeOK, Firings
<1>17. CASE FireStop
  <2>1. record' \in Records
    BY <1>17, EnvType DEF FireStop, TypeOK
  <2> QED
    BY <1>17, <2>1, GateAssumption DEF FireStop, Acked, TypeOK, Firings, Refs
<1>18. CASE HubRestarts
  <2>1. /\ pc' \in [Commands -> Pc] /\ copy' \in [Commands -> Records]
        /\ got' \in [Commands -> Handles]
    BY <1>18, NoHandleType DEF HubRestarts, Pc
  <2>2. restarts' \in 0 .. MaxRestarts /\ retries' \in 0 .. MaxRetries
    BY <1>18, GateAssumption DEF HubRestarts, TypeOK
  <2>3. /\ alarm' \in BOOLEAN /\ clean' \in BOOLEAN /\ firing' \in Firings /\ target' \in Refs
        /\ state' \in States
    BY <1>18 DEF HubRestarts, Fault, TypeOK, Firings, Refs, States
  <2> QED
    BY <1>18, <2>1, <2>2, <2>3 DEF HubRestarts, TypeOK
<1>19. CASE UNCHANGED vars
  BY <1>19 DEF vars, TypeOK
<1> QED
  BY <1>1, <1>3, <1>4, <1>5, <1>6, <1>7, <1>8, <1>9, <1>10, <1>11, <1>12, <1>13, <1>14, <1>15,
     <1>16, <1>17, <1>18, <1>19 DEF Next, Gate, Fire

----------------------------------------------------------------------------
(* The worker's reports, and the watch over a ready env.                   *)

LEMMA CleanStays == TypeOK /\ [Next]_vars => clean' \in {clean, FALSE}
BY DEF TypeOK, Next, Gate, Fire, vars, Fault, ReportFault, CallFails, hub, thread, provider, bounds,
       Begin, PushHandle, Disarm, Create, Resume, PollUntilReady, Bootstrap, Reprobe, ReadHostUrl,
       ProbeDaemon, EnsureFails, SaveMachine, SaveHandle, SaveReady, HandOver, ArmIdle, Command,
       RunEnds, AlarmFires, Deliver, Lose, SessionEvent, FireDisarm, FireCheck, FireRelease,
       FireClear, FireStop, HubRestarts

\* The newest of a queue is what was appended last.
LEMMA NewestAppends ==
    ASSUME NEW s \in States, reports \in Seq(States), reports' = Append(reports, s)
    PROVE  Newest' = s
<1>1. reports' # <<>> /\ Len(reports') = Len(reports) + 1 /\ reports'[Len(reports) + 1] = s
  OBVIOUS
<1> QED
  BY <1>1 DEF Newest

LEMMA SetHandleReports ==
    ASSUME TypeOK, Reported, clean, NEW h \in Handles, SetHandle(h), state' = state
    PROVE  Newest' = "working" <=> worker'.running
<1> USE DEF TypeOK
<1>1. CASE worker.running /\ h # worker.handle
  <2>1. ~worker'.running /\ reports' = Append(reports, "idle") /\ "idle" \in States
    BY <1>1 DEF SetHandle, States
  <2>2. Newest' = "idle"
    BY <2>1, NewestAppends
  <2> QED
    BY <2>1, <2>2
<1>2. CASE ~(worker.running /\ h # worker.handle)
  <2>1. Newest' = Newest
    BY <1>2 DEF SetHandle, Newest
  <2>2. worker'.running <=> worker.running
    BY <1>2 DEF SetHandle
  <2> QED
    BY <2>1, <2>2 DEF Reported
<1> QED
  BY <1>1, <1>2

LEMMA ReportedStep == TypeOK /\ Reported /\ [Next]_vars => Reported'
<1> SUFFICES ASSUME TypeOK, Reported, [Next]_vars, clean, clean'
             PROVE  Newest' = "working" <=> worker'.running
  BY CleanStays DEF Reported
<1> USE DEF TypeOK
<1>1. ASSUME NEW c \in Commands, PushHandle(c) \/ HandOver(c)
      PROVE  Newest' = "working" <=> worker'.running
  <2>1. copy[c].handle \in Handles /\ got[c] \in Handles
    BY DEF Records
  <2>2. state' = state /\ (SetHandle(copy[c].handle) \/ SetHandle(got[c]))
    BY <1>1 DEF PushHandle, HandOver, Step
  <2> QED
    BY <2>1, <2>2, SetHandleReports
<1>2. CASE FireClear
  BY <1>2, NoHandleType, SetHandleReports DEF FireClear
<1>3. ASSUME NEW c \in Commands, Command(c)
      PROVE  Newest' = "working" <=> worker'.running
  <2>1. CASE UNCHANGED <<worker, reports>>
    BY <1>3, <2>1 DEF Command, Finish, Newest, Reported
  <2>2. CASE worker' = [worker EXCEPT !.running = TRUE] /\ reports' = Append(reports, "working")
    <3>1. Newest' = "working"
      BY <2>2, NewestAppends DEF States
    <3>2. worker'.running
      BY <2>2 DEF Workers
    <3> QED
      BY <3>1, <3>2
  <2> QED
    BY <1>3, <2>1, <2>2 DEF Command, Run
<1>4. CASE RunEnds
  <2>1. Newest' = "idle"
    BY <1>4, NewestAppends DEF RunEnds, States
  <2>2. ~worker'.running
    BY <1>4 DEF RunEnds, Workers
  <2> QED
    BY <2>1, <2>2
<1>5. CASE Deliver
  <2>1. PICK i \in 1 .. Len(reports) :
           /\ i = 1
           /\ reports' = [j \in 1 .. Len(reports) - 1 |-> reports[IF j < i THEN j ELSE j + 1]]
           /\ state' = reports[i] /\ worker' = worker
    BY <1>5 DEF Deliver, ReportFault, Fault
  <2>2. reports # <<>> /\ Len(reports) \in Nat /\ Len(reports) >= 1
    BY <2>1
  <2>3. reports' = [j \in 1 .. Len(reports) - 1 |-> reports[j + 1]]
    BY <2>1, <2>2
  <2>4. Len(reports') = Len(reports) - 1
    BY <2>2, <2>3
  <2>5. CASE Len(reports) = 1
    <3>1. reports' = <<>>
      BY <2>3, <2>5
    <3> QED
      BY <2>1, <2>2, <2>5, <3>1 DEF Newest, Reported
  <2>6. CASE Len(reports) # 1
    <3> DEFINE n == Len(reports) - 1
    <3>1. n \in 1 .. n /\ n + 1 = Len(reports) /\ Len(reports') = n
      BY <2>2, <2>4, <2>6
    <3>2. reports'[n] = reports[n + 1]
      BY <2>3, <3>1
    <3>3. reports' # <<>>
      BY <3>1
    <3> HIDE DEF n
    <3>4. reports' # <<>> /\ reports'[Len(reports')] = reports[Len(reports)]
      BY <3>1, <3>2, <3>3
    <3> QED
      BY <2>1, <2>2, <3>4 DEF Newest, Reported
  <2> QED
    BY <2>5, <2>6
<1>6. CASE UNCHANGED <<state, reports, worker>>
  BY <1>6 DEF Newest, Reported
<1>7. ~Lose /\ ~HubRestarts
  BY DEF Lose, HubRestarts, ReportFault, Fault
<1> QED
  BY <1>1, <1>2, <1>3, <1>4, <1>5, <1>6, <1>7
     DEF Next, Gate, Fire, vars, Step, Finish, hub, thread, provider, bounds,
         Begin, Disarm, Create, Resume, PollUntilReady, Bootstrap, Reprobe, ReadHostUrl,
         ProbeDaemon, EnsureFails, SaveMachine, SaveHandle, SaveReady, ArmIdle,
         AlarmFires, SessionEvent, FireDisarm, FireCheck, FireRelease, FireStop

LEMMA WatchedStep == TypeOK /\ Watched /\ [Next]_vars => Watched'
<1> SUFFICES ASSUME TypeOK, Watched, [Next]_vars, clean, clean', record'.env = "ready"
             PROVE  alarm' \/ firing' # "none" \/ state' = "working"
                    \/ \E c \in Commands : pc'[c] \notin {"idle", "command"}
  BY CleanStays DEF Watched
<1> USE DEF TypeOK
<1>1. ASSUME NEW c \in Commands, pc' = [pc EXCEPT ![c] = pc'[c]], pc'[c] \notin {"idle", "command"}
      PROVE  \E d \in Commands : pc'[d] \notin {"idle", "command"}
  BY <1>1
<1>2. ASSUME NEW c \in Commands, Begin(c)
      PROVE  \E d \in Commands : pc'[d] \notin {"idle", "command"}
  BY <1>2 DEF Begin, Goto
<1>3. ASSUME NEW c \in Commands,
             \/ PushHandle(c) \/ Disarm(c) \/ Create(c) \/ Resume(c) \/ PollUntilReady(c)
             \/ Bootstrap(c) \/ Reprobe(c) \/ ReadHostUrl(c) \/ ProbeDaemon(c)
             \/ SaveMachine(c) \/ SaveHandle(c) \/ SaveReady(c) \/ HandOver(c)
      PROVE  \E d \in Commands : pc'[d] \notin {"idle", "command"}
  BY <1>3 DEF PushHandle, Disarm, Create, Resume, PollUntilReady, Bootstrap, Reprobe, ReadHostUrl,
              ProbeDaemon, SaveMachine, SaveHandle, SaveReady, HandOver, Step, Goto
<1>4. ASSUME NEW c \in Commands, ArmIdle(c)
      PROVE  alarm' \/ state' = "working"
  BY <1>4 DEF ArmIdle, Arm, Step, States
<1>5. ASSUME NEW c \in Commands, EnsureFails(c)
      PROVE  FALSE
  BY <1>5 DEF EnsureFails, Records
<1>6. ASSUME NEW c \in Commands, Command(c)
      PROVE  alarm' \/ firing' # "none" \/ state' = "working"
             \/ \E d \in Commands : pc'[d] \notin {"idle", "command"}
  BY <1>6 DEF Command, Finish, Goto, Watched
<1>7. CASE RunEnds \/ Lose \/ UNCHANGED vars
  BY <1>7 DEF RunEnds, Lose, Watched, vars, hub, thread
<1>8. CASE AlarmFires \/ FireDisarm \/ FireRelease \/ FireClear
  BY <1>8 DEF AlarmFires, FireDisarm, FireRelease, FireClear
<1>9. CASE Deliver
  <2>1. PICK i \in 1 .. Len(reports) :
           /\ state' = reports[i] /\ record' = record
           /\ alarm' = IF reports[i] = "working" THEN FALSE ELSE alarm \/ record.env = "ready"
    BY <1>9 DEF Deliver
  <2> QED
    BY <2>1
<1>10. CASE SessionEvent
  BY <1>10 DEF SessionEvent, Arm, Watched, hub
<1>11. CASE FireCheck
  BY <1>11 DEF FireCheck, States
<1>12. CASE FireStop
  BY <1>12 DEF FireStop, Records
<1>13. ~HubRestarts
  BY DEF HubRestarts, Fault
<1> QED
  BY <1>2, <1>3, <1>4, <1>5, <1>6, <1>7, <1>8, <1>9, <1>10, <1>11, <1>12, <1>13 DEF Next, Gate, Fire

----------------------------------------------------------------------------
(* One command at a time, without faults.                                  *)

LEMMA IdleProvisions == ASSUME NEW c, pc[c] = "idle" PROVE Provisions(c)
BY DEF Provisions, Early, Holding

\* A step of the only command under way leaves it the only one.
LEMMA OnlyOne ==
    ASSUME TypeOK, Single, NEW c \in Commands, pc[c] # "idle", NEW l \in Pc, Goto(c, l)
    PROVE  /\ Single' /\ pc'[c] = l
           /\ \A d \in Commands \ {c} : pc[d] = "idle" /\ pc'[d] = "idle" /\ Provisions(d)'
<1>1. pc' = [pc EXCEPT ![c] = l] /\ pc \in [Commands -> Pc]
  BY DEF Goto, TypeOK
<1>2. \A d \in Commands \ {c} : pc[d] = "idle" /\ pc'[d] = "idle"
  BY <1>1 DEF Single
<1>3. Single' /\ pc'[c] = l
  BY <1>1, <1>2 DEF Single
<1>4. \A d : pc'[d] = "idle" => Provisions(d)'
  BY IdleProvisions DEF Provisions, Early, Holding
<1> QED
  BY <1>2, <1>3, <1>4

\* Steps that leave the record, the commands and the machines alone.
LEMMA AsideStep ==
    ASSUME TypeOK, Lonely,
           RunEnds \/ AlarmFires \/ Deliver \/ Lose \/ SessionEvent \/ FireDisarm \/ FireClear
           \/ UNCHANGED vars
    PROVE  Lonely'
<1>1. /\ UNCHANGED <<record, pc, copy, got, target, machines, urls>>
      /\ firing' \in {"release", "clear", "stop"} <=> firing \in {"release", "clear", "stop"}
      /\ firing' \in {"clear", "stop"} <=> firing \in {"clear", "stop"}
  BY DEF RunEnds, AlarmFires, Deliver, Lose, SessionEvent, FireDisarm, FireClear, vars, hub,
         thread, provider, bounds
<1>2. Single' /\ Releases' /\ ReadyReaches' /\ Paired'
  BY <1>1 DEF Lonely, Single, Releases, ReadyReaches, Paired, Reaches, Runs
<1>3. Accounted'
  BY <1>1 DEF Lonely, Accounted
<1>4. \A c \in Commands : Provisions(c)'
  BY <1>1 DEF Lonely, Provisions, Reaches, Runs
<1> QED
  BY <1>2, <1>3, <1>4 DEF Lonely

\* The firing: it checks a ready env, so no command provisions while it releases.
LEMMA FireStep ==
    ASSUME TypeOK, Lonely, FireCheck \/ (FireRelease /\ clean') \/ FireStop
    PROVE  Lonely'
<1>1. /\ UNCHANGED <<pc, copy, got, urls>>
      /\ record'.machine = record.machine /\ record'.handle = record.handle
  BY DEF FireCheck, FireRelease, FireStop, TypeOK, Records, thread, provider
<1>2. Single' /\ Paired'
  BY <1>1 DEF Lonely, Single, Paired
<1>3. CASE FireCheck
  <2>1. record' = record /\ machines' = machines /\ firing = "check"
    BY <1>3 DEF FireCheck, provider
  <2>2. \/ firing' = "release" /\ target' = record.machine /\ record.env = "ready"
        \/ firing' = "none"
    BY <1>3 DEF FireCheck, Acked
  <2>3. Releases' /\ ReadyReaches'
    BY <1>1, <2>1, <2>2 DEF Lonely, Releases, ReadyReaches, Reaches, Runs
  <2>4. Accounted'
    BY <1>1, <2>1, <2>2 DEF Lonely, Accounted
  <2>5. \A c \in Commands : Provisions(c)'
    BY <1>1, <2>1 DEF Lonely, Provisions, Reaches, Runs
  <2> QED
    BY <1>2, <2>3, <2>4, <2>5 DEF Lonely
<1>4. CASE FireRelease /\ clean'
  <2>1. /\ record' = record /\ target' = target /\ firing = "release" /\ firing' = "clear"
        /\ machines' = [machines EXCEPT ![target] = "suspended"]
    BY <1>4 DEF FireRelease, MachineSuspended, Fault
  <2>2. record.env = "ready" /\ target = record.machine
    BY <2>1 DEF Lonely, Releases
  <2>3. \A c \in Commands : pc[c] \notin Early
    BY <2>2 DEF Lonely, Provisions
  <2>4. Releases' /\ ReadyReaches'
    BY <2>1, <2>2 DEF Releases, ReadyReaches
  <2>5. \A c \in Commands : Provisions(c)'
    BY <1>1, <2>3 DEF Provisions, Early, Holding
  <2>6. \A m \in Machines : machines'[m] # "running"
    <3>1. SUFFICES ASSUME NEW m \in Machines, machines'[m] = "running" PROVE FALSE
      OBVIOUS
    <3>2. m # target /\ machines[m] = "running"
      BY <2>1, <3>1 DEF TypeOK
    <3> QED
      BY <2>2, <2>3, <3>2 DEF Lonely, Accounted, Early
  <2>7. Accounted'
    BY <2>6 DEF Accounted
  <2> QED
    BY <1>2, <2>4, <2>5, <2>7 DEF Lonely
<1>5. CASE FireStop
  <2>1. firing = "stop" /\ firing' = "none" /\ machines' = machines /\ record'.env = "stopped"
    BY <1>5 DEF FireStop, Acked, provider, TypeOK, Records
  <2>2. record.env = "ready"
    BY <2>1 DEF Lonely, Releases
  <2>3. \A c \in Commands : pc[c] \notin Early
    BY <2>2 DEF Lonely, Provisions
  <2>4. Releases' /\ ReadyReaches'
    BY <2>1 DEF Releases, ReadyReaches
  <2>5. \A c \in Commands : Provisions(c)'
    BY <1>1, <2>3 DEF Provisions, Early, Holding
  <2>6. Accounted'
    BY <2>1, <2>3 DEF Lonely, Accounted, Early
  <2> QED
    BY <1>2, <2>4, <2>5, <2>6 DEF Lonely
<1> QED
  BY <1>3, <1>4, <1>5

LEMMA BeginStep ==
    ASSUME TypeOK, Lonely, Quiet, NEW c \in Commands, Begin(c)
    PROVE  Lonely'
<1>1. /\ UNCHANGED <<record, firing, target, machines, urls>>
      /\ pc' = [pc EXCEPT ![c] = IF record.env = "ready" THEN "push" ELSE "disarm"]
      /\ copy' = [copy EXCEPT ![c] = record]
  BY DEF Begin, Goto, provider
<1>2. \A d \in Commands \ {c} : pc'[d] = "idle"
  BY <1>1 DEF Quiet, TypeOK
<1>3. Single' /\ Releases' /\ ReadyReaches' /\ Paired'
  BY <1>1, <1>2 DEF Lonely, Single, Releases, ReadyReaches, Paired, Reaches, Runs
<1>4. Accounted'
  BY <1>1 DEF Lonely, Accounted, Quiet, Holding
<1>5. copy'[c] = record /\ pc'[c] = IF record.env = "ready" THEN "push" ELSE "disarm"
  BY <1>1 DEF TypeOK
<1>6. Provisions(c)'
  BY <1>1, <1>5 DEF Provisions, Early, Holding
<1>7. \A d \in Commands \ {c} : Provisions(d)'
  BY <1>2 DEF Provisions, Early, Holding
<1> QED
  BY <1>3, <1>4, <1>6, <1>7 DEF Lonely

\* Handing the handle over, arming and the command itself: the machines stay.
LEMMA LateStep ==
    ASSUME TypeOK, Lonely, NEW c \in Commands,
           PushHandle(c) \/ HandOver(c) \/ ArmIdle(c) \/ Command(c)
    PROVE  Lonely'
<1>1. /\ UNCHANGED <<record, firing, target, machines, urls>>
      /\ pc[c] \in {"push", "hand over", "arm", "command"}
      /\ \E l \in {"arm", "command", "idle"} : Goto(c, l)
  BY DEF PushHandle, HandOver, ArmIdle, Command, Step, Finish, provider
<1>2. PICK l \in {"arm", "command", "idle"} : Goto(c, l)
  BY <1>1
<1>3. l \in Pc /\ l \notin Early /\ pc[c] \notin Early /\ pc[c] # "idle"
  BY <1>1 DEF Pc, Early, Holding
<1>4. /\ Single' /\ pc'[c] = l
      /\ \A d \in Commands \ {c} : pc[d] = "idle" /\ pc'[d] = "idle" /\ Provisions(d)'
  BY <1>2, <1>3, OnlyOne DEF Lonely
<1>5. Provisions(c)'
  BY <1>3, <1>4 DEF Provisions, Early, Holding
<1>6. Accounted'
  BY <1>1, <1>3, <1>4 DEF Lonely, Accounted, Early, Holding
<1>7. Releases' /\ ReadyReaches' /\ Paired'
  BY <1>1 DEF Lonely, Releases, ReadyReaches, Paired, Reaches, Runs
<1> QED
  BY <1>4, <1>5, <1>6, <1>7 DEF Lonely

\* What the steps of an early command have in common: the env is not ready and
\* nothing is being released.
LEMMA EarlyStep ==
    ASSUME TypeOK, Lonely, NEW c \in Commands, pc[c] \in Early, NEW l \in Pc, Goto(c, l),
           UNCHANGED <<firing, target>>
    PROVE  /\ Single' /\ pc'[c] = l /\ record.env # "ready"
           /\ Releases' /\ (record'.env # "ready" => ReadyReaches')
           /\ \A d \in Commands \ {c} : pc[d] = "idle" /\ pc'[d] = "idle" /\ Provisions(d)'
           /\ \A m \in Machines : machines[m] = "running" => pc[c] \in Holding /\ got[c].machine = m
<1>1. pc[c] # "idle"
  BY DEF Early, Holding
<1>2. /\ Single' /\ pc'[c] = l
      /\ \A d \in Commands \ {c} : pc[d] = "idle" /\ pc'[d] = "idle" /\ Provisions(d)'
  BY <1>1, OnlyOne DEF Lonely
<1>3. record.env # "ready"
  BY DEF Lonely, Provisions
<1>4. firing \notin {"release", "clear", "stop"}
  BY <1>3 DEF Lonely, Releases
<1>5. Releases' /\ (record'.env # "ready" => ReadyReaches')
  BY <1>4 DEF Releases, ReadyReaches
<1>6. \A m \in Machines : machines[m] = "running" => pc[c] \in Holding /\ got[c].machine = m
  <2>1. \A d \in Commands \ {c} : pc[d] \notin Holding
    BY <1>2 DEF Holding
  <2> QED
    BY <1>3, <2>1 DEF Lonely, Accounted
<1> QED
  BY <1>2, <1>3, <1>5, <1>6

\* Ensure: the machine created or resumed is the only one that runs.
LEMMA EnsureStep ==
    ASSUME TypeOK, Lonely, NEW c \in Commands, Disarm(c) \/ Create(c) \/ Resume(c)
    PROVE  Lonely'
<1>1. /\ UNCHANGED <<record, copy, firing, target>> /\ pc[c] \in {"disarm", "ensure"}
      /\ \E l \in {"ensure", "poll"} : Goto(c, l)
  BY DEF Disarm, Create, Resume, Step
<1>2. PICK l \in {"ensure", "poll"} : Goto(c, l)
  BY <1>1
<1>3. l \in Pc /\ pc[c] \in Early /\ pc[c] \notin Holding
  BY <1>1 DEF Pc, Early, Holding
<1>4. /\ Single' /\ pc'[c] = l /\ record.env # "ready" /\ Releases' /\ ReadyReaches'
      /\ \A d \in Commands \ {c} : pc[d] = "idle" /\ pc'[d] = "idle" /\ Provisions(d)'
      /\ \A m \in Machines : machines[m] # "running"
  BY <1>1, <1>2, <1>3, EarlyStep
<1>5. copy[c].machine = record.machine /\ copy[c].handle = record.handle
  BY <1>1 DEF Lonely, Provisions, Early, Holding
<1>6. Paired'
  BY <1>1 DEF Lonely, Paired
<1>7. CASE Disarm(c)
  <2>1. UNCHANGED <<machines, got, urls>> /\ pc'[c] = "ensure"
    BY <1>4, <1>7, <1>2 DEF Disarm, provider, Step, Goto, TypeOK
  <2>2. Accounted'
    BY <1>4, <2>1 DEF Accounted
  <2>3. Provisions(c)'
    BY <1>1, <1>4, <1>5, <2>1 DEF Provisions, Early, Holding
  <2> QED
    BY <1>4, <1>6, <2>2, <2>3 DEF Lonely
<1>8. CASE Create(c)
  <2>1. PICK m \in Machines : /\ machines' = [machines EXCEPT ![m] = "running"]
                              /\ got' = [got EXCEPT ![c].machine = m]
    BY <1>8 DEF Create, MachineCreated
  <2>2. /\ pc'[c] = "poll" /\ copy[c].machine = NoMachine /\ copy[c].handle = NoHandle
    BY <1>8 DEF Create, Step, Goto, TypeOK
  <2>3. got'[c].machine = m /\ machines'[m] = "running" /\ m # NoMachine
    BY <2>1, GateAssumption DEF TypeOK, Handles
  <2>4. Accounted'
    BY <1>4, <2>1, <2>2, <2>3 DEF Accounted, Holding, TypeOK
  <2>5. Provisions(c)'
    BY <1>1, <1>4, <1>5, <2>2, <2>3 DEF Provisions, Holding, Early, Runs
  <2> QED
    BY <1>4, <1>6, <2>4, <2>5 DEF Lonely
<1>9. CASE Resume(c)
  <2>1. /\ copy[c].machine # NoMachine /\ copy[c].handle # NoHandle
        /\ machines' = [machines EXCEPT ![copy[c].machine] = "running"]
        /\ got' = [got EXCEPT ![c] = copy[c].handle] /\ pc'[c] = "poll"
    BY <1>9 DEF Resume, MachineResumed, Step, Goto, TypeOK
  <2>2. copy[c].machine \in Machines /\ copy[c].handle.machine = copy[c].machine
    BY <1>5, <2>1 DEF Lonely, Paired, TypeOK, Records, Refs
  <2>3. got'[c].machine = copy[c].machine /\ machines'[copy[c].machine] = "running"
    BY <2>1, <2>2 DEF TypeOK
  <2>4. Accounted'
    BY <1>4, <2>1, <2>2, <2>3 DEF Accounted, Holding, TypeOK
  <2>5. Provisions(c)'
    BY <1>1, <1>4, <1>5, <2>1, <2>2, <2>3 DEF Provisions, Holding, Early, Runs
  <2> QED
    BY <1>4, <1>6, <2>4, <2>5 DEF Lonely
<1> QED
  BY <1>7, <1>8, <1>9

\* Polling, installing and probing: the machine held stays up.
LEMMA ProbeStep ==
    ASSUME TypeOK, Lonely, NEW c \in Commands,
           PollUntilReady(c) \/ Bootstrap(c) \/ Reprobe(c) \/ ReadHostUrl(c) \/ ProbeDaemon(c)
    PROVE  Lonely'
<1>1. /\ UNCHANGED <<record, copy, firing, target, machines>>
      /\ pc[c] \in {"poll", "bootstrap", "reprobe", "url", "probe"}
      /\ \E l \in {"bootstrap", "reprobe", "url", "probe", "machine"} : Goto(c, l)
  BY DEF PollUntilReady, Bootstrap, Reprobe, ReadHostUrl, ProbeDaemon, Step, provider
<1>2. PICK l \in {"bootstrap", "reprobe", "url", "probe", "machine"} : Goto(c, l)
  BY <1>1
<1>3. l \in Pc /\ l \in Holding /\ l \in Early \ {"handle", "ready"} /\ pc[c] \in Early
  BY <1>1 DEF Pc, Early, Holding
<1>4. /\ Single' /\ pc'[c] = l /\ record.env # "ready" /\ Releases' /\ ReadyReaches'
      /\ \A d \in Commands \ {c} : pc[d] = "idle" /\ pc'[d] = "idle" /\ Provisions(d)'
      /\ \A m \in Machines : machines[m] = "running" => got[c].machine = m
  BY <1>1, <1>2, <1>3, EarlyStep
<1>5. /\ copy[c].machine = record.machine /\ copy[c].handle = record.handle
      /\ Runs(got[c])
      /\ copy[c].machine # NoMachine => copy[c].machine = got[c].machine
      /\ copy[c].handle # NoHandle => copy[c].handle.machine = got[c].machine
  BY <1>1 DEF Lonely, Provisions, Early, Holding
<1>6. got'[c].machine = got[c].machine
  BY DEF PollUntilReady, Bootstrap, Reprobe, ReadHostUrl, ProbeDaemon, TypeOK, Handles
<1>7. Runs(got[c])'
  BY <1>1, <1>5, <1>6 DEF Runs
<1>8. l \in {"probe", "machine"} => Reaches(got[c])'
  <2>1. CASE Reprobe(c) \/ ProbeDaemon(c)
    <3>1. got' = got /\ urls' = urls
      BY <2>1 DEF Reprobe, ProbeDaemon, provider
    <3>2. l \in {"probe", "machine"} => Reaches(got[c])
      BY <1>4, <2>1 DEF Reprobe, ProbeDaemon, Step, Goto, TypeOK
    <3> QED
      BY <1>7, <3>1, <3>2 DEF Reaches
  <2>2. CASE ReadHostUrl(c)
    <3>1. got[c].machine \in Machines
      BY <1>5 DEF Runs, TypeOK, Handles, Refs
    <3>2. got'[c].url = urls[got[c].machine] /\ urls' = urls
      BY <2>2 DEF ReadHostUrl, TypeOK, Handles, provider
    <3> QED
      BY <1>6, <1>7, <3>2 DEF Reaches
  <2>3. CASE PollUntilReady(c) \/ Bootstrap(c)
    BY <1>4, <2>3 DEF PollUntilReady, Bootstrap, Step, Goto, TypeOK
  <2> QED
    BY <2>1, <2>2, <2>3
<1>9. Accounted' /\ Paired'
  BY <1>1, <1>3, <1>4, <1>6 DEF Lonely, Accounted, Paired
<1>10. Provisions(c)'
  BY <1>1, <1>3, <1>4, <1>5, <1>6, <1>7, <1>8 DEF Provisions
<1> QED
  BY <1>4, <1>9, <1>10 DEF Lonely

\* Only an incomplete record fails the ensure, before any machine runs.
LEMMA FailStep ==
    ASSUME TypeOK, Lonely, NEW c \in Commands, EnsureFails(c), clean'
    PROVE  Lonely'
<1>1. /\ UNCHANGED <<firing, target, machines, urls>>
      /\ record'.env = "error" /\ record'.machine = record.machine
      /\ record'.handle = record.handle /\ Goto(c, "idle") /\ clean'
      /\ pc[c] \in {"ensure", "poll", "bootstrap", "url", "probe"}
  BY DEF EnsureFails, Finish, provider, TypeOK, Records
<1>2. "idle" \in Pc /\ pc[c] \in Early
  BY <1>1 DEF Pc, Early, Holding
<1>3. /\ Single' /\ pc'[c] = "idle" /\ Releases' /\ ReadyReaches'
      /\ \A d \in Commands \ {c} : pc[d] = "idle" /\ pc'[d] = "idle" /\ Provisions(d)'
      /\ \A m \in Machines : machines[m] = "running" => pc[c] \in Holding
  BY <1>1, <1>2, EarlyStep
<1>4. pc[c] = "ensure"
  <2>1. pc[c] \in Holding => Runs(got[c])
    BY DEF Lonely, Provisions
  <2>2. pc[c] = "probe" => Reaches(got[c])
    BY DEF Lonely, Provisions
  <2>3. ~CallFails
    BY DEF CallFails, Fault
  <2> QED
    BY <1>1, <2>1, <2>2, <2>3 DEF EnsureFails, Finish, Holding
<1>5. Accounted'
  BY <1>1, <1>3, <1>4 DEF Accounted, Holding
<1>6. Provisions(c)'
  BY <1>3, IdleProvisions DEF Provisions, Early, Holding
<1>7. Paired'
  BY <1>1 DEF Lonely, Paired
<1> QED
  BY <1>3, <1>5, <1>6, <1>7 DEF Lonely

\* The three patches: machine, handle, ready.
LEMMA SaveStep ==
    ASSUME TypeOK, Lonely, NEW c \in Commands, SaveMachine(c) \/ SaveHandle(c) \/ SaveReady(c)
    PROVE  Lonely'
<1>1. /\ UNCHANGED <<copy, got, firing, target, machines, urls>>
      /\ pc[c] \in {"machine", "handle", "ready"}
  BY DEF SaveMachine, SaveHandle, SaveReady, Step, provider
<1>2. pc[c] \in Early /\ pc[c] \in Holding /\ {"handle", "ready", "hand over"} \subseteq Pc
  BY <1>1 DEF Pc, Early, Holding
<1>3. /\ Runs(got[c]) /\ Reaches(got[c])
      /\ copy[c].handle # NoHandle => copy[c].handle.machine = got[c].machine
      /\ pc[c] = "machine" => copy[c].handle = record.handle
      /\ pc[c] = "handle" => record.machine = got[c].machine /\ record.handle = copy[c].handle
      /\ pc[c] = "ready" => record.machine = got[c].machine /\ record.handle = got[c]
      /\ copy[c].machine # NoMachine => copy[c].machine = got[c].machine
  BY <1>1 DEF Lonely, Provisions, Early, Holding
<1>4. Runs(got[c])' /\ Reaches(got[c])'
  BY <1>1, <1>3 DEF Runs, Reaches
<1>5. CASE SaveMachine(c) \/ SaveHandle(c)
  <2>1. PICK l \in {"handle", "ready"} :
           /\ Goto(c, l) /\ record'.env = record.env /\ record'.machine = got[c].machine
           /\ l = "handle" => record'.handle = copy[c].handle
           /\ l = "ready" => record'.handle = got[c]
    <3>1. CASE SaveMachine(c)
      BY <1>3, <3>1 DEF SaveMachine, Step, TypeOK, Records
    <3>2. CASE SaveHandle(c)
      BY <1>3, <3>2 DEF SaveHandle, Step, TypeOK, Records
    <3> QED
      BY <1>5, <3>1, <3>2
  <2>2. /\ Single' /\ pc'[c] = l /\ record.env # "ready" /\ Releases' /\ ReadyReaches'
        /\ \A d \in Commands \ {c} : pc[d] = "idle" /\ pc'[d] = "idle" /\ Provisions(d)'
        /\ \A m \in Machines : machines[m] = "running" => got[c].machine = m
    BY <1>1, <1>2, <2>1, EarlyStep
  <2>3. Accounted'
    BY <1>1, <2>2 DEF Accounted, Holding
  <2>4. Paired'
    BY <1>3, <2>1 DEF Paired
  <2>5. Provisions(c)'
    BY <1>1, <1>3, <1>4, <2>1, <2>2 DEF Provisions, Early, Holding
  <2> QED
    BY <2>2, <2>3, <2>4, <2>5 DEF Lonely
<1>6. CASE SaveReady(c)
  <2>1. /\ Goto(c, "hand over") /\ record'.env = "ready" /\ record'.machine = got[c].machine
        /\ record'.handle = got[c]
    BY <1>3, <1>6 DEF SaveReady, Step, TypeOK, Records
  <2>2. /\ Single' /\ pc'[c] = "hand over" /\ record.env # "ready" /\ Releases'
        /\ \A d \in Commands \ {c} : pc[d] = "idle" /\ pc'[d] = "idle" /\ Provisions(d)'
        /\ \A m \in Machines : machines[m] = "running" => got[c].machine = m
    BY <1>1, <1>2, <2>1, EarlyStep
  <2>3. firing \notin {"release", "clear", "stop"}
    BY <2>2 DEF Lonely, Releases
  <2>4. Accounted'
    BY <1>1, <2>1, <2>2, <2>3 DEF Accounted
  <2>5. ReadyReaches' /\ Paired'
    BY <1>1, <1>4, <2>1 DEF ReadyReaches, Paired, Reaches, Runs
  <2>6. Provisions(c)'
    BY <2>2 DEF Provisions, Early, Holding
  <2> QED
    BY <2>2, <2>4, <2>5, <2>6 DEF Lonely
<1> QED
  BY <1>5, <1>6

----------------------------------------------------------------------------
(* The inductive invariant.                                                *)

LEMMA InitInv == Init => IInv
<1> SUFFICES ASSUME Init PROVE IInv
  OBVIOUS
<1>1. Reported /\ Watched
  BY DEF Init, Reported, Watched, Newest, Fresh
<1>2. Single /\ Releases /\ Accounted /\ ReadyReaches /\ Paired
  BY DEF Init, Single, Releases, Accounted, ReadyReaches, Paired, Fresh
<1>3. \A c \in Commands : Provisions(c)
  BY IdleProvisions DEF Init
<1> QED
  BY <1>1, <1>2, <1>3, InitType DEF IInv, Lonely

LEMMA AloneStays ==
    TypeOK /\ [Next]_vars /\ alone' => alone /\ \A c \in Commands : Begin(c) => Quiet
BY DEF TypeOK, Next, Gate, Fire, vars, bounds, Step, Finish,
       Begin, PushHandle, Disarm, Create, Resume, PollUntilReady, Bootstrap, Reprobe, ReadHostUrl,
       ProbeDaemon, EnsureFails, SaveMachine, SaveHandle, SaveReady, HandOver, ArmIdle, Command,
       RunEnds, AlarmFires, Deliver, Lose, SessionEvent, FireDisarm, FireCheck, FireRelease,
       FireClear, FireStop, HubRestarts

LEMMA LonelyStep ==
    ASSUME TypeOK, Lonely, clean, [Next]_vars, clean', alone'
    PROVE  Lonely'
<1>1. \A c \in Commands : Begin(c) => Quiet
  BY AloneStays
<1>2. ~HubRestarts
  BY DEF HubRestarts, Fault
<1> QED
  BY <1>1, <1>2, AsideStep, FireStep, BeginStep, LateStep, EnsureStep, ProbeStep, FailStep, SaveStep
     DEF Next, Gate, Fire

LEMMA StepInv == IInv /\ [Next]_vars => IInv'
<1> SUFFICES ASSUME IInv, [Next]_vars PROVE IInv'
  OBVIOUS
<1>1. TypeOK' /\ Reported' /\ Watched'
  BY Types, ReportedStep, WatchedStep DEF IInv
<1>2. clean' /\ alone' => Lonely'
  BY CleanStays, AloneStays, LonelyStep DEF IInv
<1> QED
  BY <1>1, <1>2 DEF IInv

LEMMA Invariance == Spec => []IInv
BY InitInv, StepInv, PTL DEF Spec

----------------------------------------------------------------------------
(* The theorems.                                                           *)

\* Every variable keeps its type, whichever faults happen.
THEOREM TypeCorrect == Spec => []TypeOK
BY Invariance, PTL DEF IInv

\* A ready env that nothing uses is on its way to be stopped, however commands,
\* reports and firings interleave (idle-stop.ts, arm and applyReport).
THEOREM ReadyEnvIsArmed == Spec => []ReadyIsArmed
<1>1. IInv => ReadyIsArmed
  <2> SUFFICES ASSUME IInv, clean, Quiet, ~worker.running, reports = <<>>, record.env = "ready"
               PROVE  alarm \/ firing # "none"
    BY DEF ReadyIsArmed
  <2>1. state # "working"
    BY DEF IInv, Reported, Newest
  <2> QED
    BY <2>1 DEF IInv, Watched, Quiet
<1> QED
  BY <1>1, Invariance, PTL

\* One command at a time, without faults, a ready env's handle reaches its machine
\* and no other machine is billed between commands (hub.ts, ensureEnv; idle-stop.ts,
\* fire; box.ts).
THEOREM OnlyReadyIsBilled == Spec => []BilledIsReady
<1>1. IInv => BilledIsReady
  <2> SUFFICES ASSUME IInv, clean, alone
               PROVE  /\ ReadyReaches
                      /\ Quiet => \A m \in Machines :
                            machines[m] = "running" => m = record.machine /\ record.env = "ready"
    BY DEF BilledIsReady, ReadyReaches
  <2>1. Quiet => \A c \in Commands : pc[c] \notin Holding
    BY DEF Quiet, Holding
  <2> QED
    BY <2>1 DEF IInv, Lonely, Accounted
<1> QED
  BY <1>1, Invariance, PTL

----------------------------------------------------------------------------
(***************************************************************************)
(* The console.                                                            *)
(***************************************************************************)

\* What RemoveAt leaves: the places before k stay, those behind it move up.
LEMMA RemoveAtProperties ==
    ASSUME NEW S, NEW s \in Seq(S), NEW k \in 1 .. Len(s)
    PROVE  /\ RemoveAt(s, k) \in Seq(S)
           /\ Len(RemoveAt(s, k)) = Len(s) - 1
           /\ \A i \in 1 .. Len(s) - 1 :
                 RemoveAt(s, k)[i] = s[IF i < k THEN i ELSE i + 1]
<1>1. /\ SubSeq(s, 1, k - 1) \in Seq(S) /\ SubSeq(s, k + 1, Len(s)) \in Seq(S)
      /\ Len(SubSeq(s, 1, k - 1)) = k - 1 /\ Len(SubSeq(s, k + 1, Len(s))) = Len(s) - k
      /\ \A i \in 1 .. k - 1 : SubSeq(s, 1, k - 1)[i] = s[i]
      /\ \A i \in 1 .. Len(s) - k : SubSeq(s, k + 1, Len(s))[i] = s[k + i]
  OBVIOUS
<1> DEFINE a == SubSeq(s, 1, k - 1)
           b == SubSeq(s, k + 1, Len(s))
           q == a \o b
<1> HIDE DEF a, b
<1>2. /\ a \in Seq(S) /\ b \in Seq(S) /\ Len(a) = k - 1 /\ Len(b) = Len(s) - k
      /\ \A i \in 1 .. k - 1 : a[i] = s[i]
      /\ \A i \in 1 .. Len(s) - k : b[i] = s[k + i]
  BY <1>1 DEF a, b
<1>3. /\ q \in Seq(S) /\ Len(q) = Len(a) + Len(b)
      /\ \A i \in 1 .. Len(a) + Len(b) : q[i] = IF i <= Len(a) THEN a[i] ELSE b[i - Len(a)]
  BY ONLY <1>2, ConcatProperties DEF q
<1> HIDE DEF q
<1>4. q \in Seq(S) /\ Len(q) = Len(s) - 1
  BY <1>2, <1>3
<1>5. ASSUME NEW i \in 1 .. Len(s) - 1
      PROVE q[i] = s[IF i < k THEN i ELSE i + 1]
  <2>0. i \in 1 .. Len(a) + Len(b)
    BY <1>2
  <2>1. CASE i < k
    <3>1. i <= Len(a) /\ i \in 1 .. k - 1
      BY <1>2, <2>1
    <3>2. q[i] = a[i]
      BY <1>3, <2>0, <3>1
    <3> QED
      BY <3>1, <3>2, <1>2, <2>1
  <2>2. CASE ~ (i < k)
    <3> DEFINE m == i - Len(a)
    <3>1. ~ (i <= Len(a)) /\ m \in 1 .. Len(s) - k /\ k + m = i + 1
      BY <1>2, <2>2
    <3>2. q[i] = b[m]
      BY <1>3, <2>0, <3>1
    <3> HIDE DEF m
    <3>3. b[m] = s[k + m]
      BY <3>1, <1>2
    <3> QED
      BY <3>1, <3>2, <3>3, <2>2
  <2> QED
    BY <2>1, <2>2
<1>6. RemoveAt(s, k) = q
  BY DEF RemoveAt, q, a, b
<1> QED
  BY <1>4, <1>5, <1>6

\* Where a sequence has an element of T, and that it has one at most.
Has(q, T) == \E i \in 1 .. Len(q) : q[i] \in T
Once(q, T) == \A i, j \in 1 .. Len(q) : q[i] \in T /\ q[j] \in T => i = j

LEMMA ConcatMarks ==
    ASSUME NEW S, NEW q \in Seq(S), NEW r \in Seq(S), NEW T
    PROVE  /\ q \o r \in Seq(S)
           /\ Has(q \o r, T) <=> Has(q, T) \/ Has(r, T)
           /\ Once(q, T) /\ Once(r, T) /\ ~ (Has(q, T) /\ Has(r, T)) => Once(q \o r, T)
<1> DEFINE s == q \o r
<1>1. /\ s \in Seq(S) /\ Len(s) = Len(q) + Len(r)
      /\ \A i \in 1 .. Len(q) + Len(r) : s[i] = IF i <= Len(q) THEN q[i] ELSE r[i - Len(q)]
  BY ConcatProperties
<1>2. Len(q) \in Nat /\ Len(r) \in Nat
  OBVIOUS
<1> HIDE DEF s
<1>3. \A i \in 1 .. Len(q) : i \in 1 .. Len(s) /\ s[i] = q[i]
  BY <1>1, <1>2
<1>4. ASSUME NEW i \in 1 .. Len(r)
      PROVE i + Len(q) \in 1 .. Len(s) /\ s[i + Len(q)] = r[i]
  <2> DEFINE k == i + Len(q)
  <2>1. k \in 1 .. Len(q) + Len(r) /\ ~ (k <= Len(q)) /\ k - Len(q) = i
    BY <1>2
  <2> HIDE DEF k
  <2>2. k \in 1 .. Len(s) /\ s[k] = r[i]
    BY <1>1, <2>1
  <2> QED
    BY <2>2 DEF k
<1>5. ASSUME NEW i \in 1 .. Len(s)
      PROVE \/ i \in 1 .. Len(q) /\ s[i] = q[i]
            \/ i - Len(q) \in 1 .. Len(r) /\ s[i] = r[i - Len(q)]
  <2>1. i \in 1 .. Len(q) + Len(r)
    BY <1>1
  <2>2. CASE i <= Len(q)
    BY <1>1, <1>2, <2>1, <2>2
  <2>3. CASE ~ (i <= Len(q))
    <3>1. i - Len(q) \in 1 .. Len(r)
      BY <1>2, <2>1, <2>3
    <3>2. s[i] = r[i - Len(q)]
      BY <1>1, <2>1, <2>3
    <3> QED
      BY <3>1, <3>2
  <2> QED
    BY <2>2, <2>3
<1>6. ASSUME Has(q, T) \/ Has(r, T)
      PROVE Has(s, T)
  <2>1. CASE Has(q, T)
    BY <1>3, <2>1 DEF Has
  <2>2. CASE Has(r, T)
    <3>1. PICK i \in 1 .. Len(r) : r[i] \in T
      BY <2>2 DEF Has
    <3>2. i + Len(q) \in 1 .. Len(s) /\ s[i + Len(q)] \in T
      BY <1>4, <3>1
    <3> QED
      BY <3>2 DEF Has
  <2> QED
    BY <1>6, <2>1, <2>2
<1>7. ASSUME Has(s, T)
      PROVE Has(q, T) \/ Has(r, T)
  <2>1. PICK i \in 1 .. Len(s) : s[i] \in T
    BY <1>7 DEF Has
  <2>2. CASE i \in 1 .. Len(q) /\ s[i] = q[i]
    BY <2>1, <2>2 DEF Has
  <2>3. CASE i - Len(q) \in 1 .. Len(r) /\ s[i] = r[i - Len(q)]
    BY <2>1, <2>3 DEF Has
  <2> QED
    BY <1>5, <2>2, <2>3
<1>8. ASSUME Once(q, T), Once(r, T), ~ (Has(q, T) /\ Has(r, T)),
             NEW i \in 1 .. Len(s), NEW j \in 1 .. Len(s), s[i] \in T, s[j] \in T
      PROVE i = j
  <2> DEFINE a == i - Len(q)
             b == j - Len(q)
  <2>0. i = a + Len(q) /\ j = b + Len(q)
    BY <1>1, <1>2
  <2>1. \/ i \in 1 .. Len(q) /\ s[i] = q[i]
        \/ a \in 1 .. Len(r) /\ s[i] = r[a]
    BY <1>5
  <2>2. \/ j \in 1 .. Len(q) /\ s[j] = q[j]
        \/ b \in 1 .. Len(r) /\ s[j] = r[b]
    BY <1>5
  <2> HIDE DEF a, b
  <2>3. \/ i \in 1 .. Len(q) /\ j \in 1 .. Len(q) /\ q[i] \in T /\ q[j] \in T
        \/ a \in 1 .. Len(r) /\ b \in 1 .. Len(r) /\ r[a] \in T /\ r[b] \in T
    BY <1>8, <2>1, <2>2 DEF Has
  <2>4. CASE i \in 1 .. Len(q) /\ j \in 1 .. Len(q) /\ q[i] \in T /\ q[j] \in T
    BY <1>8, <2>4 DEF Once
  <2>5. CASE a \in 1 .. Len(r) /\ b \in 1 .. Len(r) /\ r[a] \in T /\ r[b] \in T
    <3>1. a = b
      BY <1>8, <2>5 DEF Once
    <3> QED
      BY <3>1, <2>0
  <2> QED
    BY <2>3, <2>4, <2>5
<1>9. Once(q, T) /\ Once(r, T) /\ ~ (Has(q, T) /\ Has(r, T)) => Once(s, T)
  BY <1>8 DEF Once
<1> QED
  BY <1>1, <1>6, <1>7, <1>9 DEF s

LEMMA TailMarks ==
    ASSUME NEW S, NEW q \in Seq(S), q # <<>>, NEW T
    PROVE  /\ Tail(q) \in Seq(S) /\ Head(q) \in S
           /\ Once(q, T) => Once(Tail(q), T)
           /\ Head(q) \notin T => (Has(Tail(q), T) <=> Has(q, T))
           /\ Once(q, T) /\ Head(q) \in T => ~ Has(Tail(q), T) /\ Has(q, T)
<1> DEFINE r == Tail(q)
<1>1. /\ r \in Seq(S) /\ Len(r) = Len(q) - 1 /\ Head(q) = q[1] /\ Head(q) \in S
      /\ \A i \in 1 .. Len(r) : r[i] = q[i + 1]
      /\ Len(q) \in Nat /\ Len(q) >= 1
  OBVIOUS
<1> HIDE DEF r
<1>2. \A i \in 1 .. Len(r) : i + 1 \in 1 .. Len(q) /\ i + 1 # 1 /\ r[i] = q[i + 1]
  BY <1>1
<1>3. 1 \in 1 .. Len(q)
  BY <1>1
<1>4. Once(q, T) => Once(r, T)
  <2>1. SUFFICES ASSUME Once(q, T), NEW i \in 1 .. Len(r), NEW j \in 1 .. Len(r),
                        r[i] \in T, r[j] \in T
                 PROVE  i = j
    BY DEF Once
  <2>2. i + 1 = j + 1
    BY <1>2, <2>1 DEF Once
  <2> QED
    BY <1>1, <2>2
<1>5. ASSUME Has(r, T) PROVE Has(q, T)
  <2>1. PICK i \in 1 .. Len(r) : r[i] \in T
    BY <1>5 DEF Has
  <2>2. i + 1 \in 1 .. Len(q) /\ q[i + 1] \in T
    BY <1>2, <2>1
  <2> QED
    BY <2>2 DEF Has
<1>6. ASSUME Has(q, T), Head(q) \notin T PROVE Has(r, T)
  <2>1. PICK i \in 1 .. Len(q) : q[i] \in T
    BY <1>6 DEF Has
  <2> DEFINE k == i - 1
  <2>2. i # 1
    BY <1>1, <1>6, <2>1
  <2>3. k \in 1 .. Len(r) /\ i = k + 1
    BY <1>1, <2>2
  <2> HIDE DEF k
  <2>4. r[k] \in T
    BY <1>1, <2>1, <2>3
  <2> QED
    BY <2>3, <2>4 DEF Has
<1>7. ASSUME Once(q, T), Head(q) \in T PROVE ~ Has(r, T) /\ Has(q, T)
  <2>1. \A i \in 1 .. Len(r) : r[i] \notin T
    BY <1>1, <1>2, <1>3, <1>7 DEF Once
  <2> QED
    BY <1>1, <1>3, <1>7, <2>1 DEF Has
<1> QED
  BY <1>1, <1>4, <1>5, <1>6, <1>7 DEF r

LEMMA RemoveMarks ==
    ASSUME NEW S, NEW s \in Seq(S), NEW k \in 1 .. Len(s), NEW T
    PROVE  /\ RemoveAt(s, k) \in Seq(S)
           /\ Once(s, T) => Once(RemoveAt(s, k), T)
           /\ Has(RemoveAt(s, k), T) => Has(s, T)
           /\ s[k] \notin T => (Has(RemoveAt(s, k), T) <=> Has(s, T))
           /\ Once(s, T) /\ s[k] \in T => ~ Has(RemoveAt(s, k), T) /\ Has(s, T)
<1> DEFINE q == RemoveAt(s, k)
           at(j) == IF j < k THEN j ELSE j + 1
<1>1. q \in Seq(S) /\ Len(q) = Len(s) - 1 /\ \A j \in 1 .. Len(s) - 1 : q[j] = s[at(j)]
  BY RemoveAtProperties
<1>2. Len(s) \in Nat
  OBVIOUS
<1> HIDE DEF q
<1>3. ASSUME NEW j \in 1 .. Len(q)
      PROVE at(j) \in 1 .. Len(s) /\ at(j) # k /\ q[j] = s[at(j)]
  BY <1>1, <1>2
<1>4. \A i, j \in 1 .. Len(q) : at(i) = at(j) => i = j
  BY <1>1, <1>2
<1>5. ASSUME NEW m \in 1 .. Len(s), m # k
      PROVE \E j \in 1 .. Len(q) : at(j) = m
  <2>1. CASE m < k
    BY <2>1, <1>1, <1>2
  <2>2. CASE m > k
    <3>1. m - 1 \in 1 .. Len(q) /\ at(m - 1) = m
      BY <2>2, <1>1, <1>2
    <3> QED
      BY <3>1
  <2> QED
    BY <2>1, <2>2, <1>5
<1> HIDE DEF at
<1>6. Once(s, T) => Once(q, T)
  BY <1>3, <1>4 DEF Once
<1>7. Has(q, T) => Has(s, T)
  BY <1>3 DEF Has
<1>8. Once(s, T) /\ s[k] \in T => ~ Has(q, T) /\ Has(s, T)
  BY <1>3 DEF Has, Once
<1>9. ASSUME s[k] \notin T, Has(s, T)
      PROVE Has(q, T)
  <2>1. PICK m \in 1 .. Len(s) : s[m] \in T
    BY <1>9 DEF Has
  <2>2. PICK j \in 1 .. Len(q) : at(j) = m
    BY <2>1, <1>5, <1>9
  <2> QED
    BY <2>1, <2>2, <1>3 DEF Has
<1> QED
  BY <1>1, <1>6, <1>7, <1>8, <1>9 DEF q

\* A sequence whose elements are marked where those of another are.
LEMMA SameMarks ==
    ASSUME NEW q, NEW r, NEW T, NEW U, Len(r) = Len(q),
           \A i \in 1 .. Len(q) : r[i] \in U <=> q[i] \in T
    PROVE  (Has(r, U) <=> Has(q, T)) /\ (Once(r, U) <=> Once(q, T))
BY DEF Has, Once

LEMMA OneMark ==
    ASSUME NEW S, NEW x \in S, NEW T
    PROVE  /\ <<x>> \in Seq(S) /\ Once(<<x>>, T) /\ (Has(<<x>>, T) <=> x \in T)
           /\ <<>> \in Seq(S) /\ Once(<<>>, T) /\ ~ Has(<<>>, T)
<1>1. /\ <<x>> \in Seq(S) /\ <<>> \in Seq(S) /\ Len(<<x>>) = 1 /\ Len(<<>>) = 0
      /\ <<x>>[1] = x
  OBVIOUS
<1>2. \A i \in 1 .. 1 : i = 1
  OBVIOUS
<1>3. 1 .. 0 = {} /\ 1 \in 1 .. 1
  OBVIOUS
<1> DEFINE one == <<x>>
<1>4. Len(one) = 1 /\ one[1] = x
  BY <1>1
<1> HIDE DEF one
<1>5. Once(one, T) /\ (Has(one, T) <=> x \in T)
  BY <1>2, <1>3, <1>4 DEF Once, Has
<1>6. Once(<<>>, T) /\ ~ Has(<<>>, T)
  BY <1>1, <1>3 DEF Once, Has
<1> QED
  BY <1>1, <1>5, <1>6 DEF one

LEMMA NoMarks ==
    ASSUME NEW q, NEW T, \A i \in 1 .. Len(q) : q[i] \notin T
    PROVE  ~ Has(q, T) /\ Once(q, T)
BY DEF Has, Once

\* The places in I are numbered in their order.
LEMMA Numbered ==
    ASSUME NEW I \in SUBSET Nat, IsFiniteSet(I)
    PROVE  /\ Cardinality(I) \in Nat
           /\ \A k \in 1 .. Cardinality(I) : \E i \in I : Cardinality({j \in I : j <= i}) = k
           /\ \A i \in I : Cardinality({j \in I : j <= i}) \in 1 .. Cardinality(I)
           /\ \A i, m \in I : Cardinality({j \in I : j <= i}) = Cardinality({j \in I : j <= m})
                                  => i = m
<1> DEFINE upto(i) == {j \in I : j <= i}
           n == Cardinality(I)
           r == [i \in I |-> Cardinality(upto(i))]
<1>1. n \in Nat
  BY FS_CardinalityType
<1>2. ASSUME NEW i \in I
      PROVE IsFiniteSet(upto(i)) /\ Cardinality(upto(i)) \in 1 .. n
  <2>1. upto(i) \in SUBSET I
    OBVIOUS
  <2>2. IsFiniteSet(upto(i)) /\ Cardinality(upto(i)) <= n
    BY <2>1, FS_Subset
  <2>3. Cardinality(upto(i)) \in Nat
    BY <2>2, FS_CardinalityType
  <2>4. i \in upto(i)
    OBVIOUS
  <2>5. Cardinality(upto(i)) # 0
    BY <2>2, <2>4, FS_EmptySet
  <2> QED
    BY <1>1, <2>2, <2>3, <2>5
<1>3. ASSUME NEW i \in I, NEW m \in I, i < m
      PROVE Cardinality(upto(i)) # Cardinality(upto(m))
  <2>0. i \in Nat /\ m \in Nat /\ \A j \in I : j \in Nat
    OBVIOUS
  <2>1. upto(i) \in SUBSET upto(m) /\ m \in upto(m) /\ m \notin upto(i)
    <3>1. \A j \in I : j <= i => j <= m
      BY <1>3, <2>0
    <3>2. m <= m /\ ~ (m <= i)
      BY <1>3, <2>0
    <3> QED
      BY <3>1, <3>2
  <2>2. IsFiniteSet(upto(m))
    BY <1>2
  <2> HIDE DEF upto
  <2> QED
    BY <2>1, <2>2, FS_Subset
<1>4. \A i, m \in I : Cardinality(upto(i)) = Cardinality(upto(m)) => i = m
  <2> SUFFICES ASSUME NEW i \in I, NEW m \in I, Cardinality(upto(i)) = Cardinality(upto(m))
               PROVE  i = m
    OBVIOUS
  <2>1. ~ (i < m)
    BY <1>3
  <2>2. ~ (m < i)
    BY <1>3
  <2> QED
    BY <2>1, <2>2
<1>5. r \in Injection(I, 1 .. n)
  <2>1. r \in [I -> 1 .. n]
    BY <1>2
  <2>2. \A a, b \in I : r[a] = r[b] => a = b
    BY <1>4
  <2> HIDE DEF r, n
  <2> QED
    BY <2>1, <2>2, Fun_IsInj
<1>6. IsFiniteSet(1 .. n) /\ Cardinality(1 .. n) = n
  <2>1. 1 \in Int /\ n \in Int
    BY <1>1
  <2> HIDE DEF n
  <2>2. IsFiniteSet(1 .. n) /\ Cardinality(1 .. n) = IF 1 > n THEN 0 ELSE n - 1 + 1
    BY <2>1, FS_Interval
  <2> QED
    BY <1>1, <2>2
<1>7. r \in Surjection(I, 1 .. n)
  <2>1. Cardinality(I) = Cardinality(1 .. n)
    BY <1>6
  <2> HIDE DEF r, n
  <2> QED
    BY <1>5, <1>6, <2>1, FS_Injection
<1>9. \A i \in I : r[i] = Cardinality(upto(i))
  OBVIOUS
<1> HIDE DEF r, n
<1>8. \A k \in 1 .. n : \E i \in I : r[i] = k
  BY <1>7, Fun_SurjectionProperties
<1>10. \A k \in 1 .. n : \E i \in I : Cardinality(upto(i)) = k
  BY <1>8, <1>9
<1> QED
  BY <1>1, <1>2, <1>4, <1>10 DEF n

LEMMA KeptMarks ==
    ASSUME NEW S, NEW s \in Seq(S), NEW I \in SUBSET (1 .. Len(s)), NEW T
    PROVE  /\ Kept(s, I) \in Seq(S)
           /\ \A k \in 1 .. Len(Kept(s, I)) : \E i \in I : Kept(s, I)[k] = s[i]
           /\ Has(Kept(s, I), T) <=> \E i \in I : s[i] \in T
           /\ Once(s, T) => Once(Kept(s, I), T)
<1> DEFINE n == Cardinality(I)
           upto(i) == Cardinality({j \in I : j <= i})
           nth(k) == CHOOSE i \in I : upto(i) = k
           q == Kept(s, I)
<1>1. IsFiniteSet(I) /\ I \in SUBSET Nat
  <2>1. Len(s) \in Nat
    OBVIOUS
  <2>2. IsFiniteSet(1 .. Len(s)) /\ 1 .. Len(s) \subseteq Nat
    BY <2>1, FS_Interval
  <2> QED
    BY <2>2, FS_Subset
<1>2. /\ n \in Nat
      /\ \A k \in 1 .. n : \E i \in I : upto(i) = k
      /\ \A i \in I : upto(i) \in 1 .. n
      /\ \A i, m \in I : upto(i) = upto(m) => i = m
  BY <1>1, Numbered
<1>3. q = [k \in 1 .. n |-> s[nth(k)]]
  BY DEF Kept
<1> HIDE DEF n, upto
<1>4. \A k \in 1 .. n : nth(k) \in I /\ upto(nth(k)) = k
  BY <1>2
<1> HIDE DEF nth, q
<1>5. q \in [1 .. n -> S]
  <2>1. \A i \in 1 .. Len(s) : s[i] \in S
    OBVIOUS
  <2>2. \A k \in 1 .. n : s[nth(k)] \in S
    BY <1>4, <2>1
  <2> QED
    BY <1>3, <2>2
<1>6. q \in Seq(S) /\ Len(q) = n
  BY <1>2, <1>5, SeqDef, LenProperties
<1>7. \A k \in 1 .. n : q[k] = s[nth(k)] /\ nth(k) \in I
  BY <1>3, <1>4
<1>8. Has(q, T) <=> \E i \in I : s[i] \in T
  <2>1. ASSUME Has(q, T) PROVE \E i \in I : s[i] \in T
    BY <2>1, <1>6, <1>7 DEF Has
  <2>2. ASSUME NEW i \in I, s[i] \in T PROVE Has(q, T)
    <3>1. upto(i) \in 1 .. n /\ nth(upto(i)) = i
      BY <1>2, <1>4
    <3>2. q[upto(i)] \in T
      BY <1>7, <2>2, <3>1
    <3> QED
      BY <1>6, <3>1, <3>2 DEF Has
  <2> QED
    BY <2>1, <2>2
<1>9. Once(s, T) => Once(q, T)
  <2> SUFFICES ASSUME Once(s, T), NEW k \in 1 .. n, NEW m \in 1 .. n, q[k] \in T, q[m] \in T
               PROVE  k = m
    BY <1>6 DEF Once
  <2>1. nth(k) = nth(m)
    BY <1>7 DEF Once
  <2> QED
    BY <1>4, <2>1
<1>10. \A k \in 1 .. Len(q) : \E i \in I : q[k] = s[i]
  BY <1>6, <1>7
<1> QED
  BY <1>6, <1>8, <1>9, <1>10 DEF q

\* The elements of a finite set as a sequence.
LEMMA SetToSeqType ==
    ASSUME NEW S, IsFiniteSet(S)
    PROVE  SetToSeq(S) \in Seq(S)
<1> DEFINE n == Cardinality(S)
<1>1. n \in Nat /\ ExistsBijection(1 .. n, S)
  BY FS_CardinalityType
<1> HIDE DEF n
<1>2. PICK f : f \in Bijection(1 .. n, S)
  BY <1>1, Fun_ExistsBij
<1>3. f \in [1 .. n -> S] /\ \A a, b \in 1 .. n : f[a] = f[b] => a = b
  BY <1>2, Fun_BijectionProperties
<1>4. \E g \in [1 .. n -> S] : IsInjective(g)
  BY <1>3 DEF IsInjective
<1>5. SetToSeq(S) \in [1 .. n -> S]
  BY <1>4 DEF SetToSeq, n
<1> QED
  BY <1>1, <1>5, SeqDef

----------------------------------------------------------------------------
(* Types.                                                                  *)

Kinds == {"list", "projects", "sessions", "browse", "models", "model", "trail", "state",
          "rename", "archive", "unarchive", "delete", "adopt", "add", "remove",
          "create", "start", "born", "prompt", "abort"}
OfThread == {"trail", "state", "rename", "archive", "unarchive", "delete", "start", "born",
             "prompt", "abort", "models", "model"}
OfProject == {"sessions", "adopt", "add", "remove"}
\* What is answered with a thread.
Threaded == {"rename", "archive", "unarchive", "adopt", "create", "start", "born", "state"}

Pages == Threads \cup {Root}
Places == Pages \cup Projects
Known == Infos \cup {NoInfo}
Tables == [Threads -> Known]

PlaceOK(x) ==
    /\ x.kind \in OfThread => x.on \in Threads
    /\ x.kind \in OfProject => x.on \in Projects
    /\ x.kind = "create" => x.on = Root
Calls == {c \in [kind : Kinds, on : Places, heard : BOOLEAN, read : BOOLEAN, rows : Tables,
                 paths : SUBSET Projects] : PlaceOK(c)}

ValueOK(f) ==
    /\ f.kind = "list" => f.value \in Tables
    /\ f.kind = "projects" => f.value \in SUBSET Projects
    /\ f.kind \in Threaded => f.of \in Threads /\ f.value \in Infos
Frames(types) ==
    [frame : types, kind : Kinds \cup {"none"}, on : Places, ok : BOOLEAN, of : Places,
     value : Known \cup Tables \cup SUBSET Projects]
Answers == {f \in Frames({"answer"}) : f.kind \in Kinds /\ PlaceOK(f) /\ (f.ok => ValueOK(f))}
Changes == {f \in Frames({"changed"}) : f.on \in Threads /\ f.value \in Infos}
Closes == Frames({"close"})

Rails == [list : [tag : {"Idle", "Success", "Failure"}, rows : Tables],
          projects : [tag : {"Idle", "Success", "Failure"}, paths : SUBSET Projects],
          expanded : SUBSET Projects, sessions : [Projects -> {"none", "Success", "Failure"}],
          adopting : Projects \cup {Root}, renaming : Pages, dialog : BOOLEAN,
          picker : {"Idle", "Success", "Failure"}]
Panes == [id : Pages, info : Known, trail : {"Idle", "Success", "Failure"},
          composer : Words \cup {""}, starting : BOOLEAN,
          models : {"Idle", "Loading", "Success", "Failure"}, modelBusy : BOOLEAN,
          menu : {"none", "file", "command"}]
Editors == [kind : {"welcome", "thread"}, editable : BOOLEAN, text : Words \cup {""}]

ServerType ==
    /\ threads \in Tables /\ given \subseteq Threads /\ added \subseteq Projects
    /\ \A t \in Threads : threads[t] # NoInfo => t \in given
ConnType ==
    /\ conn \in {"Connecting", "Online", "Offline"} /\ link \in {"up", "down"}
    /\ dialing \in BOOLEAN
QueueType ==
    /\ calls \in Seq(Calls) /\ wire \in Seq(Answers \cup Changes)
    /\ bridge \in Seq(Changes \cup Closes)
RailType == rail \in Rails /\ IsFiniteSet(rail.expanded)
PageType == route \in Pages /\ pane \in Panes /\ editor \in Editors /\ foreign \in BOOLEAN
HistoryType == raced \subseteq Threads /\ unread \in BOOLEAN

UiTypeOK == ServerType /\ ConnType /\ QueueType /\ RailType /\ PageType /\ HistoryType

\* The editor that is mounted is that of the page, and takes keys when it should.
Agrees(to, p, e) ==
    /\ p.id = to /\ e.kind = Kind(to)
    /\ to = Root => e.editable = ~p.starting
    /\ to # Root /\ p.info # NoInfo => e.editable = ~Busy(p.info)
Edits == Agrees(route, pane, editor)

\* Nobody waits for a call of a connection that is gone.
Unheard == link = "down" => \A i \in 1 .. Len(calls) : ~calls[i].heard

Waiting(kinds) == {c \in Calls : c.heard /\ c.kind \in kinds}
Answering(kinds) == {f \in Answers : f.kind \in kinds}
Births == {"create", "start", "born"}
Adopts == {"adopt"}

\* One call or one answer of these kinds while the guard is up, none otherwise.
Lone(kinds, guard) ==
    /\ Once(calls, Waiting(kinds)) /\ Once(wire, Answering(kinds))
    /\ ~ (Has(calls, Waiting(kinds)) /\ Has(wire, Answering(kinds)))
    /\ guard <=> Has(calls, Waiting(kinds)) \/ Has(wire, Answering(kinds))

Guarded == Lone(Births, pane.starting) /\ Lone(Adopts, rail.adopting # Root)

UiInv == UiTypeOK /\ Edits /\ Unheard /\ Guarded

LEMMA NoInfoType ==
    /\ Unnamed \in Infos /\ NoInfo \in Known /\ NoInfo \notin Infos /\ NoRows \in Tables
    /\ NoInfo.state = "idle" /\ Root \notin Threads /\ Root \notin Projects /\ "" \notin Words
<1>1. Unnamed \in Infos
  BY DEF Unnamed, Infos
<1>2. NoInfo.name = "none" /\ NoInfo.state = "idle"
  BY DEF NoInfo, Unnamed
<1>3. \A x \in Infos : x.name # "none"
  BY DEF Infos
<1> QED
  BY <1>1, <1>2, <1>3, ConsoleAssumption DEF Known, NoRows, Tables

LEMMA CallType ==
    ASSUME NEW kind \in Kinds, NEW on \in Places,
           kind \in OfThread => on \in Threads, kind \in OfProject => on \in Projects,
           kind = "create" => on = Root
    PROVE  /\ Call(kind, on) \in Calls
           /\ Call(kind, on).kind = kind /\ Call(kind, on).heard
           /\ Call(kind, on).on = on
BY NoInfoType DEF Call, Calls, PlaceOK

LEMMA AnswerType ==
    ASSUME NEW c \in Calls, NEW ok \in BOOLEAN, NEW of \in Places,
           NEW value \in Known \cup Tables \cup SUBSET Projects,
           ok => /\ c.kind = "list" => value \in Tables
                 /\ c.kind = "projects" => value \in SUBSET Projects
                 /\ c.kind \in Threaded => of \in Threads /\ value \in Infos
    PROVE  /\ Answer(c, ok, of, value) \in Answers
           /\ Answer(c, ok, of, value).kind = c.kind
<1> DEFINE f == Answer(c, ok, of, value)
<1>1. c.kind \in Kinds /\ c.on \in Places /\ PlaceOK(c)
  BY DEF Calls
<1>2. /\ f = [frame |-> "answer", kind |-> c.kind, on |-> c.on, ok |-> ok, of |-> of,
              value |-> value]
  BY DEF Answer
<1>3. f \in Frames({"answer"})
  BY <1>1, <1>2 DEF Frames
<1>4. f.kind = c.kind /\ f.on = c.on /\ f.ok = ok /\ f.of = of /\ f.value = value
  BY <1>2
<1> HIDE DEF f
<1>5. PlaceOK(f)
  BY <1>1, <1>4 DEF PlaceOK
<1>6. f.ok => ValueOK(f)
  BY <1>4 DEF ValueOK
<1>7. f \in Answers
  BY <1>1, <1>3, <1>4, <1>5, <1>6 DEF Answers
<1> QED
  BY <1>4, <1>7 DEF f

LEMMA FailedType ==
    ASSUME NEW c \in Calls
    PROVE  Failed(c) \in Answers /\ Failed(c).kind = c.kind
<1>1. Root \in Places /\ NoInfo \in Known \cup Tables \cup SUBSET Projects
  BY NoInfoType DEF Places, Pages
<1> QED
  BY <1>1, AnswerType DEF Failed

LEMMA ChangedType ==
    ASSUME NEW t \in Threads, NEW info \in Infos
    PROVE  Changed(t, info) \in Changes
BY DEF Changed, Changes, Frames, Places, Pages, Known

LEMMA CloseType == Close \in Closes
BY NoInfoType DEF Close, Closes, Frames, Places, Pages, Known

\* What is marked as a call or as an answer.
LEMMA Marked ==
    ASSUME NEW kinds
    PROVE  /\ \A c \in Calls : c \in Waiting(kinds) <=> c.heard /\ c.kind \in kinds
           /\ \A f \in Answers : /\ f \in Answering(kinds) <=> f.kind \in kinds
                                 /\ f.frame = "answer"
           /\ \A f \in Changes : f \notin Answering(kinds) /\ f.frame = "changed"
           /\ \A f \in Closes : f.frame = "close"
<1>1. \A f \in Answers : f.frame = "answer"
  BY DEF Answers, Frames
<1>2. \A f \in Changes : f.frame = "changed"
  BY DEF Changes, Frames
<1>3. \A f \in Closes : f.frame = "close"
  BY DEF Closes, Frames
<1> QED
  BY <1>1, <1>2, <1>3 DEF Waiting, Answering

----------------------------------------------------------------------------
(* The queues.                                                             *)

Alone(q, w, kinds) ==
    /\ Once(q, Waiting(kinds)) /\ Once(w, Answering(kinds))
    /\ ~ (Has(q, Waiting(kinds)) /\ Has(w, Answering(kinds)))
Some(q, w, kinds) == Has(q, Waiting(kinds)) \/ Has(w, Answering(kinds))
Asks == {c \in Calls : c.heard}
PlainAsks == {c \in Asks : c.kind \notin Births \cup Adopts}

LEMMA LoneIs ==
    ASSUME NEW kinds, NEW guard
    PROVE  Lone(kinds, guard) <=> Alone(calls, wire, kinds) /\ (guard <=> Some(calls, wire, kinds))
BY DEF Lone, Alone, Some

\* Calls are sent, or fail at once.
LEMMA StartStep ==
    ASSUME QueueType, ConnType, Unheard, link' = link, NEW cs \in Seq(Asks),
           NEW frames \in Seq(Answers \cup Changes), Start(cs, frames)
    PROVE  /\ calls' \in Seq(Calls) /\ wire' \in Seq(Answers \cup Changes) /\ Unheard'
           /\ \A kinds :
                 Alone(calls, frames, kinds) /\ Once(cs, Waiting(kinds))
                    /\ ~ (Has(cs, Waiting(kinds)) /\ Some(calls, frames, kinds))
                 => /\ Alone(calls', wire', kinds)
                    /\ Some(calls', wire', kinds)
                          <=> Some(calls, frames, kinds) \/ Has(cs, Waiting(kinds))
<1> DEFINE fs == [i \in DOMAIN cs |-> Failed(cs[i])]
<1>0. /\ Len(cs) \in Nat /\ DOMAIN cs = 1 .. Len(cs)
      /\ \A i \in 1 .. Len(cs) : cs[i] \in Calls /\ cs[i].heard
  BY DEF Asks
<1>1. calls \in Seq(Calls) /\ cs \in Seq(Calls)
  <2>1. Asks \subseteq Calls
    BY DEF Asks
  <2> QED
    BY <2>1, SeqMonotonic DEF QueueType
<1>2. CASE link = "up"
  <2>1. calls' = calls \o cs /\ wire' = frames
    BY <1>2 DEF Start
  <2>2. calls' \in Seq(Calls) /\ Unheard'
    BY <1>1, <1>2, <2>1 DEF Unheard
  <2>3. ASSUME NEW kinds, Alone(calls, frames, kinds), Once(cs, Waiting(kinds)),
               ~ (Has(cs, Waiting(kinds)) /\ Some(calls, frames, kinds))
        PROVE  /\ Alone(calls', wire', kinds)
               /\ Some(calls', wire', kinds)
                          <=> Some(calls, frames, kinds) \/ Has(cs, Waiting(kinds))
    <3>1. /\ Has(calls \o cs, Waiting(kinds)) <=> Has(calls, Waiting(kinds)) \/ Has(cs, Waiting(kinds))
          /\ Once(calls, Waiting(kinds)) /\ Once(cs, Waiting(kinds))
                /\ ~ (Has(calls, Waiting(kinds)) /\ Has(cs, Waiting(kinds)))
                => Once(calls \o cs, Waiting(kinds))
      BY <1>1, ConcatMarks
    <3> QED
      BY <2>1, <2>3, <3>1 DEF Alone, Some
  <2> QED
    BY <2>1, <2>2, <2>3
<1>3. CASE link # "up"
  <2>1. calls' = calls /\ wire' = frames \o fs
    BY <1>3 DEF Start
  <2>2. /\ fs \in Seq(Answers) /\ Len(fs) = Len(cs)
        /\ \A i \in 1 .. Len(cs) : fs[i] = Failed(cs[i]) /\ cs[i] \in Calls /\ fs[i] \in Answers
    <3>1. Len(cs) \in Nat /\ DOMAIN cs = 1 .. Len(cs) /\ \A i \in 1 .. Len(cs) : cs[i] \in Calls
      BY <1>0
    <3>2. fs \in [1 .. Len(cs) -> Answers]
      BY <3>1, FailedType
    <3>3. fs \in Seq(Answers) /\ Len(fs) = Len(cs)
      BY <3>1, <3>2, SeqDef, LenProperties
    <3> QED
      BY <3>1, <3>2, <3>3
  <2> HIDE DEF fs
  <2>3. fs \in Seq(Answers \cup Changes)
    BY <2>2
  <2>4. Unheard'
    BY <1>3, <2>1 DEF Unheard
  <2>5. ASSUME NEW kinds, Alone(calls, frames, kinds), Once(cs, Waiting(kinds)),
               ~ (Has(cs, Waiting(kinds)) /\ Some(calls, frames, kinds))
        PROVE  /\ Alone(calls', wire', kinds)
               /\ Some(calls', wire', kinds)
                          <=> Some(calls, frames, kinds) \/ Has(cs, Waiting(kinds))
    <3>1. \A i \in 1 .. Len(cs) : fs[i] \in Answering(kinds) <=> cs[i] \in Waiting(kinds)
      BY <1>0, <2>2, FailedType, Marked
    <3>2. /\ Has(fs, Answering(kinds)) <=> Has(cs, Waiting(kinds))
          /\ Once(fs, Answering(kinds)) <=> Once(cs, Waiting(kinds))
      BY <2>2, <3>1, SameMarks
    <3>3. /\ Has(frames \o fs, Answering(kinds))
                <=> Has(frames, Answering(kinds)) \/ Has(fs, Answering(kinds))
          /\ Once(frames, Answering(kinds)) /\ Once(fs, Answering(kinds))
                /\ ~ (Has(frames, Answering(kinds)) /\ Has(fs, Answering(kinds)))
                => Once(frames \o fs, Answering(kinds))
      BY <2>3, ConcatMarks
    <3> QED
      BY <2>1, <2>5, <3>2, <3>3 DEF Alone, Some
  <2> QED
    BY <1>1, <2>1, <2>3, <2>4, <2>5
<1> QED
  BY <1>2, <1>3

\* What the update loop takes from the wire.
LEMMA FramesStep ==
    ASSUME QueueType, wire # <<>>
    PROVE  /\ Tail(wire) \in Seq(Answers \cup Changes) /\ Head(wire) \in Answers \cup Changes
           /\ \A kinds : Alone(calls, wire, kinds) =>
                 /\ Alone(calls, Tail(wire), kinds)
                 /\ Some(calls, Tail(wire), kinds)
                       <=> Some(calls, wire, kinds) /\ Head(wire) \notin Answering(kinds)
                 /\ Head(wire) \in Answering(kinds) => Some(calls, wire, kinds)
<1>1. ASSUME NEW kinds
      PROVE  /\ Tail(wire) \in Seq(Answers \cup Changes) /\ Head(wire) \in Answers \cup Changes
             /\ Once(wire, Answering(kinds)) => Once(Tail(wire), Answering(kinds))
             /\ Head(wire) \notin Answering(kinds)
                   => (Has(Tail(wire), Answering(kinds)) <=> Has(wire, Answering(kinds)))
             /\ Once(wire, Answering(kinds)) /\ Head(wire) \in Answering(kinds)
                   => ~ Has(Tail(wire), Answering(kinds)) /\ Has(wire, Answering(kinds))
  BY TailMarks DEF QueueType
<1> QED
  BY <1>1 DEF Alone, Some

\* A step of the console: it takes an answer or none, and sends calls.
Takes(took) == IF took THEN Tail(wire) ELSE wire
Fits(kinds, took, cs, guard, next) ==
    LET ends == took /\ Head(wire) \in Answering(kinds)
        asks == Has(cs, Waiting(kinds)) IN
    /\ Once(cs, Waiting(kinds))
    /\ asks => ~ guard \/ ends
    /\ next <=> asks \/ (guard /\ ~ ends)

LEMMA UiStep ==
    ASSUME QueueType, ConnType, Unheard, Guarded, link' = link, NEW took \in BOOLEAN,
           took => wire # <<>>, NEW cs \in Seq(Asks), Start(cs, Takes(took)),
           Fits(Births, took, cs, pane.starting, pane'.starting),
           Fits(Adopts, took, cs, rail.adopting # Root, rail'.adopting # Root)
    PROVE  calls' \in Seq(Calls) /\ wire' \in Seq(Answers \cup Changes) /\ Unheard' /\ Guarded'
<1> DEFINE frames == Takes(took)
<1>1. frames \in Seq(Answers \cup Changes)
  BY FramesStep DEF Takes, QueueType
<1>2. \A kinds : Alone(calls, wire, kinds) =>
         /\ Alone(calls, frames, kinds)
         /\ Some(calls, frames, kinds)
               <=> Some(calls, wire, kinds) /\ ~ (took /\ Head(wire) \in Answering(kinds))
  <2>1. CASE took
    BY <2>1, FramesStep DEF Takes
  <2>2. CASE ~ took
    BY <2>2 DEF Takes
  <2> QED
    BY <2>1, <2>2
<1> HIDE DEF frames
<1>3. /\ calls' \in Seq(Calls) /\ wire' \in Seq(Answers \cup Changes) /\ Unheard'
      /\ \A kinds :
            Alone(calls, frames, kinds) /\ Once(cs, Waiting(kinds))
               /\ ~ (Has(cs, Waiting(kinds)) /\ Some(calls, frames, kinds))
            => /\ Alone(calls', wire', kinds)
               /\ Some(calls', wire', kinds)
                     <=> Some(calls, frames, kinds) \/ Has(cs, Waiting(kinds))
  <2>1. Start(cs, frames)
    BY DEF frames
  <2> QED
    BY <1>1, <2>1, StartStep
<1>4. ASSUME NEW kinds, NEW guard, NEW next, Lone(kinds, guard),
             Fits(kinds, took, cs, guard, next)
      PROVE Alone(calls', wire', kinds) /\ (next <=> Some(calls', wire', kinds))
  <2>1. Alone(calls, wire, kinds) /\ (guard <=> Some(calls, wire, kinds))
    BY <1>4, LoneIs
  <2>2. /\ Once(cs, Waiting(kinds))
        /\ Has(cs, Waiting(kinds)) => ~ guard \/ (took /\ Head(wire) \in Answering(kinds))
        /\ next <=> Has(cs, Waiting(kinds))
                    \/ (guard /\ ~ (took /\ Head(wire) \in Answering(kinds)))
    BY <1>4 DEF Fits
  <2> QED
    BY <1>2, <1>3, <2>1, <2>2
<1>5. Lone(Births, pane.starting) /\ Lone(Adopts, rail.adopting # Root)
  BY DEF Guarded
<1>6. Alone(calls', wire', Births) /\ (pane'.starting <=> Some(calls', wire', Births))
  BY <1>4, <1>5
<1>7. Alone(calls', wire', Adopts) /\ (rail'.adopting # Root <=> Some(calls', wire', Adopts))
  BY <1>4, <1>5
<1>8. Guarded'
  BY <1>6, <1>7 DEF Guarded, Lone, Alone, Some
<1> QED
  BY <1>3, <1>8

\* Most steps begin and end neither a thread nor an adoption.
LEMMA PlainStep ==
    ASSUME QueueType, ConnType, Unheard, Guarded, link' = link, NEW took \in BOOLEAN,
           took => wire # <<>> /\ (Head(wire) \in Answers => Head(wire).kind \notin Births \cup Adopts),
           NEW cs \in Seq(PlainAsks), Start(cs, Takes(took)),
           pane'.starting = pane.starting, rail'.adopting = rail.adopting
    PROVE  calls' \in Seq(Calls) /\ wire' \in Seq(Answers \cup Changes) /\ Unheard' /\ Guarded'
<1>1. cs \in Seq(Asks) /\ \A i \in 1 .. Len(cs) : cs[i] \in PlainAsks
  <2>1. PlainAsks \subseteq Asks
    BY DEF PlainAsks
  <2>2. cs \in Seq(Asks)
    BY <2>1, SeqMonotonic
  <2> QED
    BY <2>2
<1>2. Births \subseteq Births \cup Adopts /\ Adopts \subseteq Births \cup Adopts
  OBVIOUS
<1>3. ASSUME NEW kinds, kinds \subseteq Births \cup Adopts, NEW guard
      PROVE  Fits(kinds, took, cs, guard, guard)
  <2>1. \A i \in 1 .. Len(cs) : cs[i] \notin Waiting(kinds)
    BY <1>1, <1>3 DEF PlainAsks, Waiting
  <2>2. Once(cs, Waiting(kinds)) /\ ~ Has(cs, Waiting(kinds))
    BY <2>1, NoMarks
  <2>3. ~ (took /\ Head(wire) \in Answering(kinds))
    BY <1>3 DEF Answering
  <2> QED
    BY <2>2, <2>3 DEF Fits
<1>4. Fits(Births, took, cs, pane.starting, pane'.starting)
  BY <1>2, <1>3
<1>5. Fits(Adopts, took, cs, rail.adopting # Root, rail'.adopting # Root)
  BY <1>2, <1>3
<1> QED
  BY <1>1, <1>4, <1>5, UiStep

----------------------------------------------------------------------------
(* The server.                                                             *)

\* An answered call leaves the server; its answer is on the wire if somebody waits.
LEMMA ReplyStep ==
    ASSUME QueueType, ConnType, Unheard, Guarded, NEW i \in 1 .. Len(calls), NEW ok \in BOOLEAN,
           NEW of \in Places, NEW value \in Known \cup Tables \cup SUBSET Projects,
           ok => /\ calls[i].kind = "list" => value \in Tables
                 /\ calls[i].kind = "projects" => value \in SUBSET Projects
                 /\ calls[i].kind \in Threaded => of \in Threads /\ value \in Infos,
           NEW events \in Seq(Changes), Reply(i, ok, of, value, events)
    PROVE  QueueType' /\ Unheard' /\ Guarded'
<1> DEFINE c == calls[i]
           a == Answer(c, ok, of, value)
           answer == IF c.heard THEN <<a>> ELSE <<>>
<1>1. /\ calls' = RemoveAt(calls, i)
      /\ wire' = IF link = "up" THEN wire \o events \o answer ELSE wire
      /\ link' = link /\ bridge' = bridge /\ pane' = pane /\ rail' = rail
  BY DEF Reply, connection, page
<1>2. c \in Calls /\ calls \in Seq(Calls) /\ wire \in Seq(Answers \cup Changes)
  BY DEF QueueType
<1>3. a \in Answers /\ a.kind = c.kind
  BY <1>2, AnswerType
<1> HIDE DEF c, a
<1>4. answer \in Seq(Answers \cup Changes) /\ events \in Seq(Answers \cup Changes)
  <2>1. events \in Seq(Answers \cup Changes)
    <3>1. Changes \subseteq Answers \cup Changes
      OBVIOUS
    <3> QED
      BY <3>1, SeqMonotonic
  <2>2. <<a>> \in Seq(Answers \cup Changes) /\ <<>> \in Seq(Answers \cup Changes)
    BY <1>3, OneMark
  <2> QED
    BY <2>1, <2>2
<1>5. ASSUME NEW kinds
      PROVE  /\ Once(answer, Answering(kinds))
             /\ Has(answer, Answering(kinds)) <=> c \in Waiting(kinds)
             /\ Once(events, Answering(kinds)) /\ ~ Has(events, Answering(kinds))
  <2>1. \A j \in 1 .. Len(events) : events[j] \notin Answering(kinds)
    BY Marked
  <2>2. Once(events, Answering(kinds)) /\ ~ Has(events, Answering(kinds))
    BY <2>1, NoMarks
  <2>3. c \in Waiting(kinds) <=> c.heard /\ a \in Answering(kinds)
    BY <1>2, <1>3, Marked
  <2>4. /\ Once(<<a>>, Answering(kinds)) /\ (Has(<<a>>, Answering(kinds)) <=> a \in Answering(kinds))
        /\ Once(<<>>, Answering(kinds)) /\ ~ Has(<<>>, Answering(kinds))
    BY <1>3, OneMark
  <2> QED
    BY <2>2, <2>3, <2>4
<1>6. link # "up" => ~ c.heard
  BY DEF Unheard, ConnType, c
<1> HIDE DEF answer
<1>7. calls' \in Seq(Calls) /\ wire' \in Seq(Answers \cup Changes)
  <2>1. RemoveAt(calls, i) \in Seq(Calls)
    BY <1>2, RemoveAtProperties
  <2>2. wire \o events \o answer \in Seq(Answers \cup Changes)
    BY <1>2, <1>4
  <2> QED
    BY <1>1, <1>2, <2>1, <2>2
<1>8. ASSUME NEW kinds, Alone(calls, wire, kinds)
      PROVE Alone(calls', wire', kinds) /\ (Some(calls', wire', kinds) <=> Some(calls, wire, kinds))
  <2> DEFINE W == Waiting(kinds)
             A == Answering(kinds)
  <2>1. /\ Once(calls, W) => Once(calls', W)
        /\ c \notin W => (Has(calls', W) <=> Has(calls, W))
        /\ Once(calls, W) /\ c \in W => ~ Has(calls', W) /\ Has(calls, W)
    BY <1>1, <1>2, RemoveMarks DEF c
  <2>2. CASE link = "up"
    <3> DEFINE w == wire \o events
    <3>1. /\ w \in Seq(Answers \cup Changes) /\ (Has(w, A) <=> Has(wire, A))
          /\ Once(wire, A) => Once(w, A)
      BY <1>2, <1>4, <1>5, ConcatMarks
    <3>2. wire' = w \o answer
      BY <1>1, <2>2
    <3> HIDE DEF w
    <3>3. /\ Has(w \o answer, A) <=> Has(w, A) \/ Has(answer, A)
          /\ Once(w, A) /\ Once(answer, A) /\ ~ (Has(w, A) /\ Has(answer, A)) => Once(w \o answer, A)
      BY <1>4, <3>1, ConcatMarks
    <3>4. /\ Once(answer, A) /\ (Has(answer, A) <=> c \in W)
          /\ Once(calls, W) /\ Once(wire, A) /\ ~ (Has(calls, W) /\ Has(wire, A))
      BY <1>5, <1>8 DEF Alone
    <3> HIDE DEF W, A
    <3>5. /\ Once(calls', W) /\ Once(wire', A) /\ ~ (Has(calls', W) /\ Has(wire', A))
          /\ Has(calls', W) \/ Has(wire', A) <=> Has(calls, W) \/ Has(wire, A)
      BY <2>1, <3>1, <3>2, <3>3, <3>4
    <3> QED
      BY <3>5 DEF Alone, Some, W, A
  <2>3. CASE link # "up"
    <3>1. c \notin W /\ wire' = wire
      BY <1>1, <1>2, <1>6, <2>3, Marked
    <3> QED
      BY <1>8, <2>1, <3>1 DEF Alone, Some
  <2> QED
    BY <2>2, <2>3
<1>9. Guarded'
  <2>1. ASSUME NEW kinds, NEW guard, Lone(kinds, guard)
        PROVE Alone(calls', wire', kinds) /\ (guard <=> Some(calls', wire', kinds))
    BY <1>8, <2>1, LoneIs
  <2>2. Lone(Births, pane.starting) /\ Lone(Adopts, rail.adopting # Root)
    BY DEF Guarded
  <2>3. Alone(calls', wire', Births) /\ (pane.starting <=> Some(calls', wire', Births))
    BY <2>1, <2>2
  <2>4. Alone(calls', wire', Adopts) /\ (rail.adopting # Root <=> Some(calls', wire', Adopts))
    BY <2>1, <2>2
  <2> QED
    BY <1>1, <2>3, <2>4 DEF Guarded, Lone, Alone, Some
<1>10. Unheard'
  <2>1. \A j \in 1 .. Len(calls') : \E m \in 1 .. Len(calls) : calls'[j] = calls[m]
    <3> DEFINE q == RemoveAt(calls, i)
    <3>0. /\ Len(q) = Len(calls) - 1
          /\ \A j \in 1 .. Len(calls) - 1 : q[j] = calls[IF j < i THEN j ELSE j + 1]
      BY <1>2, RemoveAtProperties
    <3>1. /\ Len(calls') = Len(calls) - 1 /\ Len(calls) \in Nat /\ i \in 1 .. Len(calls)
          /\ \A j \in 1 .. Len(calls) - 1 : calls'[j] = calls[IF j < i THEN j ELSE j + 1]
      BY <1>1, <1>2, <3>0
    <3>2. \A j \in 1 .. Len(calls) - 1 : (IF j < i THEN j ELSE j + 1) \in 1 .. Len(calls)
      BY <3>1
    <3> QED
      BY <3>1, <3>2
  <2> QED
    BY <1>1, <2>1 DEF Unheard
<1> QED
  BY <1>1, <1>7, <1>9, <1>10 DEF QueueType

Unmoved == UNCHANGED <<conn, link, dialing, route, pane, editor, foreign, rail>>

\* What no step of the server touches.
LEMMA UnmovedStep ==
    ASSUME ConnType, RailType, PageType, Edits, Unmoved
    PROVE  ConnType' /\ RailType' /\ PageType' /\ Edits'
BY DEF ConnType, RailType, PageType, Edits, Unmoved

LEMMA ReplyUnmoved ==
    ASSUME NEW i, NEW ok, NEW of, NEW value, NEW events, Reply(i, ok, of, value, events)
    PROVE  Unmoved
BY DEF Reply, Unmoved, connection, page

LEMMA WriteType ==
    ASSUME ServerType, HistoryType, NEW t \in Threads, NEW info \in Known, Write(t, info),
           added' = added
    PROVE  ServerType' /\ raced' \subseteq Threads
<1>1. /\ threads' = [threads EXCEPT ![t] = info] /\ given' = given \cup {t}
      /\ raced' = raced \/ raced' = raced \cup {t}
  BY DEF Write, Race
<1>2. threads' \in Tables /\ given' \subseteq Threads /\ raced' \subseteq Threads
  BY <1>1 DEF ServerType, HistoryType, Tables
<1>3. \A u \in Threads : threads'[u] # NoInfo => u \in given'
  BY <1>1 DEF ServerType, Tables
<1> QED
  BY <1>2, <1>3 DEF ServerType

LEMMA PatchedType ==
    ASSUME NEW info \in Infos,
           NEW kind \in {"rename", "archive", "unarchive", "prompt", "start", "abort"}
    PROVE  Patched(kind, info) \in Infos
BY DEF Patched, Infos

\* An answer of the server that says no.
LEMMA RefuseStep ==
    ASSUME UiInv, NEW i \in 1 .. Len(calls), Refuse(i)
    PROVE  UiInv'
<1> USE DEF UiInv, UiTypeOK
<1>1. Reply(i, FALSE, Root, NoInfo, <<>>) /\ UNCHANGED <<threads, given, added, raced>>
      /\ unread' = (unread \/ calls[i].kind = "list")
  BY DEF Refuse, server
<1>2. Root \in Places /\ NoInfo \in Known \cup Tables \cup SUBSET Projects
  BY NoInfoType DEF Places, Pages
<1>3. QueueType' /\ Unheard' /\ Guarded'
  <2>1. <<>> \in Seq(Changes)
    OBVIOUS
  <2> QED
    BY <1>1, <1>2, <2>1, ReplyStep
<1>4. ConnType' /\ RailType' /\ PageType' /\ Edits'
  BY <1>1, ReplyUnmoved, UnmovedStep
<1>5. ServerType' /\ HistoryType'
  BY <1>1 DEF ServerType, HistoryType
<1> QED
  BY <1>3, <1>4, <1>5

\* A thread changes, consoles are told, and who asked is answered.
LEMMA WriteStep ==
    ASSUME UiInv, NEW i \in 1 .. Len(calls), NEW t \in Threads, NEW info \in Known,
           NEW of \in Threads, NEW value \in Known, NEW told \in Infos,
           calls[i].kind \notin {"list", "projects"},
           calls[i].kind \in Threaded => value \in Infos,
           Write(t, info), Reply(i, TRUE, of, value, <<Changed(t, told)>>),
           added' = added, unread' = unread
    PROVE  UiInv'
<1> USE DEF UiInv, UiTypeOK
<1>1. of \in Places /\ value \in Known \cup Tables \cup SUBSET Projects
  BY DEF Places, Pages
<1>2. <<Changed(t, told)>> \in Seq(Changes)
  BY ChangedType, OneMark
<1>3. QueueType' /\ Unheard' /\ Guarded'
  BY <1>1, <1>2, ReplyStep
<1>4. ConnType' /\ RailType' /\ PageType' /\ Edits'
  BY ReplyUnmoved, UnmovedStep
<1>5. ServerType' /\ HistoryType'
  BY WriteType DEF HistoryType
<1> QED
  BY <1>3, <1>4, <1>5

LEMMA ThereType ==
    ASSUME UiInv, NEW t \in There
    PROVE  t \in Threads /\ threads[t] \in Infos /\ threads[t] \in Known
BY DEF UiInv, UiTypeOK, ServerType, There, Tables, Known

LEMMA PatchNext ==
    ASSUME UiInv, NEW i \in 1 .. Len(calls), ServePatch(i)
    PROVE  UiInv'
<1> DEFINE c == calls[i]
           info == Patched(c.kind, threads[c.on])
<1>1. CASE Refuse(i)
  BY <1>1, RefuseStep
<1>2. CASE ~ Refuse(i)
  <2>1. /\ c.kind \in {"rename", "archive", "unarchive", "prompt", "start", "abort"}
        /\ c.on \in There /\ Write(c.on, info)
        /\ Reply(i, TRUE, c.on, info, <<Changed(c.on, info)>>)
        /\ added' = added /\ unread' = unread
    BY <1>2 DEF ServePatch
  <2>2. c.on \in Threads /\ threads[c.on] \in Infos
    BY <2>1, ThereType
  <2>3. info \in Infos
    BY <2>1, <2>2, PatchedType
  <2> HIDE DEF info
  <2>4. info \in Known /\ c.kind \notin {"list", "projects"}
    BY <2>1, <2>3 DEF Known
  <2> QED
    BY <2>1, <2>2, <2>3, <2>4, WriteStep
<1> QED
  BY <1>1, <1>2

LEMMA DeleteNext ==
    ASSUME UiInv, NEW i \in 1 .. Len(calls), ServeDelete(i)
    PROVE  UiInv'
<1> DEFINE c == calls[i]
<1>1. CASE Refuse(i)
  BY <1>1, RefuseStep
<1>2. CASE ~ Refuse(i)
  <2>1. /\ c.kind = "delete" /\ c.on \in There /\ Write(c.on, NoInfo)
        /\ Reply(i, TRUE, c.on, NoInfo, <<Changed(c.on, threads[c.on])>>)
        /\ added' = added /\ unread' = unread
    BY <1>2 DEF ServeDelete
  <2>2. c.on \in Threads /\ threads[c.on] \in Infos /\ NoInfo \in Known
    BY <2>1, ThereType, NoInfoType
  <2>3. c.kind \notin {"list", "projects"} /\ c.kind \notin Threaded
    BY <2>1 DEF Threaded
  <2> QED
    BY <2>1, <2>2, <2>3, WriteStep
<1> QED
  BY <1>1, <1>2

LEMMA BirthNext ==
    ASSUME UiInv, NEW i \in 1 .. Len(calls), ServeBirth(i)
    PROVE  UiInv'
<1> DEFINE c == calls[i]
           t == CHOOSE u \in Threads \ given : TRUE
           info == [Unnamed EXCEPT !.source = c.on]
<1>1. CASE Refuse(i)
  BY <1>1, RefuseStep
<1>2. CASE ~ Refuse(i)
  <2>1. /\ c.kind \in {"create", "adopt"} /\ Threads # given
        /\ Write(t, info) /\ Reply(i, TRUE, t, info, <<Changed(t, info)>>)
        /\ added' = added /\ unread' = unread
    BY <1>2 DEF ServeBirth
  <2>2. t \in Threads
    BY <2>1 DEF UiInv, UiTypeOK, ServerType
  <2>3. info \in Infos
    <3>1. c \in Calls
      BY DEF UiInv, UiTypeOK, QueueType
    <3>2. c.on \in Projects \cup {Root}
      BY <2>1, <3>1 DEF Calls, PlaceOK, OfProject
    <3> QED
      BY <3>2, NoInfoType DEF Infos
  <2> HIDE DEF info, t
  <2>4. info \in Known /\ c.kind \notin {"list", "projects"}
    BY <2>1, <2>3 DEF Known
  <2> QED
    BY <2>1, <2>2, <2>3, <2>4, WriteStep
<1> QED
  BY <1>1, <1>2

\* A call is read, or given up by who waits.
LEMMA ReadNext ==
    ASSUME UiInv, NEW i \in 1 .. Len(calls), Read(i)
    PROVE  UiInv'
<1> USE DEF UiInv, UiTypeOK
<1>1. /\ calls' = [calls EXCEPT ![i].read = TRUE, ![i].rows = threads, ![i].paths = added]
      /\ wire' = wire /\ bridge' = bridge /\ Unmoved
      /\ UNCHANGED <<threads, given, added, raced, unread>>
  BY DEF Read, Unmoved, server, connection, page
<1>2. calls \in Seq(Calls) /\ calls[i] \in Calls /\ Len(calls) \in Nat /\ DOMAIN calls = 1 .. Len(calls)
  BY DEF QueueType
<1> DEFINE c == [calls[i] EXCEPT !.read = TRUE, !.rows = threads, !.paths = added]
<1>3. c \in Calls /\ c.heard = calls[i].heard /\ c.kind = calls[i].kind
  BY <1>2 DEF Calls, PlaceOK, ServerType
<1>4. calls' = [calls EXCEPT ![i] = c]
  BY <1>1, <1>2
<1> HIDE DEF c
<1>5. /\ calls' \in Seq(Calls) /\ Len(calls') = Len(calls)
      /\ \A j \in 1 .. Len(calls) : calls'[j] = IF j = i THEN c ELSE calls[j]
  BY <1>2, <1>3, <1>4
<1>6. ASSUME NEW kinds, NEW j \in 1 .. Len(calls)
      PROVE calls'[j] \in Waiting(kinds) <=> calls[j] \in Waiting(kinds)
  <2>1. calls[j] \in Calls /\ calls'[j] \in Calls
    BY <1>2, <1>5
  <2>2. calls'[j].heard = calls[j].heard /\ calls'[j].kind = calls[j].kind
    BY <1>3, <1>5
  <2> QED
    BY <2>1, <2>2, Marked
<1>7. \A kinds : /\ Has(calls', Waiting(kinds)) <=> Has(calls, Waiting(kinds))
                 /\ Once(calls', Waiting(kinds)) <=> Once(calls, Waiting(kinds))
  BY <1>5, <1>6, SameMarks
<1>8. Guarded'
  BY <1>1, <1>7 DEF Guarded, Lone, Unmoved
<1>9. Unheard'
  BY <1>1, <1>3, <1>5 DEF Unheard, Unmoved
<1>10. ConnType' /\ RailType' /\ PageType' /\ Edits'
  BY <1>1, UnmovedStep
<1> QED
  BY <1>1, <1>5, <1>8, <1>9, <1>10 DEF QueueType, ServerType, HistoryType

\* A listing is answered as it was read, or refused.
LEMMA ListNext ==
    ASSUME UiInv, NEW i \in 1 .. Len(calls), ServeList(i)
    PROVE  UiInv'
<1> DEFINE c == calls[i]
<1>1. CASE Refuse(i)
  BY <1>1, RefuseStep
<1>2. CASE ~ Refuse(i)
  <2> USE DEF UiInv, UiTypeOK
  <2>1. /\ c.kind = "list" /\ Reply(i, TRUE, Root, c.rows, <<>>)
        /\ UNCHANGED <<threads, given, added, raced, unread>>
    BY <1>2 DEF ServeList, server
  <2>2. c \in Calls
    BY DEF QueueType
  <2>3. c.rows \in Tables /\ Root \in Places /\ c.kind # "projects" /\ c.kind \notin Threaded
    BY <2>1, <2>2 DEF Calls, Places, Pages, Threaded
  <2>4. <<>> \in Seq(Changes)
    OBVIOUS
  <2>5. QueueType' /\ Unheard' /\ Guarded'
    BY <2>1, <2>3, <2>4, ReplyStep
  <2>6. ConnType' /\ RailType' /\ PageType' /\ Edits'
    BY <2>1, ReplyUnmoved, UnmovedStep
  <2> QED
    BY <2>1, <2>5, <2>6 DEF ServerType, HistoryType
<1> QED
  BY <1>1, <1>2

LEMMA ProjectNext ==
    ASSUME UiInv, NEW i \in 1 .. Len(calls), ServeProject(i)
    PROVE  UiInv'
<1> USE DEF UiInv, UiTypeOK
<1> DEFINE c == calls[i]
<1>1. /\ c.kind \in {"add", "remove"} /\ Reply(i, TRUE, Root, NoInfo, <<>>)
      /\ UNCHANGED <<threads, given, raced, unread>>
      /\ added' = c.paths \cup {c.on} \/ added' = c.paths \ {c.on}
  BY DEF ServeProject
<1>2. c \in Calls
  BY DEF QueueType
<1>3. /\ c.paths \subseteq Projects /\ c.on \in Projects /\ c.kind \notin Threaded
      /\ c.kind \notin {"list", "projects"}
  BY <1>1, <1>2 DEF Calls, PlaceOK, OfProject, Threaded
<1>4. Root \in Places /\ NoInfo \in Known \cup Tables \cup SUBSET Projects
  BY NoInfoType DEF Places, Pages
<1>5. <<>> \in Seq(Changes)
  OBVIOUS
<1>6. QueueType' /\ Unheard' /\ Guarded'
  BY <1>1, <1>3, <1>4, <1>5, ReplyStep
<1>7. ConnType' /\ RailType' /\ PageType' /\ Edits'
  BY <1>1, ReplyUnmoved, UnmovedStep
<1> QED
  BY <1>1, <1>3, <1>6, <1>7 DEF ServerType, HistoryType

\* An answer that changes nothing on the server.
LEMMA AnswerStep ==
    ASSUME UiInv, NEW i \in 1 .. Len(calls), NEW of \in Places,
           NEW value \in Known \cup Tables \cup SUBSET Projects,
           Reply(i, TRUE, of, value, <<>>),
           calls[i].kind = "list" => value \in Tables,
           calls[i].kind = "projects" => value \in SUBSET Projects,
           calls[i].kind \in Threaded => of \in Threads /\ value \in Infos,
           UNCHANGED <<server, raced, unread>>
    PROVE  UiInv'
<1> USE DEF UiInv, UiTypeOK
<1>1. <<>> \in Seq(Changes)
  OBVIOUS
<1>2. QueueType' /\ Unheard' /\ Guarded'
  BY <1>1, ReplyStep
<1>3. ConnType' /\ RailType' /\ PageType' /\ Edits'
  BY ReplyUnmoved, UnmovedStep
<1> QED
  BY <1>2, <1>3 DEF ServerType, HistoryType, server

LEMMA ReadsNext ==
    ASSUME UiInv, NEW i \in 1 .. Len(calls), ServeRead(i)
    PROVE  UiInv'
<1> DEFINE c == calls[i]
<1>1. CASE Refuse(i)
  BY <1>1, RefuseStep
<1>2. CASE ~ Refuse(i)
  <2>0. Root \in Places /\ NoInfo \in Known \cup Tables \cup SUBSET Projects
    BY NoInfoType DEF Places, Pages
  <2>1. CASE c.kind = "projects" /\ Reply(i, TRUE, Root, added, <<>>) /\ UNCHANGED <<server, raced, unread>>
    <3>1. added \in SUBSET Projects
      BY DEF UiInv, UiTypeOK, ServerType
    <3>2. c.kind # "list" /\ c.kind \notin Threaded
      BY <2>1 DEF Threaded
    <3> QED
      BY <2>0, <2>1, <3>1, <3>2, AnswerStep
  <2>2. CASE /\ c.kind \in {"sessions", "browse", "models", "model"}
             /\ Reply(i, TRUE, Root, NoInfo, <<>>) /\ UNCHANGED <<server, raced, unread>>
    <3>1. c.kind \notin {"list", "projects"} /\ c.kind \notin Threaded
      BY <2>2 DEF Threaded
    <3> QED
      BY <2>0, <2>2, <3>1, AnswerStep
  <2>3. CASE /\ c.kind \in {"trail", "state", "born"} /\ c.on \in There
             /\ Reply(i, TRUE, c.on, threads[c.on], <<>>) /\ UNCHANGED <<server, raced, unread>>
    <3>1. c.on \in Threads /\ threads[c.on] \in Infos
      BY <2>3, ThereType
    <3>2. c.kind \notin {"list", "projects"} /\ c.on \in Places /\ threads[c.on] \in Known
      BY <2>3, <3>1 DEF Places, Pages, Known
    <3> QED
      BY <2>3, <3>1, <3>2, AnswerStep
  <2> QED
    BY <1>2, <2>1, <2>2, <2>3 DEF ServeRead
<1> QED
  BY <1>1, <1>2

\* Another console, an auto-title, or the end of a run.
LEMMA ElsewhereNext ==
    ASSUME UiInv, NEW t \in Threads, Elsewhere(t)
    PROVE  UiInv'
<1> USE DEF UiInv, UiTypeOK
<1>1. t \in There
  BY DEF Elsewhere
<1>2. threads[t] \in Infos
  BY <1>1, ThereType
<1>3. PICK info \in {[threads[t] EXCEPT !.name = "titled"], NoInfo}
                   \cup {[threads[t] EXCEPT !.state = s] : s \in {"idle", "working"}} :
         /\ Write(t, info)
         /\ wire' = IF link = "down" THEN wire
                    ELSE Append(wire, Changed(t, IF info = NoInfo THEN threads[t] ELSE info))
  BY DEF Elsewhere
<1>4. added' = added /\ calls' = calls /\ bridge' = bridge /\ unread' = unread /\ Unmoved
  BY DEF Elsewhere, Unmoved, connection, page
<1>5. info \in Infos \/ info = NoInfo
  BY <1>2, <1>3 DEF Infos
<1>6. info \in Known
  BY <1>5 DEF Known
<1> DEFINE f == Changed(t, IF info = NoInfo THEN threads[t] ELSE info)
<1>7. f \in Changes
  BY <1>2, <1>5, ChangedType
<1> HIDE DEF f
<1>8. wire' = wire \/ wire' = wire \o <<f>>
  BY <1>3, <1>7 DEF f, QueueType
<1>9. /\ wire' \in Seq(Answers \cup Changes)
      /\ \A kinds : /\ Has(wire', Answering(kinds)) <=> Has(wire, Answering(kinds))
                    /\ Once(wire, Answering(kinds)) => Once(wire', Answering(kinds))
  <2>1. wire \in Seq(Answers \cup Changes) /\ f \in Answers \cup Changes
    BY <1>7 DEF QueueType
  <2>2. ASSUME NEW kinds
        PROVE  /\ <<f>> \in Seq(Answers \cup Changes)
               /\ Once(<<f>>, Answering(kinds)) /\ ~ Has(<<f>>, Answering(kinds))
    BY <1>7, <2>1, OneMark, Marked
  <2>3. ASSUME NEW kinds
        PROVE  /\ wire \o <<f>> \in Seq(Answers \cup Changes)
               /\ Has(wire \o <<f>>, Answering(kinds)) <=> Has(wire, Answering(kinds))
               /\ Once(wire, Answering(kinds)) => Once(wire \o <<f>>, Answering(kinds))
    BY <2>1, <2>2, ConcatMarks
  <2> QED
    BY <1>8, <2>1, <2>3
<1>10. QueueType' /\ Guarded' /\ Unheard'
  BY <1>4, <1>9 DEF QueueType, Guarded, Lone, Unmoved, Unheard
<1>11. ConnType' /\ RailType' /\ PageType' /\ Edits'
  BY <1>4, UnmovedStep
<1>12. ServerType' /\ HistoryType'
  BY <1>3, <1>4, <1>6, WriteType DEF HistoryType
<1> QED
  BY <1>10, <1>11, <1>12

\* Who waited gets a failure, and the call goes on unheard.
LEMMA TimeOutNext ==
    ASSUME UiInv, NEW i \in 1 .. Len(calls), TimeOut(i)
    PROVE  UiInv'
<1> USE DEF UiInv, UiTypeOK
<1>1. /\ calls[i].heard /\ calls' = [calls EXCEPT ![i].heard = FALSE]
      /\ wire' = <<Failed(calls[i])>> \o wire /\ bridge' = bridge /\ Unmoved
      /\ unread' = (unread \/ calls[i].kind \in {"list", "projects", "trail", "state"})
      /\ UNCHANGED <<threads, given, added, raced>>
  BY DEF TimeOut, Unmoved, server, connection, page
<1>2. calls \in Seq(Calls) /\ calls[i] \in Calls /\ Len(calls) \in Nat /\ DOMAIN calls = 1 .. Len(calls)
  BY DEF QueueType
<1> DEFINE c == [calls[i] EXCEPT !.heard = FALSE]
           f == Failed(calls[i])
<1>3. c \in Calls /\ ~ c.heard /\ f \in Answers /\ f.kind = calls[i].kind
  BY <1>2, FailedType DEF Calls, PlaceOK
<1>4. calls' = [calls EXCEPT ![i] = c]
  BY <1>1, <1>2
<1> HIDE DEF c, f
<1>5. /\ calls' \in Seq(Calls) /\ Len(calls') = Len(calls)
      /\ \A j \in 1 .. Len(calls) : calls'[j] = IF j = i THEN c ELSE calls[j]
  BY <1>2, <1>3, <1>4
<1>6. ASSUME NEW kinds
      PROVE  /\ <<f>> \in Seq(Answers \cup Changes) /\ Once(<<f>>, Answering(kinds))
             /\ Has(<<f>>, Answering(kinds)) <=> calls[i] \in Waiting(kinds)
             /\ c \notin Waiting(kinds)
  <2>1. f \in Answering(kinds) <=> calls[i] \in Waiting(kinds)
    BY <1>1, <1>2, <1>3, Marked
  <2>2. c \notin Waiting(kinds)
    BY <1>3, Marked
  <2>3. f \in Answers \cup Changes
    BY <1>3
  <2> QED
    BY <2>1, <2>2, <2>3, OneMark
<1>7. ASSUME NEW kinds
      PROVE  /\ wire' \in Seq(Answers \cup Changes)
             /\ Has(wire', Answering(kinds)) <=> Has(<<f>>, Answering(kinds)) \/ Has(wire, Answering(kinds))
             /\ Once(wire, Answering(kinds)) /\ Once(<<f>>, Answering(kinds))
                /\ ~ (Has(<<f>>, Answering(kinds)) /\ Has(wire, Answering(kinds)))
                => Once(wire', Answering(kinds))
  <2>1. wire \in Seq(Answers \cup Changes) /\ <<f>> \in Seq(Answers \cup Changes)
    BY <1>6 DEF QueueType
  <2> QED
    BY <1>1, <2>1, ConcatMarks DEF f
<1>8. ASSUME NEW kinds, Alone(calls, wire, kinds)
      PROVE Alone(calls', wire', kinds) /\ (Some(calls', wire', kinds) <=> Some(calls, wire, kinds))
  <2> DEFINE W == Waiting(kinds)
  <2>1. CASE calls[i] \in W
    <3>1. \A j \in 1 .. Len(calls) : calls'[j] \notin W
      BY <1>5, <1>6, <1>8, <2>1 DEF Alone, Once
    <3>2. ~ Has(calls', W) /\ Once(calls', W) /\ Has(calls, W)
      BY <1>5, <2>1, <3>1 DEF Has, Once
    <3> QED
      BY <1>6, <1>7, <1>8, <2>1, <3>2 DEF Alone, Some
  <2>2. CASE calls[i] \notin W
    <3>1. \A j \in 1 .. Len(calls) : calls'[j] \in W <=> calls[j] \in W
      BY <1>5, <1>6, <2>2
    <3>2. (Has(calls', W) <=> Has(calls, W)) /\ (Once(calls', W) <=> Once(calls, W))
      BY <1>5, <3>1, SameMarks
    <3> QED
      BY <1>6, <1>7, <1>8, <2>2, <3>2 DEF Alone, Some
  <2> QED
    BY <2>1, <2>2
<1>9. Guarded'
  <2>1. ASSUME NEW kinds, NEW guard, Lone(kinds, guard)
        PROVE Alone(calls', wire', kinds) /\ (guard <=> Some(calls', wire', kinds))
    BY <1>8, <2>1, LoneIs
  <2>2. Lone(Births, pane.starting) /\ Lone(Adopts, rail.adopting # Root)
    BY DEF Guarded
  <2>3. Alone(calls', wire', Births) /\ (pane.starting <=> Some(calls', wire', Births))
    BY <2>1, <2>2
  <2>4. Alone(calls', wire', Adopts) /\ (rail.adopting # Root <=> Some(calls', wire', Adopts))
    BY <2>1, <2>2
  <2> QED
    BY <1>1, <2>3, <2>4 DEF Guarded, Lone, Alone, Some, Unmoved
<1>10. Unheard'
  BY <1>1, <1>3, <1>5 DEF Unheard, Unmoved
<1>11. ConnType' /\ RailType' /\ PageType' /\ Edits'
  BY <1>1, UnmovedStep
<1> QED
  BY <1>1, <1>5, <1>7, <1>9, <1>10, <1>11 DEF QueueType, ServerType, HistoryType

LEMMA LoseNext ==
    ASSUME UiInv, NEW i \in 1 .. Len(calls), LoseCall(i)
    PROVE  UiInv'
<1> USE DEF UiInv, UiTypeOK
<1>1. /\ ~ calls[i].heard /\ calls' = RemoveAt(calls, i) /\ wire' = wire /\ bridge' = bridge
      /\ Unmoved /\ UNCHANGED <<threads, given, added, raced, unread>>
  BY DEF LoseCall, Unmoved, server, connection, page
<1>2. calls \in Seq(Calls) /\ calls[i] \in Calls /\ Len(calls) \in Nat
  BY DEF QueueType
<1>3. ASSUME NEW kinds
      PROVE  /\ calls' \in Seq(Calls)
             /\ Has(calls', Waiting(kinds)) <=> Has(calls, Waiting(kinds))
             /\ Once(calls, Waiting(kinds)) => Once(calls', Waiting(kinds))
  <2>1. calls[i] \notin Waiting(kinds)
    BY <1>1, <1>2, Marked
  <2> QED
    BY <1>1, <1>2, <2>1, RemoveMarks
<1>4. Guarded'
  BY <1>1, <1>3 DEF Guarded, Lone, Unmoved
<1>5. Unheard'
  <2> DEFINE q == RemoveAt(calls, i)
  <2>1. /\ Len(q) = Len(calls) - 1
        /\ \A j \in 1 .. Len(calls) - 1 : q[j] = calls[IF j < i THEN j ELSE j + 1]
    BY <1>2, RemoveAtProperties
  <2>2. \A j \in 1 .. Len(calls) - 1 : (IF j < i THEN j ELSE j + 1) \in 1 .. Len(calls)
    BY <1>2
  <2> HIDE DEF q
  <2>3. \A j \in 1 .. Len(q) : \E m \in 1 .. Len(calls) : q[j] = calls[m]
    BY <2>1, <2>2
  <2>4. calls' = q
    BY <1>1 DEF q
  <2> QED
    BY <1>1, <2>3, <2>4 DEF Unheard, Unmoved
<1>6. ConnType' /\ RailType' /\ PageType' /\ Edits'
  BY <1>1, UnmovedStep
<1> QED
  BY <1>1, <1>3, <1>4, <1>5, <1>6 DEF QueueType, ServerType, HistoryType

----------------------------------------------------------------------------
(* What the console asks.                                                  *)

LEMMA AskType ==
    ASSUME NEW kind \in Kinds \ (Births \cup Adopts), NEW on \in Places,
           kind \in OfThread => on \in Threads, kind \in OfProject => on \in Projects
    PROVE  Call(kind, on) \in PlainAsks /\ <<Call(kind, on)>> \in Seq(PlainAsks)
<1>1. kind \in Kinds /\ kind # "create" /\ kind \notin Births \cup Adopts
  BY DEF Births
<1>2. Call(kind, on) \in Calls /\ Call(kind, on).kind = kind /\ Call(kind, on).heard
  BY <1>1, CallType
<1>3. Call(kind, on) \in PlainAsks
  BY <1>1, <1>2 DEF PlainAsks, Asks
<1> QED
  BY <1>3, OneMark

LEMMA NoAsks == <<>> \in Seq(PlainAsks) /\ <<>> \in Seq(Asks)
OBVIOUS

LEMMA ReadsType ==
    ASSUME NEW to \in Pages
    PROVE  Reads(to) \in Seq(PlainAsks)
<1>1. CASE to = Root
  BY <1>1, NoAsks DEF Reads
<1>2. CASE to # Root
  <2>1. to \in Threads /\ to \in Places
    BY <1>2 DEF Places, Pages
  <2>2. Call("trail", to) \in PlainAsks /\ Call("state", to) \in PlainAsks
    <3>1. {"trail", "state"} \subseteq Kinds \ (Births \cup Adopts)
      BY DEF Kinds, Births, Adopts
    <3>2. "trail" \notin OfProject /\ "state" \notin OfProject
      BY DEF OfProject
    <3> QED
      BY <2>1, <3>1, <3>2, AskType
  <2> QED
    BY <1>2, <2>2 DEF Reads
<1> QED
  BY <1>1, <1>2

LEMMA ReloadType ==
    ASSUME RailType
    PROVE  ReloadExpanded \in Seq(PlainAsks)
<1> DEFINE S == {Call("sessions", p) : p \in rail.expanded}
<1>1. rail.expanded \in SUBSET Projects /\ IsFiniteSet(rail.expanded)
  BY DEF RailType, Rails
<1>2. IsFiniteSet(S)
  <2> DEFINE f == [p \in rail.expanded |-> Call("sessions", p)]
  <2>1. f \in Surjection(rail.expanded, S)
    BY DEF Surjection
  <2> QED
    BY <1>1, <2>1, FS_Surjection
<1>3. S \subseteq PlainAsks
  <2>1. ASSUME NEW p \in rail.expanded
        PROVE  Call("sessions", p) \in PlainAsks
    <3>1. p \in Projects /\ p \in Places
      BY <1>1 DEF Places
    <3>2. "sessions" \in Kinds \ (Births \cup Adopts) /\ "sessions" \notin OfThread
      BY DEF Kinds, Births, Adopts, OfThread
    <3> QED
      BY <3>1, <3>2, AskType
  <2> QED
    BY <2>1
<1> HIDE DEF S
<1>4. SetToSeq(S) \in Seq(PlainAsks)
  <2>1. SetToSeq(S) \in Seq(S)
    BY <1>2, SetToSeqType
  <2> QED
    BY <1>3, <2>1, SeqMonotonic
<1> QED
  BY <1>4 DEF ReloadExpanded, S

LEMMA ListsType ==
    /\ <<Call("list", Root), Call("projects", Root)>> \in Seq(PlainAsks)
    /\ <<Call("browse", Root)>> \in Seq(PlainAsks)
<1>1. Root \in Places
  BY DEF Places, Pages
<1>2. /\ {"list", "projects", "browse"} \subseteq Kinds \ (Births \cup Adopts)
      /\ \A k \in {"list", "projects", "browse"} : k \notin OfThread /\ k \notin OfProject
  BY DEF Kinds, Births, Adopts, OfThread, OfProject
<1>3. /\ Call("list", Root) \in PlainAsks /\ Call("projects", Root) \in PlainAsks
      /\ <<Call("browse", Root)>> \in Seq(PlainAsks)
  BY <1>1, <1>2, AskType
<1> QED
  BY <1>3

LEMMA PlainMarks ==
    ASSUME NEW cs \in Seq(PlainAsks), NEW kinds, kinds \subseteq Births \cup Adopts
    PROVE  Once(cs, Waiting(kinds)) /\ ~ Has(cs, Waiting(kinds)) /\ cs \in Seq(Calls)
<1>1. \A i \in 1 .. Len(cs) : cs[i] \in PlainAsks
  OBVIOUS
<1>2. \A i \in 1 .. Len(cs) : cs[i] \notin Waiting(kinds)
  BY <1>1 DEF PlainAsks, Waiting
<1>3. PlainAsks \subseteq Calls
  BY DEF PlainAsks, Asks
<1>4. cs \in Seq(Calls)
  BY <1>3, SeqMonotonic
<1> QED
  BY <1>2, <1>4, NoMarks

----------------------------------------------------------------------------
(* The connection.                                                         *)

Seated == UNCHANGED <<server, route, pane, editor, foreign, rail, raced>>

LEMMA SeatedStep ==
    ASSUME UiInv, Seated
    PROVE  ServerType' /\ RailType' /\ PageType' /\ Edits' /\ raced' \subseteq Threads
BY DEF UiInv, UiTypeOK, ServerType, RailType, PageType, Edits, HistoryType, Seated, server

LEMMA ConnectNext ==
    ASSUME UiInv, Connect
    PROVE  UiInv'
<1> USE DEF UiInv, UiTypeOK
<1> DEFINE lists == <<Call("list", Root), Call("projects", Root)>>
           cs == Reads(route) \o lists \o ReloadExpanded
<1>1. /\ dialing' = FALSE /\ link' = "up" /\ conn' = "Online"
      /\ bridge' = bridge \/ bridge' = <<>>
      /\ calls' = calls \o Reads(route) \o lists \o ReloadExpanded
      /\ unread' = FALSE /\ raced' = {} /\ wire' = wire
      /\ UNCHANGED <<threads, given, added, route, pane, editor, foreign, rail>>
  BY DEF Connect, server, page
<1>2. /\ Reads(route) \in Seq(PlainAsks) /\ lists \in Seq(PlainAsks)
      /\ ReloadExpanded \in Seq(PlainAsks)
  BY ReadsType, ListsType, ReloadType DEF PageType
<1>3. cs \in Seq(PlainAsks)
  <2>1. Reads(route) \o lists \in Seq(PlainAsks)
    BY <1>2
  <2> QED
    BY <1>2, <2>1
<1>4. PlainAsks \subseteq Calls
  BY DEF PlainAsks, Asks
<1>5. /\ Reads(route) \in Seq(Calls) /\ lists \in Seq(Calls) /\ ReloadExpanded \in Seq(Calls)
      /\ calls \in Seq(Calls)
  BY <1>2, <1>4, SeqMonotonic DEF QueueType
<1>6. calls \o Reads(route) \o lists \o ReloadExpanded = calls \o cs
  <2> DEFINE r == Reads(route)
             e == ReloadExpanded
  <2> HIDE DEF r, lists, e
  <2>1. calls \in Seq(Calls) /\ r \in Seq(Calls) /\ lists \in Seq(Calls) /\ e \in Seq(Calls)
    BY <1>5 DEF r, lists, e
  <2> DEFINE rl == r \o lists
  <2>2. rl \in Seq(Calls) /\ (calls \o r) \o lists = calls \o rl
    BY <2>1, ConcatAssociative
  <2> HIDE DEF rl
  <2>3. (calls \o rl) \o e = calls \o (rl \o e)
    BY <2>1, <2>2, ConcatAssociative
  <2>4. calls \o r \o lists \o e = calls \o (rl \o e)
    BY <2>2, <2>3
  <2> QED
    BY <2>4 DEF rl, r, e
<1>7. calls' = calls \o cs
  BY <1>1, <1>6
<1> HIDE DEF cs
<1>8. ASSUME NEW kinds, kinds \subseteq Births \cup Adopts
      PROVE  /\ calls' \in Seq(Calls)
             /\ Has(calls', Waiting(kinds)) <=> Has(calls, Waiting(kinds))
             /\ Once(calls, Waiting(kinds)) => Once(calls', Waiting(kinds))
  <2>1. Once(cs, Waiting(kinds)) /\ ~ Has(cs, Waiting(kinds)) /\ cs \in Seq(Calls)
    BY <1>3, <1>8, PlainMarks
  <2> QED
    BY <1>5, <1>7, <2>1, ConcatMarks
<1>9. Births \subseteq Births \cup Adopts /\ Adopts \subseteq Births \cup Adopts
  OBVIOUS
<1>10. Guarded'
  <2>1. ASSUME NEW kinds, kinds \subseteq Births \cup Adopts, NEW guard, Lone(kinds, guard)
        PROVE  Alone(calls', wire', kinds) /\ (guard <=> Some(calls', wire', kinds))
    BY <1>1, <1>8, <2>1 DEF Lone, Alone, Some
  <2>2. Lone(Births, pane.starting) /\ Lone(Adopts, rail.adopting # Root)
    BY DEF Guarded
  <2>3. Alone(calls', wire', Births) /\ (pane.starting <=> Some(calls', wire', Births))
    BY <1>9, <2>1, <2>2
  <2>4. Alone(calls', wire', Adopts) /\ (rail.adopting # Root <=> Some(calls', wire', Adopts))
    BY <1>9, <2>1, <2>2
  <2> QED
    BY <1>1, <2>3, <2>4 DEF Guarded, Lone, Alone, Some
<1>11. QueueType'
  <2>1. <<>> \in Seq(Changes \cup Closes)
    OBVIOUS
  <2> QED
    BY <1>1, <1>8, <1>9, <2>1 DEF QueueType
<1>12. ConnType' /\ Unheard'
  BY <1>1 DEF ConnType, Unheard
<1>13. ServerType' /\ RailType' /\ PageType' /\ Edits' /\ HistoryType'
  BY <1>1 DEF ServerType, RailType, PageType, Edits, HistoryType
<1> QED
  BY <1>10, <1>11, <1>12, <1>13

LEMMA DialNext ==
    ASSUME UiInv, ConnectFailed \/ Retry
    PROVE  UiInv'
<1>1. /\ dialing' \in BOOLEAN /\ conn' \in {"Connecting", "Online", "Offline"}
      /\ UNCHANGED <<link, calls, wire, bridge, unread>> /\ Seated
  BY DEF ConnectFailed, Retry, Seated, page
<1>2. ConnType' /\ QueueType' /\ HistoryType' /\ Unheard' /\ Guarded'
  BY <1>1 DEF UiInv, UiTypeOK, ConnType, QueueType, HistoryType, Unheard, Guarded, Lone, Seated
<1> QED
  BY <1>1, <1>2, SeatedStep DEF UiInv, UiTypeOK

LEMMA OfferNext ==
    ASSUME UiInv, Offer
    PROVE  UiInv'
<1>1. /\ wire # <<>> /\ Head(wire).frame = "changed"
      /\ wire' = Tail(wire) /\ bridge' = Append(bridge, Head(wire))
      /\ UNCHANGED <<conn, link, dialing, calls, unread>> /\ Seated
  BY DEF Offer, Seated, connection, page
<1>2. QueueType /\ ConnType /\ HistoryType /\ Unheard /\ Guarded
  BY DEF UiInv, UiTypeOK
<1>3. Head(wire) \in Changes
  <2>1. Head(wire) \in Answers \cup Changes
    BY <1>1, <1>2, FramesStep
  <2> QED
    BY <1>1, <2>1, Marked
<1>4. ASSUME NEW kinds
      PROVE  /\ wire' \in Seq(Answers \cup Changes)
             /\ Has(wire', Answering(kinds)) <=> Has(wire, Answering(kinds))
             /\ Once(wire, Answering(kinds)) => Once(wire', Answering(kinds))
  <2>1. Head(wire) \notin Answering(kinds)
    BY <1>3, Marked
  <2> QED
    BY <1>1, <1>2, <2>1, TailMarks DEF QueueType
<1>5. Guarded'
  BY <1>1, <1>2, <1>4 DEF Guarded, Lone, Seated
<1>6. QueueType'
  BY <1>1, <1>2, <1>3, <1>4 DEF QueueType
<1>7. ConnType' /\ HistoryType' /\ Unheard'
  BY <1>1, <1>2, SeatedStep DEF ConnType, HistoryType, Unheard
<1> QED
  BY <1>1, <1>5, <1>6, <1>7, SeatedStep DEF UiInv, UiTypeOK

LEMMA ClosedNext ==
    ASSUME UiInv, ConnectionClosed
    PROVE  UiInv'
<1>1. /\ bridge # <<>> /\ bridge' = Tail(bridge) /\ (conn' = conn \/ conn' = "Offline")
      /\ UNCHANGED <<link, dialing, calls, wire, unread>> /\ Seated
  BY DEF ConnectionClosed, Seated, page
<1>2. ConnType' /\ HistoryType' /\ Unheard' /\ Guarded'
  BY <1>1 DEF UiInv, UiTypeOK, ConnType, HistoryType, Unheard, Guarded, Lone, Seated
<1>3. QueueType'
  BY <1>1, TailMarks DEF UiInv, UiTypeOK, QueueType
<1> QED
  BY <1>1, <1>2, <1>3, SeatedStep DEF UiInv, UiTypeOK

\* Who waits fails, and the answers on their way fail.
LEMMA DisconnectNext ==
    ASSUME UiInv, Disconnect
    PROVE  UiInv'
<1> DEFINE I == {i \in DOMAIN wire : wire[i].frame = "answer"}
           J == {i \in DOMAIN calls : calls[i].heard}
           lost == Kept(wire, I)
           waiting == Kept(calls, J)
           first == [k \in DOMAIN lost |-> [lost[k] EXCEPT !.ok = FALSE]]
           second == [k \in DOMAIN waiting |-> Failed(waiting[k])]
<1>1. /\ link' = "down" /\ wire' = first \o second
      /\ calls' = [i \in DOMAIN calls |-> [calls[i] EXCEPT !.heard = FALSE]]
      /\ bridge' = Append(bridge, Close)
      /\ UNCHANGED <<conn, dialing, unread>> /\ Seated
  BY DEF Disconnect, Seated, page
<1>2. QueueType /\ ConnType /\ HistoryType /\ Unheard /\ Guarded
  BY DEF UiInv, UiTypeOK
<1>3. /\ calls \in Seq(Calls) /\ wire \in Seq(Answers \cup Changes)
      /\ Len(calls) \in Nat /\ DOMAIN calls = 1 .. Len(calls)
      /\ Len(wire) \in Nat /\ DOMAIN wire = 1 .. Len(wire)
  BY <1>2 DEF QueueType
<1>4. I \in SUBSET (1 .. Len(wire)) /\ J \in SUBSET (1 .. Len(calls))
  BY <1>3
<1>5. /\ \A i \in I : wire[i] \in Answers
      /\ \A i \in 1 .. Len(wire) : wire[i] \in Answers => i \in I
      /\ \A i \in J : calls[i] \in Calls /\ calls[i].heard
      /\ \A i \in 1 .. Len(calls) : calls[i].heard => i \in J
  <2>1. \A i \in 1 .. Len(wire) : wire[i] \in Answers \cup Changes
    BY <1>3
  <2>2. \A i \in 1 .. Len(calls) : calls[i] \in Calls
    BY <1>3
  <2> QED
    BY <1>3, <2>1, <2>2, Marked
<1> HIDE DEF I, J
<1>6. ASSUME NEW T
      PROVE  /\ lost \in Seq(Answers \cup Changes)
             /\ \A k \in 1 .. Len(lost) : \E i \in I : lost[k] = wire[i]
             /\ Has(lost, T) <=> \E i \in I : wire[i] \in T
             /\ Once(wire, T) => Once(lost, T)
  BY <1>3, <1>4, KeptMarks
<1>7. ASSUME NEW T
      PROVE  /\ waiting \in Seq(Calls)
             /\ \A k \in 1 .. Len(waiting) : \E i \in J : waiting[k] = calls[i]
             /\ Has(waiting, T) <=> \E i \in J : calls[i] \in T
             /\ Once(calls, T) => Once(waiting, T)
  BY <1>3, <1>4, KeptMarks
<1> HIDE DEF lost, waiting
<1>8. /\ Len(lost) \in Nat /\ DOMAIN lost = 1 .. Len(lost)
      /\ Len(waiting) \in Nat /\ DOMAIN waiting = 1 .. Len(waiting)
      /\ \A k \in 1 .. Len(lost) : lost[k] \in Answers
      /\ \A k \in 1 .. Len(waiting) : waiting[k] \in Calls
  <2>1. lost \in Seq(Answers \cup Changes) /\ waiting \in Seq(Calls)
    BY <1>6, <1>7
  <2>2. /\ \A k \in 1 .. Len(lost) : \E i \in I : lost[k] = wire[i]
        /\ \A k \in 1 .. Len(waiting) : \E i \in J : waiting[k] = calls[i]
    BY <1>6, <1>7
  <2> QED
    BY <1>5, <2>1, <2>2
<1>9. /\ first \in Seq(Answers) /\ Len(first) = Len(lost)
      /\ \A k \in 1 .. Len(lost) : first[k].kind = lost[k].kind /\ first[k] \in Answers
  <2>1. ASSUME NEW f \in Answers
        PROVE  [f EXCEPT !.ok = FALSE] \in Answers /\ [f EXCEPT !.ok = FALSE].kind = f.kind
    BY DEF Answers, Frames, PlaceOK
  <2>2. \A k \in 1 .. Len(lost) : first[k] = [lost[k] EXCEPT !.ok = FALSE]
    BY <1>8
  <2>3. first \in [1 .. Len(lost) -> Answers]
    BY <1>8, <2>1
  <2>4. first \in Seq(Answers) /\ Len(first) = Len(lost)
    BY <1>8, <2>3, SeqDef, LenProperties
  <2> QED
    BY <1>8, <2>1, <2>2, <2>4
<1>10. /\ second \in Seq(Answers) /\ Len(second) = Len(waiting)
       /\ \A k \in 1 .. Len(waiting) : second[k].kind = waiting[k].kind /\ second[k] \in Answers
  <2>1. \A k \in 1 .. Len(waiting) : second[k] = Failed(waiting[k])
    BY <1>8
  <2>2. \A k \in 1 .. Len(waiting) : /\ Failed(waiting[k]) \in Answers
                                     /\ Failed(waiting[k]).kind = waiting[k].kind
    BY <1>8, FailedType
  <2>3. second \in [1 .. Len(waiting) -> Answers]
    BY <1>8, <2>2
  <2>4. second \in Seq(Answers) /\ Len(second) = Len(waiting)
    BY <1>8, <2>3, SeqDef, LenProperties
  <2> QED
    BY <2>1, <2>2, <2>4
<1> HIDE DEF first, second
<1>11. ASSUME NEW kinds
       PROVE  /\ Has(first, Answering(kinds)) <=> Has(wire, Answering(kinds))
              /\ Once(wire, Answering(kinds)) => Once(first, Answering(kinds))
              /\ Has(second, Answering(kinds)) <=> Has(calls, Waiting(kinds))
              /\ Once(calls, Waiting(kinds)) => Once(second, Answering(kinds))
  <2>1. \A k \in 1 .. Len(lost) : first[k] \in Answering(kinds) <=> lost[k] \in Answering(kinds)
    BY <1>8, <1>9, Marked
  <2>2. /\ Has(first, Answering(kinds)) <=> Has(lost, Answering(kinds))
        /\ Once(first, Answering(kinds)) <=> Once(lost, Answering(kinds))
    BY <1>9, <2>1, SameMarks
  <2>3. Has(lost, Answering(kinds)) <=> Has(wire, Answering(kinds))
    <3>1. Has(lost, Answering(kinds)) <=> \E i \in I : wire[i] \in Answering(kinds)
      BY <1>6
    <3>2. \A i \in 1 .. Len(wire) : wire[i] \in Answering(kinds) => i \in I
      BY <1>5 DEF Answering
    <3> QED
      BY <1>4, <3>1, <3>2 DEF Has
  <2>4. Once(wire, Answering(kinds)) => Once(lost, Answering(kinds))
    BY <1>6
  <2>5. /\ waiting \in Seq(Calls)
        /\ \A k \in 1 .. Len(waiting) : waiting[k].heard
    BY <1>5, <1>7
  <2>6. \A k \in 1 .. Len(waiting) : second[k] \in Answering(kinds) <=> waiting[k] \in Waiting(kinds)
    BY <1>8, <1>10, <2>5, Marked
  <2>7. /\ Has(second, Answering(kinds)) <=> Has(waiting, Waiting(kinds))
        /\ Once(second, Answering(kinds)) <=> Once(waiting, Waiting(kinds))
    BY <1>10, <2>6, SameMarks
  <2>8. Has(waiting, Waiting(kinds)) <=> Has(calls, Waiting(kinds))
    <3>1. Has(waiting, Waiting(kinds)) <=> \E i \in J : calls[i] \in Waiting(kinds)
      BY <1>7
    <3>2. \A i \in 1 .. Len(calls) : calls[i] \in Waiting(kinds) => i \in J
      BY <1>5 DEF Waiting
    <3> QED
      BY <1>4, <3>1, <3>2 DEF Has
  <2>9. Once(calls, Waiting(kinds)) => Once(waiting, Waiting(kinds))
    BY <1>7
  <2> QED
    BY <2>2, <2>3, <2>4, <2>7, <2>8, <2>9
<1>12. ASSUME NEW kinds
       PROVE  /\ first \o second \in Seq(Answers)
              /\ Has(wire', Answering(kinds))
                    <=> Has(first, Answering(kinds)) \/ Has(second, Answering(kinds))
              /\ Once(first, Answering(kinds)) /\ Once(second, Answering(kinds))
                 /\ ~ (Has(first, Answering(kinds)) /\ Has(second, Answering(kinds)))
                 => Once(wire', Answering(kinds))
  BY <1>1, <1>9, <1>10, ConcatMarks
<1>13. wire' \in Seq(Answers \cup Changes)
  <2>1. first \o second \in Seq(Answers) /\ Answers \subseteq Answers \cup Changes
    BY <1>12
  <2> QED
    BY <1>1, <2>1, SeqMonotonic
<1>14. /\ calls' \in Seq(Calls) /\ Len(calls') = Len(calls)
       /\ \A i \in 1 .. Len(calls) : ~ calls'[i].heard
  <2>1. ASSUME NEW c \in Calls
        PROVE  [c EXCEPT !.heard = FALSE] \in Calls /\ ~ [c EXCEPT !.heard = FALSE].heard
    BY DEF Calls, PlaceOK
  <2>2. \A i \in 1 .. Len(calls) : calls[i] \in Calls /\ calls'[i] = [calls[i] EXCEPT !.heard = FALSE]
    BY <1>1, <1>3
  <2>3. calls' \in [1 .. Len(calls) -> Calls]
    BY <1>1, <1>3, <2>1, <2>2
  <2>4. calls' \in Seq(Calls) /\ Len(calls') = Len(calls)
    BY <1>3, <2>3, SeqDef, LenProperties
  <2> QED
    BY <2>1, <2>2, <2>4
<1>15. ASSUME NEW kinds, NEW guard, Lone(kinds, guard)
       PROVE  Alone(calls', wire', kinds) /\ (guard <=> Some(calls', wire', kinds))
  <2>1. ~ Has(calls', Waiting(kinds)) /\ Once(calls', Waiting(kinds))
    <3>1. \A i \in 1 .. Len(calls') : calls'[i] \notin Waiting(kinds)
      BY <1>14 DEF Waiting
    <3> QED
      BY <3>1, NoMarks
  <2>2. Alone(calls, wire, kinds) /\ (guard <=> Some(calls, wire, kinds))
    BY <1>15, LoneIs
  <2> QED
    BY <1>11, <1>12, <2>1, <2>2 DEF Alone, Some
<1>16. Guarded'
  <2>1. Lone(Births, pane.starting) /\ Lone(Adopts, rail.adopting # Root)
    BY <1>2 DEF Guarded
  <2>2. Alone(calls', wire', Births) /\ (pane.starting <=> Some(calls', wire', Births))
    BY <1>15, <2>1
  <2>3. Alone(calls', wire', Adopts) /\ (rail.adopting # Root <=> Some(calls', wire', Adopts))
    BY <1>15, <2>1
  <2> QED
    BY <1>1, <2>2, <2>3 DEF Guarded, Lone, Alone, Some, Seated
<1>17. QueueType'
  <2>1. Close \in Changes \cup Closes /\ bridge \in Seq(Changes \cup Closes)
    BY <1>2, CloseType DEF QueueType
  <2>2. bridge' \in Seq(Changes \cup Closes)
    BY <1>1, <2>1
  <2> QED
    BY <1>13, <1>14, <2>2 DEF QueueType
<1>18. ConnType' /\ HistoryType' /\ Unheard'
  BY <1>1, <1>2, <1>14, SeatedStep DEF ConnType, HistoryType, Unheard
<1> QED
  BY <1>1, <1>16, <1>17, <1>18, SeatedStep DEF UiInv, UiTypeOK

----------------------------------------------------------------------------
(* A turn of the update loop: it takes an answer or none, changes the model *)
(* and the editor, and sends what it asks.                                  *)

LEMMA TurnStep ==
    ASSUME UiInv, Still, NEW took \in BOOLEAN, took => wire # <<>>,
           NEW cs \in Seq(Asks), Start(cs, Takes(took)),
           Fits(Births, took, cs, pane.starting, pane'.starting),
           Fits(Adopts, took, cs, rail.adopting # Root, rail'.adopting # Root),
           RailType', PageType', Edits'
    PROVE  UiInv'
<1>1. QueueType /\ ConnType /\ Unheard /\ Guarded /\ ServerType /\ HistoryType
  BY DEF UiInv, UiTypeOK
<1>2. UNCHANGED <<threads, given, added, conn, link, dialing, bridge, raced, unread>>
  BY DEF Still, server, connection
<1>3. calls' \in Seq(Calls) /\ wire' \in Seq(Answers \cup Changes) /\ Unheard' /\ Guarded'
  BY <1>1, <1>2, UiStep
<1>4. ServerType' /\ ConnType' /\ HistoryType'
  BY <1>1, <1>2 DEF ServerType, ConnType, HistoryType
<1>5. QueueType'
  BY <1>1, <1>2, <1>3 DEF QueueType
<1> QED
  BY <1>3, <1>4, <1>5 DEF UiInv, UiTypeOK

\* Most turns begin and end neither a thread nor an adoption.
Plain(took) ==
    took => wire # <<>> /\ (Head(wire) \in Answers => Head(wire).kind \notin Births \cup Adopts)

LEMMA PlainTurn ==
    ASSUME UiInv, Still, NEW took \in BOOLEAN, Plain(took),
           NEW cs \in Seq(PlainAsks), Start(cs, Takes(took)),
           pane'.starting = pane.starting, rail'.adopting = rail.adopting,
           RailType', PageType', Edits'
    PROVE  UiInv'
<1>1. QueueType /\ ConnType /\ Unheard /\ Guarded /\ ServerType /\ HistoryType
  BY DEF UiInv, UiTypeOK
<1>2. UNCHANGED <<threads, given, added, conn, link, dialing, bridge, raced, unread>>
  BY DEF Still, server, connection
<1>3. calls' \in Seq(Calls) /\ wire' \in Seq(Answers \cup Changes) /\ Unheard' /\ Guarded'
  BY <1>1, <1>2, PlainStep DEF Plain
<1>4. ServerType' /\ ConnType' /\ HistoryType'
  BY <1>1, <1>2 DEF ServerType, ConnType, HistoryType
<1>5. QueueType'
  BY <1>1, <1>2, <1>3 DEF QueueType
<1> QED
  BY <1>3, <1>4, <1>5 DEF UiInv, UiTypeOK

\* The page stays; the pane and the editor may change.
LEMMA HereType ==
    ASSUME UiInv, NEW p \in Panes, NEW e \in Editors, Agrees(route, p, e),
           NEW cs, NEW frames, Here(p, e, cs, frames)
    PROVE  PageType' /\ Edits' /\ pane' = p /\ Start(cs, frames)
<1>1. pane' = p /\ editor' = e /\ route' = route /\ foreign' = foreign /\ Start(cs, frames)
  BY DEF Here
<1>2. Edits'
  BY <1>1 DEF Edits, Agrees
<1> QED
  BY <1>1, <1>2 DEF UiInv, UiTypeOK, PageType

LEMMA HereTurn ==
    ASSUME UiInv, Still, NEW took \in BOOLEAN, Plain(took), NEW cs \in Seq(PlainAsks),
           NEW p \in Panes, NEW e \in Editors, Agrees(route, p, e), p.starting = pane.starting,
           Here(p, e, cs, Takes(took)), RailType', rail'.adopting = rail.adopting
    PROVE  UiInv'
<1>1. PageType' /\ Edits' /\ pane' = p /\ Start(cs, Takes(took))
  BY HereType
<1> QED
  BY <1>1, PlainTurn

LEMMA SamePane ==
    ASSUME UiInv
    PROVE  /\ pane \in Panes /\ editor \in Editors /\ Agrees(route, pane, editor)
           /\ RailType /\ (rail' = rail => RailType' /\ rail'.adopting = rail.adopting)
BY DEF UiInv, UiTypeOK, PageType, Edits, RailType

\* Another page is opened, and its thread read.
LEMMA RouteType ==
    ASSUME UiInv, NEW to \in Pages, NEW p \in Panes, NEW e \in Editors,
           to = Root /\ e.kind = "welcome" => e.editable = ~p.starting,
           NEW frames, ApplyRoute(to, p, e, <<>>, frames)
    PROVE  /\ PageType' /\ Edits' /\ pane'.starting = p.starting
           /\ \E cs \in Seq(PlainAsks) : Start(cs, frames)
<1>1. /\ route' = to /\ pane' = InformRouteChanged(p, to) /\ editor' = Mounted(e, p, to)
      /\ foreign' = FALSE
      /\ Start(<<>> \o (IF conn = "Online" THEN Reads(to) ELSE <<>>), frames)
  BY DEF ApplyRoute
<1>2. <<>> \o (IF conn = "Online" THEN Reads(to) ELSE <<>>) \in Seq(PlainAsks)
  <2>1. (IF conn = "Online" THEN Reads(to) ELSE <<>>) \in Seq(PlainAsks)
    BY ReadsType, NoAsks
  <2> QED
    BY <2>1, NoAsks
<1>3. NoInfo \in Known
  BY NoInfoType
<1>4. /\ pane' \in Panes /\ pane'.id = to /\ pane'.info = NoInfo /\ pane'.starting = p.starting
  BY <1>1, <1>3 DEF InformRouteChanged, Reset, Panes
<1>5. /\ editor' \in Editors /\ editor'.kind = Kind(to)
      /\ to = Root => editor'.editable = ~p.starting
  <2>1. CASE e.kind = Kind(to)
    BY <1>1, <2>1 DEF Mounted, Kind
  <2>2. CASE e.kind # Kind(to)
    <3>1. /\ editor' = [kind |-> Kind(to), text |-> p.composer,
                        editable |-> to # Root \/ ~p.starting]
          /\ p.composer \in Words \cup {""} /\ p.starting \in BOOLEAN
      BY <1>1, <2>2 DEF Mounted, Panes
    <3> QED
      BY <3>1 DEF Editors, Kind
  <2> QED
    BY <2>1, <2>2
<1>6. PageType'
  BY <1>1, <1>4, <1>5 DEF PageType
<1>7. Edits'
  BY <1>1, <1>4, <1>5 DEF Edits, Agrees
<1> QED
  BY <1>1, <1>2, <1>4, <1>6, <1>7

LEMMA RouteTurn ==
    ASSUME UiInv, Still, NEW took \in BOOLEAN, Plain(took), NEW to \in Pages,
           ApplyRoute(to, pane, editor, <<>>, Takes(took)),
           RailType', rail'.adopting = rail.adopting
    PROVE  UiInv'
<1>1. to = Root /\ editor.kind = "welcome" => editor.editable = ~pane.starting
  BY SamePane DEF Agrees, Kind
<1>2. pane \in Panes /\ editor \in Editors
  BY SamePane
<1>3. /\ PageType' /\ Edits' /\ pane'.starting = pane.starting
      /\ \E cs \in Seq(PlainAsks) : Start(cs, Takes(took))
  BY <1>1, <1>2, RouteType
<1> QED
  BY <1>3, PlainTurn

\* The answer that lands.
LEMMA LandedType ==
    ASSUME UiInv, NEW kind \in Kinds, NEW ok \in BOOLEAN, Landed(kind, ok)
    PROVE  /\ wire # <<>> /\ Head(wire) \in Answers /\ Head(wire).kind = kind
           /\ Takes(TRUE) = Tail(wire)
           /\ kind \in OfThread => On \in Threads
           /\ kind \in OfProject => On \in Projects
           /\ ok => /\ kind = "list" => Value \in Tables
                    /\ kind = "projects" => Value \in SUBSET Projects
                    /\ kind \in Threaded => Of \in Threads /\ Value \in Infos
<1>1. wire # <<>> /\ Head(wire).frame = "answer" /\ Head(wire).kind = kind /\ Head(wire).ok = ok
  BY DEF Landed
<1>2. Head(wire) \in Answers \cup Changes
  BY <1>1, FramesStep DEF UiInv, UiTypeOK
<1>3. Head(wire) \in Answers
  BY <1>1, <1>2, Marked
<1>4. PlaceOK(Head(wire)) /\ (ok => ValueOK(Head(wire)))
  BY <1>1, <1>3 DEF Answers
<1> QED
  BY <1>1, <1>3, <1>4 DEF PlaceOK, ValueOK, Takes, On, Of, Value

LEMMA PlainLanded ==
    ASSUME UiInv, NEW kind \in Kinds \ (Births \cup Adopts), NEW ok \in BOOLEAN, Landed(kind, ok)
    PROVE  Plain(TRUE)
BY LandedType DEF Plain

\* A plain answer that changes the rail, or the pane.
LEMMA RailLanding ==
    ASSUME UiInv, Still, NEW kind \in Kinds \ (Births \cup Adopts), NEW ok \in BOOLEAN,
           Landed(kind, ok), NEW cs \in Seq(PlainAsks), Here(pane, editor, cs, Tail(wire)),
           RailType', rail'.adopting = rail.adopting
    PROVE  UiInv'
<1>1. Takes(TRUE) = Tail(wire) /\ Plain(TRUE)
  BY LandedType, PlainLanded
<1>2. Here(pane, editor, cs, Takes(TRUE))
  BY <1>1
<1> QED
  BY <1>1, <1>2, SamePane, HereTurn

LEMMA PaneLanding ==
    ASSUME UiInv, Still, NEW kind \in Kinds \ (Births \cup Adopts), NEW ok \in BOOLEAN,
           Landed(kind, ok), NEW p \in Panes, NEW e \in Editors, Agrees(route, p, e),
           p.starting = pane.starting, Here(p, e, <<>>, Tail(wire)), rail' = rail
    PROVE  UiInv'
<1>1. Takes(TRUE) = Tail(wire) /\ Plain(TRUE)
  BY LandedType, PlainLanded
<1>2. Here(p, e, <<>>, Takes(TRUE))
  BY <1>1
<1> QED
  BY <1>1, <1>2, SamePane, HereTurn, NoAsks

----------------------------------------------------------------------------
(* The rail.                                                               *)

LEMMA UpsertType ==
    ASSUME UiInv, NEW t \in Threads, NEW info \in Known
    PROVE  UpsertThread(rail.list, t, info)
              \in [tag : {"Idle", "Success", "Failure"}, rows : Tables]
<1>1. rail.list \in [tag : {"Idle", "Success", "Failure"}, rows : Tables]
  BY DEF UiInv, UiTypeOK, RailType, Rails
<1>2. [rail.list.rows EXCEPT ![t] = info] \in Tables
  BY <1>1 DEF Tables
<1>3. [rail.list EXCEPT !.rows[t] = info] \in [tag : {"Idle", "Success", "Failure"}, rows : Tables]
  BY <1>1, <1>2
<1> QED
  BY <1>1, <1>3 DEF UpsertThread

LEMMA ExpandedType ==
    ASSUME UiInv, NEW p \in Projects
    PROVE  /\ rail.expanded \cup {p} \in SUBSET Projects /\ IsFiniteSet(rail.expanded \cup {p})
           /\ rail.expanded \ {p} \in SUBSET Projects /\ IsFiniteSet(rail.expanded \ {p})
<1>1. rail.expanded \in SUBSET Projects /\ IsFiniteSet(rail.expanded)
  BY DEF UiInv, UiTypeOK, RailType, Rails
<1>2. IsFiniteSet(rail.expanded \cup {p}) /\ IsFiniteSet(rail.expanded \ {p})
  BY <1>1, FS_AddElement, FS_RemoveElement
<1> QED
  BY <1>1, <1>2

LEMMA ThreadChangedNext ==
    ASSUME UiInv, ThreadChanged
    PROVE  UiInv'
<1> DEFINE f == Head(bridge)
<1>1. /\ bridge # <<>> /\ f.frame = "changed" /\ bridge' = Tail(bridge)
      /\ rail' = [rail EXCEPT !.list = UpsertThread(@, f.on, f.value)]
      /\ IF pane.id = f.on
         THEN /\ pane' = [pane EXCEPT !.info = f.value]
              /\ editor' = SetEditable(editor, "thread", ~Busy(f.value))
         ELSE UNCHANGED <<pane, editor>>
      /\ UNCHANGED <<threads, given, added, conn, link, dialing, calls, wire, route, foreign,
                     raced, unread>>
  BY DEF ThreadChanged, server, connection
<1>2. bridge' \in Seq(Changes \cup Closes) /\ f \in Changes \cup Closes
  BY <1>1, TailMarks DEF UiInv, UiTypeOK, QueueType
<1>3. f \in Changes
  BY <1>1, <1>2, Marked
<1>4. f.on \in Threads /\ f.value \in Infos /\ f.value \in Known
  BY <1>3 DEF Changes, Known
<1> HIDE DEF f
<1>5. RailType' /\ rail'.adopting = rail.adopting
  <2> DEFINE list == UpsertThread(rail.list, f.on, f.value)
  <2>1. list \in [tag : {"Idle", "Success", "Failure"}, rows : Tables]
    BY <1>4, UpsertType
  <2>2. rail' = [rail EXCEPT !.list = list]
    BY <1>1
  <2> HIDE DEF list
  <2>3. RailType'
    BY <2>1, <2>2 DEF UiInv, UiTypeOK, RailType, Rails
  <2>4. rail'.adopting = rail.adopting
    BY <2>2 DEF UiInv, UiTypeOK, RailType, Rails
  <2> QED
    BY <2>3, <2>4
<1>6. pane \in Panes /\ editor \in Editors /\ Agrees(route, pane, editor)
  BY SamePane
<1>7. PageType' /\ Edits' /\ pane'.starting = pane.starting
  <2>1. CASE pane.id = f.on
    <3>1. /\ pane' = [pane EXCEPT !.info = f.value]
          /\ editor' = [editor EXCEPT !.editable = ~Busy(f.value)]
      <4>1. route \in Threads /\ editor.kind = "thread"
        BY <1>4, <1>6, <2>1, NoInfoType DEF Agrees, Kind
      <4> QED
        BY <1>1, <2>1, <4>1 DEF SetEditable
    <3>2. /\ pane' \in Panes /\ editor' \in Editors /\ pane'.starting = pane.starting
          /\ pane'.id = pane.id /\ pane'.info = f.value
          /\ editor'.kind = editor.kind /\ editor'.editable = ~Busy(f.value)
      BY <1>4, <1>6, <3>1 DEF Panes, Editors, Busy
    <3>3. route # Root
      BY <1>4, <1>6, <2>1, NoInfoType DEF Agrees
    <3>4. PageType'
      BY <1>1, <3>2 DEF UiInv, UiTypeOK, PageType
    <3>5. Edits'
      BY <1>1, <1>6, <3>2, <3>3 DEF Edits, Agrees
    <3> QED
      BY <3>2, <3>4, <3>5
  <2>2. CASE pane.id # f.on
    BY <1>1, <1>6, <2>2 DEF UiInv, UiTypeOK, PageType, Edits, Agrees
  <2> QED
    BY <2>1, <2>2
<1>8. Unheard' /\ Guarded'
  BY <1>1, <1>5, <1>7 DEF UiInv, Unheard, Guarded, Lone
<1>9. ServerType' /\ ConnType' /\ HistoryType' /\ QueueType'
  BY <1>1, <1>2 DEF UiInv, UiTypeOK, ServerType, ConnType, HistoryType, QueueType
<1> QED
  BY <1>5, <1>7, <1>8, <1>9 DEF UiInv, UiTypeOK

\* Who asked for a listing, a project or a level sees it on the rail.
LEMMA ListedNext ==
    ASSUME UiInv, Still, ThreadsListed \/ ProjectsListed
    PROVE  UiInv'
<1> DEFINE Lists == [tag : {"Idle", "Success", "Failure"}, rows : Tables]
<1>0. rail \in Rails /\ IsFiniteSet(rail.expanded)
  BY DEF UiInv, UiTypeOK, RailType
<1>1. {"list", "projects"} \subseteq Kinds \ (Births \cup Adopts)
  BY DEF Kinds, Births, Adopts
<1>2. <<>> \in Seq(PlainAsks) /\ ReloadExpanded \in Seq(PlainAsks)
  BY NoAsks, ReloadType DEF UiInv, UiTypeOK
<1>3. ASSUME NEW ok \in BOOLEAN, NEW rows \in Tables, NEW tag \in {"Success", "Failure"},
             Landed("list", ok), rail' = [rail EXCEPT !.list = [tag |-> tag, rows |-> rows]],
             Here(pane, editor, <<>>, Tail(wire))
      PROVE  UiInv'
  <2>1. RailType' /\ rail'.adopting = rail.adopting
    BY <1>0, <1>3 DEF RailType, Rails
  <2> QED
    BY <1>1, <1>2, <1>3, <2>1, RailLanding
<1>4. ASSUME NEW ok \in BOOLEAN, NEW paths \in SUBSET Projects, NEW tag \in {"Success", "Failure"},
             NEW cs \in Seq(PlainAsks), Landed("projects", ok),
             rail' = [rail EXCEPT !.projects = [tag |-> tag, paths |-> paths]],
             Here(pane, editor, cs, Tail(wire))
      PROVE  UiInv'
  <2>1. RailType' /\ rail'.adopting = rail.adopting
    BY <1>0, <1>4 DEF RailType, Rails
  <2> QED
    BY <1>1, <1>4, <2>1, RailLanding
<1>5. CASE ThreadsListed
  <2>1. CASE Landed("list", TRUE)
    <3>1. Value \in Tables /\ Head(wire).ok
      <4>1. "list" \in Kinds
        BY DEF Kinds
      <4> QED
        BY <2>1, <4>1, LandedType DEF Landed
    <3>2. /\ rail' = [rail EXCEPT !.list = [tag |-> "Success", rows |-> Value]]
          /\ Here(pane, editor, <<>>, Tail(wire))
      BY <1>5, <2>1, <3>1 DEF ThreadsListed, Landed
    <3> QED
      BY <1>3, <2>1, <3>1, <3>2
  <2>2. CASE ~ Landed("list", TRUE)
    <3>1. /\ Landed("list", FALSE)
          /\ rail' = [rail EXCEPT !.list = [tag |-> "Failure", rows |-> NoRows]]
          /\ Here(pane, editor, <<>>, Tail(wire))
      BY <1>5, <2>2 DEF ThreadsListed
    <3> QED
      BY <1>3, <3>1, NoInfoType
  <2> QED
    BY <2>1, <2>2
<1>6. CASE ProjectsListed
  <2>1. CASE /\ Landed("projects", TRUE)
             /\ rail' = [rail EXCEPT !.projects = [tag |-> "Success", paths |-> Value]]
             /\ Here(pane, editor, ReloadExpanded, Tail(wire))
    <3>1. Value \in SUBSET Projects
      <4>1. "projects" \in Kinds
        BY DEF Kinds
      <4> QED
        BY <2>1, <4>1, LandedType
    <3> QED
      BY <1>2, <1>4, <2>1, <3>1
  <2>2. CASE /\ Landed("projects", FALSE)
             /\ rail' = [rail EXCEPT !.projects = [tag |-> "Failure", paths |-> {}]]
             /\ Here(pane, editor, <<>>, Tail(wire))
    <3>1. {} \in SUBSET Projects
      OBVIOUS
    <3> QED
      BY <1>2, <1>4, <2>2, <3>1
  <2> QED
    BY <1>6, <2>1, <2>2 DEF ProjectsListed
<1> QED
  BY <1>5, <1>6

LEMMA SessionsNext ==
    ASSUME UiInv, Still, ProjectSessionsListed \/ PickerBrowseListed
    PROVE  UiInv'
<1>0. rail \in Rails /\ IsFiniteSet(rail.expanded)
  BY DEF UiInv, UiTypeOK, RailType
<1>1. {"sessions", "browse"} \subseteq Kinds \ (Births \cup Adopts) /\ {"sessions", "browse"} \subseteq Kinds
      /\ "sessions" \in OfProject
  BY DEF Kinds, Births, Adopts, OfProject
<1>2. CASE ProjectSessionsListed
  <2>1. PICK ok \in BOOLEAN :
          /\ Landed("sessions", ok)
          /\ rail' = [rail EXCEPT !.sessions[On] = IF ok THEN "Success" ELSE "Failure"]
          /\ Here(pane, editor, <<>>, Tail(wire))
    BY <1>2 DEF ProjectSessionsListed
  <2>2. On \in Projects
    BY <1>1, <2>1, LandedType
  <2> DEFINE sessions == [rail.sessions EXCEPT ![On] = IF ok THEN "Success" ELSE "Failure"]
  <2>3. sessions \in [Projects -> {"none", "Success", "Failure"}]
    BY <1>0, <2>2 DEF Rails
  <2>4. rail' = [rail EXCEPT !.sessions = sessions]
    BY <1>0, <2>1 DEF Rails
  <2> HIDE DEF sessions
  <2>5. RailType' /\ rail'.adopting = rail.adopting
    BY <1>0, <2>3, <2>4 DEF RailType, Rails
  <2> QED
    BY <1>1, <2>1, <2>5, NoAsks, RailLanding
<1>3. CASE PickerBrowseListed
  <2>1. PICK ok \in BOOLEAN :
          /\ Landed("browse", ok)
          /\ rail' = [rail EXCEPT !.picker = IF ok THEN "Success" ELSE "Failure"]
          /\ Here(pane, editor, <<>>, Tail(wire))
    BY <1>3 DEF PickerBrowseListed
  <2>2. RailType' /\ rail'.adopting = rail.adopting
    BY <1>0, <2>1 DEF RailType, Rails
  <2> QED
    BY <1>1, <2>1, <2>2, NoAsks, RailLanding
<1> QED
  BY <1>2, <1>3

\* A row follows the answer of its gesture.
LEMMA ThreadLandedNext ==
    ASSUME UiInv, Still, ThreadLanded
    PROVE  UiInv'
<1>0. rail \in Rails /\ IsFiniteSet(rail.expanded)
  BY DEF UiInv, UiTypeOK, RailType
<1>1. PICK kind \in {"rename", "archive", "unarchive"} :
        \/ /\ Landed(kind, TRUE)
           /\ rail' = [rail EXCEPT !.list = UpsertThread(@, Of, Value)]
           /\ Here(pane, editor, <<>>, Tail(wire))
        \/ /\ Landed(kind, FALSE)
           /\ rail' = [rail EXCEPT !.renaming = IF kind = "rename" THEN Root ELSE @]
           /\ Here(pane, editor, <<>>, Tail(wire))
  BY DEF ThreadLanded
<1>2. kind \in Kinds /\ kind \in Kinds \ (Births \cup Adopts) /\ kind \in Threaded
  BY <1>1 DEF Kinds, Births, Adopts, Threaded
<1>3. CASE /\ Landed(kind, TRUE)
           /\ rail' = [rail EXCEPT !.list = UpsertThread(@, Of, Value)]
           /\ Here(pane, editor, <<>>, Tail(wire))
  <2>1. Of \in Threads /\ Value \in Known
    BY <1>2, <1>3, LandedType DEF Known
  <2> DEFINE list == UpsertThread(rail.list, Of, Value)
  <2>2. list \in [tag : {"Idle", "Success", "Failure"}, rows : Tables]
    BY <2>1, UpsertType
  <2>3. rail' = [rail EXCEPT !.list = list]
    BY <1>3
  <2> HIDE DEF list
  <2>4. RailType' /\ rail'.adopting = rail.adopting
    BY <1>0, <2>2, <2>3 DEF RailType, Rails
  <2> QED
    BY <1>2, <1>3, <2>4, NoAsks, RailLanding
<1>4. CASE /\ Landed(kind, FALSE)
           /\ rail' = [rail EXCEPT !.renaming = IF kind = "rename" THEN Root ELSE @]
           /\ Here(pane, editor, <<>>, Tail(wire))
  <2>1. RailType' /\ rail'.adopting = rail.adopting
    BY <1>0, <1>4 DEF RailType, Rails, Pages
  <2> QED
    BY <1>2, <1>4, <2>1, NoAsks, RailLanding
<1> QED
  BY <1>1, <1>3, <1>4

LEMMA ThreadDeletedNext ==
    ASSUME UiInv, Still, ThreadDeleted
    PROVE  UiInv'
<1>0. rail \in Rails /\ IsFiniteSet(rail.expanded)
  BY DEF UiInv, UiTypeOK, RailType
<1>1. "delete" \in Kinds /\ "delete" \in Kinds \ (Births \cup Adopts) /\ "delete" \in OfThread
  BY DEF Kinds, Births, Adopts, OfThread
<1>2. CASE /\ Landed("delete", TRUE)
           /\ rail' = [rail EXCEPT !.list = UpsertThread(@, On, NoInfo)]
           /\ IF route = On THEN ApplyRoute(Root, pane, editor, <<>>, Tail(wire))
              ELSE Here(pane, editor, <<>>, Tail(wire))
  <2>1. On \in Threads /\ NoInfo \in Known /\ Takes(TRUE) = Tail(wire) /\ Plain(TRUE)
    BY <1>1, <1>2, LandedType, PlainLanded, NoInfoType
  <2> DEFINE list == UpsertThread(rail.list, On, NoInfo)
  <2>2. list \in [tag : {"Idle", "Success", "Failure"}, rows : Tables]
    BY <2>1, UpsertType
  <2>3. rail' = [rail EXCEPT !.list = list]
    BY <1>2
  <2> HIDE DEF list
  <2>4. RailType' /\ rail'.adopting = rail.adopting
    BY <1>0, <2>2, <2>3 DEF RailType, Rails
  <2>5. CASE route = On
    <3>1. ApplyRoute(Root, pane, editor, <<>>, Takes(TRUE)) /\ Root \in Pages
      BY <1>2, <2>1, <2>5 DEF Pages
    <3> QED
      BY <2>1, <2>4, <3>1, RouteTurn
  <2>6. CASE route # On
    BY <1>1, <1>2, <2>4, <2>6, NoAsks, RailLanding
  <2> QED
    BY <2>5, <2>6
<1>3. CASE /\ Landed("delete", FALSE)
           /\ UNCHANGED rail
           /\ Here(pane, editor, <<>>, Tail(wire))
  BY <1>1, <1>3, SamePane, NoAsks, RailLanding
<1> QED
  BY <1>2, <1>3 DEF ThreadDeleted

LEMMA ProjectLandedNext ==
    ASSUME UiInv, Still, ProjectAdded \/ ProjectRemoved
    PROVE  UiInv'
<1>0. rail \in Rails /\ IsFiniteSet(rail.expanded)
  BY DEF UiInv, UiTypeOK, RailType
<1>1. /\ {"add", "remove"} \subseteq Kinds \ (Births \cup Adopts)
      /\ {"add", "remove"} \subseteq Kinds /\ {"add", "remove"} \subseteq OfProject
  BY DEF Kinds, Births, Adopts, OfProject
<1>2. ASSUME Landed("add", FALSE) \/ Landed("remove", FALSE), rail' = rail,
             Here(pane, editor, <<>>, Tail(wire))
      PROVE  UiInv'
  BY <1>1, <1>2, SamePane, NoAsks, RailLanding
<1>3. CASE /\ Landed("add", TRUE)
           /\ rail' = [rail EXCEPT
                  !.dialog = FALSE, !.expanded = @ \cup {On},
                  !.picker = IF rail.dialog THEN "Idle" ELSE @,
                  !.projects.paths = IF rail.projects.tag = "Success" THEN @ \cup {On} ELSE @]
           /\ Here(pane, editor, <<Call("sessions", On)>>, Tail(wire))
  <2>1. On \in Projects
    BY <1>1, <1>3, LandedType
  <2>2. /\ rail.expanded \cup {On} \in SUBSET Projects /\ IsFiniteSet(rail.expanded \cup {On})
    BY <2>1, ExpandedType
  <2> DEFINE paths == IF rail.projects.tag = "Success" THEN rail.projects.paths \cup {On}
                      ELSE rail.projects.paths
             projects == [rail.projects EXCEPT !.paths = paths]
             expanded == rail.expanded \cup {On}
             picker == IF rail.dialog THEN "Idle" ELSE rail.picker
  <2>3. paths \in SUBSET Projects /\ picker \in {"Idle", "Success", "Failure"}
    BY <1>0, <2>1 DEF Rails
  <2>4. projects \in [tag : {"Idle", "Success", "Failure"}, paths : SUBSET Projects]
    <3> HIDE DEF paths
    <3> QED
      BY <1>0, <2>3 DEF Rails
  <2>5. rail' = [rail EXCEPT !.dialog = FALSE, !.expanded = expanded, !.picker = picker,
                             !.projects = projects]
    BY <1>0, <1>3 DEF Rails
  <2>6. expanded \in SUBSET Projects /\ IsFiniteSet(expanded)
    BY <2>2
  <2> HIDE DEF paths, projects, expanded, picker
  <2>7. RailType' /\ rail'.adopting = rail.adopting
    BY <1>0, <2>3, <2>4, <2>5, <2>6 DEF RailType, Rails
  <2>8. <<Call("sessions", On)>> \in Seq(PlainAsks)
    <3>1. /\ "sessions" \in Kinds \ (Births \cup Adopts) /\ "sessions" \notin OfThread
          /\ On \in Places
      BY <2>1 DEF Kinds, Births, Adopts, OfThread, Places
    <3> QED
      BY <2>1, <3>1, AskType
  <2> QED
    BY <1>1, <1>3, <2>7, <2>8, RailLanding
<1>4. CASE /\ Landed("remove", TRUE)
           /\ rail' = [rail EXCEPT !.expanded = @ \ {On}, !.sessions[On] = "none",
                                   !.projects.paths = @ \ {On}]
           /\ Here(pane, editor, <<>>, Tail(wire))
  <2>1. On \in Projects
    BY <1>1, <1>4, LandedType
  <2>2. rail.expanded \ {On} \in SUBSET Projects /\ IsFiniteSet(rail.expanded \ {On})
    BY <2>1, ExpandedType
  <2> DEFINE projects == [rail.projects EXCEPT !.paths = rail.projects.paths \ {On}]
             expanded == rail.expanded \ {On}
             sessions == [rail.sessions EXCEPT ![On] = "none"]
  <2>3. projects \in [tag : {"Idle", "Success", "Failure"}, paths : SUBSET Projects]
    BY <1>0 DEF Rails
  <2>4. sessions \in [Projects -> {"none", "Success", "Failure"}]
    BY <1>0, <2>1 DEF Rails
  <2>5. rail' = [rail EXCEPT !.expanded = expanded, !.sessions = sessions, !.projects = projects]
    BY <1>0, <1>4 DEF Rails
  <2>6. expanded \in SUBSET Projects /\ IsFiniteSet(expanded)
    BY <2>2
  <2> HIDE DEF projects, expanded, sessions
  <2>7. RailType' /\ rail'.adopting = rail.adopting
    BY <1>0, <2>3, <2>4, <2>5, <2>6 DEF RailType, Rails
  <2> QED
    BY <1>1, <1>4, <2>7, NoAsks, RailLanding
<1> QED
  BY <1>2, <1>3, <1>4 DEF ProjectAdded, ProjectRemoved

\* The adoption ends, whatever came of it.
LEMMA AdoptedNext ==
    ASSUME UiInv, Still, PiSessionAdopted
    PROVE  UiInv'
<1>0. rail \in Rails /\ IsFiniteSet(rail.expanded)
  BY DEF UiInv, UiTypeOK, RailType
<1>1. "adopt" \in Kinds /\ "adopt" \in Threaded /\ "adopt" \in Adopts /\ "adopt" \notin Births
  BY DEF Kinds, Births, Adopts, Threaded
<1>2. Births \subseteq Births \cup Adopts /\ Adopts \subseteq Births \cup Adopts
  OBVIOUS
<1>3. ASSUME NEW ok \in BOOLEAN, Landed("adopt", ok), rail'.adopting = Root, RailType',
             PageType', Edits', pane'.starting = pane.starting,
             NEW cs \in Seq(PlainAsks), Start(cs, Tail(wire))
      PROVE  UiInv'
  <2>1. /\ wire # <<>> /\ Head(wire) \in Answers /\ Head(wire).kind = "adopt"
        /\ Takes(TRUE) = Tail(wire)
    BY <1>1, <1>3, LandedType
  <2>2. Head(wire) \in Answering(Adopts) /\ Head(wire) \notin Answering(Births)
    BY <1>1, <2>1, Marked
  <2>3. /\ Once(cs, Waiting(Births)) /\ ~ Has(cs, Waiting(Births))
        /\ Once(cs, Waiting(Adopts)) /\ ~ Has(cs, Waiting(Adopts))
    BY <1>2, <1>3, PlainMarks
  <2>4. Fits(Births, TRUE, cs, pane.starting, pane'.starting)
    BY <1>3, <2>2, <2>3 DEF Fits
  <2>5. Fits(Adopts, TRUE, cs, rail.adopting # Root, rail'.adopting # Root)
    BY <1>3, <2>2, <2>3 DEF Fits
  <2>6. cs \in Seq(Asks)
    <3>1. PlainAsks \subseteq Asks
      BY DEF PlainAsks
    <3> QED
      BY <1>3, <3>1, SeqMonotonic
  <2>7. Start(cs, Takes(TRUE))
    BY <1>3, <2>1
  <2> QED
    BY <1>3, <2>1, <2>4, <2>5, <2>6, <2>7, TurnStep
<1>4. CASE /\ Landed("adopt", TRUE)
           /\ rail' = [rail EXCEPT !.adopting = Root, !.list = UpsertThread(@, Of, Value)]
           /\ ApplyRoute(Of, pane, editor, <<>>, Tail(wire))
  <2>1. Of \in Threads /\ Value \in Known /\ Of \in Pages
    BY <1>1, <1>4, LandedType DEF Known, Pages
  <2> DEFINE list == UpsertThread(rail.list, Of, Value)
  <2>2. list \in [tag : {"Idle", "Success", "Failure"}, rows : Tables]
    BY <2>1, UpsertType
  <2>3. rail' = [rail EXCEPT !.adopting = Root, !.list = list]
    BY <1>4
  <2> HIDE DEF list
  <2>4. RailType' /\ rail'.adopting = Root
    BY <1>0, <2>2, <2>3 DEF RailType, Rails
  <2>5. Of # Root
    BY <2>1, NoInfoType
  <2>6. /\ PageType' /\ Edits' /\ pane'.starting = pane.starting
        /\ \E cs \in Seq(PlainAsks) : Start(cs, Tail(wire))
    BY <1>4, <2>1, <2>5, SamePane, RouteType
  <2> QED
    BY <1>3, <1>4, <2>4, <2>6
<1>5. CASE /\ Landed("adopt", FALSE)
           /\ rail' = [rail EXCEPT !.adopting = Root]
           /\ Here(pane, editor,
                   <<Call("list", Root), Call("projects", Root)>>
                   \o (IF rail.adopting \in rail.projects.paths
                       THEN <<Call("sessions", rail.adopting)>> ELSE <<>>),
                   Tail(wire))
  <2> DEFINE more == IF rail.adopting \in rail.projects.paths
                     THEN <<Call("sessions", rail.adopting)>> ELSE <<>>
  <2>1. more \in Seq(PlainAsks)
    <3>1. CASE rail.adopting \in rail.projects.paths
      <4>1. rail.adopting \in Projects /\ rail.adopting \in Places
        BY <1>0, <3>1 DEF Rails, Places
      <4>2. "sessions" \in Kinds \ (Births \cup Adopts) /\ "sessions" \notin OfThread
        BY DEF Kinds, Births, Adopts, OfThread
      <4> QED
        BY <3>1, <4>1, <4>2, AskType
    <3>2. CASE rail.adopting \notin rail.projects.paths
      BY <3>2, NoAsks
    <3> QED
      BY <3>1, <3>2
  <2> HIDE DEF more
  <2>2. <<Call("list", Root), Call("projects", Root)>> \o more \in Seq(PlainAsks)
    BY <2>1, ListsType
  <2>3. RailType' /\ rail'.adopting = Root
    BY <1>0, <1>5 DEF RailType, Rails
  <2>4. /\ PageType' /\ Edits' /\ pane' = pane
        /\ Start(<<Call("list", Root), Call("projects", Root)>> \o more, Tail(wire))
    <3>1. Here(pane, editor, <<Call("list", Root), Call("projects", Root)>> \o more, Tail(wire))
      BY <1>5 DEF more
    <3> QED
      BY <3>1, SamePane, HereType
  <2> QED
    BY <1>3, <1>5, <2>2, <2>3, <2>4
<1> QED
  BY <1>4, <1>5 DEF PiSessionAdopted

LEMMA RailLandsNext ==
    ASSUME UiInv, RailLands
    PROVE  UiInv'
<1>1. Still
  BY DEF RailLands, Still
<1> QED
  BY <1>1, ListedNext, SessionsNext, ThreadLandedNext, ThreadDeletedNext, ProjectLandedNext,
     AdoptedNext DEF RailLands

----------------------------------------------------------------------------
(* The pane.                                                               *)

LEMMA ClearedType ==
    ASSUME NEW e \in Editors, NEW kind
    PROVE  /\ ClearEditor(e, kind) \in Editors /\ ClearEditor(e, kind).kind = e.kind
           /\ ClearEditor(e, kind).editable = e.editable
BY DEF Editors, ClearEditor

\* The pane as the page has it.
LEMMA PaneIs ==
    ASSUME UiInv
    PROVE  /\ pane \in Panes /\ editor \in Editors /\ route \in Pages /\ foreign \in BOOLEAN
           /\ pane.id = route /\ editor.kind = Kind(route) /\ pane.starting \in BOOLEAN
           /\ route = Root => editor.editable = ~pane.starting
           /\ route # Root /\ pane.info # NoInfo => editor.editable = ~Busy(pane.info)
BY DEF UiInv, UiTypeOK, PageType, Edits, Agrees, Panes

\* A plain answer that lands in a page, even one of another thread.
LEMMA StrayLanding ==
    ASSUME UiInv, Still, NEW kind \in Kinds \ (Births \cup Adopts), NEW ok \in BOOLEAN,
           Landed(kind, ok), Start(<<>>, Tail(wire)), route' = route, rail' = rail,
           pane' \in Panes, pane'.starting = pane.starting, editor' \in Editors,
           foreign' \in BOOLEAN, Agrees(route, pane', editor')
    PROVE  UiInv'
<1>1. Takes(TRUE) = Tail(wire) /\ Plain(TRUE)
  BY LandedType, PlainLanded
<1>2. PageType' /\ Edits'
  BY PaneIs DEF PageType, Edits, Agrees
<1>3. Start(<<>>, Takes(TRUE))
  BY <1>1
<1> QED
  BY <1>1, <1>2, <1>3, SamePane, NoAsks, PlainTurn

LEMMA ReadLandedNext ==
    ASSUME UiInv, Still, rail' = rail, TrailLanded \/ StateLanded
    PROVE  UiInv'
<1>1. /\ {"trail", "state"} \subseteq Kinds \ (Births \cup Adopts) /\ {"trail", "state"} \subseteq Kinds
      /\ "state" \in Threaded
  BY DEF Kinds, Births, Adopts, Threaded
<1>2. CASE TrailLanded
  <2>1. PICK ok \in BOOLEAN :
          /\ Landed("trail", ok)
          /\ pane' = [pane EXCEPT !.trail = IF ok THEN "Success" ELSE "Failure"]
          /\ foreign' = (foreign \/ On # route)
          /\ Start(<<>>, Tail(wire)) /\ UNCHANGED <<route, editor>>
    BY <1>2 DEF TrailLanded
  <2>2. /\ pane' \in Panes /\ pane'.starting = pane.starting /\ pane'.id = pane.id
        /\ pane'.info = pane.info
    BY <2>1, PaneIs DEF Panes
  <2>3. Agrees(route, pane', editor') /\ editor' \in Editors /\ foreign' \in BOOLEAN
    BY <2>1, <2>2, PaneIs DEF Agrees
  <2> QED
    BY <1>1, <2>1, <2>2, <2>3, StrayLanding
<1>3. CASE /\ Landed("state", TRUE)
           /\ pane' = [pane EXCEPT !.info = Value]
           /\ editor' = SetEditable(editor, "thread", ~Busy(Value))
           /\ foreign' = (foreign \/ On # route)
           /\ Start(<<>>, Tail(wire)) /\ UNCHANGED route
  <2>1. Value \in Known /\ Busy(Value) \in BOOLEAN
    BY <1>1, <1>3, LandedType DEF Known, Busy
  <2>2. /\ pane' \in Panes /\ pane'.starting = pane.starting /\ pane'.id = pane.id
        /\ pane'.info = Value
    BY <1>3, <2>1, PaneIs DEF Panes
  <2>3. /\ editor' \in Editors /\ editor'.kind = editor.kind
        /\ editor'.editable = IF editor.kind = "thread" THEN ~Busy(Value) ELSE editor.editable
    BY <1>3, <2>1, PaneIs DEF SetEditable, Editors, Busy
  <2>4. Agrees(route, pane', editor') /\ foreign' \in BOOLEAN
    BY <1>3, <2>2, <2>3, PaneIs DEF Agrees, Kind
  <2>5. route' = route /\ Landed("state", TRUE) /\ Start(<<>>, Tail(wire))
    BY <1>3
  <2> QED
    BY <1>1, <2>2, <2>3, <2>4, <2>5, StrayLanding
<1>4. CASE Landed("state", FALSE) /\ Here(pane, editor, <<>>, Tail(wire))
  BY <1>1, <1>4, SamePane, PaneLanding
<1> QED
  BY <1>2, <1>3, <1>4 DEF StateLanded

LEMMA ModelLandedNext ==
    ASSUME UiInv, Still, rail' = rail, ModelsLanded \/ ModelSet \/ AbortLanded
    PROVE  UiInv'
<1>1. {"models", "model", "abort"} \subseteq Kinds \ (Births \cup Adopts)
  BY DEF Kinds, Births, Adopts
<1>2. ASSUME NEW kind \in {"models", "model", "abort"}, NEW ok \in BOOLEAN, NEW p \in Panes,
             p.starting = pane.starting, p.id = pane.id, p.info = pane.info, Landed(kind, ok),
             Here(p, editor, <<>>, Tail(wire))
      PROVE  UiInv'
  <2>1. Agrees(route, p, editor) /\ editor \in Editors
    BY <1>2, PaneIs DEF Agrees
  <2> QED
    BY <1>1, <1>2, <2>1, PaneLanding
<1>3. CASE ModelsLanded
  <2>1. PICK ok \in BOOLEAN :
          /\ Landed("models", ok)
          /\ Here([pane EXCEPT !.models = IF ok THEN "Success" ELSE "Failure"], editor,
                  <<>>, Tail(wire))
    BY <1>3 DEF ModelsLanded
  <2> DEFINE p == [pane EXCEPT !.models = IF ok THEN "Success" ELSE "Failure"]
  <2>2. p \in Panes /\ p.starting = pane.starting /\ p.id = pane.id /\ p.info = pane.info
    BY PaneIs DEF Panes
  <2>3. Here(p, editor, <<>>, Tail(wire))
    BY <2>1
  <2> HIDE DEF p
  <2> QED
    BY <1>2, <2>1, <2>2, <2>3
<1>4. CASE ModelSet
  <2>1. PICK ok \in BOOLEAN :
          /\ Landed("model", ok)
          /\ Here([pane EXCEPT !.modelBusy = FALSE, !.models = IF ok THEN "Idle" ELSE @],
                  editor, <<>>, Tail(wire))
    BY <1>4 DEF ModelSet
  <2> DEFINE p == [pane EXCEPT !.modelBusy = FALSE, !.models = IF ok THEN "Idle" ELSE @]
  <2>2. p \in Panes /\ p.starting = pane.starting /\ p.id = pane.id /\ p.info = pane.info
    BY PaneIs DEF Panes
  <2>3. Here(p, editor, <<>>, Tail(wire))
    BY <2>1
  <2> HIDE DEF p
  <2> QED
    BY <1>2, <2>1, <2>2, <2>3
<1>5. CASE AbortLanded
  BY <1>2, <1>5, PaneIs DEF AbortLanded
<1> QED
  BY <1>3, <1>4, <1>5

LEMMA PromptLandedNext ==
    ASSUME UiInv, Still, rail' = rail, PromptLanded
    PROVE  UiInv'
<1>1. "prompt" \in Kinds \ (Births \cup Adopts)
  BY DEF Kinds, Births, Adopts
<1>2. CASE /\ Landed("prompt", TRUE)
           /\ Here([pane EXCEPT !.composer = "", !.menu = "none"], ClearEditor(editor, "thread"),
                   <<>>, Tail(wire))
  <2> DEFINE p == [pane EXCEPT !.composer = "", !.menu = "none"]
             e == ClearEditor(editor, "thread")
  <2>1. p \in Panes /\ p.starting = pane.starting /\ p.id = pane.id /\ p.info = pane.info
    BY PaneIs DEF Panes
  <2>2. e \in Editors /\ e.kind = editor.kind /\ e.editable = editor.editable
    BY PaneIs, ClearedType
  <2>3. Landed("prompt", TRUE) /\ Here(p, e, <<>>, Tail(wire))
    BY <1>2
  <2> HIDE DEF p, e
  <2>4. Agrees(route, p, e)
    BY <2>1, <2>2, PaneIs DEF Agrees
  <2> QED
    BY <1>1, <2>1, <2>2, <2>3, <2>4, PaneLanding
<1>3. CASE /\ Landed("prompt", FALSE)
           /\ Here(pane,
                   IF pane.id = Root THEN editor
                   ELSE SetEditable(editor, "thread", ~Busy(pane.info)),
                   <<>>, Tail(wire))
  <2> DEFINE e == IF pane.id = Root THEN editor
                  ELSE SetEditable(editor, "thread", ~Busy(pane.info))
  <2>1. Busy(pane.info) \in BOOLEAN
    BY DEF Busy
  <2>2. /\ e \in Editors /\ e.kind = editor.kind
        /\ pane.id = Root => e.editable = editor.editable
        /\ pane.id # Root /\ editor.kind = "thread" => e.editable = ~Busy(pane.info)
    BY <2>1, PaneIs DEF SetEditable, Editors, Busy
  <2>3. Landed("prompt", FALSE) /\ Here(pane, e, <<>>, Tail(wire))
    BY <1>3
  <2> HIDE DEF e
  <2>4. Agrees(route, pane, e)
    BY <2>2, PaneIs DEF Agrees, Kind
  <2> QED
    BY <1>1, <2>2, <2>3, <2>4, PaneIs, PaneLanding
<1> QED
  BY <1>2, <1>3 DEF PromptLanded

\* A call of a quick start that follows the answer of the one before it, or
\* none: the quick start ends.
LEMMA BirthTurn ==
    ASSUME UiInv, Still, NEW kind \in Births, NEW ok \in BOOLEAN, Landed(kind, ok),
           rail' = rail, NEW cs \in Seq(Asks), Start(cs, Tail(wire)), PageType', Edits',
           \/ cs \in Seq(PlainAsks) /\ pane'.starting = FALSE
           \/ \E c \in Asks : c.kind \in Births /\ cs = <<c>> /\ pane'.starting = TRUE
    PROVE  UiInv'
<1>1. kind \in Kinds /\ Births \subseteq Births \cup Adopts /\ Adopts \subseteq Births \cup Adopts
  BY DEF Kinds, Births
<1>2. /\ wire # <<>> /\ Head(wire) \in Answers /\ Head(wire).kind = kind
      /\ Takes(TRUE) = Tail(wire)
  BY <1>1, LandedType
<1>3. Head(wire) \in Answering(Births) /\ Head(wire) \notin Answering(Adopts)
  BY <1>2, Marked DEF Births, Adopts
<1>4. /\ Fits(Births, TRUE, cs, pane.starting, pane'.starting)
      /\ Fits(Adopts, TRUE, cs, rail.adopting # Root, rail.adopting # Root)
  <2>1. CASE cs \in Seq(PlainAsks) /\ pane'.starting = FALSE
    <3>1. /\ Once(cs, Waiting(Births)) /\ ~ Has(cs, Waiting(Births))
          /\ Once(cs, Waiting(Adopts)) /\ ~ Has(cs, Waiting(Adopts))
      BY <1>1, <2>1, PlainMarks
    <3> QED
      BY <1>3, <2>1, <3>1 DEF Fits
  <2>2. CASE \E c \in Asks : c.kind \in Births /\ cs = <<c>> /\ pane'.starting = TRUE
    <3>1. PICK c \in Asks : c.kind \in Births /\ cs = <<c>> /\ pane'.starting = TRUE
      BY <2>2
    <3>2. c \in Waiting(Births) /\ c \notin Waiting(Adopts)
      BY <3>1 DEF Asks, Waiting, Births, Adopts
    <3>3. /\ Once(cs, Waiting(Births)) /\ Has(cs, Waiting(Births))
          /\ Once(cs, Waiting(Adopts)) /\ ~ Has(cs, Waiting(Adopts))
      BY <3>1, <3>2, OneMark
    <3> QED
      BY <1>3, <3>1, <3>3 DEF Fits
  <2> QED
    BY <2>1, <2>2
<1>5. Fits(Adopts, TRUE, cs, rail.adopting # Root, rail'.adopting # Root)
  BY <1>4
<1>6. Start(cs, Takes(TRUE))
  BY <1>2
<1>7. RailType'
  BY SamePane
<1> QED
  BY <1>2, <1>4, <1>5, <1>6, <1>7, TurnStep

LEMMA QuickStartNext ==
    ASSUME UiInv, Still, rail' = rail, QuickStart
    PROVE  UiInv'
<1>1. PICK kind \in {"create", "start"}, next \in {"start", "born"} :
         Landed(kind, TRUE) /\ Here(pane, editor, <<Call(next, Of)>>, Tail(wire))
  BY DEF QuickStart
<1>2. /\ kind \in Births /\ kind \in Kinds /\ kind \in Threaded
      /\ next \in Births /\ next \in Kinds /\ next # "create" /\ next \notin OfProject
  BY DEF Births, Kinds, Threaded, OfProject
<1>3. Of \in Threads /\ Of \in Places /\ Head(wire) \in Answering(Births) /\ wire # <<>>
  <2>1. Of \in Threads /\ wire # <<>> /\ Head(wire) \in Answers /\ Head(wire).kind = kind
    BY <1>1, <1>2, LandedType
  <2> QED
    BY <1>2, <2>1, Marked DEF Places, Pages
<1>4. Call(next, Of) \in Asks /\ Call(next, Of).kind \in Births
  BY <1>2, <1>3, CallType DEF Asks
<1>5. PageType' /\ Edits' /\ pane' = pane /\ Start(<<Call(next, Of)>>, Tail(wire))
  BY <1>1, SamePane, HereType
<1>6. pane.starting = TRUE
  <2>1. QueueType /\ Lone(Births, pane.starting)
    BY DEF UiInv, UiTypeOK, Guarded
  <2>2. Alone(calls, wire, Births) /\ (pane.starting <=> Some(calls, wire, Births))
    BY <2>1, LoneIs
  <2>3. Some(calls, wire, Births)
    BY <1>3, <2>1, <2>2, FramesStep
  <2> QED
    BY <2>2, <2>3, PaneIs
<1>7. <<Call(next, Of)>> \in Seq(Asks)
  BY <1>4, OneMark
<1> QED
  BY <1>1, <1>2, <1>4, <1>5, <1>6, <1>7, BirthTurn

LEMMA ThreadCreatedNext ==
    ASSUME UiInv, Still, rail' = rail, ThreadCreated
    PROVE  UiInv'
<1> DEFINE p == [pane EXCEPT !.composer = "", !.menu = "none", !.starting = FALSE]
           e == ClearEditor(editor, "welcome")
<1>1. Landed("born", TRUE) /\ ApplyRoute(Of, p, e, <<>>, Tail(wire))
  BY DEF ThreadCreated
<1>2. "born" \in Births /\ "born" \in Kinds /\ "born" \in Threaded
  BY DEF Births, Kinds, Threaded
<1>3. Of \in Pages /\ Of # Root
  BY <1>1, <1>2, LandedType, NoInfoType DEF Pages
<1>4. p \in Panes /\ p.starting = FALSE
  BY PaneIs DEF Panes
<1>5. e \in Editors
  BY PaneIs, ClearedType
<1> HIDE DEF p, e
<1>6. /\ PageType' /\ Edits' /\ pane'.starting = p.starting
      /\ \E cs \in Seq(PlainAsks) : Start(cs, Tail(wire))
  BY <1>1, <1>3, <1>4, <1>5, RouteType
<1>7. PICK cs \in Seq(PlainAsks) : Start(cs, Tail(wire))
  BY <1>6
<1>8. cs \in Seq(Asks)
  <2>1. PlainAsks \subseteq Asks
    BY DEF PlainAsks
  <2> QED
    BY <2>1, SeqMonotonic
<1> QED
  BY <1>1, <1>2, <1>4, <1>6, <1>7, <1>8, BirthTurn

LEMMA CreateFailedNext ==
    ASSUME UiInv, Still, rail' = rail, CreateFailed
    PROVE  UiInv'
<1> DEFINE p == [pane EXCEPT !.starting = FALSE]
           e == SetEditable(editor, "welcome", TRUE)
<1>1. PICK kind \in Births : Landed(kind, FALSE) /\ Here(p, e, <<>>, Tail(wire))
  BY DEF CreateFailed, Births
<1>2. p \in Panes /\ p.starting = FALSE /\ p.id = pane.id /\ p.info = pane.info
  BY PaneIs DEF Panes
<1>3. /\ e \in Editors /\ e.kind = editor.kind
      /\ e.editable = IF editor.kind = "welcome" THEN TRUE ELSE editor.editable
  BY PaneIs DEF SetEditable, Editors
<1> HIDE DEF p, e
<1>4. Agrees(route, p, e)
  BY <1>2, <1>3, PaneIs DEF Agrees, Kind
<1>5. PageType' /\ Edits' /\ pane' = p /\ Start(<<>>, Tail(wire))
  BY <1>1, <1>2, <1>3, <1>4, HereType
<1> QED
  BY <1>1, <1>2, <1>5, NoAsks, BirthTurn

LEMMA PaneLandsNext ==
    ASSUME UiInv, PaneLands
    PROVE  UiInv'
<1>1. Still /\ rail' = rail
  BY DEF PaneLands, Still
<1> QED
  BY <1>1, ReadLandedNext, ModelLandedNext, PromptLandedNext, QuickStartNext, ThreadCreatedNext,
     CreateFailedNext DEF PaneLands

----------------------------------------------------------------------------
(* The user.                                                               *)

\* A gesture on the rail, and one in the pane, that ask what they like but no
\* birth and no adoption.
LEMMA OnRailTurn ==
    ASSUME UiInv, Still, NEW r \in Rails, IsFiniteSet(r.expanded), r.adopting = rail.adopting,
           NEW cs \in Seq(PlainAsks), OnRail(r, cs)
    PROVE  UiInv'
<1>1. rail' = r /\ Here(pane, editor, cs, wire)
  BY DEF OnRail
<1>2. Here(pane, editor, cs, Takes(FALSE)) /\ Plain(FALSE) /\ RailType'
  BY <1>1 DEF Takes, Plain, RailType
<1> QED
  BY <1>1, <1>2, SamePane, HereTurn

LEMMA InPaneTurn ==
    ASSUME UiInv, Still, NEW p \in Panes, NEW e \in Editors, Agrees(route, p, e),
           p.starting = pane.starting, NEW cs \in Seq(PlainAsks), InPane(p, e, cs)
    PROVE  UiInv'
<1>1. rail' = rail /\ Here(p, e, cs, wire)
  BY DEF InPane
<1>2. Here(p, e, cs, Takes(FALSE)) /\ Plain(FALSE)
  BY <1>1 DEF Takes, Plain
<1> QED
  BY <1>1, <1>2, SamePane, HereTurn

LEMMA RailIs ==
    ASSUME UiInv
    PROVE  rail \in Rails /\ IsFiniteSet(rail.expanded) /\ RailType
BY DEF UiInv, UiTypeOK, RailType

LEMMA OpenedNext ==
    ASSUME UiInv, OpenedThread
    PROVE  UiInv'
<1>1. PICK to \in Rows \cup {Root, route} : ApplyRoute(to, pane, editor, <<>>, wire)
  BY DEF OpenedThread
<1>2. Still /\ rail' = rail
  BY DEF OpenedThread
<1>3. to \in Pages
  BY PaneIs DEF Rows, Pages
<1>4. ApplyRoute(to, pane, editor, <<>>, Takes(FALSE)) /\ Plain(FALSE) /\ FALSE \in BOOLEAN
  BY <1>1 DEF Takes, Plain
<1> QED
  BY <1>2, <1>3, <1>4, SamePane, RouteTurn

LEMMA RenameNext ==
    ASSUME UiInv, ThreadRename
    PROVE  UiInv'
<1>1. Still
  BY DEF ThreadRename
<1>2. ASSUME NEW t \in Pages, NEW cs \in Seq(PlainAsks), OnRail([rail EXCEPT !.renaming = t], cs)
      PROVE  UiInv'
  <2> DEFINE r == [rail EXCEPT !.renaming = t]
  <2>1. r \in Rails /\ IsFiniteSet(r.expanded) /\ r.adopting = rail.adopting
    BY RailIs DEF Rails
  <2>2. OnRail(r, cs)
    BY <1>2
  <2> HIDE DEF r
  <2> QED
    BY <1>1, <2>1, <2>2, OnRailTurn
<1>3. Root \in Pages /\ Rows \subseteq Pages /\ <<>> \in Seq(PlainAsks)
  BY NoAsks DEF Pages, Rows
<1>4. ASSUME rail.renaming # Root PROVE <<Call("rename", rail.renaming)>> \in Seq(PlainAsks)
  <2>1. rail.renaming \in Threads /\ rail.renaming \in Places
    BY <1>4, RailIs DEF Rails, Pages, Places
  <2>2. "rename" \in Kinds \ (Births \cup Adopts) /\ "rename" \notin OfProject
    BY DEF Kinds, Births, Adopts, OfProject
  <2> QED
    BY <2>1, <2>2, AskType
<1>5. CASE \E t \in Rows : OnRail([rail EXCEPT !.renaming = t], <<>>)
  BY <1>2, <1>3, <1>5
<1>6. CASE /\ rail.renaming # Root
           /\ \/ OnRail([rail EXCEPT !.renaming = Root], <<Call("rename", rail.renaming)>>)
              \/ OnRail([rail EXCEPT !.renaming = Root], <<>>)
  BY <1>2, <1>3, <1>4, <1>6
<1> QED
  BY <1>5, <1>6 DEF ThreadRename

LEMMA RowGestureNext ==
    ASSUME UiInv, NEW kind \in {"archive", "unarchive", "delete"}, RowGesture(kind)
    PROVE  UiInv'
<1>1. Still
  BY DEF RowGesture
<1>2. PICK t \in Rows : OnRail(rail, <<Call(kind, t)>>)
  BY DEF RowGesture
<1>3. t \in Threads /\ t \in Places
  BY DEF Rows, Places, Pages
<1>4. kind \in Kinds \ (Births \cup Adopts) /\ kind \notin OfProject
  BY DEF Kinds, Births, Adopts, OfProject
<1>5. <<Call(kind, t)>> \in Seq(PlainAsks)
  BY <1>3, <1>4, AskType
<1> QED
  BY <1>1, <1>2, <1>5, RailIs, OnRailTurn

LEMMA RefreshNext ==
    ASSUME UiInv, RefreshRequested
    PROVE  UiInv'
<1> DEFINE cs == <<Call("list", Root), Call("projects", Root)>> \o ReloadExpanded
<1>1. Still /\ OnRail(rail, cs)
  BY DEF RefreshRequested
<1>2. cs \in Seq(PlainAsks)
  BY ListsType, ReloadType, RailIs
<1> HIDE DEF cs
<1> QED
  BY <1>1, <1>2, RailIs, OnRailTurn

LEMMA ToggledNext ==
    ASSUME UiInv, ProjectToggled
    PROVE  UiInv'
<1>1. Still
  BY DEF ProjectToggled
<1>2. PICK p \in ProjectRows :
        IF p \in rail.expanded THEN OnRail([rail EXCEPT !.expanded = @ \ {p}], <<>>)
        ELSE OnRail([rail EXCEPT !.expanded = @ \cup {p}],
                    IF rail.sessions[p] = "none" THEN <<Call("sessions", p)>> ELSE <<>>)
  BY DEF ProjectToggled
<1>3. p \in Projects
  BY RailIs DEF ProjectRows, Rails
<1>4. ASSUME NEW cs \in Seq(PlainAsks), NEW E \in SUBSET Projects, IsFiniteSet(E),
             OnRail([rail EXCEPT !.expanded = E], cs)
      PROVE  UiInv'
  <2> DEFINE r == [rail EXCEPT !.expanded = E]
  <2>1. r \in Rails /\ IsFiniteSet(r.expanded) /\ r.adopting = rail.adopting
    BY <1>4, RailIs DEF Rails
  <2>2. OnRail(r, cs)
    BY <1>4
  <2> HIDE DEF r
  <2> QED
    BY <1>1, <2>1, <2>2, OnRailTurn
<1>5. <<>> \in Seq(PlainAsks) /\ <<Call("sessions", p)>> \in Seq(PlainAsks)
  <2>1. "sessions" \in Kinds \ (Births \cup Adopts) /\ "sessions" \notin OfThread /\ p \in Places
    BY <1>3 DEF Kinds, Births, Adopts, OfThread, Places
  <2> QED
    BY <1>3, <2>1, AskType, NoAsks
<1>6. CASE p \in rail.expanded
  BY <1>2, <1>3, <1>4, <1>5, <1>6, ExpandedType
<1>7. CASE p \notin rail.expanded
  <2>1. (IF rail.sessions[p] = "none" THEN <<Call("sessions", p)>> ELSE <<>>) \in Seq(PlainAsks)
    BY <1>5
  <2> QED
    BY <1>2, <1>3, <1>4, <1>7, <2>1, ExpandedType
<1> QED
  BY <1>6, <1>7

LEMMA AddProjectNext ==
    ASSUME UiInv, AddProject \/ RemoveProject
    PROVE  UiInv'
<1>1. Still
  BY DEF AddProject, RemoveProject
<1>2. ASSUME NEW kind \in {"add", "remove"}, NEW p \in Projects
      PROVE  <<Call(kind, p)>> \in Seq(PlainAsks)
  <2>1. kind \in Kinds \ (Births \cup Adopts) /\ kind \notin OfThread /\ p \in Places
    BY DEF Kinds, Births, Adopts, OfThread, Places
  <2> QED
    BY <2>1, AskType
<1>3. CASE AddProjectRequested
  <2> DEFINE r == [rail EXCEPT !.dialog = TRUE]
  <2>1. OnRail(r, <<Call("browse", Root)>>)
    BY <1>3 DEF AddProjectRequested
  <2>2. r \in Rails /\ IsFiniteSet(r.expanded) /\ r.adopting = rail.adopting
    BY RailIs DEF Rails
  <2> HIDE DEF r
  <2> QED
    BY <1>1, <2>1, <2>2, ListsType, OnRailTurn
<1>4. CASE PickerDirChosen
  BY <1>1, <1>4, RailIs, ListsType, OnRailTurn DEF PickerDirChosen
<1>5. CASE PickerAddRequested
  <2>1. PICK p \in Projects : OnRail(rail, <<Call("add", p)>>)
    BY <1>5 DEF PickerAddRequested
  <2> QED
    BY <1>1, <1>2, <2>1, RailIs, OnRailTurn
<1>6. CASE PickerClosed
  <2> DEFINE r == [rail EXCEPT !.dialog = FALSE, !.picker = "Idle"]
  <2>1. OnRail(r, <<>>)
    BY <1>6 DEF PickerClosed
  <2>2. r \in Rails /\ IsFiniteSet(r.expanded) /\ r.adopting = rail.adopting
    BY RailIs DEF Rails
  <2> HIDE DEF r
  <2> QED
    BY <1>1, <2>1, <2>2, NoAsks, OnRailTurn
<1>7. CASE RemoveProject
  <2>1. PICK p \in ProjectRows : OnRail(rail, <<Call("remove", p)>>)
    BY <1>7 DEF RemoveProject
  <2>2. p \in Projects
    BY RailIs DEF ProjectRows, Rails
  <2> QED
    BY <1>1, <1>2, <2>1, <2>2, RailIs, OnRailTurn
<1> QED
  BY <1>3, <1>4, <1>5, <1>6, <1>7 DEF AddProject

\* One adoption at a time.
LEMMA ClickedNext ==
    ASSUME UiInv, PiSessionClicked
    PROVE  UiInv'
<1>1. Still /\ rail.adopting = Root
  BY DEF PiSessionClicked
<1>2. PICK p \in PiSessionRows : OnRail([rail EXCEPT !.adopting = p], <<Call("adopt", p)>>)
  BY DEF PiSessionClicked
<1>3. p \in Projects /\ p \in Places /\ p # Root
  BY RailIs, NoInfoType DEF PiSessionRows, ProjectRows, Rails, Places
<1> DEFINE c == Call("adopt", p)
<1>4. c \in Asks /\ c.kind = "adopt"
  <2>1. "adopt" \in Kinds /\ "adopt" \notin OfThread
    BY DEF Kinds, OfThread
  <2> QED
    BY <1>3, <2>1, CallType DEF Asks
<1> HIDE DEF c
<1>5. /\ rail' = [rail EXCEPT !.adopting = p] /\ Here(pane, editor, <<c>>, wire)
  BY <1>2 DEF OnRail, c
<1>6. RailType' /\ rail'.adopting = p
  BY <1>3, <1>5, RailIs DEF RailType, Rails
<1>7. PageType' /\ Edits' /\ pane' = pane /\ Start(<<c>>, wire)
  BY <1>5, SamePane, HereType
<1>8. c \in Waiting(Adopts) /\ c \notin Waiting(Births)
  BY <1>4 DEF Asks, Waiting, Births, Adopts
<1>9. /\ <<c>> \in Seq(Asks) /\ Once(<<c>>, Waiting(Births)) /\ ~ Has(<<c>>, Waiting(Births))
      /\ Once(<<c>>, Waiting(Adopts)) /\ Has(<<c>>, Waiting(Adopts))
  BY <1>4, <1>8, OneMark
<1>10. Fits(Births, FALSE, <<c>>, pane.starting, pane'.starting)
  BY <1>7, <1>9 DEF Fits
<1>11. Fits(Adopts, FALSE, <<c>>, rail.adopting # Root, rail'.adopting # Root)
  BY <1>1, <1>3, <1>6, <1>9 DEF Fits
<1>12. Start(<<c>>, Takes(FALSE))
  BY <1>7 DEF Takes
<1> QED
  BY <1>1, <1>6, <1>7, <1>9, <1>10, <1>11, <1>12, TurnStep

\* What is asked of the thread of the pane.
LEMMA PaneAsk ==
    ASSUME UiInv, pane.id # Root, NEW kind \in {"prompt", "abort", "models", "model"}
    PROVE  <<Call(kind, pane.id)>> \in Seq(PlainAsks)
<1>1. pane.id \in Threads /\ pane.id \in Places
  BY PaneIs DEF Pages, Places
<1>2. kind \in Kinds \ (Births \cup Adopts) /\ kind \notin OfProject
  BY DEF Kinds, Births, Adopts, OfProject
<1> QED
  BY <1>1, <1>2, AskType

\* The pane changes what the editor does not hang on.
LEMMA DetailTurn ==
    ASSUME UiInv, Still, NEW p \in Panes, p.starting = pane.starting, p.id = pane.id,
           p.info = pane.info, NEW e \in Editors, e.kind = editor.kind,
           e.editable = editor.editable, NEW cs \in Seq(PlainAsks), InPane(p, e, cs)
    PROVE  UiInv'
<1>1. Agrees(route, p, e)
  BY PaneIs DEF Agrees
<1> QED
  BY <1>1, InPaneTurn

LEMMA TypedNext ==
    ASSUME UiInv, ComposerChanged
    PROVE  UiInv'
<1>1. PICK w \in Words \cup {""} :
        InPane([pane EXCEPT !.composer = w], [editor EXCEPT !.text = w], <<>>)
  BY DEF ComposerChanged
<1> DEFINE p == [pane EXCEPT !.composer = w]
           e == [editor EXCEPT !.text = w]
<1>2. p \in Panes /\ p.starting = pane.starting /\ p.id = pane.id /\ p.info = pane.info
  BY PaneIs DEF Panes
<1>3. e \in Editors /\ e.kind = editor.kind /\ e.editable = editor.editable
  BY PaneIs DEF Editors
<1>4. Still /\ InPane(p, e, <<>>)
  BY <1>1 DEF ComposerChanged
<1> HIDE DEF p, e
<1> QED
  BY <1>2, <1>3, <1>4, NoAsks, DetailTurn

\* A quick start on the welcome, one at a time; a prompt of a thread.
LEMMA SendNext ==
    ASSUME UiInv, SendRequested
    PROVE  UiInv'
<1>1. Still
  BY DEF SendRequested
<1>2. CASE /\ pane.id = Root /\ ~pane.starting
           /\ InPane([pane EXCEPT !.starting = TRUE, !.menu = "none"],
                     SetEditable(editor, "welcome", FALSE), <<Call("create", Root)>>)
  <2> DEFINE p == [pane EXCEPT !.starting = TRUE, !.menu = "none"]
             e == SetEditable(editor, "welcome", FALSE)
             c == Call("create", Root)
  <2>1. p \in Panes /\ p.starting = TRUE /\ p.id = pane.id
    BY PaneIs DEF Panes
  <2>2. /\ e \in Editors /\ e.kind = editor.kind
        /\ editor.kind = "welcome" => e.editable = FALSE
    BY PaneIs DEF SetEditable, Editors
  <2>3. c \in Asks /\ c.kind = "create"
    <3>1. "create" \in Kinds /\ "create" \notin OfThread /\ "create" \notin OfProject /\ Root \in Places
      BY DEF Kinds, OfThread, OfProject, Places, Pages
    <3> QED
      BY <3>1, CallType DEF Asks
  <2>4. rail' = rail /\ Here(p, e, <<c>>, wire)
    BY <1>2 DEF InPane
  <2> HIDE DEF p, e, c
  <2>5. Agrees(route, p, e)
    BY <1>2, <2>1, <2>2, PaneIs DEF Agrees, Kind
  <2>6. PageType' /\ Edits' /\ pane' = p /\ Start(<<c>>, wire)
    BY <2>1, <2>2, <2>4, <2>5, HereType
  <2>7. c \in Waiting(Births) /\ c \notin Waiting(Adopts)
    BY <2>3 DEF Asks, Waiting, Births, Adopts
  <2>8. /\ <<c>> \in Seq(Asks) /\ Once(<<c>>, Waiting(Births)) /\ Has(<<c>>, Waiting(Births))
        /\ Once(<<c>>, Waiting(Adopts)) /\ ~ Has(<<c>>, Waiting(Adopts))
    BY <2>3, <2>7, OneMark
  <2>9. Fits(Births, FALSE, <<c>>, pane.starting, pane'.starting)
    BY <1>2, <2>1, <2>6, <2>8 DEF Fits
  <2>10. Fits(Adopts, FALSE, <<c>>, rail.adopting # Root, rail'.adopting # Root)
    BY <2>4, <2>8 DEF Fits
  <2>11. Start(<<c>>, Takes(FALSE)) /\ RailType'
    BY <2>4, <2>6, SamePane DEF Takes
  <2> QED
    BY <1>1, <2>6, <2>8, <2>9, <2>10, <2>11, TurnStep
<1>3. CASE /\ pane.id # Root /\ ~Busy(pane.info)
           /\ InPane(pane, editor, <<Call("prompt", pane.id)>>)
  BY <1>1, <1>3, PaneIs, PaneAsk, DetailTurn
<1> QED
  BY <1>2, <1>3 DEF SendRequested

LEMMA AbortNext ==
    ASSUME UiInv, AbortRequested
    PROVE  UiInv'
BY PaneIs, PaneAsk, DetailTurn DEF AbortRequested

LEMMA ModelPickerNext ==
    ASSUME UiInv, ModelPicker
    PROVE  UiInv'
<1>1. Still
  BY DEF ModelPicker
<1>2. CASE ModelPickerRequested
  <2> DEFINE p == [pane EXCEPT !.models = "Loading", !.menu = "none"]
  <2>1. p \in Panes /\ p.starting = pane.starting /\ p.id = pane.id /\ p.info = pane.info
    BY PaneIs DEF Panes
  <2>2. InPane(p, editor, <<Call("models", pane.id)>>) /\ pane.id # Root
    BY <1>2 DEF ModelPickerRequested
  <2> HIDE DEF p
  <2> QED
    BY <1>1, <2>1, <2>2, PaneIs, PaneAsk, DetailTurn
<1>3. CASE ModelPicked
  <2> DEFINE p == [pane EXCEPT !.modelBusy = TRUE]
  <2>1. p \in Panes /\ p.starting = pane.starting /\ p.id = pane.id /\ p.info = pane.info
    BY PaneIs DEF Panes
  <2>2. InPane(p, editor, <<Call("model", pane.id)>>) /\ pane.id # Root
    BY <1>3 DEF ModelPicked
  <2> HIDE DEF p
  <2> QED
    BY <1>1, <2>1, <2>2, PaneIs, PaneAsk, DetailTurn
<1>4. CASE ModelPickerClosed
  <2> DEFINE p == [pane EXCEPT !.models = "Idle"]
  <2>1. p \in Panes /\ p.starting = pane.starting /\ p.id = pane.id /\ p.info = pane.info
    BY PaneIs DEF Panes
  <2>2. InPane(p, editor, <<>>)
    BY <1>4 DEF ModelPickerClosed
  <2> HIDE DEF p
  <2> QED
    BY <1>1, <2>1, <2>2, PaneIs, NoAsks, DetailTurn
<1> QED
  BY <1>2, <1>3, <1>4 DEF ModelPicker

LEMMA PaletteNext ==
    ASSUME UiInv, Palette
    PROVE  UiInv'
<1>1. Still
  BY DEF Palette
<1>2. ASSUME NEW menu \in {"none", "file", "command"}, InPane([pane EXCEPT !.menu = menu], editor, <<>>)
      PROVE  UiInv'
  <2> DEFINE p == [pane EXCEPT !.menu = menu]
  <2>1. p \in Panes /\ p.starting = pane.starting /\ p.id = pane.id /\ p.info = pane.info
    BY PaneIs DEF Panes
  <2>2. InPane(p, editor, <<>>)
    BY <1>2
  <2> HIDE DEF p
  <2> QED
    BY <1>1, <2>1, <2>2, PaneIs, NoAsks, DetailTurn
<1>3. CASE ComposerTriggerChanged \/ ComposerMenuClosed
  BY <1>2, <1>3 DEF ComposerTriggerChanged, ComposerMenuClosed
<1> DEFINE closed == [pane EXCEPT !.menu = "none"]
<1>4. /\ closed \in Panes /\ closed.starting = pane.starting /\ closed.id = pane.id
      /\ closed.info = pane.info
  BY PaneIs DEF Panes
<1>5. CASE InPane([closed EXCEPT !.composer = ""], ClearEditor(editor, Kind(pane.id)), <<>>)
  <2> DEFINE p == [closed EXCEPT !.composer = ""]
             e == ClearEditor(editor, Kind(pane.id))
  <2>1. p \in Panes /\ p.starting = pane.starting /\ p.id = pane.id /\ p.info = pane.info
    BY PaneIs DEF Panes
  <2>2. e \in Editors /\ e.kind = editor.kind /\ e.editable = editor.editable
    BY PaneIs, ClearedType
  <2>3. InPane(p, e, <<>>)
    BY <1>5
  <2> HIDE DEF p, e, closed
  <2> QED
    BY <1>1, <2>1, <2>2, <2>3, NoAsks, DetailTurn
<1>6. CASE pane.id # Root /\ InPane([closed EXCEPT !.models = "Loading"], editor, <<Call("models", pane.id)>>)
  <2> DEFINE p == [closed EXCEPT !.models = "Loading"]
  <2>1. p \in Panes /\ p.starting = pane.starting /\ p.id = pane.id /\ p.info = pane.info
    BY PaneIs DEF Panes
  <2>2. InPane(p, editor, <<Call("models", pane.id)>>)
    BY <1>6
  <2> HIDE DEF p, closed
  <2> QED
    BY <1>1, <1>6, <2>1, <2>2, PaneIs, PaneAsk, DetailTurn
<1>7. CASE pane.id # Root /\ InPane(closed, editor, <<Call("abort", pane.id)>>)
  <2> HIDE DEF closed
  <2> QED
    BY <1>1, <1>4, <1>7, PaneIs, PaneAsk, DetailTurn
<1> QED
  BY <1>3, <1>5, <1>6, <1>7 DEF Palette, ApplySuggestion

LEMMA GestureNext ==
    ASSUME UiInv, Gesture
    PROVE  UiInv'
BY OpenedNext, RenameNext, RowGestureNext, RefreshNext, ClickedNext, ToggledNext, AddProjectNext,
   TypedNext, SendNext, AbortNext, ModelPickerNext, PaletteNext DEF Gesture

----------------------------------------------------------------------------
(* The invariant.                                                          *)

LEMMA UiInitInv == UiInit => UiInv
<1> SUFFICES ASSUME UiInit PROVE UiInv
  OBVIOUS
<1>1. PICK s \in Scenes : Opening(s) /\ IF s.booted THEN Booted ELSE Boot
  BY DEF UiInit
<1>2. /\ threads = [t \in Threads |-> IF t \in s.threads THEN Unnamed ELSE NoInfo]
      /\ given = s.threads /\ added = s.added /\ route = s.route
      /\ calls = <<>> /\ wire = <<>> /\ bridge = <<>>
      /\ editor = [kind |-> IF route = Root THEN "welcome" ELSE "thread",
                   editable |-> TRUE, text |-> ""]
      /\ raced = {} /\ unread = FALSE /\ foreign = FALSE
  BY <1>1 DEF UiInit, Opening
<1>3. /\ s.threads \subseteq Threads /\ s.added \subseteq Projects
      /\ s.route \in s.threads \cup {Root}
  BY <1>1, ConsoleAssumption
<1>4. Unnamed \in Known /\ NoInfo \in Known /\ NoRows \in Tables /\ Unnamed # NoInfo
  BY NoInfoType DEF Known
<1>5. ServerType /\ HistoryType
  BY <1>2, <1>3, <1>4 DEF ServerType, HistoryType, Tables
<1>6. QueueType /\ Unheard
  <2>1. /\ <<>> \in Seq(Calls) /\ <<>> \in Seq(Answers \cup Changes)
        /\ <<>> \in Seq(Changes \cup Closes) /\ Len(<<>>) = 0 /\ 1 .. 0 = {}
    OBVIOUS
  <2> QED
    BY <1>2, <2>1 DEF QueueType, Unheard
<1>7. ConnType
  BY <1>1 DEF Booted, Boot, ConnType
<1>8. FreshRail \in Rails /\ FreshRail.expanded = {} /\ FreshRail.adopting = Root
  BY <1>4 DEF FreshRail, Rails, Pages
<1>9. RailType /\ rail.adopting = Root
  <2>1. IsFiniteSet({})
    BY FS_EmptySet
  <2>2. CASE s.booted
    <3>1. rail = [FreshRail EXCEPT !.list = [tag |-> "Success", rows |-> threads],
                                   !.projects = [tag |-> "Success", paths |-> added]]
      BY <1>1, <2>2 DEF Booted
    <3>2. threads \in Tables /\ added \in SUBSET Projects
      BY <1>5 DEF ServerType
    <3>3. rail \in Rails /\ rail.expanded = {} /\ rail.adopting = Root
      BY <1>8, <3>1, <3>2 DEF Rails
    <3> QED
      BY <2>1, <3>3 DEF RailType
  <2>3. CASE ~ s.booted
    BY <1>1, <1>8, <2>1, <2>3 DEF Boot, RailType
  <2> QED
    BY <2>2, <2>3
<1>10. \A to \in Pages : /\ FreshPane(to) \in Panes /\ FreshPane(to).id = to
                         /\ FreshPane(to).starting = FALSE /\ FreshPane(to).info = NoInfo
  BY <1>4 DEF FreshPane, Panes
<1>11. route \in Pages /\ editor \in Editors /\ editor.kind = Kind(route) /\ editor.editable = TRUE
  BY <1>2, <1>3 DEF Pages, Editors, Kind
<1>12. /\ pane \in Panes /\ pane.id = route /\ pane.starting = FALSE
       /\ pane.info = NoInfo \/ pane.info = Unnamed
  <2>1. CASE s.booted /\ route # Root
    <3>1. pane = [FreshPane(route) EXCEPT !.info = Unnamed, !.trail = "Success"]
      BY <1>1, <2>1 DEF Booted
    <3> DEFINE fresh == FreshPane(route)
    <3>2. fresh \in Panes /\ fresh.id = route /\ fresh.starting = FALSE
      BY <1>10, <1>11
    <3> HIDE DEF fresh
    <3>3. pane = [fresh EXCEPT !.info = Unnamed, !.trail = "Success"]
      BY <3>1 DEF fresh
    <3> QED
      BY <1>4, <3>2, <3>3 DEF Panes
  <2>2. CASE ~ (s.booted /\ route # Root)
    <3>1. pane = FreshPane(route)
      BY <1>1, <2>2 DEF Booted, Boot
    <3> QED
      BY <1>10, <1>11, <3>1
  <2> QED
    BY <2>1, <2>2
<1>13. PageType /\ Edits
  <2>1. Unnamed.state = "idle" /\ NoInfo.state = "idle"
    BY NoInfoType DEF Unnamed
  <2> QED
    BY <1>2, <1>11, <1>12, <2>1 DEF PageType, Edits, Agrees, Busy
<1>14. Guarded
  <2>0. Len(<<>>) = 0 /\ 1 .. 0 = {}
    OBVIOUS
  <2>1. 1 .. Len(calls) = {} /\ 1 .. Len(wire) = {}
    BY <1>2, <2>0
  <2>2. ~ pane.starting /\ ~ (rail.adopting # Root)
    BY <1>9, <1>12
  <2>3. Lone(Births, pane.starting)
    BY <2>1, <2>2 DEF Lone, Has, Once
  <2>4. Lone(Adopts, rail.adopting # Root)
    BY <2>1, <2>2 DEF Lone, Has, Once
  <2> QED
    BY <2>3, <2>4 DEF Guarded
<1> QED
  BY <1>5, <1>6, <1>7, <1>9, <1>13, <1>14 DEF UiInv, UiTypeOK

LEMMA UiNextInv == UiInv /\ [UiNext]_uiVars => UiInv'
<1> SUFFICES ASSUME UiInv, [UiNext]_uiVars PROVE UiInv'
  OBVIOUS
<1>1. DOMAIN calls = 1 .. Len(calls) /\ Prompts \subseteq 1 .. Len(calls)
  BY DEF UiInv, UiTypeOK, QueueType, Prompts
<1>2. CASE \E i \in Prompts : i = Min(Prompts) /\ (ServeRead(i) \/ TimeOut(i))
  BY <1>1, <1>2, ReadsNext, TimeOutNext
<1>3. CASE Server
  <2>1. CASE \E i \in DOMAIN calls :
               \/ ServePatch(i) \/ ServeDelete(i) \/ ServeBirth(i) \/ Read(i) \/ ServeList(i)
               \/ ServeProject(i) \/ ServeRead(i) \/ TimeOut(i) \/ LoseCall(i)
    <3>1. PICK i \in 1 .. Len(calls) :
             \/ ServePatch(i) \/ ServeDelete(i) \/ ServeBirth(i) \/ Read(i) \/ ServeList(i)
             \/ ServeProject(i) \/ ServeRead(i) \/ TimeOut(i) \/ LoseCall(i)
      BY <1>1, <2>1
    <3> QED
      BY <3>1, PatchNext, DeleteNext, BirthNext, ReadNext, ListNext, ProjectNext, ReadsNext,
         TimeOutNext, LoseNext
  <2>2. CASE \E t \in Threads : Elsewhere(t)
    BY <2>2, ElsewhereNext
  <2> QED
    BY <1>3, <2>1, <2>2 DEF Server
<1>4. CASE Connect \/ ConnectFailed \/ Retry \/ Disconnect \/ Offer \/ ConnectionClosed
  BY <1>4, ConnectNext, DialNext, DisconnectNext, OfferNext, ClosedNext
<1>5. CASE ThreadChanged \/ RailLands \/ PaneLands \/ Gesture
  BY <1>5, ThreadChangedNext, RailLandsNext, PaneLandsNext, GestureNext
<1>6. CASE UNCHANGED uiVars
  BY <1>6 DEF uiVars, server, connection, page, UiInv, UiTypeOK, ServerType, ConnType, QueueType,
     RailType, PageType, HistoryType, Edits, Unheard, Guarded, Lone
<1> QED
  BY <1>2, <1>3, <1>4, <1>5, <1>6 DEF UiNext

LEMMA UiSafe == UiSpec => []UiInv
BY UiInitInv, UiNextInv, PTL DEF UiSpec

\* One at a time, in the words of the calls that are waited for and the answers
\* that have not landed.
LEMMA FlightIs ==
    ASSUME QueueType, NEW kinds, NEW guard, Lone(kinds, guard)
    PROVE  OneAtATime(kinds, guard)
<1>1. /\ calls \in Seq(Calls) /\ DOMAIN calls = 1 .. Len(calls)
      /\ wire \in Seq(Answers \cup Changes) /\ DOMAIN wire = 1 .. Len(wire)
  BY DEF QueueType
<1>2. \A i \in 1 .. Len(calls) :
         calls[i].heard /\ calls[i].kind \in kinds <=> calls[i] \in Waiting(kinds)
  BY <1>1, Marked
<1>3. \A i \in 1 .. Len(wire) :
         wire[i].frame = "answer" /\ wire[i].kind \in kinds <=> wire[i] \in Answering(kinds)
  <2>1. \A i \in 1 .. Len(wire) : wire[i] \in Answers \/ wire[i] \in Changes
    BY <1>1
  <2> QED
    BY <2>1, Marked
<1> DEFINE A == {i \in 1 .. Len(calls) : calls[i] \in Waiting(kinds)}
           B == {i \in 1 .. Len(wire) : wire[i] \in Answering(kinds)}
           tell(i) == <<"call", i>>
           land(i) == <<"answer", i>>
<1>4. InFlight(kinds) = {tell(i) : i \in A} \cup {land(i) : i \in B}
  <2>1. {j \in DOMAIN calls : calls[j].heard /\ calls[j].kind \in kinds} = A
    BY <1>1, <1>2
  <2>2. {j \in DOMAIN wire : wire[j].frame = "answer" /\ wire[j].kind \in kinds} = B
    BY <1>1, <1>3
  <2> HIDE DEF A, B
  <2> QED
    BY <2>1, <2>2 DEF InFlight
<1>5. /\ \A i, j \in A : i = j
      /\ \A i, j \in B : i = j
      /\ A = {} \/ B = {}
      /\ guard <=> A # {} \/ B # {}
  BY DEF Lone, Has, Once
<1> HIDE DEF A, B, tell, land
<1>6. guard <=> InFlight(kinds) # {}
  BY <1>4, <1>5
<1>7. \A x, y \in InFlight(kinds) : x = y
  BY <1>4, <1>5
<1> QED
  BY <1>6, <1>7 DEF OneAtATime

\* "No double threads", "no double adoptions" (frontend thread/update.ts,
\* rail/update.ts): of a quick start's calls and answers there is one in flight
\* exactly while the welcome is starting, and the same of an adoption, for every
\* interleaving of gestures, faults, deadlines and answers.
THEOREM OneBirthAtATime == UiSpec => []OneBirth
<1>1. UiInv => OneBirth
  <2> SUFFICES ASSUME UiInv PROVE OneBirth
    OBVIOUS
  <2>1. QueueType /\ Lone(Births, pane.starting) /\ Lone(Adopts, rail.adopting # Root)
    BY DEF UiInv, UiTypeOK, Guarded
  <2>2. OneAtATime(Births, pane.starting)
    BY <2>1, FlightIs
  <2>3. OneAtATime(Adopts, rail.adopting # Root)
    BY <2>1, FlightIs
  <2> QED
    BY <2>2, <2>3 DEF OneBirth, Births, Adopts
<1> QED
  BY <1>1, UiSafe, PTL

\* The mounted editor takes keys exactly when the pane says so (frontend
\* thread/composer.ts): whatever swaps the page, it is never left locked.
THEOREM EditorFollows == UiSpec => []EditorAgrees
<1>1. UiInv => EditorAgrees
  <2> SUFFICES ASSUME UiInv PROVE EditorAgrees
    OBVIOUS
  <2>1. CASE route = Root
    BY <2>1, PaneIs DEF EditorAgrees
  <2>2. CASE route # Root
    BY <2>2, PaneIs DEF EditorAgrees
  <2> QED
    BY <2>1, <2>2
<1> QED
  BY <1>1, UiSafe, PTL

----------------------------------------------------------------------------
(* Sequences as what is on the way: what is in them, and what comes after.  *)

LEMMA ToSetType ==
    ASSUME NEW S, NEW q \in Seq(S)
    PROVE  /\ ToSet(q) = {q[i] : i \in 1 .. Len(q)} /\ ToSet(q) \subseteq S
           /\ \A i \in 1 .. Len(q) : q[i] \in ToSet(q) /\ q[i] \in S
           /\ ToSet(<<>>) = {} /\ (ToSet(q) = {} => q = <<>>)
<1>1. DOMAIN q = 1 .. Len(q) /\ DOMAIN <<>> = {} /\ Len(q) \in Nat
      /\ \A i \in 1 .. Len(q) : q[i] \in S
  OBVIOUS
<1>2. ToSet(q) = {q[i] : i \in 1 .. Len(q)} /\ ToSet(<<>>) = {}
  BY <1>1 DEF ToSet
<1>3. ASSUME q # <<>> PROVE q[1] \in ToSet(q)
  <2>1. Len(q) # 0
    BY <1>1, <1>3, EmptySeq
  <2>2. 1 \in 1 .. Len(q)
    BY <1>1, <2>1
  <2> QED
    BY <1>2, <2>2
<1> QED
  BY <1>1, <1>2, <1>3

LEMMA ToSetConcat ==
    ASSUME NEW S, NEW q \in Seq(S), NEW r \in Seq(S)
    PROVE  q \o r \in Seq(S) /\ ToSet(q \o r) = ToSet(q) \cup ToSet(r)
<1> DEFINE s == q \o r
<1>1. /\ s \in Seq(S) /\ Len(s) = Len(q) + Len(r) /\ Len(q) \in Nat /\ Len(r) \in Nat
      /\ \A i \in 1 .. Len(q) + Len(r) : s[i] = IF i <= Len(q) THEN q[i] ELSE r[i - Len(q)]
  BY ConcatProperties
<1> HIDE DEF s
<1>2. /\ ToSet(s) = {s[i] : i \in 1 .. Len(s)}
      /\ ToSet(q) = {q[i] : i \in 1 .. Len(q)} /\ ToSet(r) = {r[i] : i \in 1 .. Len(r)}
  BY <1>1, ToSetType
<1>3. ASSUME NEW i \in 1 .. Len(s) PROVE s[i] \in ToSet(q) \cup ToSet(r)
  <2>1. CASE i <= Len(q)
    <3>1. i \in 1 .. Len(q) /\ s[i] = q[i]
      BY <1>1, <2>1
    <3> QED
      BY <1>2, <3>1
  <2>2. CASE ~ (i <= Len(q))
    <3>1. i - Len(q) \in 1 .. Len(r) /\ s[i] = r[i - Len(q)]
      BY <1>1, <2>2
    <3> QED
      BY <1>2, <3>1
  <2> QED
    BY <2>1, <2>2
<1>4. ASSUME NEW i \in 1 .. Len(q) PROVE q[i] \in ToSet(s)
  <2>1. i \in 1 .. Len(s) /\ s[i] = q[i]
    BY <1>1
  <2> QED
    BY <1>2, <2>1
<1>5. ASSUME NEW i \in 1 .. Len(r) PROVE r[i] \in ToSet(s)
  <2> DEFINE k == i + Len(q)
  <2>1. k \in 1 .. Len(q) + Len(r) /\ ~ (k <= Len(q)) /\ k - Len(q) = i
    BY <1>1
  <2> HIDE DEF k
  <2>2. k \in 1 .. Len(s) /\ s[k] = r[i]
    BY <1>1, <2>1
  <2> QED
    BY <1>2, <2>2
<1>6. ToSet(s) = ToSet(q) \cup ToSet(r)
  BY <1>2, <1>3, <1>4, <1>5
<1> QED
  BY <1>1, <1>6 DEF s

LEMMA ToSetTail ==
    ASSUME NEW S, NEW q \in Seq(S), q # <<>>
    PROVE  /\ Tail(q) \in Seq(S) /\ Head(q) \in S /\ Head(q) \in ToSet(q)
           /\ ToSet(q) = {Head(q)} \cup ToSet(Tail(q))
<1> DEFINE r == Tail(q)
<1>1. /\ r \in Seq(S) /\ Len(r) = Len(q) - 1 /\ Head(q) = q[1] /\ Head(q) \in S
      /\ \A i \in 1 .. Len(r) : r[i] = q[i + 1]
      /\ Len(q) \in Nat /\ Len(q) >= 1
  OBVIOUS
<1> HIDE DEF r
<1>2. ToSet(q) = {q[i] : i \in 1 .. Len(q)} /\ ToSet(r) = {r[i] : i \in 1 .. Len(r)}
  BY <1>1, ToSetType
<1>3. 1 \in 1 .. Len(q) /\ \A i \in 1 .. Len(r) : i + 1 \in 1 .. Len(q)
  BY <1>1
<1>4. ASSUME NEW i \in 1 .. Len(q), i # 1 PROVE q[i] \in ToSet(r)
  <2>1. i - 1 \in 1 .. Len(r) /\ (i - 1) + 1 = i
    BY <1>1, <1>4
  <2>2. r[i - 1] = q[i]
    BY <1>1, <2>1
  <2> QED
    BY <1>2, <2>1, <2>2
<1>5. ToSet(r) \subseteq ToSet(q) /\ Head(q) \in ToSet(q)
  BY <1>1, <1>2, <1>3
<1>6. ToSet(q) \subseteq {Head(q)} \cup ToSet(r)
  BY <1>1, <1>2, <1>4
<1>7. ToSet(q) = {Head(q)} \cup ToSet(r)
  BY <1>5, <1>6
<1> QED
  BY <1>1, <1>5, <1>7 DEF r

LEMMA ToSetRemove ==
    ASSUME NEW S, NEW q \in Seq(S), NEW k \in 1 .. Len(q)
    PROVE  /\ RemoveAt(q, k) \in Seq(S) /\ q[k] \in S
           /\ ToSet(q) = {q[k]} \cup ToSet(RemoveAt(q, k))
<1> DEFINE r == RemoveAt(q, k)
<1>0. Len(q) \in Nat
  OBVIOUS
<1>1. /\ r \in Seq(S) /\ Len(r) = Len(q) - 1 /\ Len(q) \in Nat
      /\ \A i \in 1 .. Len(q) - 1 : r[i] = q[IF i < k THEN i ELSE i + 1]
  <2>1. /\ r \in Seq(S) /\ Len(r) = Len(q) - 1
        /\ \A i \in 1 .. Len(q) - 1 : r[i] = q[IF i < k THEN i ELSE i + 1]
    BY RemoveAtProperties
  <2> QED
    BY <1>0, <2>1
<1> HIDE DEF r
<1>2. ToSet(q) = {q[i] : i \in 1 .. Len(q)} /\ ToSet(r) = {r[i] : i \in 1 .. Len(r)}
  BY <1>1, ToSetType
<1>3. ASSUME NEW i \in 1 .. Len(r) PROVE r[i] \in ToSet(q)
  <2>1. CASE i < k
    <3>1. i \in 1 .. Len(q) /\ r[i] = q[i]
      BY <1>1, <2>1
    <3> QED
      BY <1>2, <3>1
  <2>2. CASE ~ (i < k)
    <3>1. i + 1 \in 1 .. Len(q) /\ r[i] = q[i + 1]
      BY <1>1, <2>2
    <3> QED
      BY <1>2, <3>1
  <2> QED
    BY <2>1, <2>2
<1>4. ASSUME NEW i \in 1 .. Len(q), i # k PROVE q[i] \in ToSet(r)
  <2>1. CASE i < k
    <3>1. i \in 1 .. Len(r) /\ r[i] = q[i]
      BY <1>1, <2>1
    <3> QED
      BY <1>2, <3>1
  <2>2. CASE ~ (i < k)
    <3> DEFINE m == i - 1
    <3>0. m \in 1 .. Len(q) - 1 /\ ~ (m < k) /\ m + 1 = i
      BY <1>4, <2>2, <1>1
    <3> HIDE DEF m
    <3>1. m \in 1 .. Len(r) /\ r[m] = q[i]
      BY <1>1, <3>0
    <3> QED
      BY <1>2, <3>1
  <2> QED
    BY <2>1, <2>2
<1>5. ToSet(r) \subseteq ToSet(q)
  BY <1>2, <1>3
<1>6. ToSet(q) \subseteq {q[k]} \cup ToSet(r)
  BY <1>2, <1>4
<1>7. q[k] \in ToSet(q)
  BY <1>2
<1>8. ToSet(q) = {q[k]} \cup ToSet(r)
  BY <1>5, <1>6, <1>7
<1>9. q[k] \in S
  OBVIOUS
<1> QED
  BY <1>1, <1>8, <1>9 DEF r

LEMMA ToSetOne ==
    ASSUME NEW S, NEW x \in S
    PROVE  /\ <<x>> \in Seq(S) /\ <<>> \in Seq(S)
           /\ ToSet(<<x>>) = {x} /\ ToSet(<<>>) = {}
<1>1. /\ <<x>> \in Seq(S) /\ <<>> \in Seq(S) /\ Len(<<x>>) = 1 /\ <<x>>[1] = x
      /\ 1 .. 1 = {1}
  OBVIOUS
<1> DEFINE one == <<x>>
<1>2. one \in Seq(S) /\ Len(one) = 1 /\ one[1] = x
  BY <1>1
<1> HIDE DEF one
<1>3. ToSet(one) = {one[i] : i \in 1 .. Len(one)} /\ ToSet(<<>>) = {}
  BY <1>2, ToSetType
<1>4. ToSet(one) = {x}
  BY <1>1, <1>2, <1>3
<1> QED
  BY <1>1, <1>3, <1>4 DEF one

\* Whatever is in A has something of B behind it.
Followed(q, A, B) ==
    \A i \in 1 .. Len(q) : q[i] \in A => \E j \in 1 .. Len(q) : j > i /\ q[j] \in B

LEMMA FollowedTail ==
    ASSUME NEW S, NEW q \in Seq(S), q # <<>>, NEW A, NEW B, Followed(q, A, B)
    PROVE  /\ Followed(Tail(q), A, B)
           /\ Head(q) \in A => \E x \in ToSet(Tail(q)) : x \in B
<1> DEFINE r == Tail(q)
<1>1. /\ r \in Seq(S) /\ Len(r) = Len(q) - 1 /\ Head(q) = q[1]
      /\ \A i \in 1 .. Len(r) : r[i] = q[i + 1]
      /\ Len(q) \in Nat /\ Len(q) >= 1
  OBVIOUS
<1> HIDE DEF r
<1>2. ToSet(r) = {r[i] : i \in 1 .. Len(r)}
  BY <1>1, ToSetType
<1>3. ASSUME NEW j \in 1 .. Len(q), j > 1
      PROVE  j - 1 \in 1 .. Len(r) /\ r[j - 1] = q[j]
  <2> DEFINE k == j - 1
  <2>1. k \in 1 .. Len(r) /\ k + 1 = j
    BY <1>1, <1>3
  <2> HIDE DEF k
  <2>2. r[k] = q[j]
    BY <1>1, <2>1
  <2> QED
    BY <2>1, <2>2 DEF k
<1>4. ASSUME NEW i \in 1 .. Len(r), r[i] \in A
      PROVE  \E j \in 1 .. Len(r) : j > i /\ r[j] \in B
  <2>1. i + 1 \in 1 .. Len(q) /\ q[i + 1] \in A
    BY <1>1, <1>4
  <2>2. PICK j \in 1 .. Len(q) : j > i + 1 /\ q[j] \in B
    BY <2>1 DEF Followed
  <2>3. j > 1 /\ j - 1 > i
    BY <1>1, <2>2
  <2>4. j - 1 \in 1 .. Len(r) /\ r[j - 1] \in B
    BY <1>3, <2>2, <2>3
  <2> QED
    BY <2>3, <2>4
<1>5. ASSUME Head(q) \in A PROVE \E x \in ToSet(r) : x \in B
  <2>1. 1 \in 1 .. Len(q) /\ q[1] \in A
    BY <1>1, <1>5
  <2>2. PICK j \in 1 .. Len(q) : j > 1 /\ q[j] \in B
    BY <2>1 DEF Followed
  <2>3. j - 1 \in 1 .. Len(r) /\ r[j - 1] \in B
    BY <1>3, <2>2
  <2> QED
    BY <1>2, <2>3
<1> QED
  BY <1>4, <1>5 DEF r, Followed

LEMMA FollowedAppend ==
    ASSUME NEW S, NEW q \in Seq(S), NEW f \in S, NEW A, NEW B, f \notin A,
           Followed(q, A, B) \/ f \in B
    PROVE  Followed(q \o <<f>>, A, B)
<1> DEFINE one == <<f>>
           r == q \o one
<1>1. one \in Seq(S) /\ Len(one) = 1 /\ one[1] = f
  OBVIOUS
<1> HIDE DEF one
<1>2. /\ r \in Seq(S) /\ Len(r) = Len(q) + 1 /\ Len(q) \in Nat
      /\ \A i \in 1 .. Len(q) + 1 : r[i] = IF i <= Len(q) THEN q[i] ELSE one[i - Len(q)]
  BY <1>1, ConcatProperties
<1> HIDE DEF r
<1>3. \A i \in 1 .. Len(q) : i \in 1 .. Len(r) /\ r[i] = q[i]
  BY <1>2
<1>4. Len(q) + 1 \in 1 .. Len(r) /\ r[Len(q) + 1] = f
  <2>1. Len(q) + 1 \in 1 .. Len(q) + 1 /\ ~ (Len(q) + 1 <= Len(q)) /\ (Len(q) + 1) - Len(q) = 1
    BY <1>2
  <2> QED
    BY <1>1, <1>2, <2>1
<1>5. ASSUME NEW i \in 1 .. Len(r), r[i] \in A
      PROVE  \E j \in 1 .. Len(r) : j > i /\ r[j] \in B
  <2>1. i \in 1 .. Len(q)
    <3>1. i # Len(q) + 1
      BY <1>4, <1>5
    <3> QED
      BY <1>2, <3>1
  <2>2. CASE f \in B
    <3>1. Len(q) + 1 > i
      BY <1>2, <2>1
    <3> QED
      BY <1>4, <2>2, <3>1
  <2>3. CASE Followed(q, A, B)
    <3>1. q[i] \in A
      BY <1>3, <1>5, <2>1
    <3>2. PICK j \in 1 .. Len(q) : j > i /\ q[j] \in B
      BY <2>1, <2>3, <3>1 DEF Followed
    <3> QED
      BY <1>3, <3>2
  <2> QED
    BY <2>2, <2>3
<1>6. Followed(r, A, B)
  BY <1>5 DEF Followed
<1> QED
  BY <1>6 DEF r, one

LEMMA FollowedPrepend ==
    ASSUME NEW S, NEW q \in Seq(S), NEW f \in S, NEW A, NEW B, f \notin A, Followed(q, A, B)
    PROVE  Followed(<<f>> \o q, A, B)
<1> DEFINE one == <<f>>
           r == one \o q
<1>1. one \in Seq(S) /\ Len(one) = 1 /\ one[1] = f
  OBVIOUS
<1> HIDE DEF one
<1>2. /\ r \in Seq(S) /\ Len(r) = 1 + Len(q) /\ Len(q) \in Nat
      /\ \A i \in 1 .. 1 + Len(q) : r[i] = IF i <= 1 THEN one[i] ELSE q[i - 1]
  <2>1. /\ r \in Seq(S) /\ Len(r) = Len(one) + Len(q)
        /\ \A i \in 1 .. Len(one) + Len(q) :
              r[i] = IF i <= Len(one) THEN one[i] ELSE q[i - Len(one)]
    BY <1>1, ConcatProperties
  <2>2. Len(q) \in Nat
    OBVIOUS
  <2> HIDE DEF r
  <2> QED
    BY <1>1, <2>1, <2>2
<1> HIDE DEF r
<1>3. r[1] = f
  <2>1. 1 \in 1 .. 1 + Len(q) /\ 1 <= 1
    BY <1>2
  <2> QED
    BY <1>1, <1>2, <2>1
<1>4. ASSUME NEW i \in 1 .. Len(q) PROVE i + 1 \in 1 .. Len(r) /\ r[i + 1] = q[i]
  <2> DEFINE k == i + 1
  <2>1. k \in 1 .. 1 + Len(q) /\ ~ (k <= 1) /\ k - 1 = i
    BY <1>2
  <2> HIDE DEF k
  <2>2. k \in 1 .. Len(r) /\ r[k] = q[i]
    BY <1>2, <2>1
  <2> QED
    BY <2>2 DEF k
<1>5. ASSUME NEW i \in 1 .. Len(r), r[i] \in A
      PROVE  \E j \in 1 .. Len(r) : j > i /\ r[j] \in B
  <2> DEFINE k == i - 1
  <2>1. i # 1
    BY <1>3, <1>5
  <2>2. k \in 1 .. Len(q) /\ i = k + 1
    BY <1>2, <2>1
  <2> HIDE DEF k
  <2>3. q[k] \in A
    BY <1>4, <1>5, <2>2
  <2>4. PICK j \in 1 .. Len(q) : j > k /\ q[j] \in B
    BY <2>2, <2>3 DEF Followed
  <2>5. j + 1 \in 1 .. Len(r) /\ r[j + 1] \in B /\ j + 1 > i
    BY <1>2, <1>4, <2>2, <2>4
  <2> QED
    BY <2>5
<1>6. Followed(r, A, B)
  BY <1>5 DEF Followed
<1> QED
  BY <1>6 DEF r, one

LEMMA FollowedLess ==
    ASSUME NEW S, NEW q \in Seq(S), NEW A, NEW B, NEW C, Followed(q, A, B),
           \A x \in ToSet(q) : x \in C => x \in A
    PROVE  Followed(q, C, B)
BY ToSetType DEF Followed

LEMMA FollowedNone ==
    ASSUME NEW S, NEW q \in Seq(S), NEW A, NEW B, \A x \in ToSet(q) : x \notin A
    PROVE  Followed(q, A, B)
BY ToSetType DEF Followed

LEMMA ToSetAppend ==
    ASSUME NEW S, NEW q \in Seq(S), NEW x \in S
    PROVE  q \o <<x>> \in Seq(S) /\ ToSet(q \o <<x>>) = ToSet(q) \cup {x}
<1> DEFINE one == <<x>>
<1>1. one \in Seq(S) /\ ToSet(one) = {x}
  BY ToSetOne
<1> HIDE DEF one
<1>2. q \o one \in Seq(S) /\ ToSet(q \o one) = ToSet(q) \cup ToSet(one)
  BY <1>1, ToSetConcat
<1> QED
  BY <1>1, <1>2 DEF one

----------------------------------------------------------------------------
(***************************************************************************)
(* What the console shows.  A row, or the header of the open thread, is the *)
(* registry's word, or the last word is still on its way: an event in the   *)
(* bridge or on the wire, or a read that was asked for and not refused.     *)
(***************************************************************************)

Wires == Answers \cup Changes

Event(f, t) == f.frame = "changed" /\ f.on = t
Events(t) == {f \in Wires : Event(f, t)}
Told(q, t) == \E f \in ToSet(q) : Event(f, t)

\* The answers that carry a thread the console takes over, and what they say.
Patches == {"rename", "archive", "unarchive", "adopt", "state"}
Speaks(f, t, past) ==
    \/ Event(f, t)
    \/ /\ f.frame = "answer" /\ f.ok
       /\ \/ f.kind \in Patches /\ f.of = t
          \/ f.kind = "list" /\ t \notin past
Word(f, t) == IF f.frame = "answer" /\ f.kind = "list" THEN f.value[t] ELSE f.value
Stale(t, info, past) == {f \in Wires : Speaks(f, t, past) /\ Word(f, t) # info}

\* What is out of date on the wire has an event behind it; so in the bridge,
\* unless the wire has one.
Truth == \A t \in There : Followed(wire, Stale(t, threads[t], raced), Events(t))
BridgeTruth ==
    \A t \in There :
        Told(wire, t) \/ Followed(bridge, Stale(t, threads[t], raced), Events(t))

\* A read that is waited for, or whose answer is on the wire.
Asked(kind, ons) == \E c \in ToSet(calls) : c.heard /\ c.kind = kind /\ c.on \in ons
Granted(kind, ons) ==
    \E f \in ToSet(wire) : f.frame = "answer" /\ f.ok /\ f.kind = kind /\ f.on \in ons
Due(kind, ons) == Asked(kind, ons) \/ Granted(kind, ons)

Lists(ok) == {f \in Wires : f.frame = "answer" /\ f.kind = "list" /\ f.ok = ok}
Mended == Asked("list", Places) \/ Followed(wire, Lists(FALSE), Lists(TRUE))

Pinned ==
    ~foreign /\ route \in There =>
        /\ \/ pane.info = threads[route]
           \/ Told(bridge, route) \/ Told(wire, route) \/ Due("state", {route})
        /\ pane.trail = "Success" \/ Due("trail", {route})
Listed ==
    /\ rail.list.tag = "Success" \/ Due("list", Places)
    /\ \A t \in There \ raced :
          \/ rail.list.rows[t] = threads[t]
          \/ Told(bridge, t) \/ Told(wire, t) \/ Due("list", Places)

\* The machine's word for the connection, and the close that is on its way to it.
Dialed ==
    /\ link = "up" => conn = "Online"
    /\ dialing <=> conn = "Connecting"
    /\ conn # "Online" => bridge = <<>>
    /\ conn = "Online" /\ link = "down" => bridge # <<>> /\ bridge[Len(bridge)].frame = "close"
    /\ \A i \in 1 .. Len(bridge) :
          bridge[i].frame = "close" => i = Len(bridge) /\ link = "down"

\* What calls and frames carry: no thread that never was, nothing of a deleted
\* one, and no listing that missed a change that is not in raced.
Named(rows) == \A t \in Threads : rows[t] # NoInfo => t \in given
CallSure(c) ==
    /\ c.kind = "trail" => c.on \in given
    /\ c.kind = "list" => Named(c.rows)
    /\ c.kind = "list" /\ c.heard /\ c.read => \A t \in There \ raced : c.rows[t] = threads[t]
AnswerSure(f) ==
    /\ f.kind = "trail" => f.on \in given /\ conn # "Connecting"
    /\ f.kind = "trail" /\ ~f.ok /\ link = "up" /\ ~unread => f.on \notin There
    /\ f.kind = "state" /\ f.ok => f.of = f.on
    /\ f.kind = "list" /\ f.ok => Named(f.value)
    /\ f.kind \in Threaded /\ f.ok => f.of \in given
    /\ f.kind = "delete" /\ f.ok => f.on \in given \ There
FrameSure(f) ==
    /\ f.frame = "changed" => f.on \in given
    /\ f.frame = "answer" => AnswerSure(f)
    /\ link = "down" => f.frame = "answer" /\ ~f.ok
Sound ==
    /\ \A c \in ToSet(calls) : CallSure(c)
    /\ \A f \in ToSet(wire) : FrameSure(f)
    /\ \A f \in ToSet(bridge) : f.frame = "changed" => f.on \in given
    /\ Named(rail.list.rows) /\ (route # Root => route \in given)

Current ==
    link = "up" => Truth /\ BridgeTruth /\ (~unread => Mended /\ Pinned /\ Listed)

Shown == Dialed /\ Sound /\ Current

LEMMA QueuesAre ==
    ASSUME UiInv
    PROVE  /\ calls \in Seq(Calls) /\ ToSet(calls) \subseteq Calls
           /\ wire \in Seq(Wires) /\ ToSet(wire) \subseteq Wires
           /\ bridge \in Seq(Changes \cup Closes) /\ ToSet(bridge) \subseteq Changes \cup Closes
           /\ \A f \in Answers : f.frame = "answer" /\ f \in Wires
           /\ \A f \in Changes : f.frame = "changed" /\ f \in Wires
           /\ \A f \in Closes : f.frame = "close"
<1>1. /\ calls \in Seq(Calls) /\ wire \in Seq(Wires) /\ bridge \in Seq(Changes \cup Closes)
  BY DEF UiInv, UiTypeOK, QueueType, Wires
<1>2. ToSet(calls) \subseteq Calls
  BY <1>1, ToSetType
<1>3. ToSet(wire) \subseteq Wires
  BY <1>1, ToSetType
<1>4. ToSet(bridge) \subseteq Changes \cup Closes
  BY <1>1, ToSetType
<1>5. /\ \A f \in Answers : f.frame = "answer"
      /\ \A f \in Changes : f.frame = "changed"
      /\ \A f \in Closes : f.frame = "close"
  BY Marked
<1> QED
  BY <1>1, <1>2, <1>3, <1>4, <1>5 DEF Wires

\* Who waits is connected, and a connected console is on line.
LEMMA HeardIs ==
    ASSUME UiInv, Shown, NEW i \in 1 .. Len(calls), calls[i].heard
    PROVE  link = "up" /\ conn = "Online"
BY DEF UiInv, UiTypeOK, ConnType, Unheard, Shown, Dialed

\* The machine's word does not depend on threads and calls.
LEMMA DialedStays ==
    ASSUME Dialed, UNCHANGED <<conn, link, dialing, bridge>>
    PROVE  Dialed'
BY DEF Dialed

\* An answer that reports and changes nothing.
LEMMA AnswerShown ==
    ASSUME UiInv, Shown, NEW i \in 1 .. Len(calls), NEW ok \in BOOLEAN, NEW of, NEW value,
           NEW a \in Answers, a = Answer(calls[i], ok, of, value),
           Reply(i, ok, of, value, <<>>), UNCHANGED <<threads, given, raced>>,
           ~unread' => ~unread, calls[i].heard => AnswerSure(a)',
           \A t \in There : a \notin Stale(t, threads[t], raced),
           ~ok /\ ~unread' => /\ calls[i].kind # "list"
                              /\ calls[i].kind \in {"state", "trail"} => calls[i].on \notin There
    PROVE  Shown'
<1> DEFINE c == calls[i]
<1>1. /\ calls' = RemoveAt(calls, i) /\ Unmoved /\ bridge' = bridge
      /\ wire' = IF link = "up" THEN wire \o <<>> \o (IF c.heard THEN <<a>> ELSE <<>>) ELSE wire
      /\ a.frame = "answer" /\ a.kind = c.kind /\ a.on = c.on /\ a.ok = ok
  BY DEF Reply, Unmoved, connection, page, Answer
<1>2. /\ calls \in Seq(Calls) /\ wire \in Seq(Wires) /\ a \in Wires /\ c \in Calls
      /\ ToSet(wire) \subseteq Wires /\ ToSet(calls) \subseteq Calls
  BY QueuesAre
<1>3. ToSet(calls) = {c} \cup ToSet(calls') /\ c \in ToSet(calls)
  BY <1>1, <1>2, ToSetRemove
<1>4. c.heard => link = "up" /\ conn = "Online"
  BY HeardIs
<1> HIDE DEF c
<1>5. \/ c.heard /\ link = "up" /\ wire' = wire \o <<a>> /\ ToSet(wire') = ToSet(wire) \cup {a}
      \/ ~ c.heard /\ wire' = wire
  <2>1. wire \o <<>> = wire
    BY <1>2
  <2>3. ToSet(wire \o <<a>>) = ToSet(wire) \cup {a}
    BY <1>2, ToSetAppend
  <2>4. CASE c.heard
    BY <1>1, <1>4, <2>1, <2>3, <2>4
  <2>5. CASE ~ c.heard
    BY <1>1, <2>1, <2>5
  <2> QED
    BY <2>4, <2>5
<1>6. There' = There
  BY DEF There
<1>7. Dialed'
  BY <1>1, DialedStays DEF Shown, Unmoved
<1>8. Sound'
  <2>1. \A x \in ToSet(calls') : CallSure(x)'
    BY <1>3, <1>6 DEF Shown, Sound, CallSure, Named
  <2>2. ASSUME NEW f \in ToSet(wire), FrameSure(f) PROVE FrameSure(f)'
    BY <1>1, <1>6, <2>2 DEF FrameSure, AnswerSure, Named, Unmoved
  <2>3. c.heard => FrameSure(a)'
    BY <1>1, <1>4 DEF FrameSure, Unmoved, c
  <2>4. \A f \in ToSet(wire') : FrameSure(f)'
    BY <1>5, <2>2, <2>3 DEF Shown, Sound
  <2> QED
    BY <1>1, <2>1, <2>4 DEF Shown, Sound, Named, Unmoved
<1>9. ASSUME link = "up" PROVE (Truth /\ BridgeTruth /\ (~unread => Mended /\ Pinned /\ Listed))'
  <2>1. Truth /\ BridgeTruth /\ (~unread => Mended /\ Pinned /\ Listed)
    BY <1>9 DEF Shown, Current
  <2>2. ASSUME NEW t \in There PROVE Followed(wire', Stale(t, threads[t], raced), Events(t))
    <3> DEFINE A == Stale(t, threads[t], raced)
               B == Events(t)
    <3>1. Followed(wire, A, B) /\ a \notin A
      BY <2>1 DEF Truth
    <3> HIDE DEF A, B
    <3>2. Followed(wire \o <<a>>, A, B)
      BY <1>2, <3>1, FollowedAppend
    <3>3. Followed(wire', A, B)
      BY <1>5, <3>1, <3>2
    <3> QED
      BY <3>3 DEF A, B
  <2>3. Truth'
    BY <1>6, <2>2 DEF Truth, Stale, Speaks
  <2>4. \A t : Told(wire, t) => Told(wire', t)
    BY <1>5 DEF Told
  <2>5. BridgeTruth'
    BY <1>1, <1>6, <2>1, <2>4 DEF BridgeTruth, Stale, Speaks
  <2>6. ASSUME NEW kind, NEW ons, Due(kind, ons),
               ok \/ c.kind # kind \/ c.on \notin ons
        PROVE  Due(kind, ons)'
    <3>1. CASE Granted(kind, ons)
      BY <1>5, <3>1 DEF Granted, Due
    <3>2. CASE Asked(kind, ons)
      <4>1. PICK x \in ToSet(calls) : x.heard /\ x.kind = kind /\ x.on \in ons
        BY <3>2 DEF Asked
      <4>2. CASE x \in ToSet(calls')
        BY <4>1, <4>2 DEF Due, Asked
      <4>3. CASE x \notin ToSet(calls')
        <5>1. x = c
          BY <1>3, <4>1, <4>3
        <5>2. a \in ToSet(wire') /\ a.ok /\ a.kind = kind /\ a.on \in ons
          BY <1>1, <1>5, <2>6, <4>1, <5>1
        <5> QED
          BY <1>1, <5>2 DEF Due, Granted
      <4> QED
        BY <4>2, <4>3
    <3> QED
      BY <2>6, <3>1, <3>2 DEF Due
  <2>7. ASSUME ~unread' PROVE (Mended /\ Pinned /\ Listed)'
    <3>1. /\ Mended /\ Pinned /\ Listed /\ (~ok => c.kind # "list")
          /\ ~ok /\ c.kind \in {"state", "trail"} => c.on \notin There
      BY <2>1, <2>7 DEF c
    <3>2. Due("list", Places) => Due("list", Places)'
      BY <2>6, <3>1
    <3>3. Mended'
      <4> DEFINE A == Lists(FALSE)
                 B == Lists(TRUE)
      <4>1. a \notin A
        BY <1>1, <3>1 DEF Lists
      <4>2. CASE Asked("list", Places)'
        BY <4>2 DEF Mended
      <4>3. CASE Granted("list", Places)' /\ ~ Asked("list", Places)' /\ Asked("list", Places)
        <5>1. PICK x \in ToSet(calls) : x.heard /\ x.kind = "list" /\ x.on \in Places
          BY <4>3 DEF Asked
        <5>2. x = c
          BY <1>3, <4>3, <5>1 DEF Asked
        <5>3. a \in B /\ wire' = wire \o <<a>>
          BY <1>1, <1>2, <1>5, <3>1, <5>1, <5>2 DEF Lists
        <5> HIDE DEF A, B
        <5>4. Followed(wire', A, B)
          BY <1>2, <4>1, <5>3, FollowedAppend
        <5> QED
          BY <5>4 DEF Mended, A, B
      <4>4. CASE ~ Asked("list", Places)
        <5>1. Followed(wire, A, B)
          BY <3>1, <4>4 DEF Mended
        <5> HIDE DEF A, B
        <5>2. Followed(wire \o <<a>>, A, B)
          BY <1>2, <4>1, <5>1, FollowedAppend
        <5>3. Followed(wire', A, B)
          BY <1>5, <5>1, <5>2
        <5> QED
          BY <5>3 DEF Mended, A, B
      <4> QED
        BY <3>2, <4>2, <4>3, <4>4 DEF Due
    <3>4. ASSUME ~foreign, route \in There
          PROVE  /\ Due("state", {route}) => Due("state", {route})'
                 /\ Due("trail", {route}) => Due("trail", {route})'
      <4>1. route' = route
        BY <1>1 DEF Unmoved
      <4>2. ok \/ c.kind # "state" \/ c.on \notin {route}
        BY <3>1, <3>4
      <4>3. ok \/ c.kind # "trail" \/ c.on \notin {route}
        BY <3>1, <3>4
      <4>4. Due("state", {route}) => \A r : r = {route} => Due("state", r)'
        BY <2>6, <4>2
      <4>5. Due("trail", {route}) => \A r : r = {route} => Due("trail", r)'
        BY <2>6, <4>3
      <4> QED
        BY <4>1, <4>4, <4>5
    <3>5. Pinned'
      BY <1>1, <1>6, <2>4, <3>1, <3>4 DEF Pinned, Unmoved, Told
    <3>6. Listed'
      BY <1>1, <1>6, <2>4, <3>1, <3>2 DEF Listed, Unmoved, Told
    <3> QED
      BY <3>3, <3>5, <3>6
  <2> QED
    BY <2>3, <2>5, <2>7
<1>10. Current'
  BY <1>1, <1>9 DEF Current, Unmoved
<1> QED
  BY <1>7, <1>8, <1>10 DEF Shown

LEMMA SoundIs ==
    ASSUME UiInv, Shown, NEW i \in 1 .. Len(calls)
    PROVE  /\ calls[i] \in Calls /\ calls[i] \in ToSet(calls) /\ CallSure(calls[i])
           /\ There \subseteq given /\ There \subseteq Threads
<1>1. calls[i] \in Calls /\ calls[i] \in ToSet(calls)
  BY QueuesAre, ToSetType
<1>2. There \subseteq given /\ There \subseteq Threads
  BY DEF There, UiInv, UiTypeOK, ServerType
<1> QED
  BY <1>1, <1>2 DEF Shown, Sound

\* A failed answer says nothing of a thread.
LEMMA FailedIs ==
    ASSUME NEW c \in Calls
    PROVE  /\ Failed(c) \in Answers /\ Failed(c).frame = "answer" /\ ~Failed(c).ok
           /\ Failed(c).kind = c.kind /\ Failed(c).on = c.on
           /\ \A t, info, past : Failed(c) \notin Stale(t, info, past)
<1> DEFINE f == Failed(c)
<1>1. f \in Answers /\ f.frame = "answer" /\ f.ok = FALSE /\ f.kind = c.kind /\ f.on = c.on
  BY FailedType DEF Failed, Answer
<1> HIDE DEF f
<1>2. \A t, info, past : f \notin Stale(t, info, past)
  BY <1>1 DEF Stale, Speaks, Event
<1> QED
  BY <1>1, <1>2 DEF f

LEMMA RefuseShown ==
    ASSUME UiInv, Shown, NEW i \in 1 .. Len(calls), Refuse(i),
           calls[i].kind \in {"state", "trail"} => calls[i].on \notin There
    PROVE  Shown'
<1> DEFINE c == calls[i]
           a == Failed(c)
<1>1. /\ Reply(i, FALSE, Root, NoInfo, <<>>) /\ UNCHANGED <<threads, given, raced>> /\ Unmoved
      /\ unread' = (unread \/ c.kind = "list")
  BY ReplyUnmoved DEF Refuse, server
<1>2. c \in Calls /\ CallSure(c)
  BY SoundIs
<1>3. /\ a \in Answers /\ a.frame = "answer" /\ ~a.ok /\ a.kind = c.kind /\ a.on = c.on
      /\ \A t, info, past : a \notin Stale(t, info, past)
  BY <1>2, FailedIs
<1>4. a = Answer(calls[i], FALSE, Root, NoInfo)
  BY DEF Failed
<1>5. c.heard => conn = "Online"
  BY HeardIs
<1>6. There' = There
  BY <1>1 DEF There
<1> HIDE DEF a
<1>7. c.heard => \A f : f = a => AnswerSure(f)'
  BY <1>1, <1>2, <1>3, <1>5, <1>6 DEF AnswerSure, CallSure, Unmoved, c
<1>8. \E f \in Answers : /\ f = Answer(calls[i], FALSE, Root, NoInfo) /\ (c.heard => AnswerSure(f)')
                         /\ \A t, info, past : f \notin Stale(t, info, past)
  BY <1>3, <1>4, <1>7
<1>9. PICK f \in Answers : /\ f = Answer(calls[i], FALSE, Root, NoInfo) /\ (c.heard => AnswerSure(f)')
                           /\ \A t, info, past : f \notin Stale(t, info, past)
  BY <1>8
<1>10. unread' \in BOOLEAN /\ (~unread' => ~unread /\ c.kind # "list")
  BY <1>1 DEF UiInv, UiTypeOK, HistoryType
<1> QED
  BY <1>1, <1>9, <1>10, AnswerShown

LEMMA WriteIs ==
    ASSUME UiInv, NEW t \in Threads, NEW info, Write(t, info), t \in There \/ t \notin given
    PROVE  /\ given' = given \cup {t} /\ There' \subseteq There \cup {t}
           /\ given \ There \subseteq given' \ There'
           /\ threads'[t] = info /\ \A u \in Threads : u # t => threads'[u] = threads[u]
           /\ raced \subseteq raced' /\ raced' \subseteq Threads
           /\ \A c \in ToSet(calls) : c.kind = "list" /\ c.read => t \in raced'
<1>1. /\ threads' = [threads EXCEPT ![t] = info] /\ given' = given \cup {t}
      /\ raced' = IF \E j \in DOMAIN calls : calls[j].kind = "list" /\ calls[j].read
                  THEN raced \cup {t} ELSE raced
  BY DEF Write, Race
<1>2. threads'[t] = info /\ \A u \in Threads : u # t => threads'[u] = threads[u]
  BY <1>1 DEF UiInv, UiTypeOK, ServerType, Tables
<1>3. \A c \in ToSet(calls) : \E j \in DOMAIN calls : calls[j] = c
  BY DEF ToSet
<1>4. raced \subseteq raced' /\ raced' \subseteq Threads
  BY <1>1 DEF UiInv, UiTypeOK, HistoryType
<1>5. \A c \in ToSet(calls) : c.kind = "list" /\ c.read => t \in raced'
  BY <1>1, <1>3
<1>6. There' \subseteq There \cup {t} /\ given \ There \subseteq given' \ There'
  BY <1>1, <1>2 DEF There
<1> QED
  BY <1>1, <1>2, <1>4, <1>5, <1>6

\* A thread changes, and a connected console is told.
LEMMA WriteShown ==
    ASSUME UiInv, Shown, NEW t \in Threads, NEW info, NEW told \in Infos, Write(t, info),
           t \in There \/ t \notin given, info # NoInfo => told = info,
           NEW rest \in Seq(Wires), rest = <<>> \/ \E a \in Answers : rest = <<a>>,
           wire' = IF link = "up" THEN wire \o <<Changed(t, told)>> \o rest ELSE wire,
           ToSet(calls') \subseteq ToSet(calls),
           \A c \in ToSet(calls) : c \in ToSet(calls') \/ c.kind \notin {"list", "state", "trail"},
           Unmoved, bridge' = bridge, unread' = unread,
           \A a \in ToSet(rest) : /\ AnswerSure(a)' /\ a.kind # "list"
                                  /\ \A u \in There' : a \notin Stale(u, threads[u], raced)'
    PROVE  Shown'
<1> DEFINE f == Changed(t, told)
           w == wire \o <<f>>
<1>1. f \in Changes /\ f.frame = "changed" /\ f.on = t /\ f.value = told /\ f.kind = "none"
  BY ChangedType DEF Changed
<1> HIDE DEF f
<1>2. wire \in Seq(Wires) /\ f \in Wires /\ ToSet(wire) \subseteq Wires
  BY <1>1, QueuesAre DEF Wires
<1>3. w \in Seq(Wires) /\ ToSet(w) = ToSet(wire) \cup {f}
  BY <1>2, ToSetAppend
<1>4. /\ given' = given \cup {t} /\ There' \subseteq There \cup {t}
      /\ given \ There \subseteq given' \ There'
      /\ threads'[t] = info /\ \A u \in Threads : u # t => threads'[u] = threads[u]
      /\ raced \subseteq raced' /\ raced' \subseteq Threads
      /\ \A c \in ToSet(calls) : c.kind = "list" /\ c.read => t \in raced'
  BY WriteIs
<1>5. There \subseteq given /\ There \subseteq Threads /\ There' \subseteq Threads
      /\ \A u \in Threads : u \in There' <=> threads'[u] # NoInfo
  BY DEF There, UiInv, UiTypeOK, ServerType
<1>6. link = "up" => wire' = w \o rest
  BY DEF w, f
<1> HIDE DEF w
<1>7. ToSet(w \o rest) = ToSet(w) \cup ToSet(rest)
  BY <1>3, ToSetConcat
<1>8. link = "up" => ToSet(wire') = ToSet(wire) \cup {f} \cup ToSet(rest)
  BY <1>3, <1>6, <1>7
<1>9. ~ (link = "up") => wire' = wire
  OBVIOUS
<1>10. Dialed'
  BY DialedStays DEF Shown, Unmoved
<1>11. Sound'
  <2>1. ASSUME NEW c \in ToSet(calls) PROVE CallSure(c)'
    <3>1. CallSure(c)
      BY DEF Shown, Sound
    <3>2. ASSUME c.kind = "list", c.heard, c.read, NEW u \in There', u \notin raced'
          PROVE  c.rows[u] = threads'[u]
      <4>1. u # t /\ u \in There /\ u \notin raced
        BY <1>4, <3>2
      <4> QED
        BY <1>4, <1>5, <3>1, <3>2, <4>1 DEF CallSure
    <3> QED
      BY <1>4, <3>1, <3>2 DEF CallSure, Named
  <2>2. ASSUME NEW x \in ToSet(wire) PROVE FrameSure(x)'
    <3>1. FrameSure(x)
      BY DEF Shown, Sound
    <3> QED
      BY <1>4, <1>5, <3>1 DEF FrameSure, AnswerSure, Named, Unmoved
  <2>3. link = "up" => FrameSure(f)'
    BY <1>1, <1>4 DEF FrameSure, Unmoved
  <2>4. ASSUME NEW a \in ToSet(rest), link = "up" PROVE FrameSure(a)'
    <3>1. a \in Answers
      <4>1. CASE rest = <<>>
        BY <4>1, ToSetType
      <4>2. CASE \E x \in Answers : rest = <<x>>
        BY <4>2, ToSetOne
      <4> QED
        BY <4>1, <4>2
    <3>2. a.frame = "answer"
      BY <3>1, QueuesAre
    <3> QED
      BY <2>4, <3>2 DEF FrameSure, Unmoved
  <2>5. \A x \in ToSet(wire') : FrameSure(x)'
    BY <1>8, <1>9, <2>2, <2>3, <2>4
  <2>6. \A c \in ToSet(calls') : CallSure(c)'
    BY <2>1
  <2>7. Named(rail.list.rows)' /\ (route # Root => route \in given)'
        /\ (\A x \in ToSet(bridge) : x.frame = "changed" => x.on \in given)'
    BY <1>4 DEF Shown, Sound, Named, Unmoved
  <2> QED
    BY <2>5, <2>6, <2>7 DEF Sound
<1>12. ASSUME link = "up" PROVE (Truth /\ BridgeTruth /\ (~unread => Mended /\ Pinned /\ Listed))'
  <2>1. Truth /\ BridgeTruth /\ (~unread => Mended /\ Pinned /\ Listed)
    BY <1>12 DEF Shown, Current
  <2>2. \A u, info2, past, past2 :
           past \subseteq past2 => Stale(u, info2, past2) \subseteq Stale(u, info2, past)
    BY DEF Stale, Speaks
  <2>3. ASSUME NEW u \in There'
        PROVE  Followed(wire', Stale(u, threads[u], raced)', Events(u))
    <3> DEFINE A == Stale(u, threads'[u], raced')
               B == Events(u)
    <3>1. Followed(w, A, B)
      <4>1. CASE u = t
        <5>1. f \in B
          BY <1>1, <1>2, <4>1 DEF Events, Event
        <5>2. f \notin A
          <6>1. threads'[u] = told
            BY <1>4, <1>5, <4>1
          <6> QED
            BY <1>1, <6>1 DEF Stale, Word
        <5> HIDE DEF A, B
        <5> QED
          BY <1>2, <5>1, <5>2, FollowedAppend DEF w
      <4>2. CASE u # t
        <5>1. u \in There /\ threads'[u] = threads[u]
          BY <1>4, <1>5, <4>2
        <5>2. Followed(wire, Stale(u, threads[u], raced), B)
          BY <2>1, <5>1 DEF Truth
        <5>3. A \subseteq Stale(u, threads[u], raced)
          BY <1>4, <2>2, <5>1
        <5>4. f \notin A
          BY <1>1, <4>2 DEF Stale, Speaks, Event
        <5> HIDE DEF A, B
        <5>5. Followed(wire, A, B)
          BY <1>2, <5>2, <5>3, FollowedLess
        <5> QED
          BY <1>2, <5>4, <5>5, FollowedAppend DEF w
      <4> QED
        BY <4>1, <4>2
    <3>2. \A a \in ToSet(rest) : a \notin A
      OBVIOUS
    <3> HIDE DEF A, B
    <3>3. Followed(w \o rest, A, B)
      <4>1. CASE rest = <<>>
        BY <1>3, <3>1, <4>1
      <4>2. CASE \E a \in Answers : rest = <<a>>
        <5>1. PICK a \in Answers : rest = <<a>>
          BY <4>2
        <5>2. a \in Wires /\ a \in ToSet(rest)
          BY <5>1, ToSetOne DEF Wires
        <5> QED
          BY <1>3, <3>1, <3>2, <5>1, <5>2, FollowedAppend
      <4> QED
        BY <4>1, <4>2
    <3> QED
      BY <1>6, <1>12, <3>3 DEF A, B
  <2>4. Truth'
    BY <2>3 DEF Truth
  <2>5. /\ \A u : Told(wire, u) => Told(wire', u)
        /\ Told(wire', t)
    BY <1>1, <1>8, <1>12 DEF Told, Event
  <2>6. BridgeTruth'
    <3> SUFFICES ASSUME NEW u \in There'
                 PROVE  Told(wire', u) \/ Followed(bridge', Stale(u, threads[u], raced)', Events(u))
      BY DEF BridgeTruth
    <3>1. CASE u = t
      BY <2>5, <3>1
    <3>2. CASE u # t
      <4>1. u \in There /\ threads'[u] = threads[u]
        BY <1>4, <1>5, <3>2
      <4>2. Stale(u, threads'[u], raced') \subseteq Stale(u, threads[u], raced)
        BY <1>4, <2>2, <4>1
      <4>3. Told(wire, u) \/ Followed(bridge, Stale(u, threads[u], raced), Events(u))
        BY <2>1, <4>1 DEF BridgeTruth
      <4> QED
        BY <2>5, <4>2, <4>3 DEF Followed
    <3> QED
      BY <3>1, <3>2
  <2>7. ASSUME NEW kind \in {"list", "state", "trail"}, NEW ons, Due(kind, ons)
        PROVE  /\ Due(kind, ons)' /\ (Asked(kind, ons) => Asked(kind, ons)')
    BY <1>8, <1>12, <2>7 DEF Due, Asked, Granted
  <2>8. ASSUME ~unread PROVE (Mended /\ Pinned /\ Listed)'
    <3>1. Mended /\ Pinned /\ Listed
      BY <2>1, <2>8
    <3>2. Mended'
      <4> DEFINE A == Lists(FALSE)
                 B == Lists(TRUE)
      <4>1. CASE Asked("list", Places)
        BY <2>7, <4>1 DEF Mended, Due
      <4>2. CASE Followed(wire, A, B)
        <5>1. f \notin A /\ \A a \in ToSet(rest) : a \notin A
          BY <1>1 DEF Lists
        <5> HIDE DEF A, B
        <5>2. Followed(w, A, B)
          BY <1>2, <4>2, <5>1, FollowedAppend DEF w
        <5>3. Followed(w \o rest, A, B)
          <6>1. CASE rest = <<>>
            BY <1>3, <5>2, <6>1
          <6>2. CASE \E a \in Answers : rest = <<a>>
            <7>1. PICK a \in Answers : rest = <<a>>
              BY <6>2
            <7>2. a \in Wires /\ a \in ToSet(rest)
              BY <7>1, ToSetOne DEF Wires
            <7> QED
              BY <1>3, <5>1, <5>2, <7>1, <7>2, FollowedAppend
          <6> QED
            BY <6>1, <6>2
        <5> QED
          BY <1>6, <1>12, <5>3 DEF A, B, Mended
      <4> QED
        BY <3>1, <4>1, <4>2 DEF Mended
    <3>3. ASSUME ~foreign', route' \in There'
          PROVE  /\ \/ pane'.info = threads'[route']
                    \/ Told(bridge', route') \/ Told(wire', route') \/ Due("state", {route})'
                 /\ pane'.trail = "Success" \/ Due("trail", {route})'
      <4>1. route' = route /\ foreign' = foreign /\ pane' = pane /\ bridge' = bridge
        BY DEF Unmoved
      <4>2. route \in There
        <5>1. route \in given
          BY <1>5, <3>3, <4>1, NoInfoType DEF Shown, Sound
        <5> QED
          BY <1>4, <3>3, <4>1, <5>1
      <4>3. /\ \/ pane.info = threads[route]
               \/ Told(bridge, route) \/ Told(wire, route) \/ Due("state", {route})
            /\ pane.trail = "Success" \/ Due("trail", {route})
        BY <3>1, <3>3, <4>1, <4>2 DEF Pinned
      <4>4. \A r : r = {route} => /\ Due("state", r) => Due("state", r)'
                                  /\ Due("trail", r) => Due("trail", r)'
        BY <2>7
      <4>5. /\ Due("state", {route}) => Due("state", {route})'
            /\ Due("trail", {route}) => Due("trail", {route})'
        BY <4>1, <4>4
      <4>6. route = t \/ threads'[route] = threads[route]
        BY <1>4, <1>5, <4>2
      <4> QED
        BY <2>5, <4>1, <4>3, <4>5, <4>6
    <3>4. Pinned'
      BY <3>3 DEF Pinned
    <3>5. Listed'
      <4>1. rail' = rail /\ (Due("list", Places) => Due("list", Places)')
        BY <2>7 DEF Unmoved
      <4>2. ASSUME NEW u \in There', u \notin raced'
            PROVE  \/ rail'.list.rows[u] = threads'[u]
                   \/ Told(bridge', u) \/ Told(wire', u) \/ Due("list", Places)'
        <5>1. CASE u = t
          BY <2>5, <5>1
        <5>2. CASE u # t
          <6>1. u \in There \ raced /\ threads'[u] = threads[u]
            BY <1>4, <1>5, <4>2, <5>2
          <6> QED
            BY <2>5, <3>1, <4>1, <6>1 DEF Listed
        <5> QED
          BY <5>1, <5>2
      <4> QED
        BY <3>1, <4>1, <4>2 DEF Listed
    <3> QED
      BY <3>2, <3>4, <3>5
  <2> QED
    BY <2>4, <2>6, <2>8
<1>13. Current'
  BY <1>12 DEF Current, Unmoved
<1> QED
  BY <1>10, <1>11, <1>13 DEF Shown

\* Who asked for a change is answered after the others are told.
LEMMA ServeShown ==
    ASSUME UiInv, Shown, NEW i \in 1 .. Len(calls), NEW t \in Threads, NEW info,
           NEW told \in Infos, NEW value, Write(t, info), t \in There \/ t \notin given,
           info # NoInfo => told = info, NEW a \in Answers, a = Answer(calls[i], TRUE, t, value),
           Reply(i, TRUE, t, value, <<Changed(t, told)>>), unread' = unread,
           calls[i].kind \notin {"list", "state", "trail"},
           calls[i].kind \in Patches => value = info,
           calls[i].kind = "delete" => info = NoInfo /\ calls[i].on = t
    PROVE  Shown'
<1> DEFINE c == calls[i]
           f == Changed(t, told)
<1>1. /\ calls' = RemoveAt(calls, i) /\ Unmoved /\ bridge' = bridge
      /\ wire' = IF link = "up" THEN wire \o <<f>> \o (IF c.heard THEN <<a>> ELSE <<>>) ELSE wire
      /\ a.frame = "answer" /\ a.kind = c.kind /\ a.on = c.on /\ a.ok = TRUE
      /\ a.of = t /\ a.value = value
  BY DEF Reply, Unmoved, connection, page, Answer
<1>2. calls \in Seq(Calls) /\ a \in Wires
  BY QueuesAre
<1>3. ToSet(calls) = {c} \cup ToSet(calls')
  BY <1>1, <1>2, ToSetRemove
<1>4. given' = given \cup {t} /\ threads'[t] = info
  BY WriteIs
<1>5. AnswerSure(a)'
  BY <1>1, <1>4 DEF AnswerSure, There, Threaded
<1>6. \A u \in There' : a \notin Stale(u, threads[u], raced)'
  BY <1>1, <1>4 DEF Stale, Speaks, Word, Event, Patches
<1>7. <<a>> \in Seq(Wires) /\ <<>> \in Seq(Wires) /\ ToSet(<<a>>) = {a} /\ ToSet(<<>>) = {}
  BY <1>2, ToSetOne
<1>8. ASSUME NEW rest \in Seq(Wires), rest = (IF c.heard THEN <<a>> ELSE <<>>) PROVE Shown'
  <2>1. rest = <<>> \/ \E x \in Answers : rest = <<x>>
    BY <1>8
  <2>2. ToSet(rest) \subseteq {a}
    BY <1>7, <1>8
  <2>3. \A x \in ToSet(rest) : /\ AnswerSure(x)' /\ x.kind # "list"
                               /\ \A u \in There' : x \notin Stale(u, threads[u], raced)'
    BY <1>1, <1>5, <1>6, <2>2
  <2>4. wire' = IF link = "up" THEN wire \o <<f>> \o rest ELSE wire
    BY <1>1, <1>8
  <2>5. /\ ToSet(calls') \subseteq ToSet(calls)
        /\ \A x \in ToSet(calls) : x \in ToSet(calls') \/ x.kind \notin {"list", "state", "trail"}
    BY <1>3
  <2> QED
    BY <1>1, <2>1, <2>3, <2>4, <2>5, WriteShown DEF f
<1>9. (IF c.heard THEN <<a>> ELSE <<>>) \in Seq(Wires)
  BY <1>7
<1> QED
  BY <1>8, <1>9

LEMMA PatchShown ==
    ASSUME UiInv, Shown, NEW i \in 1 .. Len(calls), ServePatch(i)
    PROVE  Shown'
<1> DEFINE c == calls[i]
           info == Patched(c.kind, threads[c.on])
           a == Answer(calls[i], TRUE, c.on, info)
<1>0. c.kind \in {"rename", "archive", "unarchive", "prompt", "start", "abort"}
  BY DEF ServePatch
<1>1. CASE Refuse(i)
  BY <1>0, <1>1, RefuseShown
<1>2. CASE ~ Refuse(i)
  <2>1. /\ c.on \in There /\ Write(c.on, info)
        /\ Reply(i, TRUE, c.on, info, <<Changed(c.on, info)>>) /\ unread' = unread
    BY <1>2 DEF ServePatch
  <2>2. c.on \in Threads /\ threads[c.on] \in Infos /\ c \in Calls
    BY <2>1, ThereType, SoundIs
  <2>3. info \in Infos
    BY <1>0, <2>2, PatchedType
  <2> HIDE DEF info
  <2>4. a \in Answers
    BY <1>0, <2>2, <2>3, AnswerType DEF Known, Places, Pages
  <2> HIDE DEF a
  <2> QED
    BY <1>0, <2>1, <2>2, <2>3, <2>4, ServeShown DEF a
<1> QED
  BY <1>1, <1>2

LEMMA DeleteShown ==
    ASSUME UiInv, Shown, NEW i \in 1 .. Len(calls), ServeDelete(i)
    PROVE  Shown'
<1> DEFINE c == calls[i]
           a == Answer(calls[i], TRUE, c.on, NoInfo)
<1>0. c.kind = "delete"
  BY DEF ServeDelete
<1>1. CASE Refuse(i)
  BY <1>0, <1>1, RefuseShown
<1>2. CASE ~ Refuse(i)
  <2>1. /\ c.on \in There /\ Write(c.on, NoInfo) /\ unread' = unread
        /\ Reply(i, TRUE, c.on, NoInfo, <<Changed(c.on, threads[c.on])>>)
    BY <1>2 DEF ServeDelete
  <2>2. c.on \in Threads /\ threads[c.on] \in Infos /\ c \in Calls
    BY <2>1, ThereType, SoundIs
  <2>3. a \in Answers
    BY <1>0, <2>2, AnswerType, NoInfoType DEF Known, Places, Pages, Threaded
  <2> HIDE DEF a
  <2> QED
    BY <1>0, <2>1, <2>2, <2>3, ServeShown DEF a, Patches
<1> QED
  BY <1>1, <1>2

LEMMA BirthShown ==
    ASSUME UiInv, Shown, NEW i \in 1 .. Len(calls), ServeBirth(i)
    PROVE  Shown'
<1> DEFINE c == calls[i]
           t == CHOOSE u \in Threads \ given : TRUE
           info == [Unnamed EXCEPT !.source = c.on]
           a == Answer(calls[i], TRUE, t, info)
<1>0. c.kind \in {"create", "adopt"}
  BY DEF ServeBirth
<1>1. CASE Refuse(i)
  BY <1>0, <1>1, RefuseShown
<1>2. CASE ~ Refuse(i)
  <2>1. /\ Threads # given /\ Write(t, info) /\ Reply(i, TRUE, t, info, <<Changed(t, info)>>)
        /\ unread' = unread
    BY <1>2 DEF ServeBirth
  <2>2. t \in Threads /\ t \notin given
    BY <2>1 DEF UiInv, UiTypeOK, ServerType
  <2>3. info \in Infos /\ c \in Calls
    <3>1. c \in Calls
      BY SoundIs
    <3>2. c.on \in Projects \cup {Root}
      BY <1>0, <3>1 DEF Calls, PlaceOK, OfProject
    <3> QED
      BY <3>1, <3>2, NoInfoType DEF Infos
  <2> HIDE DEF info, t
  <2>4. a \in Answers
    BY <1>0, <2>2, <2>3, AnswerType DEF Known, Places, Pages
  <2> HIDE DEF a
  <2> QED
    BY <1>0, <2>1, <2>2, <2>3, <2>4, ServeShown DEF a
<1> QED
  BY <1>1, <1>2

\* The calls change, and nothing that somebody waits for is lost.
LEMMA CallsShown ==
    ASSUME UiInv, Shown, UNCHANGED <<threads, given, raced, unread, wire, bridge>>, Unmoved,
           \A c \in ToSet(calls') : CallSure(c),
           \A c \in ToSet(calls) : c.heard =>
              \E d \in ToSet(calls') : d.heard /\ d.kind = c.kind /\ d.on = c.on
    PROVE  Shown'
<1>1. There' = There
  BY DEF There
<1>2. Dialed'
  BY DialedStays DEF Shown, Unmoved
<1>3. Sound'
  <2>1. \A c \in ToSet(calls') : CallSure(c)'
    BY <1>1 DEF CallSure, Named
  <2>2. ASSUME NEW f \in ToSet(wire), FrameSure(f) PROVE FrameSure(f)'
    BY <1>1, <2>2 DEF FrameSure, AnswerSure, Named, Unmoved
  <2> QED
    BY <2>1, <2>2 DEF Shown, Sound, Named, Unmoved
<1>4. ASSUME NEW kind, NEW ons PROVE Asked(kind, ons) => Asked(kind, ons)'
  <2> SUFFICES ASSUME Asked(kind, ons) PROVE Asked(kind, ons)'
    OBVIOUS
  <2>1. PICK c \in ToSet(calls) : c.heard /\ c.kind = kind /\ c.on \in ons
    BY DEF Asked
  <2> QED
    BY <2>1 DEF Asked
<1>5. ASSUME NEW kind, NEW ons PROVE Due(kind, ons) => Due(kind, ons)'
  BY <1>4 DEF Due, Granted
<1>6. Truth => Truth'
  BY <1>1 DEF Truth, Stale, Speaks
<1>7. BridgeTruth => BridgeTruth'
  BY <1>1 DEF BridgeTruth, Stale, Speaks, Told
<1>8. Mended => Mended'
  BY <1>4 DEF Mended
<1>9. Pinned => Pinned'
  <2>1. \A r : r = {route} => /\ Due("state", r) => Due("state", r)'
                              /\ Due("trail", r) => Due("trail", r)'
    BY <1>5
  <2>2. route' = route
    BY DEF Unmoved
  <2>3. /\ Due("state", {route}) => Due("state", {route})'
        /\ Due("trail", {route}) => Due("trail", {route})'
    BY <2>1, <2>2
  <2> QED
    BY <1>1, <2>3 DEF Pinned, Told, Unmoved
<1>10. Listed => Listed'
  BY <1>1, <1>5 DEF Listed, Told, Unmoved
<1>11. Current'
  BY <1>6, <1>7, <1>8, <1>9, <1>10 DEF Shown, Current, Unmoved
<1> QED
  BY <1>2, <1>3, <1>11 DEF Shown

\* A call nobody waits for is answered to nobody, or lost.
LEMMA LostShown ==
    ASSUME UiInv, Shown, NEW i \in 1 .. Len(calls), ~calls[i].heard, calls' = RemoveAt(calls, i),
           UNCHANGED <<threads, given, raced, unread, wire, bridge>>, Unmoved
    PROVE  Shown'
<1>1. calls \in Seq(Calls)
  BY QueuesAre
<1>2. ToSet(calls) = {calls[i]} \cup ToSet(calls')
  BY <1>1, ToSetRemove
<1>3. \A c \in ToSet(calls') : CallSure(c)
  BY <1>2 DEF Shown, Sound
<1>4. \A c \in ToSet(calls) : c.heard =>
         \E d \in ToSet(calls') : d.heard /\ d.kind = c.kind /\ d.on = c.on
  BY <1>2
<1> QED
  BY <1>3, <1>4, CallsShown

LEMMA LoseShown ==
    ASSUME UiInv, Shown, NEW i \in 1 .. Len(calls), LoseCall(i)
    PROVE  Shown'
BY LostShown DEF LoseCall, server, connection, page, Unmoved

LEMMA ReadShown ==
    ASSUME UiInv, Shown, NEW i \in 1 .. Len(calls), Read(i)
    PROVE  Shown'
<1> DEFINE c == calls[i]
           d == [c EXCEPT !.read = TRUE, !.rows = threads, !.paths = added]
<1>1. /\ c.kind \in {"list", "add", "remove"}
      /\ UNCHANGED <<threads, given, raced, unread, wire, bridge>> /\ Unmoved
      /\ calls' = [calls EXCEPT ![i].read = TRUE, ![i].rows = threads, ![i].paths = added]
  BY DEF Read, server, connection, page, Unmoved
<1>2. calls \in Seq(Calls) /\ c \in Calls /\ Len(calls) \in Nat
  BY QueuesAre
<1>3. calls' = [calls EXCEPT ![i] = d]
  BY <1>1, <1>2
<1>4. /\ d.kind = c.kind /\ d.on = c.on /\ d.heard = c.heard /\ d.rows = threads
  BY <1>2 DEF Calls
<1> HIDE DEF d
<1>5. /\ DOMAIN calls = 1 .. Len(calls) /\ DOMAIN calls' = 1 .. Len(calls) /\ calls'[i] = d
      /\ \A j \in 1 .. Len(calls) : j # i => calls'[j] = calls[j]
  BY <1>2, <1>3
<1>6. /\ ToSet(calls) = {calls[j] : j \in 1 .. Len(calls)}
      /\ ToSet(calls') = {calls'[j] : j \in 1 .. Len(calls)}
  BY <1>5 DEF ToSet
<1>7. ToSet(calls') \subseteq ToSet(calls) \cup {d}
  BY <1>5, <1>6
<1>8. CallSure(d)
  <2>1. Named(threads)
    BY DEF Named, UiInv, UiTypeOK, ServerType
  <2> QED
    BY <1>1, <1>4, <2>1 DEF CallSure
<1>9. \A x \in ToSet(calls') : CallSure(x)
  BY <1>7, <1>8 DEF Shown, Sound
<1>10. \A x \in ToSet(calls) : x.heard =>
          \E y \in ToSet(calls') : y.heard /\ y.kind = x.kind /\ y.on = x.on
  <2> SUFFICES ASSUME NEW j \in 1 .. Len(calls), calls[j].heard
               PROVE  \E y \in ToSet(calls') : y.heard /\ y.kind = calls[j].kind /\ y.on = calls[j].on
    BY <1>6
  <2>1. CASE j = i
    BY <1>4, <1>5, <1>6, <2>1
  <2>2. CASE j # i
    BY <1>5, <1>6, <2>2
  <2> QED
    BY <2>1, <2>2
<1> QED
  BY <1>1, <1>9, <1>10, CallsShown

LEMMA ListShown ==
    ASSUME UiInv, Shown, NEW i \in 1 .. Len(calls), ServeList(i)
    PROVE  Shown'
<1> DEFINE c == calls[i]
           a == Answer(calls[i], TRUE, Root, c.rows)
<1>0. c.kind = "list" /\ c.read
  BY DEF ServeList
<1>1. CASE Refuse(i)
  BY <1>0, <1>1, RefuseShown
<1>2. CASE ~ Refuse(i)
  <2>1. Reply(i, TRUE, Root, c.rows, <<>>) /\ UNCHANGED <<threads, given, raced>> /\ unread' = unread
    BY <1>2 DEF ServeList, server
  <2>2. c \in Calls /\ CallSure(c) /\ There \subseteq Threads
    BY SoundIs
  <2>3. c.rows \in Tables /\ Root \in Places
    BY <2>2 DEF Calls, Places, Pages
  <2>4. CASE ~ c.heard
    <3>1. wire \in Seq(Wires)
      BY QueuesAre
    <3>2. wire \o <<>> = wire
      BY <3>1
    <3>3. /\ calls' = RemoveAt(calls, i) /\ Unmoved /\ bridge' = bridge /\ wire' = wire
      BY <2>1, <2>4, <3>2 DEF Reply, Unmoved, connection, page
    <3> QED
      BY <2>1, <2>4, <3>3, LostShown
  <2>5. CASE c.heard
    <3>1. a \in Answers
      BY <1>0, <2>2, <2>3, AnswerType DEF Threaded
    <3>2. a.kind = "list" /\ a.frame = "answer" /\ a.value = c.rows
      BY <1>0 DEF Answer
    <3>3. \A t \in There : t \notin raced => c.rows[t] = threads[t]
      BY <1>0, <2>2, <2>5 DEF CallSure
    <3>4. Named(c.rows)
      BY <1>0, <2>2 DEF CallSure
    <3> HIDE DEF a
    <3>5. \A t \in There : a \notin Stale(t, threads[t], raced)
      BY <3>2, <3>3 DEF Stale, Speaks, Event, Word, Patches
    <3>6. \A f : f = a => AnswerSure(f)'
      BY <2>1, <3>2, <3>4 DEF AnswerSure, Named, Threaded
    <3>7. a = Answer(calls[i], TRUE, Root, c.rows)
      BY DEF a
    <3>8. PICK f \in Answers : /\ f = Answer(calls[i], TRUE, Root, c.rows) /\ AnswerSure(f)'
                               /\ \A t \in There : f \notin Stale(t, threads[t], raced)
      BY <3>1, <3>5, <3>6, <3>7
    <3> QED
      BY <2>1, <3>8, AnswerShown
  <2> QED
    BY <2>4, <2>5
<1> QED
  BY <1>1, <1>2

\* What is answered says nothing of a thread.
LEMMA PlainShown ==
    ASSUME UiInv, Shown, NEW i \in 1 .. Len(calls), NEW value \in Known \cup SUBSET Projects,
           calls[i].kind \in {"projects", "sessions", "browse", "models", "model", "add", "remove"},
           calls[i].kind = "projects" => value \in SUBSET Projects,
           Reply(i, TRUE, Root, value, <<>>), UNCHANGED <<threads, given, raced, unread>>
    PROVE  Shown'
<1> DEFINE a == Answer(calls[i], TRUE, Root, value)
<1>1. calls[i] \in Calls
  BY SoundIs
<1>2. a \in Answers
  BY <1>1, AnswerType DEF Threaded, Places, Pages
<1>3. a.kind = calls[i].kind /\ a.frame = "answer"
  BY DEF Answer
<1> HIDE DEF a
<1>4. \A t \in There : a \notin Stale(t, threads[t], raced)
  BY <1>3 DEF Stale, Speaks, Event, Patches
<1>5. \A f : f = a => AnswerSure(f)'
  BY <1>3 DEF AnswerSure, Threaded
<1>6. PICK f \in Answers : /\ f = Answer(calls[i], TRUE, Root, value) /\ AnswerSure(f)'
                           /\ \A t \in There : f \notin Stale(t, threads[t], raced)
  BY <1>2, <1>4, <1>5 DEF a
<1> QED
  BY <1>6, AnswerShown

LEMMA ProjectShown ==
    ASSUME UiInv, Shown, NEW i \in 1 .. Len(calls), ServeProject(i)
    PROVE  Shown'
<1>1. /\ calls[i].kind \in {"add", "remove"} /\ Reply(i, TRUE, Root, NoInfo, <<>>)
      /\ UNCHANGED <<threads, given, raced, unread>>
  BY DEF ServeProject
<1>2. NoInfo \in Known
  BY NoInfoType
<1> QED
  BY <1>1, <1>2, PlainShown

LEMMA ReadsShown ==
    ASSUME UiInv, Shown, NEW i \in 1 .. Len(calls), ServeRead(i)
    PROVE  Shown'
<1> DEFINE c == calls[i]
<1>0. NoInfo \in Known /\ added \in SUBSET Projects
  BY NoInfoType DEF UiInv, UiTypeOK, ServerType
<1>1. CASE Refuse(i) /\ (c.kind \in {"state", "trail"} => c.on \notin There)
  BY <1>1, RefuseShown
<1>2. CASE c.kind = "projects" /\ Reply(i, TRUE, Root, added, <<>>) /\ UNCHANGED <<server, raced, unread>>
  BY <1>0, <1>2, PlainShown DEF server
<1>3. CASE /\ c.kind \in {"sessions", "browse", "models", "model"}
           /\ Reply(i, TRUE, Root, NoInfo, <<>>) /\ UNCHANGED <<server, raced, unread>>
  BY <1>0, <1>3, PlainShown DEF server
<1>4. CASE /\ c.kind \in {"trail", "state", "born"} /\ c.on \in There
           /\ Reply(i, TRUE, c.on, threads[c.on], <<>>) /\ UNCHANGED <<server, raced, unread>>
  <2> DEFINE a == Answer(calls[i], TRUE, c.on, threads[c.on])
  <2>1. c.on \in Threads /\ threads[c.on] \in Infos /\ c \in Calls /\ c.on \in given
    BY <1>4, ThereType, SoundIs
  <2>2. a \in Answers
    BY <1>4, <2>1, AnswerType DEF Known, Places, Pages
  <2>3. /\ a.kind = c.kind /\ a.frame = "answer" /\ a.on = c.on /\ a.of = c.on /\ a.ok = TRUE
        /\ a.value = threads[c.on]
    BY DEF Answer
  <2>4. UNCHANGED <<threads, given, raced, unread>> /\ Unmoved
    BY <1>4, ReplyUnmoved DEF server
  <2>5. c.heard => conn = "Online"
    BY HeardIs
  <2> HIDE DEF a
  <2>6. \A t \in There : a \notin Stale(t, threads[t], raced)
    BY <1>4, <2>3 DEF Stale, Speaks, Event, Word
  <2>7. c.heard => \A f : f = a => AnswerSure(f)'
    BY <1>4, <2>1, <2>3, <2>4, <2>5 DEF AnswerSure, Unmoved
  <2>8. PICK f \in Answers : /\ f = Answer(calls[i], TRUE, c.on, threads[c.on])
                             /\ (c.heard => AnswerSure(f)')
                             /\ \A t \in There : f \notin Stale(t, threads[t], raced)
    BY <2>2, <2>6, <2>7 DEF a
  <2>9. Reply(i, TRUE, c.on, threads[c.on], <<>>)
    BY <1>4
  <2>10. UNCHANGED <<threads, given, raced>> /\ (~unread' => ~unread) /\ TRUE \in BOOLEAN
    BY <2>4
  <2> QED
    BY <2>8, <2>9, <2>10, AnswerShown
<1> QED
  BY <1>1, <1>2, <1>3, <1>4 DEF ServeRead

LEMMA ElsewhereShown ==
    ASSUME UiInv, Shown, NEW t \in Threads, Elsewhere(t)
    PROVE  Shown'
<1>1. t \in There
  BY DEF Elsewhere
<1>2. threads[t] \in Infos /\ link \in {"up", "down"}
  BY <1>1, ThereType DEF UiInv, UiTypeOK, ConnType
<1>3. PICK info \in {[threads[t] EXCEPT !.name = "titled"], NoInfo}
                   \cup {[threads[t] EXCEPT !.state = s] : s \in {"idle", "working"}} :
         /\ Write(t, info)
         /\ wire' = IF link = "down" THEN wire
                    ELSE Append(wire, Changed(t, IF info = NoInfo THEN threads[t] ELSE info))
  BY DEF Elsewhere
<1>4. calls' = calls /\ bridge' = bridge /\ unread' = unread /\ Unmoved
  BY DEF Elsewhere, Unmoved, connection, page
<1>5. info \in Infos \/ info = NoInfo
  BY <1>2, <1>3 DEF Infos
<1>6. PICK told \in Infos : told = IF info = NoInfo THEN threads[t] ELSE info
  BY <1>2, <1>5
<1>7. Changed(t, told) \in Wires /\ wire \in Seq(Wires) /\ <<>> \in Seq(Wires) /\ ToSet(<<>>) = {}
  BY ChangedType, QueuesAre, ToSetType
<1> DEFINE f == Changed(t, told)
<1>8. wire' = IF link = "down" THEN wire ELSE Append(wire, f)
  BY <1>3, <1>6
<1>9. f \in Wires
  BY <1>7
<1> HIDE DEF f
<1>10. Append(wire, f) = wire \o <<f>> /\ wire \o <<f>> \in Seq(Wires)
  BY <1>7, <1>9
<1>11. wire \o <<f>> \o <<>> = wire \o <<f>>
  BY <1>10
<1>12. wire' = IF link = "up" THEN wire \o <<f>> \o <<>> ELSE wire
  BY <1>2, <1>8, <1>10, <1>11
<1>13. /\ info # NoInfo => told = info
       /\ \A c \in ToSet(calls) : c \in ToSet(calls') \/ c.kind \notin {"list", "state", "trail"}
       /\ ToSet(calls') \subseteq ToSet(calls)
  BY <1>4, <1>6
<1> QED
  BY <1>1, <1>3, <1>4, <1>7, <1>12, <1>13, WriteShown DEF f

\* Who waited is told that it failed; the answer may still come, to nobody.
LEMMA TimeOutShown ==
    ASSUME UiInv, Shown, NEW i \in 1 .. Len(calls), TimeOut(i)
    PROVE  Shown'
<1> DEFINE c == calls[i]
           d == [c EXCEPT !.heard = FALSE]
           f == Failed(c)
<1>1. /\ c.heard /\ Unmoved /\ UNCHANGED <<threads, given, raced, bridge>>
      /\ calls' = [calls EXCEPT ![i].heard = FALSE] /\ wire' = <<f>> \o wire
      /\ unread' = (unread \/ c.kind \in {"list", "projects", "trail", "state"})
  BY DEF TimeOut, server, connection, page, Unmoved
<1>2. calls \in Seq(Calls) /\ c \in Calls /\ CallSure(c) /\ Len(calls) \in Nat
  BY QueuesAre, SoundIs
<1>3. link = "up" /\ conn = "Online"
  BY <1>1, HeardIs
<1>4. wire \in Seq(Wires) /\ \A t : Told(wire, t) => \E x \in ToSet(wire) : Event(x, t)
  BY QueuesAre DEF Told
<1>5. /\ f \in Answers /\ f.frame = "answer" /\ ~f.ok /\ f.kind = c.kind /\ f.on = c.on
      /\ \A t, info, past : f \notin Stale(t, info, past)
  BY <1>2, FailedIs
<1>6. f \in Wires
  BY <1>5, QueuesAre
<1> HIDE DEF f
<1>7. ToSet(wire') = {f} \cup ToSet(wire)
  <2> DEFINE one == <<f>>
  <2>1. one \in Seq(Wires) /\ ToSet(one) = {f}
    BY <1>6, ToSetOne
  <2> HIDE DEF one
  <2>2. ToSet(one \o wire) = ToSet(one) \cup ToSet(wire)
    BY <1>4, <2>1, ToSetConcat
  <2> QED
    BY <1>1, <2>1, <2>2 DEF one
<1>8. /\ d.kind = c.kind /\ d.on = c.on /\ ~d.heard /\ d.rows = c.rows /\ calls' = [calls EXCEPT ![i] = d]
  BY <1>1, <1>2 DEF Calls
<1> HIDE DEF d
<1>9. /\ DOMAIN calls = 1 .. Len(calls) /\ DOMAIN calls' = 1 .. Len(calls) /\ calls'[i] = d
      /\ \A j \in 1 .. Len(calls) : j # i => calls'[j] = calls[j]
  BY <1>2, <1>8
<1>10. /\ ToSet(calls) = {calls[j] : j \in 1 .. Len(calls)}
       /\ ToSet(calls') = {calls'[j] : j \in 1 .. Len(calls)}
  BY <1>9 DEF ToSet
<1>11. ToSet(calls') \subseteq ToSet(calls) \cup {d} /\ ToSet(calls) \subseteq ToSet(calls') \cup {c}
  BY <1>9, <1>10
<1> HIDE DEF c
<1>12. There' = There /\ (~unread' => ~unread)
  BY <1>1 DEF There, UiInv, UiTypeOK, HistoryType
<1>13. Dialed'
  BY <1>1, DialedStays DEF Shown, Unmoved
<1>14. Sound'
  <2>1. CallSure(d)
    BY <1>2, <1>8 DEF CallSure
  <2>2. \A x \in ToSet(calls') : CallSure(x)
    BY <1>11, <2>1 DEF Shown, Sound
  <2>3. \A x \in ToSet(calls') : CallSure(x)'
    BY <1>1, <1>12, <2>2 DEF CallSure, Named
  <2>4. ASSUME NEW x \in ToSet(wire), FrameSure(x) PROVE FrameSure(x)'
    BY <1>1, <1>12, <2>4 DEF FrameSure, AnswerSure, Named, Unmoved
  <2>5. c.kind = "trail" => unread' = TRUE /\ c.on \in given
    BY <1>1, <1>2 DEF CallSure
  <2>6. \A x : x = f => AnswerSure(x)'
    BY <1>1, <1>3, <1>5, <2>5 DEF AnswerSure, Unmoved
  <2>7. \A x : x = f => FrameSure(x)'
    BY <1>1, <1>3, <1>5, <2>6 DEF FrameSure, Unmoved
  <2>8. \A x \in ToSet(wire') : FrameSure(x)'
    BY <1>7, <2>4, <2>7 DEF Shown, Sound
  <2> QED
    BY <1>1, <2>3, <2>8 DEF Shown, Sound, Named, Unmoved
<1>15. Truth /\ BridgeTruth /\ (~unread => Mended /\ Pinned /\ Listed)
  BY <1>3 DEF Shown, Current
<1>16. ASSUME NEW A, NEW B, f \notin A, Followed(wire, A, B) PROVE Followed(wire', A, B)
  BY <1>1, <1>4, <1>6, <1>16, FollowedPrepend
<1>17. Truth'
  <2>1. ASSUME NEW t \in There PROVE Followed(wire', Stale(t, threads[t], raced), Events(t))
    BY <1>5, <1>15, <1>16 DEF Truth
  <2> QED
    BY <1>1, <1>12, <2>1 DEF Truth, Stale, Speaks
<1>18. \A t : Told(wire, t) => Told(wire', t)
  BY <1>7 DEF Told
<1>19. BridgeTruth'
  BY <1>1, <1>12, <1>15, <1>18 DEF BridgeTruth, Stale, Speaks
<1>20. ASSUME NEW kind, NEW ons, c.kind # kind
       PROVE  /\ Asked(kind, ons) => Asked(kind, ons)'
              /\ Due(kind, ons) => Due(kind, ons)'
  <2>1. Asked(kind, ons) => Asked(kind, ons)'
    BY <1>11, <1>20 DEF Asked
  <2>2. Granted(kind, ons) => Granted(kind, ons)'
    BY <1>7 DEF Granted
  <2> QED
    BY <2>1, <2>2 DEF Due
<1>21. ASSUME ~unread' PROVE (Mended /\ Pinned /\ Listed)'
  <2>1. Mended /\ Pinned /\ Listed /\ c.kind \notin {"list", "trail", "state"}
    BY <1>1, <1>12, <1>15, <1>21
  <2>2. Mended'
    <3>1. f \notin Lists(FALSE)
      BY <1>5, <2>1 DEF Lists
    <3>2. CASE Asked("list", Places)
      BY <1>20, <2>1, <3>2 DEF Mended
    <3>3. CASE Followed(wire, Lists(FALSE), Lists(TRUE))
      BY <1>16, <3>1, <3>3 DEF Mended, Lists
    <3> QED
      BY <2>1, <3>2, <3>3 DEF Mended
  <2>3. Pinned'
    <3>1. \A r : r = {route} => /\ Due("state", r) => Due("state", r)'
                                /\ Due("trail", r) => Due("trail", r)'
      BY <1>20, <2>1
    <3>2. route' = route
      BY <1>1 DEF Unmoved
    <3>3. /\ Due("state", {route}) => Due("state", {route})'
          /\ Due("trail", {route}) => Due("trail", {route})'
      BY <3>1, <3>2
    <3> QED
      BY <1>1, <1>12, <1>18, <2>1, <3>3 DEF Pinned, Unmoved
  <2>4. Due("list", Places) => Due("list", Places)'
    BY <1>20, <2>1
  <2>5. Listed'
    BY <1>1, <1>12, <1>18, <2>1, <2>4 DEF Listed, Unmoved
  <2> QED
    BY <2>2, <2>3, <2>5
<1>22. Current'
  BY <1>17, <1>19, <1>21 DEF Current
<1> QED
  BY <1>13, <1>14, <1>22 DEF Shown

----------------------------------------------------------------------------
(* What the console asks for is not read yet, and asks for threads that were. *)

FreshAsk(c) ==
    c.heard /\ ~c.read /\ c.rows = NoRows /\ (c.kind = "trail" => c.on \in given)

LEMMA ToSetTwo ==
    ASSUME NEW S, NEW x \in S, NEW y \in S
    PROVE  <<x, y>> \in Seq(S) /\ ToSet(<<x, y>>) = {x, y}
<1> DEFINE q == <<x, y>>
<1>1. q \in Seq(S) /\ Len(q) = 2 /\ q[1] = x /\ q[2] = y /\ 1 .. 2 = {1, 2}
  OBVIOUS
<1> HIDE DEF q
<1>2. ToSet(q) = {q[i] : i \in 1 .. Len(q)}
  BY <1>1, ToSetType
<1>3. ToSet(q) = {x, y}
  BY <1>1, <1>2
<1> QED
  BY <1>1, <1>3 DEF q

LEMMA ToSetNone == ToSet(<<>>) = {} /\ <<>> \in Seq(Wires)
BY DEF ToSet

LEMMA CallIs ==
    ASSUME NEW kind, NEW on
    PROVE  /\ Call(kind, on).kind = kind /\ Call(kind, on).on = on
           /\ kind # "trail" \/ on \in given => FreshAsk(Call(kind, on))
BY DEF Call, FreshAsk

LEMMA ReadsFresh ==
    ASSUME NEW to
    PROVE  ToSet(Reads(to)) = IF to = Root THEN {} ELSE {Call("trail", to), Call("state", to)}
<1>1. CASE to = Root
  BY <1>1, ToSetNone DEF Reads
<1>2. CASE to # Root
  BY <1>2, ToSetTwo DEF Reads
<1> QED
  BY <1>1, <1>2

LEMMA ListsFresh ==
    ToSet(<<Call("list", Root), Call("projects", Root)>>)
       = {Call("list", Root), Call("projects", Root)}
BY ToSetTwo

LEMMA ReloadFresh ==
    ASSUME RailType
    PROVE  \A c \in ToSet(ReloadExpanded) : FreshAsk(c) /\ c.kind = "sessions"
<1> DEFINE S == {Call("sessions", p) : p \in rail.expanded}
<1>1. IsFiniteSet(S)
  <2> DEFINE f == [p \in rail.expanded |-> Call("sessions", p)]
  <2>1. f \in Surjection(rail.expanded, S)
    BY DEF Surjection
  <2> QED
    BY <2>1, FS_Surjection DEF RailType
<1>2. \A c \in S : FreshAsk(c) /\ c.kind = "sessions"
  BY CallIs
<1> HIDE DEF S
<1>3. SetToSeq(S) \in Seq(S)
  BY <1>1, SetToSeqType
<1>4. ToSet(SetToSeq(S)) \subseteq S
  BY <1>3, ToSetType
<1> QED
  BY <1>2, <1>4 DEF ReloadExpanded, S

\* A fresh call carries nothing yet.
LEMMA FreshSure ==
    ASSUME NEW c, FreshAsk(c)
    PROVE  CallSure(c)
<1>1. Named(NoRows)
  BY DEF Named, NoRows
<1> QED
  BY <1>1 DEF FreshAsk, CallSure

LEMMA ToSetThree ==
    ASSUME NEW S, NEW p \in Seq(S), NEW q \in Seq(S), NEW r \in Seq(S)
    PROVE  p \o q \o r \in Seq(S) /\ ToSet(p \o q \o r) = ToSet(p) \cup ToSet(q) \cup ToSet(r)
<1> DEFINE s == p \o q
<1>1. s \in Seq(S) /\ ToSet(s) = ToSet(p) \cup ToSet(q)
  BY ToSetConcat
<1> HIDE DEF s
<1>2. s \o r \in Seq(S) /\ ToSet(s \o r) = ToSet(s) \cup ToSet(r)
  BY <1>1, ToSetConcat
<1> QED
  BY <1>1, <1>2 DEF s

----------------------------------------------------------------------------
(* The connection comes and goes.                                          *)

\* Nothing of a connection that is gone is believed; all of it is read again.
LEMMA ConnectShown ==
    ASSUME UiInv, Shown, Connect
    PROVE  Shown'
<1> DEFINE lists == <<Call("list", Root), Call("projects", Root)>>
           reads == Reads(route)
           expanded == ReloadExpanded
<1>1. /\ dialing /\ dialing' = FALSE /\ link' = "up" /\ conn' = "Online"
      /\ bridge' = bridge \/ bridge' = <<>>
      /\ calls' = calls \o reads \o lists \o expanded
      /\ unread' = FALSE /\ raced' = {} /\ wire' = wire
      /\ UNCHANGED <<threads, given, added, route, pane, editor, foreign, rail>>
  BY DEF Connect, server, page
<1>2. conn = "Connecting" /\ link = "down" /\ bridge' = <<>>
  BY <1>1 DEF Shown, Dialed, UiInv, UiTypeOK, ConnType
<1>3. /\ calls \in Seq(Calls) /\ reads \in Seq(Calls) /\ lists \in Seq(Calls)
      /\ expanded \in Seq(Calls) /\ wire \in Seq(Wires)
  <2>1. PlainAsks \subseteq Calls
    BY DEF PlainAsks, Asks
  <2>2. /\ reads \in Seq(PlainAsks) /\ lists \in Seq(PlainAsks) /\ expanded \in Seq(PlainAsks)
    BY ReadsType, ListsType, ReloadType DEF UiInv, UiTypeOK, PageType
  <2> HIDE DEF reads, lists, expanded
  <2>3. /\ reads \in Seq(Calls) /\ lists \in Seq(Calls) /\ expanded \in Seq(Calls)
    BY <2>1, <2>2, SeqMonotonic
  <2> QED
    BY <2>3, QueuesAre
<1>4. /\ ToSet(reads) = IF route = Root THEN {} ELSE {Call("trail", route), Call("state", route)}
      /\ ToSet(lists) = {Call("list", Root), Call("projects", Root)}
      /\ \A c \in ToSet(expanded) : FreshAsk(c)
  BY ReadsFresh, ListsFresh, ReloadFresh DEF UiInv, UiTypeOK
<1>5. route # Root => route \in given
  BY DEF Shown, Sound
<1>6. \A c \in ToSet(reads) \cup ToSet(lists) \cup ToSet(expanded) : FreshAsk(c)
  BY <1>4, <1>5, CallIs
<1> HIDE DEF reads, lists, expanded
<1>7. ToSet(calls') = ToSet(calls) \cup ToSet(reads) \cup ToSet(lists) \cup ToSet(expanded)
  <2> DEFINE q == calls \o reads
  <2>1. q \in Seq(Calls) /\ ToSet(q) = ToSet(calls) \cup ToSet(reads)
    BY <1>3, ToSetConcat
  <2>2. calls' = q \o lists \o expanded
    BY <1>1
  <2> HIDE DEF q
  <2>3. ToSet(q \o lists \o expanded) = ToSet(q) \cup ToSet(lists) \cup ToSet(expanded)
    BY <1>3, <2>1, ToSetThree
  <2> QED
    BY <2>1, <2>2, <2>3
<1>8. There' = There /\ There \subseteq given /\ Root \notin There
  BY <1>1, NoInfoType DEF There, UiInv, UiTypeOK, ServerType
<1>9. \A c \in ToSet(calls) : ~c.heard /\ CallSure(c)
  <2>1. \A i \in 1 .. Len(calls) : ~calls[i].heard
    BY <1>2 DEF UiInv, Unheard
  <2> QED
    BY <1>3, <2>1, ToSetType DEF Shown, Sound
<1>10. \A f \in ToSet(wire) : f.frame = "answer" /\ ~f.ok /\ f.kind # "trail"
  BY <1>2 DEF Shown, Sound, FrameSure, AnswerSure
<1>11. Dialed'
  <2>1. Len(bridge') = 0
    BY <1>2
  <2>2. 1 .. 0 = {}
    OBVIOUS
  <2> QED
    BY <1>1, <1>2, <2>1, <2>2 DEF Dialed
<1>12. Sound'
  <2>1. \A c \in ToSet(calls) : CallSure(c)'
    BY <1>1, <1>8, <1>9 DEF CallSure, Named
  <2>2. ASSUME NEW c, FreshAsk(c) PROVE CallSure(c)'
    <3>1. CallSure(c)
      BY <2>2, FreshSure
    <3> QED
      BY <1>1, <2>2, <3>1 DEF CallSure, Named, FreshAsk
  <2>3. \A c \in ToSet(calls') : CallSure(c)'
    BY <1>6, <1>7, <2>1, <2>2
  <2>4. \A f \in ToSet(wire') : FrameSure(f)'
    BY <1>1, <1>10 DEF FrameSure, AnswerSure, Named
  <2>5. ToSet(bridge') = {}
    BY <1>2, ToSetNone
  <2> QED
    BY <1>1, <2>3, <2>4, <2>5 DEF Shown, Sound, Named
<1>13. Truth' /\ BridgeTruth'
  <2>1. ASSUME NEW t, NEW info, NEW past
        PROVE  /\ Followed(wire', Stale(t, info, past), Events(t))
               /\ Followed(bridge', Stale(t, info, past), Events(t))
    <3>1. \A f \in ToSet(wire) : f \notin Stale(t, info, past)
      BY <1>10 DEF Stale, Speaks, Event
    <3>2. Followed(wire, Stale(t, info, past), Events(t))
      BY <1>3, <3>1, FollowedNone
    <3>3. <<>> \in Seq(Wires) /\ ToSet(<<>>) = {}
      BY ToSetNone
    <3>4. Followed(<<>>, Stale(t, info, past), Events(t))
      BY <3>3, FollowedNone
    <3> QED
      BY <1>1, <1>2, <3>2, <3>4
  <2> QED
    BY <2>1 DEF Truth, BridgeTruth, Stale, Speaks
<1>14. ASSUME NEW kind, NEW on, Call(kind, on) \in ToSet(calls')
       PROVE  \A ons : on \in ons => Asked(kind, ons)' /\ Due(kind, ons)'
  BY <1>14 DEF Asked, Due, Call
<1>15. Asked("list", Places)' /\ Due("list", Places)'
  <2>1. Call("list", Root) \in ToSet(calls') /\ Root \in Places
    BY <1>4, <1>7 DEF Places, Pages
  <2> QED
    BY <1>14, <2>1
<1>16. route \in There => Due("state", {route})' /\ Due("trail", {route})'
  <2>1. ASSUME route \in There
        PROVE  Call("trail", route) \in ToSet(calls') /\ Call("state", route) \in ToSet(calls')
    BY <1>4, <1>7, <1>8, <2>1
  <2>2. ASSUME route \in There
        PROVE  \A r : r = {route} => Due("state", r)' /\ Due("trail", r)'
    BY <1>14, <2>1, <2>2
  <2>3. route' = route
    BY <1>1
  <2> QED
    BY <2>2, <2>3
<1>17. Mended' /\ Pinned' /\ Listed'
  BY <1>1, <1>8, <1>15, <1>16 DEF Mended, Pinned, Listed
<1>18. Current'
  BY <1>13, <1>17 DEF Current
<1> QED
  BY <1>11, <1>12, <1>18 DEF Shown

LEMMA DialShown ==
    ASSUME UiInv, Shown, ConnectFailed \/ Retry
    PROVE  Shown'
<1>1. /\ dialing' \in BOOLEAN /\ conn' \in {"Connecting", "Offline"}
      /\ dialing' <=> conn' = "Connecting"
      /\ conn' = "Connecting" => wire = <<>>
      /\ conn # "Online"
      /\ UNCHANGED <<threads, given, link, calls, wire, bridge, route, rail>>
  BY DEF Shown, Dialed, ConnectFailed, Retry, server, page, UiInv, UiTypeOK, ConnType
<1>2. link = "down" /\ bridge = <<>> /\ There' = There
  BY <1>1 DEF Shown, Dialed, UiInv, UiTypeOK, ConnType, There
<1>3. Dialed'
  BY <1>1, <1>2 DEF Shown, Dialed
<1>4. Sound'
  <2>1. \A c \in ToSet(calls) : CallSure(c) /\ ~c.heard
    <3>1. \A i \in 1 .. Len(calls) : ~calls[i].heard
      BY <1>2 DEF UiInv, Unheard
    <3> QED
      BY <3>1, QueuesAre, ToSetType DEF Shown, Sound
  <2>2. \A c \in ToSet(calls') : CallSure(c)'
    BY <1>1, <1>2, <2>1 DEF CallSure, Named
  <2>3. \A f \in ToSet(wire') : FrameSure(f)'
    <3>1. CASE conn' = "Connecting"
      <4>1. ToSet(wire') = {}
        BY <1>1, <3>1, ToSetNone
      <4> QED
        BY <4>1
    <3>2. CASE conn' # "Connecting"
      BY <1>1, <1>2, <3>2 DEF Shown, Sound, FrameSure, AnswerSure, Named
    <3> QED
      BY <3>1, <3>2
  <2> QED
    BY <1>1, <2>2, <2>3 DEF Shown, Sound, Named
<1>5. Current'
  BY <1>1, <1>2 DEF Current
<1> QED
  BY <1>3, <1>4, <1>5 DEF Shown

\* The close is the last event of its connection.
LEMMA ClosedShown ==
    ASSUME UiInv, Shown, ConnectionClosed
    PROVE  Shown'
<1>1. /\ bridge # <<>> /\ Head(bridge).frame = "close" /\ bridge' = Tail(bridge)
      /\ conn' = IF conn = "Connecting" THEN conn ELSE "Offline"
      /\ UNCHANGED <<threads, given, link, dialing, calls, wire, route, rail, unread, raced>>
  BY DEF ConnectionClosed, server, page
<1>2. bridge \in Seq(Changes \cup Closes) /\ Len(bridge) \in Nat
  BY QueuesAre
<1>3. Len(bridge) >= 1 /\ Head(bridge) = bridge[1]
  BY <1>1, <1>2
<1>4. Len(bridge) = 1 /\ link = "down"
  <2>1. 1 \in 1 .. Len(bridge) /\ bridge[1].frame = "close"
    BY <1>1, <1>2, <1>3
  <2> QED
    BY <2>1 DEF Shown, Dialed
<1>5. bridge' = <<>>
  BY <1>1, <1>2, <1>4
<1>6. conn = "Online" /\ conn' = "Offline"
  BY <1>1 DEF Shown, Dialed
<1>7. Dialed'
  <2>1. Len(bridge') = 0 /\ 1 .. 0 = {}
    BY <1>5
  <2> QED
    BY <1>1, <1>4, <1>5, <1>6, <2>1 DEF Shown, Dialed
<1>8. There' = There
  BY <1>1 DEF There
<1>9. Sound'
  <2>1. \A c \in ToSet(calls') : CallSure(c)'
    BY <1>1, <1>8 DEF Shown, Sound, CallSure, Named
  <2>2. \A f \in ToSet(wire') : FrameSure(f)'
    BY <1>1, <1>6, <1>8 DEF Shown, Sound, FrameSure, AnswerSure, Named
  <2>3. ToSet(bridge') = {}
    BY <1>5, ToSetNone
  <2> QED
    BY <1>1, <2>1, <2>2, <2>3 DEF Shown, Sound, Named
<1>10. Current'
  BY <1>1, <1>4 DEF Current
<1> QED
  BY <1>7, <1>9, <1>10 DEF Shown

\* The newest event of a thread reaches the bridge last.
LEMMA OfferShown ==
    ASSUME UiInv, Shown, Offer
    PROVE  Shown'
<1> DEFINE h == Head(wire)
<1>1. /\ wire # <<>> /\ h.frame = "changed" /\ wire' = Tail(wire) /\ bridge' = Append(bridge, h)
      /\ UNCHANGED <<threads, given, raced, unread, calls>> /\ Unmoved
  BY DEF Offer, server, connection, page, Unmoved
<1>2. wire \in Seq(Wires) /\ bridge \in Seq(Changes \cup Closes) /\ Len(bridge) \in Nat
  BY QueuesAre
<1>3. /\ wire' \in Seq(Wires) /\ h \in Wires /\ h \in ToSet(wire)
      /\ ToSet(wire) = {h} \cup ToSet(wire')
  BY <1>1, <1>2, ToSetTail
<1>4. h \in Changes
  BY <1>1, <1>3, QueuesAre DEF Wires
<1> HIDE DEF h
<1>5. link = "up" /\ conn = "Online"
  BY <1>1, <1>3 DEF Shown, Sound, FrameSure, Dialed, UiInv, UiTypeOK, ConnType
<1>6. /\ bridge' = bridge \o <<h>> /\ Len(bridge') = Len(bridge) + 1
      /\ \A i \in 1 .. Len(bridge) : bridge'[i] = bridge[i]
      /\ bridge'[Len(bridge) + 1] = h
  BY <1>1, <1>2, <1>4
<1>7. ToSet(bridge') = ToSet(bridge) \cup {h}
  BY <1>2, <1>4, <1>6, ToSetAppend
<1>8. There' = There
  BY <1>1 DEF There
<1>9. Dialed'
  <2>1. ASSUME NEW i \in 1 .. Len(bridge') PROVE bridge'[i].frame # "close"
    <3>1. CASE i = Len(bridge) + 1
      BY <1>1, <1>6, <3>1
    <3>2. CASE i # Len(bridge) + 1
      <4>1. i \in 1 .. Len(bridge) /\ bridge'[i] = bridge[i]
        BY <1>2, <1>6, <3>2
      <4> QED
        BY <1>5, <4>1 DEF Shown, Dialed
    <3> QED
      BY <3>1, <3>2
  <2> QED
    BY <1>1, <1>5, <2>1 DEF Shown, Dialed, Unmoved
<1>10. Sound'
  <2>1. \A c \in ToSet(calls') : CallSure(c)'
    BY <1>1, <1>8 DEF Shown, Sound, CallSure, Named
  <2>2. \A f \in ToSet(wire') : FrameSure(f)'
    BY <1>1, <1>3, <1>8 DEF Shown, Sound, FrameSure, AnswerSure, Named, Unmoved
  <2>3. \A f \in ToSet(bridge') : f.frame = "changed" => f.on \in given'
    BY <1>1, <1>3, <1>7 DEF Shown, Sound, FrameSure
  <2> QED
    BY <1>1, <2>1, <2>2, <2>3 DEF Shown, Sound, Named, Unmoved
<1>11. Truth /\ BridgeTruth /\ (~unread => Mended /\ Pinned /\ Listed)
  BY <1>5 DEF Shown, Current
<1>12. ASSUME NEW A, NEW B, Followed(wire, A, B)
       PROVE  /\ Followed(wire', A, B)
              /\ h \in A => \E x \in ToSet(wire') : x \in B
  BY <1>1, <1>2, <1>12, FollowedTail DEF h
<1>13. ASSUME NEW t \in There
       PROVE  /\ Followed(wire', Stale(t, threads[t], raced), Events(t))
              /\ Told(wire', t) \/ Followed(bridge', Stale(t, threads[t], raced), Events(t))
  <2> DEFINE A == Stale(t, threads[t], raced)
             B == Events(t)
  <2>1. Followed(wire, A, B)
    BY <1>11 DEF Truth
  <2>2. /\ Followed(wire', A, B)
        /\ h \in A => \E x \in ToSet(wire') : x \in B
    BY <1>12, <2>1
  <2>3. \A x \in B : Event(x, t)
    BY DEF Events
  <2>4. ASSUME ~Told(wire', t) PROVE h \notin A /\ (Followed(bridge, A, B) \/ h \in B)
    <3>1. h \notin A
      BY <2>2, <2>3, <2>4 DEF Told
    <3>2. CASE Event(h, t)
      BY <1>3, <3>1, <3>2 DEF Events
    <3>3. CASE ~Event(h, t)
      <4>1. ~Told(wire, t)
        BY <1>3, <2>4, <3>3 DEF Told
      <4> QED
        BY <1>11, <3>1, <4>1 DEF BridgeTruth
    <3> QED
      BY <3>2, <3>3
  <2> HIDE DEF A, B
  <2>5. h \notin A /\ (Followed(bridge, A, B) \/ h \in B) => Followed(bridge', A, B)
    BY <1>2, <1>4, <1>6, FollowedAppend
  <2> QED
    BY <2>2, <2>4, <2>5 DEF A, B
<1>14. Truth' /\ BridgeTruth'
  BY <1>1, <1>8, <1>13 DEF Truth, BridgeTruth, Stale, Speaks
<1>15. /\ \A t : Told(wire, t) => Told(wire', t) \/ Told(bridge', t)
       /\ \A t : Told(bridge, t) => Told(bridge', t)
  BY <1>3, <1>7 DEF Told
<1>16. ASSUME NEW kind, NEW ons
       PROVE  /\ Asked(kind, ons) => Asked(kind, ons)'
              /\ Due(kind, ons) => Due(kind, ons)'
  <2>1. Asked(kind, ons) => Asked(kind, ons)'
    BY <1>1 DEF Asked
  <2>2. Granted(kind, ons) => Granted(kind, ons)'
    BY <1>1, <1>3 DEF Granted
  <2> QED
    BY <2>1, <2>2 DEF Due
<1>17. Mended => Mended'
  BY <1>12, <1>16 DEF Mended, Lists
<1>18. Pinned => Pinned'
  <2>1. \A r : r = {route} => /\ Due("state", r) => Due("state", r)'
                              /\ Due("trail", r) => Due("trail", r)'
    BY <1>16
  <2>2. route' = route
    BY <1>1 DEF Unmoved
  <2>3. /\ Due("state", {route}) => Due("state", {route})'
        /\ Due("trail", {route}) => Due("trail", {route})'
    BY <2>1, <2>2
  <2> QED
    BY <1>1, <1>8, <1>15, <2>3 DEF Pinned, Unmoved
<1>19. Listed => Listed'
  BY <1>1, <1>8, <1>15, <1>16 DEF Listed, Unmoved
<1>20. Current'
  BY <1>1, <1>11, <1>14, <1>17, <1>18, <1>19 DEF Current
<1> QED
  BY <1>9, <1>10, <1>20 DEF Shown

\* What was on its way fails, and the close follows the events that came.
LEMMA DisconnectShown ==
    ASSUME UiInv, Shown, Disconnect
    PROVE  Shown'
<1> DEFINE I == {i \in DOMAIN wire : wire[i].frame = "answer"}
           J == {i \in DOMAIN calls : calls[i].heard}
           lost == Kept(wire, I)
           waiting == Kept(calls, J)
           first == [k \in DOMAIN lost |-> [lost[k] EXCEPT !.ok = FALSE]]
           second == [k \in DOMAIN waiting |-> Failed(waiting[k])]
<1>1. /\ link = "up" /\ link' = "down" /\ wire' = first \o second
      /\ calls' = [i \in DOMAIN calls |-> [calls[i] EXCEPT !.heard = FALSE]]
      /\ bridge' = Append(bridge, Close)
      /\ UNCHANGED <<conn, dialing, unread>> /\ Seated
  BY DEF Disconnect, Seated, page
<1>2. /\ calls \in Seq(Calls) /\ wire \in Seq(Wires) /\ bridge \in Seq(Changes \cup Closes)
      /\ Len(calls) \in Nat /\ DOMAIN calls = 1 .. Len(calls)
      /\ Len(wire) \in Nat /\ DOMAIN wire = 1 .. Len(wire) /\ Len(bridge) \in Nat
  <2>1. calls \in Seq(Calls) /\ wire \in Seq(Wires) /\ bridge \in Seq(Changes \cup Closes)
    BY QueuesAre
  <2> QED
    BY <2>1
<1>3. conn = "Online" /\ conn' = "Online"
  BY <1>1 DEF Shown, Dialed
<1>4. I \in SUBSET (1 .. Len(wire)) /\ J \in SUBSET (1 .. Len(calls))
  BY <1>2
<1>5. /\ \A i \in I : wire[i].frame = "answer" /\ wire[i] \in ToSet(wire) /\ wire[i] \in Wires
      /\ \A i \in J : calls[i] \in Calls /\ calls[i] \in ToSet(calls)
  <2>1. /\ \A i \in 1 .. Len(wire) : wire[i] \in ToSet(wire) /\ wire[i] \in Wires
        /\ \A i \in 1 .. Len(calls) : calls[i] \in ToSet(calls) /\ calls[i] \in Calls
    BY <1>2, ToSetType
  <2> QED
    BY <1>2, <2>1
<1> HIDE DEF I, J
<1>6. /\ lost \in Seq(Wires) /\ \A k \in 1 .. Len(lost) : \E i \in I : lost[k] = wire[i]
      /\ waiting \in Seq(Calls) /\ \A k \in 1 .. Len(waiting) : \E i \in J : waiting[k] = calls[i]
  <2>1. ASSUME NEW T
        PROVE  /\ lost \in Seq(Wires) /\ \A k \in 1 .. Len(lost) : \E i \in I : lost[k] = wire[i]
               /\ Once(wire, T) => Once(lost, T)
    BY <1>2, <1>4, KeptMarks
  <2>2. ASSUME NEW T
        PROVE  /\ waiting \in Seq(Calls)
               /\ \A k \in 1 .. Len(waiting) : \E i \in J : waiting[k] = calls[i]
               /\ Once(calls, T) => Once(waiting, T)
    BY <1>2, <1>4, KeptMarks
  <2> HIDE DEF lost, waiting
  <2> QED
    BY <2>1, <2>2
<1> HIDE DEF lost, waiting
<1>7. /\ Len(lost) \in Nat /\ DOMAIN lost = 1 .. Len(lost)
      /\ Len(waiting) \in Nat /\ DOMAIN waiting = 1 .. Len(waiting)
      /\ \A k \in 1 .. Len(lost) : /\ lost[k].frame = "answer" /\ lost[k] \in ToSet(wire)
                                   /\ lost[k] \in Wires
      /\ \A k \in 1 .. Len(waiting) : waiting[k] \in Calls /\ waiting[k] \in ToSet(calls)
  <2>1. Len(lost) \in Nat /\ DOMAIN lost = 1 .. Len(lost)
    BY <1>6
  <2>2. Len(waiting) \in Nat /\ DOMAIN waiting = 1 .. Len(waiting)
    BY <1>6
  <2> QED
    BY <1>5, <1>6, <2>1, <2>2
<1> DEFINE Harmless == {f \in Answers : /\ ~f.ok /\ f.frame = "answer"
                                        /\ f.kind = "trail" => f.on \in given}
<1>8. \A f \in ToSet(wire) : f.kind = "trail" /\ f.frame = "answer" => f.on \in given
  BY DEF Shown, Sound, FrameSure, AnswerSure
<1>9. first \in Seq(Harmless)
  <2>1. ASSUME NEW f \in Answers
        PROVE  /\ [f EXCEPT !.ok = FALSE] \in Answers /\ ~[f EXCEPT !.ok = FALSE].ok
               /\ [f EXCEPT !.ok = FALSE].kind = f.kind /\ [f EXCEPT !.ok = FALSE].on = f.on
               /\ [f EXCEPT !.ok = FALSE].frame = f.frame
    BY DEF Answers, Frames, PlaceOK
  <2>2. \A f \in Wires : f.frame = "answer" => f \in Answers
    BY QueuesAre DEF Wires
  <2>3. ASSUME NEW k \in 1 .. Len(lost) PROVE [lost[k] EXCEPT !.ok = FALSE] \in Harmless
    <3> DEFINE f == lost[k]
               g == [f EXCEPT !.ok = FALSE]
    <3>1. f.frame = "answer" /\ f \in ToSet(wire) /\ f \in Answers
      BY <1>7, <2>2
    <3> HIDE DEF f
    <3>2. g \in Answers /\ ~g.ok /\ g.kind = f.kind /\ g.on = f.on /\ g.frame = f.frame
      BY <2>1, <3>1
    <3> HIDE DEF g
    <3>3. g \in Harmless
      BY <1>8, <3>1, <3>2
    <3> QED
      BY <3>3 DEF f, g
  <2> HIDE DEF Harmless
  <2>4. first \in [1 .. Len(lost) -> Harmless]
    BY <1>7, <2>3
  <2> QED
    BY <1>7, <2>4, SeqDef
<1>10. second \in Seq(Harmless)
  <2>1. \A c \in ToSet(calls) : c.kind = "trail" => c.on \in given
    BY DEF Shown, Sound, CallSure
  <2>2. \A k \in 1 .. Len(waiting) : Failed(waiting[k]) \in Harmless
    BY <1>7, <2>1, FailedIs
  <2> HIDE DEF Harmless
  <2>3. second \in [1 .. Len(waiting) -> Harmless]
    BY <1>7, <2>2
  <2> QED
    BY <1>7, <2>3, SeqDef
<1> HIDE DEF first, second
<1>11. \A f \in ToSet(wire') : f \in Harmless
  <2> HIDE DEF Harmless
  <2>1. first \o second \in Seq(Harmless)
    BY <1>9, <1>10
  <2> QED
    BY <1>1, <2>1, ToSetType
<1>12. \A c \in ToSet(calls') : \E d \in ToSet(calls) :
          /\ ~c.heard /\ c.kind = d.kind /\ c.on = d.on /\ c.rows = d.rows
  <2>1. \A c \in Calls : /\ ~[c EXCEPT !.heard = FALSE].heard
                         /\ [c EXCEPT !.heard = FALSE].kind = c.kind
                         /\ [c EXCEPT !.heard = FALSE].on = c.on
                         /\ [c EXCEPT !.heard = FALSE].rows = c.rows
    BY DEF Calls
  <2>2. DOMAIN calls' = 1 .. Len(calls)
    BY <1>1, <1>2
  <2>3. \A i \in 1 .. Len(calls) : /\ calls'[i] = [calls[i] EXCEPT !.heard = FALSE]
                                   /\ calls[i] \in Calls /\ calls[i] \in ToSet(calls)
    BY <1>1, <1>2, ToSetType
  <2>4. \A c \in ToSet(calls') : \E i \in 1 .. Len(calls) : c = calls'[i]
    BY <2>2 DEF ToSet
  <2>5. \A i \in 1 .. Len(calls) :
           /\ ~calls'[i].heard /\ calls'[i].kind = calls[i].kind
           /\ calls'[i].on = calls[i].on /\ calls'[i].rows = calls[i].rows
    BY <2>1, <2>3
  <2>6. ASSUME NEW c \in ToSet(calls')
        PROVE  \E d \in ToSet(calls) :
                  ~c.heard /\ c.kind = d.kind /\ c.on = d.on /\ c.rows = d.rows
    <3>1. PICK i \in 1 .. Len(calls) : c = calls'[i]
      BY <2>4
    <3>2. calls[i] \in ToSet(calls)
      BY <2>3
    <3> QED
      BY <2>5, <3>1, <3>2
  <2> QED
    BY <2>6
<1>13. Close.frame = "close" /\ Close \in Changes \cup Closes
  BY CloseType DEF Close
<1>14. /\ bridge' = bridge \o <<Close>> /\ Len(bridge') = Len(bridge) + 1
       /\ \A i \in 1 .. Len(bridge) : bridge'[i] = bridge[i]
       /\ bridge'[Len(bridge) + 1] = Close
  <2> DEFINE z == Close
  <2>1. z \in Changes \cup Closes /\ bridge' = Append(bridge, z)
    BY <1>1, <1>13
  <2> HIDE DEF z
  <2>2. /\ bridge' = bridge \o <<z>> /\ Len(bridge') = Len(bridge) + 1
        /\ \A i \in 1 .. Len(bridge) : bridge'[i] = bridge[i]
        /\ bridge'[Len(bridge) + 1] = z
    BY <1>2, <2>1
  <2> QED
    BY <2>2 DEF z
<1>15. ToSet(bridge') = ToSet(bridge) \cup {Close}
  BY <1>2, <1>13, <1>14, ToSetAppend
<1>16. Dialed'
  <2>1. bridge' # <<>>
    BY <1>2, <1>14
  <2>2. bridge'[Len(bridge')].frame = "close"
    BY <1>13, <1>14
  <2>3. ASSUME NEW i \in 1 .. Len(bridge'), bridge'[i].frame = "close"
        PROVE  i = Len(bridge')
    <3>1. \A j \in 1 .. Len(bridge) : bridge'[j].frame # "close"
      BY <1>1, <1>14 DEF Shown, Dialed
    <3> QED
      BY <1>2, <1>14, <2>3, <3>1
  <2>4. dialing' <=> conn' = "Connecting"
    BY <1>1, <1>3 DEF Shown, Dialed
  <2> QED
    BY <1>1, <1>3, <2>1, <2>2, <2>3, <2>4 DEF Dialed
<1>17. Sound'
  <2>1. UNCHANGED <<threads, given, raced, route, rail>>
    BY <1>1 DEF Seated, server
  <2>2. \A c \in ToSet(calls') : CallSure(c)'
    BY <1>12, <2>1 DEF Shown, Sound, CallSure, Named
  <2>3. \A f \in ToSet(wire') : FrameSure(f)'
    BY <1>1, <1>3, <1>11, <2>1 DEF FrameSure, AnswerSure, Named
  <2>4. \A f \in ToSet(bridge') : f.frame = "changed" => f.on \in given'
    BY <1>13, <1>15, <2>1 DEF Shown, Sound
  <2> QED
    BY <2>1, <2>2, <2>3, <2>4 DEF Shown, Sound, Named
<1>18. Current'
  BY <1>1 DEF Current
<1> QED
  BY <1>16, <1>17, <1>18 DEF Shown

----------------------------------------------------------------------------
(* A turn of the update loop: what it takes was believed, and what it asks   *)
(* for is due.                                                             *)

Answered(took) == took => wire # <<>> /\ Head(wire).frame = "answer"
Wants(cs) == \A c \in ToSet(cs) : FreshAsk(c) /\ (c.kind = "trail" => conn = "Online")
Turn(took, cs) == Still /\ Answered(took) /\ Start(cs, Takes(took)) /\ Wants(cs)

LEMMA TurnStays ==
    ASSUME Still
    PROVE  /\ UNCHANGED <<threads, given, conn, link, dialing, bridge, raced, unread>>
           /\ There' = There
BY DEF Still, server, connection, There

LEMMA TakesIs ==
    ASSUME UiInv, NEW took \in BOOLEAN, Answered(took)
    PROVE  /\ Takes(took) \in Seq(Wires) /\ ToSet(Takes(took)) \subseteq ToSet(wire)
           /\ \A f \in ToSet(wire) : f \in ToSet(Takes(took)) \/ (took /\ f = Head(wire))
           /\ \A A, B : Followed(wire, A, B) => Followed(Takes(took), A, B)
           /\ took => /\ Head(wire) \in ToSet(wire) /\ Head(wire) \in Answers
                      /\ \A A, B : Followed(wire, A, B) /\ Head(wire) \in A
                            => \E x \in ToSet(Takes(took)) : x \in B
<1>1. wire \in Seq(Wires)
  BY QueuesAre
<1>2. CASE ~took
  BY <1>1, <1>2 DEF Takes
<1>3. CASE took
  <2>1. wire # <<>> /\ Head(wire).frame = "answer" /\ Takes(took) = Tail(wire)
    BY <1>3 DEF Answered, Takes
  <2>2. /\ Tail(wire) \in Seq(Wires) /\ Head(wire) \in Wires /\ Head(wire) \in ToSet(wire)
        /\ ToSet(wire) = {Head(wire)} \cup ToSet(Tail(wire))
    BY <1>1, <2>1, ToSetTail
  <2>3. Head(wire) \in Answers
    BY <2>1, <2>2, QueuesAre DEF Wires
  <2>4. ASSUME NEW A, NEW B, Followed(wire, A, B)
        PROVE  /\ Followed(Tail(wire), A, B)
               /\ Head(wire) \in A => \E x \in ToSet(Tail(wire)) : x \in B
    BY <1>1, <2>1, <2>4, FollowedTail
  <2> QED
    BY <1>3, <2>1, <2>2, <2>3, <2>4
<1> QED
  BY <1>2, <1>3

\* The queues after a turn.
LEMMA TurnQueues ==
    ASSUME UiInv, NEW took \in BOOLEAN, NEW cs \in Seq(Asks), Turn(took, cs)
    PROVE  /\ ToSet(calls) \subseteq ToSet(calls')
           /\ ToSet(calls') \subseteq ToSet(calls) \cup ToSet(cs)
           /\ link = "up" => ToSet(cs) \subseteq ToSet(calls') /\ wire' = Takes(took)
           /\ \A f \in ToSet(wire') : \/ f \in ToSet(wire)
                                      \/ link # "up" /\ \E c \in ToSet(cs) : f = Failed(c)
<1>1. /\ calls \in Seq(Calls) /\ cs \in Seq(Calls) /\ Len(cs) \in Nat /\ Takes(took) \in Seq(Wires)
      /\ ToSet(Takes(took)) \subseteq ToSet(wire)
  <2>1. calls \in Seq(Calls) /\ Asks \subseteq Calls
    BY QueuesAre DEF Asks
  <2>2. cs \in Seq(Calls) /\ Len(cs) \in Nat
    BY <2>1, SeqMonotonic
  <2> QED
    BY <2>1, <2>2, TakesIs DEF Turn
<1>2. CASE link = "up"
  <2>1. calls' = calls \o cs /\ wire' = Takes(took)
    BY <1>2 DEF Turn, Start
  <2>2. ToSet(calls \o cs) = ToSet(calls) \cup ToSet(cs)
    BY <1>1, ToSetConcat
  <2>3. ToSet(calls') = ToSet(calls) \cup ToSet(cs)
    BY <2>1, <2>2
  <2> QED
    BY <1>1, <1>2, <2>1, <2>3
<1>3. CASE link # "up"
  <2> DEFINE fails == [i \in DOMAIN cs |-> Failed(cs[i])]
             q == Takes(took)
  <2>1. calls' = calls /\ wire' = q \o fails
    BY <1>3 DEF Turn, Start
  <2>2. DOMAIN cs = 1 .. Len(cs) /\ \A i \in 1 .. Len(cs) : cs[i] \in Calls /\ cs[i] \in ToSet(cs)
    BY <1>1, ToSetType
  <2>3. \A i \in 1 .. Len(cs) : fails[i] = Failed(cs[i]) /\ Failed(cs[i]) \in Wires
    BY <2>2, FailedIs, QueuesAre
  <2>4. fails \in [1 .. Len(cs) -> Wires]
    BY <2>2, <2>3
  <2>5. fails \in Seq(Wires) /\ Len(fails) = Len(cs)
    BY <1>1, <2>4, SeqDef, LenProperties
  <2> HIDE DEF fails, q
  <2>6. q \in Seq(Wires) /\ ToSet(q) \subseteq ToSet(wire)
    BY <1>1 DEF q
  <2>7. ToSet(q \o fails) = ToSet(q) \cup ToSet(fails)
    BY <2>5, <2>6, ToSetConcat
  <2>8. ToSet(fails) = {fails[i] : i \in 1 .. Len(fails)}
    BY <2>5, ToSetType
  <2>9. \A f \in ToSet(fails) : \E c \in ToSet(cs) : f = Failed(c)
    BY <2>2, <2>3, <2>5, <2>8
  <2> QED
    BY <1>3, <2>1, <2>6, <2>7, <2>9
<1> QED
  BY <1>2, <1>3

\* What a turn leaves of what is believed and due.
LEMMA TurnKeeps ==
    ASSUME UiInv, Shown, NEW took \in BOOLEAN, NEW cs \in Seq(Asks), Turn(took, cs)
    PROVE  /\ Dialed'
           /\ \A c \in ToSet(calls') : CallSure(c)'
           /\ \A f \in ToSet(wire') : FrameSure(f)'
           /\ (\A f \in ToSet(bridge) : f.frame = "changed" => f.on \in given)'
           /\ link = "up" => Truth' /\ BridgeTruth' /\ (~unread => Mended')
<1>1. UNCHANGED <<threads, given, conn, link, dialing, bridge, raced, unread>> /\ There' = There
  BY TurnStays DEF Turn
<1>2. /\ ToSet(calls) \subseteq ToSet(calls')
      /\ ToSet(calls') \subseteq ToSet(calls) \cup ToSet(cs)
      /\ link = "up" => wire' = Takes(took)
      /\ \A f \in ToSet(wire') : \/ f \in ToSet(wire)
                                 \/ link # "up" /\ \E c \in ToSet(cs) : f = Failed(c)
  BY TurnQueues
<1>3. Dialed'
  BY <1>1, DialedStays DEF Shown
<1>4. \A c \in ToSet(cs) : c \in Calls /\ FreshAsk(c) /\ (c.kind = "trail" => conn = "Online")
  <2>1. ToSet(cs) \subseteq Asks
    BY ToSetType
  <2> QED
    BY <2>1 DEF Turn, Wants, Asks
<1>5. \A c \in ToSet(calls') : CallSure(c)'
  <2>1. \A c \in ToSet(calls') : CallSure(c)
    BY <1>2, <1>4, FreshSure DEF Shown, Sound
  <2> QED
    BY <1>1, <2>1 DEF CallSure, Named
<1>6. ASSUME NEW f \in ToSet(wire') PROVE FrameSure(f)'
  <2>1. CASE f \in ToSet(wire)
    BY <1>1, <2>1 DEF Shown, Sound, FrameSure, AnswerSure, Named
  <2>2. CASE link # "up" /\ \E c \in ToSet(cs) : f = Failed(c)
    <3>1. PICK c \in ToSet(cs) : f = Failed(c)
      BY <2>2
    <3>2. f.frame = "answer" /\ ~f.ok /\ f.kind = c.kind /\ f.on = c.on
      BY <1>4, <3>1, FailedIs
    <3>3. f.kind = "trail" => f.on \in given /\ conn = "Online"
      BY <1>4, <3>2 DEF FreshAsk
    <3> QED
      BY <1>1, <2>2, <3>2, <3>3 DEF FrameSure, AnswerSure
  <2> QED
    BY <1>2, <2>1, <2>2
<1>7. (\A f \in ToSet(bridge) : f.frame = "changed" => f.on \in given)'
  BY <1>1 DEF Shown, Sound
<1>8. ASSUME link = "up" PROVE Truth' /\ BridgeTruth' /\ (~unread => Mended')
  <2>1. Truth /\ BridgeTruth /\ (~unread => Mended) /\ wire' = Takes(took)
    BY <1>2, <1>8 DEF Shown, Current
  <2>2. Answered(took)
    BY DEF Turn
  <2>3. \A A, B : Followed(wire, A, B) => Followed(wire', A, B)
    BY <2>1, <2>2, TakesIs
  <2>4. \A t \in There : Followed(wire', Stale(t, threads[t], raced), Events(t))
    BY <2>1, <2>3 DEF Truth
  <2>5. Truth'
    BY <1>1, <2>4 DEF Truth, Stale, Speaks
  <2>6. \A t : Told(wire, t) => Told(wire', t)
    <3>1. took => Head(wire).frame = "answer"
      BY <2>2 DEF Answered
    <3>2. \A f \in ToSet(wire) : f \in ToSet(wire') \/ (took /\ f = Head(wire))
      BY <2>1, <2>2, TakesIs
    <3> QED
      BY <3>1, <3>2 DEF Told, Event
  <2>7. BridgeTruth'
    BY <1>1, <2>1, <2>6 DEF BridgeTruth, Stale, Speaks
  <2>8. Asked("list", Places) => Asked("list", Places)'
    BY <1>2 DEF Asked
  <2>9. Followed(wire, Lists(FALSE), Lists(TRUE)) => Followed(wire', Lists(FALSE), Lists(TRUE))
    BY <2>3
  <2>10. ~unread => Mended'
    BY <2>1, <2>8, <2>9 DEF Mended, Lists
  <2> QED
    BY <2>5, <2>7, <2>10
<1> QED
  BY <1>3, <1>5, <1>6, <1>7, <1>8

LEMMA TurnDue ==
    ASSUME UiInv, Shown, NEW took \in BOOLEAN, NEW cs \in Seq(Asks), Turn(took, cs), link = "up"
    PROVE  /\ \A t : Told(wire, t) => Told(wire, t)'
           /\ \A kind, ons : Asked(kind, ons) => Asked(kind, ons)'
           /\ \A kind, ons : Due(kind, ons) =>
                 \/ Due(kind, ons)'
                 \/ took /\ Head(wire).ok /\ Head(wire).kind = kind /\ Head(wire).on \in ons
           /\ \A c \in ToSet(cs) : \A ons : c.on \in ons => Due(c.kind, ons)'
           /\ \A t \in There : took /\ Head(wire) \in Stale(t, threads[t], raced) => Told(wire, t)'
<1>1. /\ ToSet(calls) \subseteq ToSet(calls') /\ ToSet(cs) \subseteq ToSet(calls')
      /\ wire' = Takes(took)
  BY TurnQueues
<1>2. Answered(took)
  BY DEF Turn
<1>3. /\ \A f \in ToSet(wire) : f \in ToSet(wire') \/ (took /\ f = Head(wire))
      /\ took => \A A, B : Followed(wire, A, B) /\ Head(wire) \in A => \E x \in ToSet(wire') : x \in B
  BY <1>1, <1>2, TakesIs
<1>4. \A t : Told(wire, t) => Told(wire, t)'
  BY <1>2, <1>3 DEF Told, Event, Answered
<1>5. \A kind, ons : Asked(kind, ons) => Asked(kind, ons)'
  BY <1>1 DEF Asked
<1>6. ASSUME NEW kind, NEW ons, Due(kind, ons)
      PROVE  \/ Due(kind, ons)'
             \/ took /\ Head(wire).ok /\ Head(wire).kind = kind /\ Head(wire).on \in ons
  <2>1. CASE Asked(kind, ons)
    BY <1>5, <2>1 DEF Due
  <2>2. CASE Granted(kind, ons)
    <3>1. PICK f \in ToSet(wire) : f.frame = "answer" /\ f.ok /\ f.kind = kind /\ f.on \in ons
      BY <2>2 DEF Granted
    <3>2. CASE f \in ToSet(wire')
      BY <3>1, <3>2 DEF Due, Granted
    <3>3. CASE took /\ f = Head(wire)
      BY <3>1, <3>3
    <3> QED
      BY <1>3, <3>2, <3>3
  <2> QED
    BY <1>6, <2>1, <2>2 DEF Due
<1>7. ASSUME NEW c \in ToSet(cs), NEW ons, c.on \in ons PROVE Due(c.kind, ons)'
  BY <1>1, <1>7 DEF Turn, Wants, FreshAsk, Due, Asked
<1>8. ASSUME NEW t \in There, took, Head(wire) \in Stale(t, threads[t], raced)
      PROVE  Told(wire, t)'
  <2>1. Followed(wire, Stale(t, threads[t], raced), Events(t))
    BY DEF Shown, Current, Truth
  <2>2. \E x \in ToSet(wire') : x \in Events(t)
    BY <1>3, <1>8, <2>1
  <2> QED
    BY <2>2 DEF Told, Events
<1> QED
  BY <1>4, <1>5, <1>6, <1>7, <1>8

\* What a turn shows in the pane and in the rail decides the rest.
LEMMA TurnShown ==
    ASSUME UiInv, Shown, NEW took \in BOOLEAN, NEW cs \in Seq(Asks), Turn(took, cs),
           Named(rail.list.rows)', route' # Root => route' \in given,
           link = "up" /\ ~unread => Pinned' /\ Listed'
    PROVE  Shown'
<1>1. UNCHANGED <<threads, given, conn, link, dialing, bridge, raced, unread>>
  BY TurnStays DEF Turn
<1>2. /\ Dialed'
      /\ \A c \in ToSet(calls') : CallSure(c)'
      /\ \A f \in ToSet(wire') : FrameSure(f)'
      /\ (\A f \in ToSet(bridge) : f.frame = "changed" => f.on \in given)'
      /\ link = "up" => Truth' /\ BridgeTruth' /\ (~unread => Mended')
  BY TurnKeeps
<1>3. Sound'
  BY <1>1, <1>2 DEF Sound
<1>4. Current'
  BY <1>1, <1>2 DEF Current
<1> QED
  BY <1>2, <1>3, <1>4 DEF Shown

\* The answer that a turn takes is not one that kind waits for.
Spares(took, kinds) == took /\ Head(wire).ok => Head(wire).kind \notin kinds

LEMMA StillPane ==
    ASSUME UiInv, Shown, NEW took \in BOOLEAN, NEW cs \in Seq(Asks), Turn(took, cs),
           link = "up", ~unread, Spares(took, {"state", "trail"}),
           route' = route, foreign' = foreign, pane'.info = pane.info, pane'.trail = pane.trail
    PROVE  Pinned'
<1>1. UNCHANGED <<threads, bridge>> /\ There' = There
  BY TurnStays DEF Turn
<1>2. Pinned
  BY DEF Shown, Current
<1>3. \A t : Told(wire, t) => Told(wire, t)'
  BY TurnDue
<1>4. \A kind, ons : Due(kind, ons) =>
         \/ Due(kind, ons)'
         \/ took /\ Head(wire).ok /\ Head(wire).kind = kind /\ Head(wire).on \in ons
  BY TurnDue
<1>5. \A r : r = {route} => /\ Due("state", r) => Due("state", r)'
                            /\ Due("trail", r) => Due("trail", r)'
  BY <1>4 DEF Spares
<1>6. /\ Due("state", {route}) => Due("state", {route})'
      /\ Due("trail", {route}) => Due("trail", {route})'
  BY <1>5
<1> QED
  BY <1>1, <1>2, <1>3, <1>6 DEF Pinned, Told

\* A page that is opened on line is read.
LEMMA NewPane ==
    ASSUME UiInv, Shown, NEW took \in BOOLEAN, NEW cs \in Seq(Asks), Turn(took, cs),
           link = "up", ToSet(Reads(route')) \subseteq ToSet(cs)
    PROVE  Pinned'
<1>1. There' = There /\ Root \notin There
  BY TurnStays, NoInfoType DEF Turn, There
<1>2. \A c \in ToSet(cs) : \A ons : c.on \in ons => Due(c.kind, ons)'
  BY TurnDue
<1>3. ASSUME route' \in There PROVE Due("state", {route})' /\ Due("trail", {route})'
  <2>1. Call("trail", route') \in ToSet(cs) /\ Call("state", route') \in ToSet(cs)
    BY <1>1, <1>3, ReadsFresh
  <2>2. \A r : r = route' => Due("state", {r})' /\ Due("trail", {r})'
    BY <1>2, <2>1, CallIs
  <2> QED
    BY <2>2
<1> QED
  BY <1>1, <1>3 DEF Pinned

LEMMA StillRows ==
    ASSUME UiInv, Shown, NEW took \in BOOLEAN, NEW cs \in Seq(Asks), Turn(took, cs),
           Spares(took, {"list"}), rail'.list = rail.list
    PROVE  Named(rail.list.rows)' /\ (link = "up" /\ ~unread => Listed')
<1>1. UNCHANGED <<threads, bridge, given, raced>> /\ There' = There
  BY TurnStays DEF Turn
<1>2. Named(rail.list.rows)'
  BY <1>1 DEF Shown, Sound, Named
<1>3. ASSUME link = "up", ~unread PROVE Listed'
  <2>1. Listed
    BY <1>3 DEF Shown, Current
  <2>2. \A t : Told(wire, t) => Told(wire, t)'
    BY <1>3, TurnDue
  <2>3. \A kind, ons : Due(kind, ons) =>
           \/ Due(kind, ons)'
           \/ took /\ Head(wire).ok /\ Head(wire).kind = kind /\ Head(wire).on \in ons
    BY <1>3, TurnDue
  <2>4. Due("list", Places) => Due("list", Places)'
    BY <2>3 DEF Spares
  <2> QED
    BY <1>1, <2>1, <2>2, <2>4 DEF Listed, Told
<1> QED
  BY <1>2, <1>3

\* One row takes what an answer says.
LEMMA NewRow ==
    ASSUME UiInv, Shown, NEW took \in BOOLEAN, NEW cs \in Seq(Asks), Turn(took, cs),
           Spares(took, {"list"}), NEW t \in Threads, NEW info,
           rail'.list = UpsertThread(rail.list, t, info), t \in given \/ info = NoInfo,
           link = "up" /\ t \in There => info = threads[t] \/ Told(wire, t)'
    PROVE  Named(rail.list.rows)' /\ (link = "up" /\ ~unread => Listed')
<1>1. UNCHANGED <<threads, bridge, given, raced>> /\ There' = There /\ There \subseteq Threads
  BY TurnStays DEF Turn, There
<1>2. rail.list.rows \in Tables /\ rail.list \in [tag : {"Idle", "Success", "Failure"}, rows : Tables]
  BY DEF UiInv, UiTypeOK, RailType, Rails
<1>3. /\ rail'.list.tag = rail.list.tag
      /\ \A u \in Threads : u # t => rail'.list.rows[u] = rail.list.rows[u]
      /\ rail'.list.rows[t] = info \/ rail'.list.rows[t] = rail.list.rows[t]
      /\ rail.list.tag = "Success" => rail'.list.rows[t] = info
  <2>1. CASE rail.list.tag = "Success"
    <3>1. rail'.list = [rail.list EXCEPT !.rows[t] = info]
      BY <2>1 DEF UpsertThread
    <3> QED
      BY <1>2, <3>1 DEF Tables
  <2>2. CASE rail.list.tag # "Success"
    BY <2>2 DEF UpsertThread
  <2> QED
    BY <2>1, <2>2
<1>4. Named(rail.list.rows)'
  BY <1>1, <1>3 DEF Shown, Sound, Named
<1>5. ASSUME link = "up", ~unread PROVE Listed'
  <2>1. Listed
    BY <1>5 DEF Shown, Current
  <2>2. \A u : Told(wire, u) => Told(wire, u)'
    BY <1>5, TurnDue
  <2>3. \A kind, ons : Due(kind, ons) =>
           \/ Due(kind, ons)'
           \/ took /\ Head(wire).ok /\ Head(wire).kind = kind /\ Head(wire).on \in ons
    BY <1>5, TurnDue
  <2>4. Due("list", Places) => Due("list", Places)'
    BY <2>3 DEF Spares
  <2>5. ASSUME NEW u \in There \ raced
        PROVE  \/ rail'.list.rows[u] = threads[u]
               \/ Told(bridge, u) \/ Told(wire, u)' \/ Due("list", Places)'
    <3>1. CASE u = t
      <4>1. CASE rail.list.tag = "Success"
        BY <1>3, <1>5, <3>1, <4>1
      <4>2. CASE rail.list.tag # "Success"
        BY <2>1, <2>4, <4>2 DEF Listed
      <4> QED
        BY <4>1, <4>2
    <3>2. CASE u # t
      BY <1>1, <1>3, <2>1, <2>2, <2>4, <3>2 DEF Listed
    <3> QED
      BY <3>1, <3>2
  <2> QED
    BY <1>1, <1>3, <2>1, <2>4, <2>5 DEF Listed, Told
<1> QED
  BY <1>4, <1>5

\* Most turns show neither a thread nor a list.
LEMMA QuietTurn ==
    ASSUME UiInv, Shown, NEW took \in BOOLEAN, NEW cs \in Seq(Asks), Turn(took, cs),
           Spares(took, {"list", "state", "trail"}), route' = route, foreign' = foreign,
           pane'.info = pane.info, pane'.trail = pane.trail, rail'.list = rail.list
    PROVE  Shown'
<1>1. Spares(took, {"list"}) /\ Spares(took, {"state", "trail"})
  BY DEF Spares
<1>2. link = "up" /\ ~unread => Pinned'
  BY <1>1, StillPane
<1>3. Named(rail.list.rows)' /\ (link = "up" /\ ~unread => Listed')
  BY <1>1, StillRows
<1>4. route' # Root => route' \in given
  BY DEF Shown, Sound
<1> QED
  BY <1>2, <1>3, <1>4, TurnShown

\* A turn that stays on its page.
LEMMA HereQuiet ==
    ASSUME UiInv, Shown, Still, NEW took \in BOOLEAN, Answered(took), NEW cs \in Seq(Asks),
           Wants(cs), Spares(took, {"list", "state", "trail"}), NEW p, NEW e,
           Here(p, e, cs, Takes(took)), p.info = pane.info, p.trail = pane.trail,
           rail'.list = rail.list
    PROVE  Shown'
<1>1. /\ route' = route /\ foreign' = foreign /\ pane' = p /\ Turn(took, cs)
  BY DEF Here, Turn
<1> QED
  BY <1>1, QuietTurn

----------------------------------------------------------------------------
(* What lands.                                                             *)

LEMMA WantsNone == <<>> \in Seq(Asks) /\ Wants(<<>>)
BY NoAsks, ToSetNone DEF Wants

LEMMA WantsOne ==
    ASSUME NEW kind, NEW on, Call(kind, on) \in Asks, kind # "trail"
    PROVE  <<Call(kind, on)>> \in Seq(Asks) /\ Wants(<<Call(kind, on)>>)
<1> DEFINE c == Call(kind, on)
<1>1. c \in Asks /\ c.kind = kind /\ FreshAsk(c)
  BY CallIs
<1> HIDE DEF c
<1>2. <<c>> \in Seq(Asks) /\ ToSet(<<c>>) = {c}
  BY <1>1, ToSetOne
<1>3. Wants(<<c>>)
  BY <1>1, <1>2 DEF Wants
<1> QED
  BY <1>2, <1>3 DEF c

LEMMA WantsBoth ==
    ASSUME NEW cs \in Seq(Asks), NEW ds \in Seq(Asks), Wants(cs), Wants(ds)
    PROVE  cs \o ds \in Seq(Asks) /\ Wants(cs \o ds)
<1>1. cs \o ds \in Seq(Asks) /\ ToSet(cs \o ds) = ToSet(cs) \cup ToSet(ds)
  BY ToSetConcat
<1> QED
  BY <1>1 DEF Wants

LEMMA PlainSeq ==
    ASSUME NEW cs \in Seq(PlainAsks)
    PROVE  cs \in Seq(Asks)
<1>1. PlainAsks \subseteq Asks
  BY DEF PlainAsks
<1> QED
  BY <1>1, SeqMonotonic

LEMMA WantsLists ==
    /\ <<Call("list", Root), Call("projects", Root)>> \in Seq(Asks)
    /\ Wants(<<Call("list", Root), Call("projects", Root)>>)
<1>1. <<Call("list", Root), Call("projects", Root)>> \in Seq(Asks)
  BY ListsType, PlainSeq
<1> DEFINE cs == <<Call("list", Root), Call("projects", Root)>>
<1>2. ToSet(cs) = {Call("list", Root), Call("projects", Root)}
  BY ListsFresh
<1> HIDE DEF cs
<1>3. Wants(cs)
  BY <1>2, CallIs DEF Wants
<1> QED
  BY <1>1, <1>3 DEF cs

LEMMA WantsReload ==
    ASSUME UiInv
    PROVE  ReloadExpanded \in Seq(Asks) /\ Wants(ReloadExpanded)
<1>1. RailType
  BY DEF UiInv, UiTypeOK
<1>2. ReloadExpanded \in Seq(Asks)
  BY <1>1, ReloadType, PlainSeq
<1>3. \A c \in ToSet(ReloadExpanded) : FreshAsk(c) /\ c.kind = "sessions"
  BY <1>1, ReloadFresh
<1> QED
  BY <1>2, <1>3 DEF Wants

LEMMA LandedIs ==
    ASSUME UiInv, Shown, NEW kind \in Kinds, NEW ok \in BOOLEAN, Landed(kind, ok)
    PROVE  /\ Answered(TRUE) /\ Takes(TRUE) = Tail(wire) /\ TRUE \in BOOLEAN
           /\ Head(wire).kind = kind /\ Head(wire).ok = ok /\ Head(wire).frame = "answer"
           /\ Head(wire) \in Wires /\ Head(wire).on \in Places /\ AnswerSure(Head(wire))
<1>1. wire # <<>> /\ Head(wire).frame = "answer" /\ Head(wire).kind = kind /\ Head(wire).ok = ok
  BY DEF Landed
<1>2. Answered(TRUE)
  BY <1>1 DEF Answered
<1>3. Head(wire) \in ToSet(wire) /\ Head(wire) \in Answers
  BY <1>2, TakesIs
<1>4. AnswerSure(Head(wire))
  BY <1>1, <1>3 DEF Shown, Sound, FrameSure
<1>5. Head(wire).on \in Places /\ Head(wire) \in Wires
  BY <1>3 DEF Answers, Frames, Wires
<1> QED
  BY <1>1, <1>2, <1>4, <1>5 DEF Takes

\* Most answers show neither a thread nor a list.
LEMMA LandedQuiet ==
    ASSUME UiInv, Shown, Still, NEW kind \in Kinds, NEW ok \in BOOLEAN, Landed(kind, ok),
           ok => kind \notin {"list", "state", "trail"}, NEW cs \in Seq(Asks), Wants(cs),
           NEW p, NEW e, Here(p, e, cs, Tail(wire)), p.info = pane.info, p.trail = pane.trail,
           rail'.list = rail.list
    PROVE  Shown'
<1>1. /\ Answered(TRUE) /\ Takes(TRUE) = Tail(wire) /\ TRUE \in BOOLEAN
      /\ Head(wire).kind = kind /\ Head(wire).ok = ok
  BY LandedIs
<1>2. Spares(TRUE, {"list", "state", "trail"})
  BY <1>1 DEF Spares
<1>3. Here(p, e, cs, Takes(TRUE))
  BY <1>1
<1> QED
  BY <1>1, <1>2, <1>3, HereQuiet

\* An answer that says what a thread is says its last word, or an event follows.
LEMMA WordIs ==
    ASSUME UiInv, Shown, NEW kind \in Patches, NEW cs \in Seq(Asks), Landed(kind, TRUE),
           Turn(TRUE, cs), link = "up", NEW t \in There, t = Of
    PROVE  Value = threads[t] \/ Told(wire, t)'
<1>1. kind \in Kinds /\ kind # "list"
  BY DEF Patches, Kinds
<1>2. /\ Head(wire).kind = kind /\ Head(wire).ok = TRUE /\ Head(wire).frame = "answer"
      /\ Head(wire) \in Wires
  BY <1>1, LandedIs
<1>3. Speaks(Head(wire), t, raced) /\ Word(Head(wire), t) = Value
  BY <1>1, <1>2 DEF Speaks, Word, Of, Value
<1>4. \A u \in There : Head(wire) \in Stale(u, threads[u], raced) => Told(wire, u)'
  BY TurnDue
<1>5. Value # threads[t] => Head(wire) \in Stale(t, threads[t], raced)
  BY <1>2, <1>3 DEF Stale
<1> QED
  BY <1>4, <1>5

\* A page that is opened is read if the connection is there.
LEMMA RouteIs ==
    ASSUME UiInv, Shown, Still, NEW took \in BOOLEAN, Answered(took), NEW to \in Pages,
           to # Root => to \in given, NEW p, NEW e, ApplyRoute(to, p, e, <<>>, Takes(took))
    PROVE  /\ route' = to
           /\ \E cs \in Seq(Asks) : /\ Turn(took, cs)
                                    /\ link = "up" => ToSet(Reads(route')) \subseteq ToSet(cs)
<1> DEFINE more == IF conn = "Online" THEN Reads(to) ELSE <<>>
<1>1. route' = to /\ Start(<<>> \o more, Takes(took))
  BY DEF ApplyRoute
<1>2. Reads(to) \in Seq(Asks)
  BY ReadsType, PlainSeq
<1>3. ToSet(Reads(to)) = IF to = Root THEN {} ELSE {Call("trail", to), Call("state", to)}
  BY ReadsFresh
<1>4. more \in Seq(Asks) /\ Wants(more)
  <2>1. CASE conn = "Online"
    BY <1>2, <1>3, <2>1, CallIs DEF Wants
  <2>2. CASE conn # "Online"
    BY <2>2, WantsNone
  <2> QED
    BY <2>1, <2>2
<1>5. link = "up" => more = Reads(to)
  BY DEF Shown, Dialed
<1> HIDE DEF more
<1>6. <<>> \o more = more
  BY <1>4
<1>7. Turn(took, more)
  BY <1>1, <1>4, <1>6 DEF Turn
<1> QED
  BY <1>1, <1>4, <1>5, <1>7

LEMMA ThreadsListedShown ==
    ASSUME UiInv, Shown, Still, ThreadsListed
    PROVE  Shown'
<1> DEFINE h == Head(wire)
<1>0. "list" \in Kinds
  BY DEF Kinds
<1>1. PICK ok \in BOOLEAN :
         /\ Landed("list", ok) /\ Here(pane, editor, <<>>, Tail(wire))
         /\ ok => rail' = [rail EXCEPT !.list = [tag |-> "Success", rows |-> Value]]
         /\ ~ok => rail' = [rail EXCEPT !.list = [tag |-> "Failure", rows |-> NoRows]]
  BY DEF ThreadsListed
<1>2. /\ Answered(TRUE) /\ Takes(TRUE) = Tail(wire) /\ TRUE \in BOOLEAN
      /\ h.kind = "list" /\ h.ok = ok /\ h.frame = "answer"
      /\ h \in Wires /\ h.on \in Places /\ AnswerSure(h)
  BY <1>0, <1>1, LandedIs
<1>3. /\ <<>> \in Seq(Asks) /\ Turn(TRUE, <<>>)
      /\ route' = route /\ foreign' = foreign /\ pane' = pane
  BY <1>1, <1>2, WantsNone DEF Turn, Here
<1>4. /\ UNCHANGED <<threads, given, bridge, raced>> /\ There' = There
  BY TurnStays
<1>5. rail'.list = IF ok THEN [tag |-> "Success", rows |-> Value]
                   ELSE [tag |-> "Failure", rows |-> NoRows]
  BY <1>1 DEF UiInv, UiTypeOK, RailType, Rails
<1>6. Named(rail.list.rows)'
  <2>1. ok => Named(Value)
    BY <1>2 DEF AnswerSure, Value
  <2>2. Named(NoRows)
    BY DEF Named, NoRows
  <2> QED
    BY <1>4, <1>5, <2>1, <2>2 DEF Named
<1>7. ASSUME link = "up", ~unread PROVE Pinned'
  <2>1. Spares(TRUE, {"state", "trail"})
    BY <1>2 DEF Spares
  <2> QED
    BY <1>2, <1>3, <1>7, <2>1, StillPane
<1>8. ASSUME link = "up", ~unread PROVE Listed'
  <2>1. CASE ok
    <3>1. ASSUME NEW t \in There \ raced PROVE Value[t] = threads[t] \/ Told(wire, t)'
      <4>1. Speaks(h, t, raced) /\ Word(h, t) = Value[t]
        BY <1>2, <2>1 DEF Speaks, Word, Value
      <4>2. Value[t] # threads[t] => h \in Stale(t, threads[t], raced)
        BY <1>2, <4>1 DEF Stale
      <4>3. \A u \in There : h \in Stale(u, threads[u], raced) => Told(wire, u)'
        BY <1>2, <1>3, <1>8, TurnDue
      <4> QED
        BY <4>2, <4>3
    <3> QED
      BY <1>4, <1>5, <2>1, <3>1 DEF Listed
  <2>2. CASE ~ok
    <3>1. Due("list", Places)'
      <4>1. Mended
        BY <1>8 DEF Shown, Current
      <4>2. CASE Asked("list", Places)
        <5>1. \A kind, ons : Asked(kind, ons) => Asked(kind, ons)'
          BY <1>2, <1>3, <1>8, TurnDue
        <5> QED
          BY <4>2, <5>1 DEF Due
      <4>3. CASE Followed(wire, Lists(FALSE), Lists(TRUE))
        <5>1. h \in Lists(FALSE)
          BY <1>2, <2>2 DEF Lists
        <5>2. \E x \in ToSet(Tail(wire)) : x \in Lists(TRUE)
          BY <1>2, <4>3, <5>1, TakesIs
        <5>3. wire' = Tail(wire)
          BY <1>2, <1>3, <1>8, TurnQueues
        <5>4. \A x \in Lists(TRUE) : x.frame = "answer" /\ x.ok /\ x.kind = "list" /\ x.on \in Places
          <6>1. \A x \in Wires : x.on \in Places
            BY DEF Wires, Answers, Changes, Frames
          <6> QED
            BY <6>1 DEF Lists
        <5> QED
          BY <5>2, <5>3, <5>4 DEF Due, Granted
      <4> QED
        BY <4>1, <4>2, <4>3 DEF Mended
    <3> QED
      BY <3>1 DEF Listed
  <2> QED
    BY <2>1, <2>2
<1>9. route' # Root => route' \in given
  BY <1>3 DEF Shown, Sound
<1> QED
  BY <1>2, <1>3, <1>6, <1>7, <1>8, <1>9, TurnShown

LEMMA RowLanded ==
    ASSUME UiInv, Shown, NEW kind \in Patches \ {"state"}, NEW cs \in Seq(Asks),
           Landed(kind, TRUE), Turn(TRUE, cs), rail'.list = UpsertThread(rail.list, Of, Value)
    PROVE  /\ Named(rail.list.rows)' /\ (link = "up" /\ ~unread => Listed')
           /\ Of \in given /\ Of \in Threads
<1>1. kind \in Kinds /\ kind # "list" /\ kind \in Threaded /\ kind \in Patches
  BY DEF Patches, Kinds, Threaded
<1>2. /\ Head(wire).kind = kind /\ Head(wire).ok = TRUE /\ Head(wire).frame = "answer"
      /\ AnswerSure(Head(wire)) /\ TRUE \in BOOLEAN
  BY <1>1, LandedIs
<1>3. Of \in given
  BY <1>1, <1>2 DEF AnswerSure, Of
<1>4. Of \in Threads
  BY <1>3 DEF UiInv, UiTypeOK, ServerType
<1>5. PICK t \in Threads : t = Of
  BY <1>4
<1>6. PICK info : info = Value
  OBVIOUS
<1>7. link = "up" /\ t \in There => info = threads[t] \/ Told(wire, t)'
  BY <1>1, <1>5, <1>6, WordIs
<1>8. rail'.list = UpsertThread(rail.list, t, info) /\ t \in given
  BY <1>3, <1>5, <1>6
<1>9. Spares(TRUE, {"list"})
  BY <1>1, <1>2 DEF Spares
<1>10. Named(rail.list.rows)' /\ (link = "up" /\ ~unread => Listed')
  BY <1>2, <1>7, <1>8, <1>9, NewRow
<1> QED
  BY <1>3, <1>4, <1>10

LEMMA ThreadLandedShown ==
    ASSUME UiInv, Shown, Still, ThreadLanded
    PROVE  Shown'
<1>0. rail \in Rails
  BY DEF UiInv, UiTypeOK, RailType
<1>1. PICK kind \in {"rename", "archive", "unarchive"} :
        \/ /\ Landed(kind, TRUE)
           /\ rail' = [rail EXCEPT !.list = UpsertThread(@, Of, Value)]
           /\ Here(pane, editor, <<>>, Tail(wire))
        \/ /\ Landed(kind, FALSE)
           /\ rail' = [rail EXCEPT !.renaming = IF kind = "rename" THEN Root ELSE @]
           /\ Here(pane, editor, <<>>, Tail(wire))
  BY DEF ThreadLanded
<1>2. kind \in Kinds /\ kind \notin {"list", "state", "trail"} /\ kind \in Patches \ {"state"}
  BY <1>1 DEF Kinds, Patches
<1>3. CASE /\ Landed(kind, TRUE)
           /\ rail' = [rail EXCEPT !.list = UpsertThread(@, Of, Value)]
           /\ Here(pane, editor, <<>>, Tail(wire))
  <2>1. /\ Answered(TRUE) /\ Takes(TRUE) = Tail(wire) /\ TRUE \in BOOLEAN /\ Head(wire).kind = kind
    BY <1>2, <1>3, LandedIs
  <2>2. /\ <<>> \in Seq(Asks) /\ Turn(TRUE, <<>>)
        /\ route' = route /\ foreign' = foreign /\ pane' = pane
    BY <1>3, <2>1, WantsNone DEF Turn, Here
  <2>3. rail'.list = UpsertThread(rail.list, Of, Value)
    BY <1>0, <1>3 DEF Rails
  <2>4. Named(rail.list.rows)' /\ (link = "up" /\ ~unread => Listed')
    BY <1>2, <1>3, <2>2, <2>3, RowLanded
  <2>5. Spares(TRUE, {"state", "trail"})
    BY <1>2, <2>1 DEF Spares
  <2>6. link = "up" /\ ~unread => Pinned'
    BY <2>1, <2>2, <2>5, StillPane
  <2>7. route' # Root => route' \in given
    BY <2>2 DEF Shown, Sound
  <2> QED
    BY <2>1, <2>2, <2>4, <2>6, <2>7, TurnShown
<1>4. CASE /\ Landed(kind, FALSE)
           /\ rail' = [rail EXCEPT !.renaming = IF kind = "rename" THEN Root ELSE @]
           /\ Here(pane, editor, <<>>, Tail(wire))
  <2>1. rail'.list = rail.list
    BY <1>0, <1>4 DEF Rails
  <2> QED
    BY <1>2, <1>4, <2>1, WantsNone, LandedQuiet
<1> QED
  BY <1>1, <1>3, <1>4

\* A page that is opened by an answer.
LEMMA RouteLanded ==
    ASSUME UiInv, Shown, NEW took \in BOOLEAN, NEW cs \in Seq(Asks), Turn(took, cs),
           route' # Root => route' \in given,
           link = "up" => ToSet(Reads(route')) \subseteq ToSet(cs),
           Named(rail.list.rows)', link = "up" /\ ~unread => Listed'
    PROVE  Shown'
<1>1. link = "up" /\ ~unread => Pinned'
  BY NewPane
<1> QED
  BY <1>1, TurnShown

LEMMA ThreadDeletedShown ==
    ASSUME UiInv, Shown, Still, ThreadDeleted
    PROVE  Shown'
<1>0. rail \in Rails /\ "delete" \in Kinds /\ Root \in Pages
  BY DEF UiInv, UiTypeOK, RailType, Kinds, Pages
<1>1. CASE /\ Landed("delete", TRUE)
           /\ rail' = [rail EXCEPT !.list = UpsertThread(@, On, NoInfo)]
           /\ IF route = On THEN ApplyRoute(Root, pane, editor, <<>>, Tail(wire))
              ELSE Here(pane, editor, <<>>, Tail(wire))
  <2>1. /\ Answered(TRUE) /\ Takes(TRUE) = Tail(wire) /\ TRUE \in BOOLEAN
        /\ Head(wire).kind = "delete" /\ Head(wire).ok = TRUE /\ AnswerSure(Head(wire))
    BY <1>0, <1>1, LandedIs
  <2>2. On \in given \ There /\ given \subseteq Threads
    BY <2>1 DEF AnswerSure, On, UiInv, UiTypeOK, ServerType
  <2>3. PICK t \in Threads : t = On /\ t \notin There
    BY <2>2
  <2>4. rail'.list = UpsertThread(rail.list, t, NoInfo)
    BY <1>0, <1>1, <2>3 DEF Rails
  <2>5. Spares(TRUE, {"list"}) /\ Spares(TRUE, {"state", "trail"})
    BY <2>1 DEF Spares
  <2>6. ASSUME NEW cs \in Seq(Asks), Turn(TRUE, cs)
        PROVE  Named(rail.list.rows)' /\ (link = "up" /\ ~unread => Listed')
    BY <2>1, <2>3, <2>4, <2>5, <2>6, NewRow
  <2>7. CASE route = On
    <3>1. ApplyRoute(Root, pane, editor, <<>>, Takes(TRUE))
      BY <1>1, <2>1, <2>7
    <3>2. /\ route' = Root
          /\ \E cs \in Seq(Asks) : /\ Turn(TRUE, cs)
                                   /\ link = "up" => ToSet(Reads(route')) \subseteq ToSet(cs)
      BY <1>0, <2>1, <3>1, RouteIs
    <3>3. PICK cs \in Seq(Asks) : /\ Turn(TRUE, cs)
                                  /\ link = "up" => ToSet(Reads(route')) \subseteq ToSet(cs)
      BY <3>2
    <3>4. Named(rail.list.rows)' /\ (link = "up" /\ ~unread => Listed')
      BY <2>6, <3>3
    <3> QED
      BY <3>2, <3>3, <3>4, RouteLanded
  <2>8. CASE route # On
    <3>1. /\ <<>> \in Seq(Asks) /\ Turn(TRUE, <<>>)
          /\ route' = route /\ foreign' = foreign /\ pane' = pane
      BY <1>1, <2>1, <2>8, WantsNone DEF Turn, Here
    <3>2. Named(rail.list.rows)' /\ (link = "up" /\ ~unread => Listed')
      BY <2>6, <3>1
    <3>3. link = "up" /\ ~unread => Pinned'
      BY <2>1, <2>5, <3>1, StillPane
    <3>4. route' # Root => route' \in given
      BY <3>1 DEF Shown, Sound
    <3> QED
      BY <2>1, <3>1, <3>2, <3>3, <3>4, TurnShown
  <2> QED
    BY <2>7, <2>8
<1>2. CASE /\ Landed("delete", FALSE)
           /\ UNCHANGED rail
           /\ Here(pane, editor, <<>>, Tail(wire))
  BY <1>0, <1>2, WantsNone, LandedQuiet
<1> QED
  BY <1>1, <1>2 DEF ThreadDeleted

LEMMA AdoptedShown ==
    ASSUME UiInv, Shown, Still, PiSessionAdopted
    PROVE  Shown'
<1>0. rail \in Rails /\ "adopt" \in Kinds /\ "adopt" \in Patches \ {"state"}
  BY DEF UiInv, UiTypeOK, RailType, Kinds, Patches
<1>1. CASE /\ Landed("adopt", TRUE)
           /\ rail' = [rail EXCEPT !.adopting = Root, !.list = UpsertThread(@, Of, Value)]
           /\ ApplyRoute(Of, pane, editor, <<>>, Tail(wire))
  <2>1. /\ Answered(TRUE) /\ Takes(TRUE) = Tail(wire) /\ TRUE \in BOOLEAN
        /\ Head(wire).kind = "adopt" /\ Head(wire).ok = TRUE /\ AnswerSure(Head(wire))
    BY <1>0, <1>1, LandedIs
  <2>2. Of \in given /\ Of \in Pages
    BY <2>1 DEF AnswerSure, Of, Threaded, UiInv, UiTypeOK, ServerType, Pages
  <2>3. PICK to \in Pages : to = Of /\ to \in given
    BY <2>2
  <2>4. ApplyRoute(to, pane, editor, <<>>, Takes(TRUE))
    BY <1>1, <2>1, <2>3
  <2>5. /\ route' = to
        /\ \E cs \in Seq(Asks) : /\ Turn(TRUE, cs)
                                 /\ link = "up" => ToSet(Reads(route')) \subseteq ToSet(cs)
    BY <2>1, <2>3, <2>4, RouteIs
  <2>6. PICK cs \in Seq(Asks) : /\ Turn(TRUE, cs)
                                /\ link = "up" => ToSet(Reads(route')) \subseteq ToSet(cs)
    BY <2>5
  <2>7. rail'.list = UpsertThread(rail.list, Of, Value)
    BY <1>0, <1>1 DEF Rails
  <2>8. Named(rail.list.rows)' /\ (link = "up" /\ ~unread => Listed')
    BY <1>0, <1>1, <2>6, <2>7, RowLanded
  <2> QED
    BY <2>3, <2>5, <2>6, <2>8, RouteLanded
<1>2. CASE /\ Landed("adopt", FALSE)
           /\ rail' = [rail EXCEPT !.adopting = Root]
           /\ Here(pane, editor,
                   <<Call("list", Root), Call("projects", Root)>>
                   \o (IF rail.adopting \in rail.projects.paths
                       THEN <<Call("sessions", rail.adopting)>> ELSE <<>>),
                   Tail(wire))
  <2> DEFINE more == IF rail.adopting \in rail.projects.paths
                     THEN <<Call("sessions", rail.adopting)>> ELSE <<>>
             lists == <<Call("list", Root), Call("projects", Root)>>
  <2>1. more \in Seq(Asks) /\ Wants(more)
    <3>1. CASE rail.adopting \in rail.projects.paths
      <4>1. rail.adopting \in Projects /\ rail.adopting \in Places
        BY <1>0, <3>1 DEF Rails, Places
      <4>2. "sessions" \in Kinds \ (Births \cup Adopts) /\ "sessions" \notin OfThread
        BY DEF Kinds, Births, Adopts, OfThread
      <4>3. Call("sessions", rail.adopting) \in Asks
        BY <4>1, <4>2, AskType DEF PlainAsks
      <4> QED
        BY <3>1, <4>3, WantsOne
    <3>2. CASE rail.adopting \notin rail.projects.paths
      BY <3>2, WantsNone
    <3> QED
      BY <3>1, <3>2
  <2>2. lists \in Seq(Asks) /\ Wants(lists)
    BY WantsLists
  <2>3. Here(pane, editor, lists \o more, Tail(wire))
    BY <1>2
  <2>4. rail'.list = rail.list
    BY <1>0, <1>2 DEF Rails
  <2> HIDE DEF more, lists
  <2>5. lists \o more \in Seq(Asks) /\ Wants(lists \o more)
    BY <2>1, <2>2, WantsBoth
  <2> QED
    BY <1>0, <1>2, <2>3, <2>4, <2>5, LandedQuiet
<1> QED
  BY <1>1, <1>2 DEF PiSessionAdopted

\* What lands in the rail and is no row of a thread.
LEMMA ProjectsShown ==
    ASSUME UiInv, Shown, Still,
           \/ ProjectsListed \/ ProjectSessionsListed \/ ProjectAdded \/ ProjectRemoved
           \/ PickerBrowseListed
    PROVE  Shown'
<1>0. rail \in Rails
  BY DEF UiInv, UiTypeOK, RailType
<1>1. {"projects", "sessions", "add", "remove", "browse"} \subseteq Kinds
      /\ {"add", "sessions"} \subseteq OfProject
  BY DEF Kinds, OfProject
<1>2. ASSUME NEW kind \in {"projects", "sessions", "add", "remove", "browse"}, NEW ok \in BOOLEAN,
             Landed(kind, ok), NEW cs \in Seq(Asks), Wants(cs), rail'.list = rail.list,
             Here(pane, editor, cs, Tail(wire))
      PROVE  Shown'
  BY <1>1, <1>2, LandedQuiet
<1>3. CASE ProjectsListed
  <2>1. rail'.list = rail.list
    BY <1>0, <1>3 DEF ProjectsListed, Rails
  <2> QED
    BY <1>2, <1>3, <2>1, WantsNone, WantsReload DEF ProjectsListed
<1>4. CASE ProjectSessionsListed
  <2>1. rail'.list = rail.list
    BY <1>0, <1>4 DEF ProjectSessionsListed, Rails
  <2> QED
    BY <1>2, <1>4, <2>1, WantsNone DEF ProjectSessionsListed
<1>5. CASE ProjectAdded
  <2>1. rail'.list = rail.list
    BY <1>0, <1>5 DEF ProjectAdded, Rails
  <2>2. CASE Landed("add", TRUE) /\ Here(pane, editor, <<Call("sessions", On)>>, Tail(wire))
    <3>1. On \in Projects /\ On \in Places
      BY <1>1, <2>2, LandedType DEF Places
    <3>2. "sessions" \in Kinds \ (Births \cup Adopts) /\ "sessions" \notin OfThread
      BY DEF Kinds, Births, Adopts, OfThread
    <3>3. Call("sessions", On) \in Asks
      BY <3>1, <3>2, AskType DEF PlainAsks
    <3>4. <<Call("sessions", On)>> \in Seq(Asks) /\ Wants(<<Call("sessions", On)>>)
      BY <3>3, WantsOne
    <3> QED
      BY <1>2, <2>1, <2>2, <3>4
  <2>3. CASE Landed("add", FALSE) /\ Here(pane, editor, <<>>, Tail(wire))
    BY <1>2, <2>1, <2>3, WantsNone
  <2> QED
    BY <1>5, <2>2, <2>3 DEF ProjectAdded
<1>6. CASE ProjectRemoved
  <2>1. rail'.list = rail.list
    BY <1>0, <1>6 DEF ProjectRemoved, Rails
  <2> QED
    BY <1>2, <1>6, <2>1, WantsNone DEF ProjectRemoved
<1>7. CASE PickerBrowseListed
  <2>1. rail'.list = rail.list
    BY <1>0, <1>7 DEF PickerBrowseListed, Rails
  <2> QED
    BY <1>2, <1>7, <2>1, WantsNone DEF PickerBrowseListed
<1> QED
  BY <1>3, <1>4, <1>5, <1>6, <1>7

LEMMA RailLandsShown ==
    ASSUME UiInv, Shown, RailLands
    PROVE  Shown'
<1>1. Still
  BY DEF RailLands, Still
<1> QED
  BY <1>1, ThreadsListedShown, ThreadLandedShown, ThreadDeletedShown, AdoptedShown, ProjectsShown
     DEF RailLands

\* A read of the page lands in the page, or in another one that is excepted.
LEMMA TrailShown ==
    ASSUME UiInv, Shown, Still, rail' = rail, TrailLanded
    PROVE  Shown'
<1>0. "trail" \in Kinds
  BY DEF Kinds
<1>1. PICK ok \in BOOLEAN :
        /\ Landed("trail", ok)
        /\ pane' = [pane EXCEPT !.trail = IF ok THEN "Success" ELSE "Failure"]
        /\ foreign' = (foreign \/ On # route)
        /\ Start(<<>>, Tail(wire)) /\ UNCHANGED <<route, editor>>
  BY DEF TrailLanded
<1>2. /\ Answered(TRUE) /\ Takes(TRUE) = Tail(wire) /\ TRUE \in BOOLEAN
      /\ Head(wire).kind = "trail" /\ Head(wire).ok = ok /\ AnswerSure(Head(wire))
  BY <1>0, <1>1, LandedIs
<1>3. <<>> \in Seq(Asks) /\ Turn(TRUE, <<>>) /\ route' = route
  BY <1>1, <1>2, WantsNone DEF Turn
<1>4. UNCHANGED <<threads, bridge>> /\ There' = There
  BY TurnStays
<1>5. pane'.info = pane.info /\ (ok => pane'.trail = "Success")
  BY <1>1, PaneIs DEF Panes
<1>6. Spares(TRUE, {"list"})
  BY <1>2 DEF Spares
<1>7. Named(rail.list.rows)' /\ (link = "up" /\ ~unread => Listed')
  BY <1>2, <1>3, <1>6, StillRows
<1>8. ASSUME link = "up", ~unread PROVE Pinned'
  <2>1. Pinned
    BY <1>8 DEF Shown, Current
  <2>2. \A t : Told(wire, t) => Told(wire, t)'
    BY <1>2, <1>3, <1>8, TurnDue
  <2>3. \A kind, ons : Due(kind, ons) =>
           \/ Due(kind, ons)'
           \/ TRUE /\ Head(wire).ok /\ Head(wire).kind = kind /\ Head(wire).on \in ons
    BY <1>2, <1>3, <1>8, TurnDue
  <2>4. \A r : r = {route} => (Due("state", r) => Due("state", r)')
    BY <1>2, <2>3
  <2>5. Due("state", {route}) => Due("state", {route})'
    BY <1>3, <2>4
  <2>6. ~ok => On \notin There
    BY <1>2, <1>8 DEF AnswerSure, On
  <2>7. ASSUME ~foreign', route' \in There' PROVE ~foreign /\ route \in There /\ ok
    BY <1>1, <1>3, <1>4, <2>6, <2>7, PaneIs
  <2> QED
    BY <1>3, <1>4, <1>5, <2>1, <2>2, <2>5, <2>7 DEF Pinned, Told
<1>9. route' # Root => route' \in given
  BY <1>3 DEF Shown, Sound
<1> QED
  BY <1>2, <1>3, <1>7, <1>8, <1>9, TurnShown

LEMMA StateShown ==
    ASSUME UiInv, Shown, Still, rail' = rail, StateLanded
    PROVE  Shown'
<1>0. "state" \in Kinds /\ "state" \in Patches
  BY DEF Kinds, Patches
<1>1. CASE /\ Landed("state", TRUE)
           /\ pane' = [pane EXCEPT !.info = Value]
           /\ foreign' = (foreign \/ On # route)
           /\ Start(<<>>, Tail(wire)) /\ UNCHANGED route
  <2>2. /\ Answered(TRUE) /\ Takes(TRUE) = Tail(wire) /\ TRUE \in BOOLEAN
        /\ Head(wire).kind = "state" /\ Head(wire).ok = TRUE /\ AnswerSure(Head(wire))
    BY <1>0, <1>1, LandedIs
  <2>3. <<>> \in Seq(Asks) /\ Turn(TRUE, <<>>) /\ route' = route
    BY <1>1, <2>2, WantsNone DEF Turn
  <2>4. UNCHANGED <<threads, bridge>> /\ There' = There
    BY TurnStays
  <2>5. pane'.info = Value /\ pane'.trail = pane.trail
    BY <1>1, PaneIs DEF Panes
  <2>6. Spares(TRUE, {"list"})
    BY <2>2 DEF Spares
  <2>7. Named(rail.list.rows)' /\ (link = "up" /\ ~unread => Listed')
    BY <2>2, <2>3, <2>6, StillRows
  <2>8. ASSUME link = "up", ~unread PROVE Pinned'
    <3>1. Pinned
      BY <2>8 DEF Shown, Current
    <3>2. \A kind, ons : Due(kind, ons) =>
             \/ Due(kind, ons)'
             \/ TRUE /\ Head(wire).ok /\ Head(wire).kind = kind /\ Head(wire).on \in ons
      BY <2>2, <2>3, <2>8, TurnDue
    <3>3. \A r : r = {route} => (Due("trail", r) => Due("trail", r)')
      BY <2>2, <3>2
    <3>4. Due("trail", {route}) => Due("trail", {route})'
      BY <2>3, <3>3
    <3>5. ASSUME ~foreign', route' \in There'
          PROVE  ~foreign /\ (Value = threads[route] \/ Told(wire, route)')
      <4>1. On = route /\ ~foreign /\ route \in There
        BY <1>1, <2>3, <2>4, <3>5, PaneIs
      <4>2. Of = On
        BY <2>2 DEF AnswerSure, Of, On
      <4>3. PICK t \in There : t = route
        BY <4>1
      <4>4. Value = threads[t] \/ Told(wire, t)'
        BY <1>0, <1>1, <2>3, <2>8, <4>1, <4>2, <4>3, WordIs
      <4> QED
        BY <2>3, <4>1, <4>3, <4>4
    <3> QED
      BY <2>3, <2>4, <2>5, <3>1, <3>4, <3>5 DEF Pinned
  <2>9. route' # Root => route' \in given
    BY <2>3 DEF Shown, Sound
  <2> QED
    BY <2>2, <2>3, <2>7, <2>8, <2>9, TurnShown
<1>2. CASE Landed("state", FALSE) /\ Here(pane, editor, <<>>, Tail(wire))
  BY <1>0, <1>2, WantsNone, LandedQuiet
<1> QED
  BY <1>1, <1>2 DEF StateLanded

\* What lands in the pane and is no read of its thread.
LEMMA PaneShown ==
    ASSUME UiInv, Shown, Still, rail' = rail,
           \/ ModelsLanded \/ ModelSet \/ PromptLanded \/ AbortLanded \/ QuickStart \/ CreateFailed
    PROVE  Shown'
<1> DEFINE Plainly == {"models", "model", "prompt", "abort", "create", "start", "born"}
<1>0. /\ pane \in Panes
      /\ Plainly \subseteq Kinds
  BY PaneIs DEF Kinds
<1>1. ASSUME NEW kind \in Plainly, NEW ok \in BOOLEAN, Landed(kind, ok),
             NEW cs \in Seq(Asks), Wants(cs), NEW p, NEW e, Here(p, e, cs, Tail(wire)),
             p.info = pane.info, p.trail = pane.trail
      PROVE  Shown'
  BY <1>0, <1>1, LandedQuiet
<1>2. CASE ModelsLanded
  <2>1. PICK ok \in BOOLEAN :
          /\ Landed("models", ok)
          /\ Here([pane EXCEPT !.models = IF ok THEN "Success" ELSE "Failure"], editor,
                  <<>>, Tail(wire))
    BY <1>2 DEF ModelsLanded
  <2> DEFINE p == [pane EXCEPT !.models = IF ok THEN "Success" ELSE "Failure"]
  <2>2. p.info = pane.info /\ p.trail = pane.trail
    BY <1>0 DEF Panes
  <2>3. Here(p, editor, <<>>, Tail(wire))
    BY <2>1
  <2> HIDE DEF p
  <2> QED
    BY <1>1, <2>1, <2>2, <2>3, WantsNone
<1>3. CASE ModelSet
  <2>1. PICK ok \in BOOLEAN :
          /\ Landed("model", ok)
          /\ Here([pane EXCEPT !.modelBusy = FALSE, !.models = IF ok THEN "Idle" ELSE @],
                  editor, <<>>, Tail(wire))
    BY <1>3 DEF ModelSet
  <2> DEFINE p == [pane EXCEPT !.modelBusy = FALSE, !.models = IF ok THEN "Idle" ELSE @]
  <2>2. p.info = pane.info /\ p.trail = pane.trail
    BY <1>0 DEF Panes
  <2>3. Here(p, editor, <<>>, Tail(wire))
    BY <2>1
  <2> HIDE DEF p
  <2> QED
    BY <1>1, <2>1, <2>2, <2>3, WantsNone
<1>4. CASE PromptLanded
  <2> DEFINE p == [pane EXCEPT !.composer = "", !.menu = "none"]
  <2>1. p.info = pane.info /\ p.trail = pane.trail
    BY <1>0 DEF Panes
  <2> HIDE DEF p
  <2>2. CASE Landed("prompt", TRUE) /\ Here(p, ClearEditor(editor, "thread"), <<>>, Tail(wire))
    <3> DEFINE e == ClearEditor(editor, "thread")
    <3>1. Here(p, e, <<>>, Tail(wire))
      BY <2>2
    <3> HIDE DEF e
    <3> QED
      BY <1>1, <2>1, <2>2, <3>1, WantsNone
  <2>3. CASE /\ Landed("prompt", FALSE)
             /\ Here(pane, IF pane.id = Root THEN editor
                           ELSE SetEditable(editor, "thread", ~Busy(pane.info)), <<>>, Tail(wire))
    <3> DEFINE e == IF pane.id = Root THEN editor
                    ELSE SetEditable(editor, "thread", ~Busy(pane.info))
    <3>1. Here(pane, e, <<>>, Tail(wire))
      BY <2>3
    <3> HIDE DEF e
    <3> QED
      BY <1>1, <2>3, <3>1, WantsNone
  <2> QED
    BY <1>4, <2>2, <2>3 DEF PromptLanded, p
<1>5. CASE AbortLanded
  BY <1>1, <1>5, WantsNone DEF AbortLanded
<1>6. CASE QuickStart
  <2>1. PICK kind \in {"create", "start"}, next \in {"start", "born"} :
           Landed(kind, TRUE) /\ Here(pane, editor, <<Call(next, Of)>>, Tail(wire))
    BY <1>6 DEF QuickStart
  <2>2. /\ kind \in Kinds /\ kind \in Threaded /\ kind \in Plainly
        /\ next \in Kinds /\ next # "create" /\ next \notin OfProject /\ next # "trail"
    BY <2>1 DEF Kinds, Threaded, OfProject
  <2>3. Of \in Threads /\ Of \in Places
    BY <2>1, <2>2, LandedType DEF Places, Pages
  <2>4. Call(next, Of) \in Asks
    BY <2>2, <2>3, CallType DEF Asks
  <2>5. <<Call(next, Of)>> \in Seq(Asks) /\ Wants(<<Call(next, Of)>>)
    BY <2>2, <2>4, WantsOne
  <2> QED
    BY <1>1, <2>1, <2>2, <2>5
<1>7. CASE CreateFailed
  <2> DEFINE p == [pane EXCEPT !.starting = FALSE]
             e == SetEditable(editor, "welcome", TRUE)
  <2>1. PICK kind \in {"create", "start", "born"} :
           Landed(kind, FALSE) /\ Here(p, e, <<>>, Tail(wire))
    BY <1>7 DEF CreateFailed
  <2>2. p.info = pane.info /\ p.trail = pane.trail
    BY <1>0 DEF Panes
  <2> HIDE DEF p, e
  <2> QED
    BY <1>1, <2>1, <2>2, WantsNone
<1> QED
  BY <1>2, <1>3, <1>4, <1>5, <1>6, <1>7

\* A born thread opens, and its rows are the registry's.
LEMMA CreatedShown ==
    ASSUME UiInv, Shown, Still, rail' = rail, ThreadCreated
    PROVE  Shown'
<1> DEFINE p == [pane EXCEPT !.composer = "", !.menu = "none", !.starting = FALSE]
           e == ClearEditor(editor, "welcome")
<1>0. "born" \in Kinds /\ "born" \in Threaded
  BY DEF Kinds, Threaded
<1>1. Landed("born", TRUE) /\ ApplyRoute(Of, p, e, <<>>, Tail(wire))
  BY DEF ThreadCreated
<1>2. /\ Answered(TRUE) /\ Takes(TRUE) = Tail(wire) /\ TRUE \in BOOLEAN
      /\ Head(wire).kind = "born" /\ Head(wire).ok = TRUE /\ AnswerSure(Head(wire))
  BY <1>0, <1>1, LandedIs
<1>3. Of \in given /\ Of \in Pages
  BY <1>0, <1>2 DEF AnswerSure, Of, UiInv, UiTypeOK, ServerType, Pages
<1>4. PICK to \in Pages : to = Of /\ to \in given
  BY <1>3
<1> HIDE DEF p, e
<1>5. ApplyRoute(to, p, e, <<>>, Takes(TRUE))
  BY <1>1, <1>2, <1>4
<1>6. /\ route' = to
      /\ \E cs \in Seq(Asks) : /\ Turn(TRUE, cs)
                               /\ link = "up" => ToSet(Reads(route')) \subseteq ToSet(cs)
  BY <1>2, <1>4, <1>5, RouteIs
<1>7. PICK cs \in Seq(Asks) : /\ Turn(TRUE, cs)
                              /\ link = "up" => ToSet(Reads(route')) \subseteq ToSet(cs)
  BY <1>6
<1>8. Spares(TRUE, {"list"})
  BY <1>2 DEF Spares
<1>9. Named(rail.list.rows)' /\ (link = "up" /\ ~unread => Listed')
  BY <1>2, <1>7, <1>8, StillRows
<1> QED
  BY <1>4, <1>6, <1>7, <1>9, RouteLanded

LEMMA PaneLandsShown ==
    ASSUME UiInv, Shown, PaneLands
    PROVE  Shown'
<1>1. Still /\ rail' = rail
  BY DEF PaneLands, Still
<1> QED
  BY <1>1, TrailShown, StateShown, PaneShown, CreatedShown DEF PaneLands

\* An event is the last word of its thread, or one follows it.
LEMMA ThreadChangedShown ==
    ASSUME UiInv, Shown, ThreadChanged
    PROVE  Shown'
<1> DEFINE h == Head(bridge)
<1>1. /\ bridge # <<>> /\ h.frame = "changed" /\ bridge' = Tail(bridge)
      /\ rail' = [rail EXCEPT !.list = UpsertThread(@, h.on, h.value)]
      /\ IF pane.id = h.on THEN pane' = [pane EXCEPT !.info = h.value] ELSE pane' = pane
      /\ UNCHANGED <<threads, given, conn, link, dialing, calls, wire, route, foreign, raced, unread>>
  BY DEF ThreadChanged, server, connection
<1>2. bridge \in Seq(Changes \cup Closes) /\ Len(bridge) \in Nat
  BY QueuesAre
<1>3. /\ bridge' \in Seq(Changes \cup Closes) /\ h \in Changes \cup Closes
      /\ h \in ToSet(bridge) /\ ToSet(bridge) = {h} \cup ToSet(bridge')
  BY <1>1, <1>2, ToSetTail
<1>4. h \in Changes /\ h \in Wires /\ h.on \in given /\ h.on \in Threads
  <2>1. h \in Changes
    BY <1>1, <1>3, QueuesAre
  <2>2. h \in Wires /\ h.on \in Threads
    BY <2>1 DEF Wires, Changes
  <2>3. h.on \in given
    BY <1>1, <1>3 DEF Shown, Sound
  <2> QED
    BY <2>1, <2>2, <2>3
<1>5. /\ Len(bridge) >= 1 /\ h = bridge[1] /\ Len(bridge') = Len(bridge) - 1
      /\ \A i \in 1 .. Len(bridge') : bridge'[i] = bridge[i + 1] /\ i + 1 \in 1 .. Len(bridge)
  BY <1>1, <1>2
<1> HIDE DEF h
<1>6. conn = "Online"
  BY <1>1 DEF Shown, Dialed
<1>7. There' = There /\ There \subseteq Threads
  BY <1>1 DEF There
<1>8. Dialed'
  <2>1. ASSUME NEW i \in 1 .. Len(bridge'), bridge'[i].frame = "close"
        PROVE  i = Len(bridge') /\ link = "down"
    <3>1. i + 1 \in 1 .. Len(bridge) /\ bridge[i + 1].frame = "close"
      BY <1>5, <2>1
    <3>2. i + 1 = Len(bridge) /\ link = "down"
      BY <3>1 DEF Shown, Dialed
    <3> QED
      BY <1>2, <1>5, <3>2
  <2>2. ASSUME link = "down" PROVE bridge' # <<>> /\ bridge'[Len(bridge')].frame = "close"
    <3>1. bridge[Len(bridge)].frame = "close"
      BY <1>6, <2>2 DEF Shown, Dialed
    <3>2. Len(bridge) # 1
      BY <1>1, <1>5, <3>1
    <3>3. /\ Len(bridge') \in 1 .. Len(bridge') /\ Len(bridge') + 1 = Len(bridge)
          /\ Len(bridge') # 0
      BY <1>2, <1>5, <3>2
    <3>4. bridge'[Len(bridge')].frame = "close"
      BY <1>5, <3>1, <3>3
    <3> QED
      BY <3>3, <3>4
  <2> QED
    BY <1>1, <1>6, <2>1, <2>2 DEF Shown, Dialed
<1>9. rail.list \in [tag : {"Idle", "Success", "Failure"}, rows : Tables] /\ rail \in Rails
  BY DEF UiInv, UiTypeOK, RailType, Rails
<1>10. PICK t \in Threads : t = h.on
  BY <1>4
<1>20. PICK info : info = h.value
  OBVIOUS
<1>11. rail'.list = UpsertThread(rail.list, t, info)
  BY <1>1, <1>9, <1>10, <1>20 DEF Rails
<1>12. /\ rail'.list.tag = rail.list.tag
       /\ \A u \in Threads : u # t => rail'.list.rows[u] = rail.list.rows[u]
       /\ rail'.list.rows[t] = info \/ rail'.list.rows[t] = rail.list.rows[t]
       /\ rail.list.tag = "Success" => rail'.list.rows[t] = info
  <2>1. CASE rail.list.tag = "Success"
    <3>1. rail'.list = [rail.list EXCEPT !.rows[t] = info]
      BY <1>11, <2>1 DEF UpsertThread
    <3> QED
      BY <1>9, <3>1 DEF Tables
  <2>2. CASE rail.list.tag # "Success"
    BY <1>11, <2>2 DEF UpsertThread
  <2> QED
    BY <2>1, <2>2
<1>13. Sound'
  <2>1. \A c \in ToSet(calls') : CallSure(c)'
    BY <1>1, <1>7 DEF Shown, Sound, CallSure, Named
  <2>2. \A f \in ToSet(wire') : FrameSure(f)'
    BY <1>1, <1>7 DEF Shown, Sound, FrameSure, AnswerSure, Named
  <2>3. Named(rail.list.rows)'
    BY <1>1, <1>4, <1>10, <1>12 DEF Shown, Sound, Named
  <2>4. \A f \in ToSet(bridge') : f.frame = "changed" => f.on \in given'
    BY <1>1, <1>3 DEF Shown, Sound
  <2> QED
    BY <1>1, <2>1, <2>2, <2>3, <2>4 DEF Shown, Sound
<1>14. ASSUME link = "up" PROVE (Truth /\ BridgeTruth /\ (~unread => Mended /\ Pinned /\ Listed))'
  <2>1. Truth /\ BridgeTruth /\ (~unread => Mended /\ Pinned /\ Listed)
    BY <1>14 DEF Shown, Current
  <2>2. Truth' /\ (Mended => Mended')
    BY <1>1, <1>7, <2>1 DEF Truth, Stale, Speaks, Mended, Asked, Lists
  <2>3. ASSUME NEW A, NEW B, Followed(bridge, A, B)
        PROVE  /\ Followed(bridge', A, B)
               /\ h \in A => \E x \in ToSet(bridge') : x \in B
    BY <1>1, <1>2, <2>3, FollowedTail DEF h
  <2>4. BridgeTruth'
    <3>1. \A u \in There :
             Told(wire, u) \/ Followed(bridge', Stale(u, threads[u], raced), Events(u))
      BY <2>1, <2>3 DEF BridgeTruth
    <3> QED
      BY <1>1, <1>7, <3>1 DEF BridgeTruth, Told, Stale, Speaks
  <2>5. \A u : u # t /\ Told(bridge, u) => Told(bridge', u)
    BY <1>3, <1>10 DEF Told, Event
  <2>6. t \in There => info = threads[t] \/ Told(wire, t) \/ Told(bridge', t)
    <3> SUFFICES ASSUME t \in There, info # threads[t], ~Told(wire, t) PROVE Told(bridge', t)
      OBVIOUS
    <3> DEFINE A == Stale(t, threads[t], raced)
               B == Events(t)
    <3>1. Followed(bridge, A, B)
      BY <2>1 DEF BridgeTruth
    <3>2. h \in A
      <4>2. h.frame = "changed" /\ h.on = t /\ h.value = info
        BY <1>1, <1>10, <1>20
      <4>3. Word(h, t) # threads[t]
        BY <4>2 DEF Word
      <4> QED
        BY <1>4, <4>2, <4>3 DEF Stale, Speaks, Event
    <3>3. \A x \in B : Event(x, t)
      BY DEF Events
    <3> HIDE DEF A, B
    <3> QED
      BY <2>3, <3>1, <3>2, <3>3 DEF Told
  <2>7. ASSUME NEW kind, NEW ons PROVE Due(kind, ons) => Due(kind, ons)'
    BY <1>1 DEF Due, Asked, Granted
  <2>8. Pinned => Pinned'
    <3>1. \A r : r = {route} => /\ Due("state", r) => Due("state", r)'
                                /\ Due("trail", r) => Due("trail", r)'
      BY <2>7
    <3>2. /\ Due("state", {route}) => Due("state", {route})'
          /\ Due("trail", {route}) => Due("trail", {route})'
      BY <1>1, <3>1
    <3>3. pane'.trail = pane.trail /\ pane'.info = IF route = t THEN info ELSE pane.info
      BY <1>1, <1>10, <1>20, PaneIs DEF Panes
    <3>4. \A u : Told(wire, u) => Told(wire', u)
      BY <1>1
    <3> QED
      BY <1>1, <1>7, <2>5, <2>6, <3>2, <3>3, <3>4 DEF Pinned
  <2>9. Listed => Listed'
    <3>1. Due("list", Places) => Due("list", Places)'
      BY <2>7
    <3>2. \A u : Told(wire, u) => Told(wire', u)
      BY <1>1
    <3>3. ASSUME Listed, NEW u \in There \ raced
          PROVE  \/ rail'.list.rows[u] = threads[u]
                 \/ Told(bridge', u) \/ Told(wire, u) \/ Due("list", Places)'
      <4>1. CASE u = t
        <5>1. CASE rail.list.tag = "Success"
          BY <1>12, <2>6, <4>1, <5>1
        <5>2. CASE rail.list.tag # "Success"
          BY <3>1, <3>3, <5>2 DEF Listed
        <5> QED
          BY <5>1, <5>2
      <4>2. CASE u # t
        BY <1>7, <1>12, <2>5, <3>1, <3>3, <4>2 DEF Listed
      <4> QED
        BY <4>1, <4>2
    <3> QED
      BY <1>1, <1>7, <1>12, <3>1, <3>2, <3>3 DEF Listed
  <2> QED
    BY <1>1, <2>1, <2>2, <2>4, <2>8, <2>9
<1>15. Current'
  BY <1>1, <1>14 DEF Current
<1> QED
  BY <1>8, <1>13, <1>15 DEF Shown

----------------------------------------------------------------------------
(* What the user does.                                                     *)

LEMMA OnRailQuiet ==
    ASSUME UiInv, Shown, Still, NEW r, r.list = rail.list,
           NEW cs \in Seq(Asks), Wants(cs), OnRail(r, cs)
    PROVE  Shown'
<1>1. FALSE \in BOOLEAN /\ Answered(FALSE) /\ Spares(FALSE, {"list", "state", "trail"})
  BY DEF Answered, Spares
<1>2. Here(pane, editor, cs, Takes(FALSE)) /\ rail'.list = rail.list
  BY DEF OnRail, Takes
<1> QED
  BY <1>1, <1>2, HereQuiet

LEMMA InPaneQuiet ==
    ASSUME UiInv, Shown, Still, NEW p, NEW e, p.info = pane.info, p.trail = pane.trail,
           NEW cs \in Seq(Asks), Wants(cs), InPane(p, e, cs)
    PROVE  Shown'
<1>1. FALSE \in BOOLEAN /\ Answered(FALSE) /\ Spares(FALSE, {"list", "state", "trail"})
  BY DEF Answered, Spares
<1>2. Here(p, e, cs, Takes(FALSE)) /\ rail'.list = rail.list
  BY DEF InPane, Takes
<1> QED
  BY <1>1, <1>2, HereQuiet

LEMMA WantsAsk ==
    ASSUME NEW kind \in Kinds \ {"trail"}, NEW on \in Places,
           kind \in OfThread => on \in Threads, kind \in OfProject => on \in Projects,
           kind = "create" => on = Root
    PROVE  <<Call(kind, on)>> \in Seq(Asks) /\ Wants(<<Call(kind, on)>>)
<1>1. Call(kind, on) \in Asks
  BY CallType DEF Asks
<1> QED
  BY <1>1, WantsOne

LEMMA OpenedShown ==
    ASSUME UiInv, Shown, OpenedThread
    PROVE  Shown'
<1>1. PICK to \in Rows \cup {Root, route} : ApplyRoute(to, pane, editor, <<>>, wire)
  BY DEF OpenedThread
<1>2. Still /\ rail' = rail
  BY DEF OpenedThread
<1>3. to \in Pages /\ (to # Root => to \in given)
  <2>1. Named(rail.list.rows) /\ (route # Root => route \in given)
    BY DEF Shown, Sound
  <2> QED
    BY <2>1, PaneIs DEF Rows, Pages, Named
<1>4. FALSE \in BOOLEAN /\ Answered(FALSE) /\ Spares(FALSE, {"list"}) /\ Takes(FALSE) = wire
  BY DEF Answered, Spares, Takes
<1>5. ApplyRoute(to, pane, editor, <<>>, Takes(FALSE))
  BY <1>1, <1>4
<1>6. /\ route' = to
      /\ \E cs \in Seq(Asks) : /\ Turn(FALSE, cs)
                               /\ link = "up" => ToSet(Reads(route')) \subseteq ToSet(cs)
  BY <1>2, <1>3, <1>4, <1>5, RouteIs
<1>7. PICK cs \in Seq(Asks) : /\ Turn(FALSE, cs)
                              /\ link = "up" => ToSet(Reads(route')) \subseteq ToSet(cs)
  BY <1>6
<1>8. Named(rail.list.rows)' /\ (link = "up" /\ ~unread => Listed')
  BY <1>2, <1>4, <1>7, StillRows
<1> QED
  BY <1>3, <1>4, <1>6, <1>7, <1>8, RouteLanded

LEMMA RenameShown ==
    ASSUME UiInv, Shown, ThreadRename
    PROVE  Shown'
<1>1. Still
  BY DEF ThreadRename
<1>2. ASSUME NEW t, NEW cs \in Seq(Asks), Wants(cs), OnRail([rail EXCEPT !.renaming = t], cs)
      PROVE  Shown'
  <2> DEFINE r == [rail EXCEPT !.renaming = t]
  <2>1. r.list = rail.list
    BY RailIs DEF Rails
  <2>2. OnRail(r, cs)
    BY <1>2
  <2> HIDE DEF r
  <2> QED
    BY <1>1, <1>2, <2>1, <2>2, OnRailQuiet
<1>3. <<>> \in Seq(Asks) /\ Wants(<<>>)
  BY WantsNone
<1>4. ASSUME rail.renaming # Root
      PROVE  /\ <<Call("rename", rail.renaming)>> \in Seq(Asks)
             /\ Wants(<<Call("rename", rail.renaming)>>)
  <2>1. rail.renaming \in Threads /\ rail.renaming \in Places
    BY <1>4, RailIs DEF Rails, Pages, Places
  <2>2. "rename" \in Kinds \ {"trail"} /\ "rename" \notin OfProject
    BY DEF Kinds, OfProject
  <2> QED
    BY <2>1, <2>2, WantsAsk
<1>5. CASE \E t \in Rows : OnRail([rail EXCEPT !.renaming = t], <<>>)
  BY <1>2, <1>3, <1>5
<1>6. CASE /\ rail.renaming # Root
           /\ \/ OnRail([rail EXCEPT !.renaming = Root], <<Call("rename", rail.renaming)>>)
              \/ OnRail([rail EXCEPT !.renaming = Root], <<>>)
  BY <1>2, <1>3, <1>4, <1>6
<1> QED
  BY <1>5, <1>6 DEF ThreadRename

LEMMA RowGestureShown ==
    ASSUME UiInv, Shown, NEW kind \in {"archive", "unarchive", "delete"}, RowGesture(kind)
    PROVE  Shown'
<1>1. Still
  BY DEF RowGesture
<1>2. PICK t \in Rows : OnRail(rail, <<Call(kind, t)>>)
  BY DEF RowGesture
<1>3. t \in Threads /\ t \in Places
  BY DEF Rows, Places, Pages
<1>4. kind \in Kinds \ {"trail"} /\ kind \notin OfProject /\ kind # "create"
  BY DEF Kinds, OfProject
<1>5. <<Call(kind, t)>> \in Seq(Asks) /\ Wants(<<Call(kind, t)>>)
  BY <1>3, <1>4, WantsAsk
<1> QED
  BY <1>1, <1>2, <1>5, OnRailQuiet

LEMMA RefreshShown ==
    ASSUME UiInv, Shown, RefreshRequested
    PROVE  Shown'
<1> DEFINE lists == <<Call("list", Root), Call("projects", Root)>>
<1>1. Still /\ OnRail(rail, lists \o ReloadExpanded)
  BY DEF RefreshRequested
<1>2. lists \in Seq(Asks) /\ Wants(lists)
  BY WantsLists
<1>3. ReloadExpanded \in Seq(Asks) /\ Wants(ReloadExpanded)
  BY WantsReload
<1> HIDE DEF lists
<1>4. lists \o ReloadExpanded \in Seq(Asks) /\ Wants(lists \o ReloadExpanded)
  BY <1>2, <1>3, WantsBoth
<1> QED
  BY <1>1, <1>4, OnRailQuiet

\* What the rail's gestures ask of a project.
LEMMA WantsProject ==
    ASSUME NEW kind \in {"adopt", "sessions", "add", "remove"}, NEW p \in Projects
    PROVE  <<Call(kind, p)>> \in Seq(Asks) /\ Wants(<<Call(kind, p)>>)
<1>1. /\ kind \in Kinds \ {"trail"} /\ kind \notin OfThread /\ kind # "create"
      /\ p \in Places
  BY DEF Kinds, OfThread, Places
<1> QED
  BY <1>1, WantsAsk

LEMMA ProjectGestureShown ==
    ASSUME UiInv, Shown,
           PiSessionClicked \/ ProjectToggled \/ AddProject \/ RemoveProject
    PROVE  Shown'
<1>1. Still
  BY DEF PiSessionClicked, ProjectToggled, AddProject, RemoveProject
<1>2. ProjectRows \subseteq Projects /\ PiSessionRows \subseteq Projects /\ rail \in Rails
  BY RailIs DEF ProjectRows, PiSessionRows, Rails
<1>3. <<>> \in Seq(Asks) /\ Wants(<<>>)
  BY WantsNone
<1>4. <<Call("browse", Root)>> \in Seq(Asks) /\ Wants(<<Call("browse", Root)>>)
  <2>1. "browse" \in Kinds \ {"trail"} /\ Root \in Places
    BY DEF Kinds, Places, Pages
  <2>2. "browse" \notin OfThread /\ "browse" \notin OfProject
    BY DEF OfThread, OfProject
  <2> QED
    BY <2>1, <2>2, WantsAsk
<1>5. CASE PiSessionClicked
  <2>1. PICK p \in PiSessionRows : OnRail([rail EXCEPT !.adopting = p], <<Call("adopt", p)>>)
    BY <1>5 DEF PiSessionClicked
  <2> DEFINE r == [rail EXCEPT !.adopting = p]
  <2>2. r.list = rail.list /\ OnRail(r, <<Call("adopt", p)>>) /\ p \in Projects
    BY <1>2, <2>1 DEF Rails
  <2> HIDE DEF r
  <2> QED
    BY <1>1, <2>2, WantsProject, OnRailQuiet
<1>6. CASE ProjectToggled
  <2>1. PICK p \in ProjectRows :
          IF p \in rail.expanded THEN OnRail([rail EXCEPT !.expanded = @ \ {p}], <<>>)
          ELSE OnRail([rail EXCEPT !.expanded = @ \cup {p}],
                      IF rail.sessions[p] = "none" THEN <<Call("sessions", p)>> ELSE <<>>)
    BY <1>6 DEF ProjectToggled
  <2>2. ASSUME NEW E, NEW cs \in Seq(Asks), Wants(cs), OnRail([rail EXCEPT !.expanded = E], cs)
        PROVE  Shown'
    <3> DEFINE r == [rail EXCEPT !.expanded = E]
    <3>1. r.list = rail.list /\ OnRail(r, cs)
      BY <1>2, <2>2 DEF Rails
    <3> HIDE DEF r
    <3> QED
      BY <1>1, <2>2, <3>1, OnRailQuiet
  <2> DEFINE more == IF rail.sessions[p] = "none" THEN <<Call("sessions", p)>> ELSE <<>>
  <2>3. more \in Seq(Asks) /\ Wants(more)
    <3>1. <<Call("sessions", p)>> \in Seq(Asks) /\ Wants(<<Call("sessions", p)>>)
      BY <1>2, WantsProject
    <3> QED
      BY <1>3, <3>1
  <2>4. CASE p \in rail.expanded
    BY <1>3, <2>1, <2>2, <2>4
  <2>5. CASE p \notin rail.expanded
    <3>1. OnRail([rail EXCEPT !.expanded = @ \cup {p}], more)
      BY <2>1, <2>5
    <3> HIDE DEF more
    <3> QED
      BY <2>2, <2>3, <3>1
  <2> QED
    BY <2>4, <2>5
<1>7. CASE AddProjectRequested
  <2> DEFINE r == [rail EXCEPT !.dialog = TRUE]
  <2>1. OnRail(r, <<Call("browse", Root)>>) /\ r.list = rail.list
    BY <1>2, <1>7 DEF AddProjectRequested, Rails
  <2> HIDE DEF r
  <2> QED
    BY <1>1, <1>4, <2>1, OnRailQuiet
<1>8. CASE PickerDirChosen
  BY <1>1, <1>4, <1>8, OnRailQuiet DEF PickerDirChosen
<1>9. CASE PickerAddRequested
  <2>1. PICK p \in Projects : OnRail(rail, <<Call("add", p)>>)
    BY <1>9 DEF PickerAddRequested
  <2> QED
    BY <1>1, <2>1, WantsProject, OnRailQuiet
<1>10. CASE PickerClosed
  <2> DEFINE r == [rail EXCEPT !.dialog = FALSE, !.picker = "Idle"]
  <2>1. OnRail(r, <<>>) /\ r.list = rail.list
    BY <1>2, <1>10 DEF PickerClosed, Rails
  <2> HIDE DEF r
  <2> QED
    BY <1>1, <1>3, <2>1, OnRailQuiet
<1>11. CASE RemoveProject
  <2>1. PICK p \in ProjectRows : OnRail(rail, <<Call("remove", p)>>)
    BY <1>11 DEF RemoveProject
  <2>2. p \in Projects
    BY <1>2
  <2> QED
    BY <1>1, <2>1, <2>2, WantsProject, OnRailQuiet
<1> QED
  BY <1>5, <1>6, <1>7, <1>8, <1>9, <1>10, <1>11 DEF AddProject

\* The pane's gestures touch neither what it says of its thread nor its trail.
LEMMA PaneGestureShown ==
    ASSUME UiInv, Shown,
           \/ ComposerChanged \/ SendRequested \/ AbortRequested \/ ModelPicker \/ Palette
    PROVE  Shown'
<1>1. Still /\ pane \in Panes
  BY PaneIs DEF ComposerChanged, SendRequested, AbortRequested, ModelPicker, Palette
<1>2. <<>> \in Seq(Asks) /\ Wants(<<>>)
  BY WantsNone
<1>3. ASSUME pane.id # Root, NEW kind \in {"prompt", "abort", "models", "model"}
      PROVE  <<Call(kind, pane.id)>> \in Seq(Asks) /\ Wants(<<Call(kind, pane.id)>>)
  <2>1. pane.id \in Threads /\ pane.id \in Places
    BY <1>3, PaneIs DEF Pages, Places
  <2>2. kind \in Kinds \ {"trail"} /\ kind \notin OfProject /\ kind # "create"
    BY DEF Kinds, OfProject
  <2> QED
    BY <2>1, <2>2, WantsAsk
<1>4. CASE ComposerChanged
  <2>1. PICK w \in Words \cup {""} :
          InPane([pane EXCEPT !.composer = w], [editor EXCEPT !.text = w], <<>>)
    BY <1>4 DEF ComposerChanged
  <2> DEFINE p == [pane EXCEPT !.composer = w]
             e == [editor EXCEPT !.text = w]
  <2>2. p.info = pane.info /\ p.trail = pane.trail /\ InPane(p, e, <<>>)
    BY <1>1, <2>1 DEF Panes
  <2> HIDE DEF p, e
  <2> QED
    BY <1>1, <1>2, <2>2, InPaneQuiet
<1>5. CASE SendRequested
  <2>1. CASE /\ pane.id = Root /\ ~pane.starting
             /\ InPane([pane EXCEPT !.starting = TRUE, !.menu = "none"],
                       SetEditable(editor, "welcome", FALSE), <<Call("create", Root)>>)
    <3> DEFINE p == [pane EXCEPT !.starting = TRUE, !.menu = "none"]
               e == SetEditable(editor, "welcome", FALSE)
    <3>1. p.info = pane.info /\ p.trail = pane.trail /\ InPane(p, e, <<Call("create", Root)>>)
      BY <1>1, <2>1 DEF Panes
    <3>2. <<Call("create", Root)>> \in Seq(Asks) /\ Wants(<<Call("create", Root)>>)
      <4>1. /\ "create" \in Kinds \ {"trail"} /\ Root \in Places
            /\ "create" \notin OfThread /\ "create" \notin OfProject
        BY DEF Kinds, OfThread, OfProject, Places, Pages
      <4> QED
        BY <4>1, WantsAsk
    <3> HIDE DEF p, e
    <3> QED
      BY <1>1, <3>1, <3>2, InPaneQuiet
  <2>2. CASE pane.id # Root /\ InPane(pane, editor, <<Call("prompt", pane.id)>>)
    BY <1>1, <1>3, <2>2, InPaneQuiet
  <2> QED
    BY <1>5, <2>1, <2>2 DEF SendRequested
<1>6. CASE AbortRequested
  BY <1>1, <1>3, <1>6, InPaneQuiet DEF AbortRequested
<1>7. CASE ModelPickerRequested
  <2> DEFINE p == [pane EXCEPT !.models = "Loading", !.menu = "none"]
  <2>1. /\ p.info = pane.info /\ p.trail = pane.trail /\ pane.id # Root
        /\ InPane(p, editor, <<Call("models", pane.id)>>)
    BY <1>1, <1>7 DEF ModelPickerRequested, Panes
  <2> HIDE DEF p
  <2> QED
    BY <1>1, <1>3, <2>1, InPaneQuiet
<1>8. CASE ModelPicked
  <2> DEFINE p == [pane EXCEPT !.modelBusy = TRUE]
  <2>1. /\ p.info = pane.info /\ p.trail = pane.trail /\ pane.id # Root
        /\ InPane(p, editor, <<Call("model", pane.id)>>)
    BY <1>1, <1>8 DEF ModelPicked, Panes
  <2> HIDE DEF p
  <2> QED
    BY <1>1, <1>3, <2>1, InPaneQuiet
<1>9. CASE ModelPickerClosed
  <2> DEFINE p == [pane EXCEPT !.models = "Idle"]
  <2>1. p.info = pane.info /\ p.trail = pane.trail /\ InPane(p, editor, <<>>)
    BY <1>1, <1>9 DEF ModelPickerClosed, Panes
  <2> HIDE DEF p
  <2> QED
    BY <1>1, <1>2, <2>1, InPaneQuiet
<1>10. ASSUME NEW menu, InPane([pane EXCEPT !.menu = menu], editor, <<>>) PROVE Shown'
  <2> DEFINE p == [pane EXCEPT !.menu = menu]
  <2>1. p.info = pane.info /\ p.trail = pane.trail /\ InPane(p, editor, <<>>)
    BY <1>1, <1>10 DEF Panes
  <2> HIDE DEF p
  <2> QED
    BY <1>1, <1>2, <2>1, InPaneQuiet
<1>11. CASE ComposerTriggerChanged \/ ComposerMenuClosed
  BY <1>10, <1>11 DEF ComposerTriggerChanged, ComposerMenuClosed
<1>12. CASE ApplySuggestion
  <2> DEFINE closed == [pane EXCEPT !.menu = "none"]
             blank == [closed EXCEPT !.composer = ""]
             loading == [closed EXCEPT !.models = "Loading"]
             e == ClearEditor(editor, Kind(pane.id))
  <2>1. /\ closed.info = pane.info /\ closed.trail = pane.trail
        /\ blank.info = pane.info /\ blank.trail = pane.trail
        /\ loading.info = pane.info /\ loading.trail = pane.trail
    BY <1>1 DEF Panes
  <2>2. \/ InPane(blank, e, <<>>)
        \/ /\ pane.id # Root
           /\ \/ InPane(loading, editor, <<Call("models", pane.id)>>)
              \/ InPane(closed, editor, <<Call("abort", pane.id)>>)
    BY <1>12 DEF ApplySuggestion
  <2> HIDE DEF closed, blank, loading, e
  <2>3. CASE InPane(blank, e, <<>>)
    BY <1>1, <1>2, <2>1, <2>3, InPaneQuiet
  <2>4. CASE pane.id # Root /\ InPane(loading, editor, <<Call("models", pane.id)>>)
    BY <1>1, <1>3, <2>1, <2>4, InPaneQuiet
  <2>5. CASE pane.id # Root /\ InPane(closed, editor, <<Call("abort", pane.id)>>)
    BY <1>1, <1>3, <2>1, <2>5, InPaneQuiet
  <2> QED
    BY <2>2, <2>3, <2>4, <2>5
<1> QED
  BY <1>4, <1>5, <1>6, <1>7, <1>8, <1>9, <1>11, <1>12 DEF ModelPicker, Palette

LEMMA GestureShown ==
    ASSUME UiInv, Shown, Gesture
    PROVE  Shown'
BY OpenedShown, RenameShown, RowGestureShown, RefreshShown, ProjectGestureShown,
   PaneGestureShown DEF Gesture

----------------------------------------------------------------------------
(* What is shown, from the first page on.                                  *)

LEMMA ShownInit ==
    ASSUME UiInit, UiInv
    PROVE  Shown
<1>1. PICK s \in Scenes : Opening(s) /\ IF s.booted THEN Booted ELSE Boot
  BY DEF UiInit
<1>2. /\ threads = [t \in Threads |-> IF t \in s.threads THEN Unnamed ELSE NoInfo]
      /\ given = s.threads /\ route = s.route
      /\ calls = <<>> /\ wire = <<>> /\ bridge = <<>>
      /\ raced = {} /\ unread = FALSE /\ foreign = FALSE
  BY <1>1 DEF UiInit, Opening
<1>3. s.threads \subseteq Threads /\ s.route \in s.threads \cup {Root} /\ Root \notin Threads
  BY <1>1, ConsoleAssumption
<1>4. /\ ToSet(calls) = {} /\ ToSet(wire) = {} /\ ToSet(bridge) = {}
      /\ Len(<<>>) = 0 /\ 1 .. 0 = {}
  BY <1>2, ToSetNone
<1>5. Unnamed # NoInfo
  BY NoInfoType
<1>6. \/ /\ conn = "Online" /\ link = "up" /\ dialing = FALSE
         /\ rail.list = [tag |-> "Success", rows |-> threads]
         /\ route # Root => pane.info = Unnamed /\ pane.trail = "Success"
      \/ /\ conn = "Connecting" /\ link = "down" /\ dialing = TRUE
         /\ rail.list.rows = NoRows
  <2>1. CASE s.booted
    <3>1. conn = "Online" /\ link = "up" /\ dialing = FALSE
      BY <1>1, <2>1 DEF Booted
    <3>2. rail.list = [tag |-> "Success", rows |-> threads]
      BY <1>1, <2>1 DEF Booted, FreshRail
    <3>3. ASSUME route # Root PROVE pane.info = Unnamed /\ pane.trail = "Success"
      BY <1>1, <2>1, <3>3 DEF Booted, FreshPane
    <3> QED
      BY <3>1, <3>2, <3>3
  <2>2. CASE ~s.booted
    BY <1>1, <2>2 DEF Boot, FreshRail
  <2> QED
    BY <2>1, <2>2
<1>7. Dialed
  BY <1>2, <1>4, <1>6 DEF Dialed
<1>8. Sound
  <2>1. Named(rail.list.rows)
    BY <1>2, <1>5, <1>6 DEF Named, NoRows
  <2> QED
    BY <1>2, <1>3, <1>4, <2>1 DEF Sound
<1>9. ASSUME link = "up" PROVE Truth /\ BridgeTruth /\ Mended /\ Pinned /\ Listed
  <2>1. /\ rail.list = [tag |-> "Success", rows |-> threads]
        /\ route # Root => pane.info = Unnamed /\ pane.trail = "Success"
    BY <1>6, <1>9
  <2>2. \A A, B : Followed(wire, A, B) /\ Followed(bridge, A, B)
    BY <1>2, <1>4 DEF Followed
  <2>3. Truth /\ BridgeTruth /\ Mended
    BY <2>2 DEF Truth, BridgeTruth, Mended
  <2>4. route \in There => route # Root /\ threads[route] = Unnamed
    BY <1>2, <1>3, <1>5 DEF There
  <2>5. Pinned
    BY <2>1, <2>4 DEF Pinned
  <2>6. Listed
    BY <2>1 DEF Listed
  <2> QED
    BY <2>3, <2>5, <2>6
<1>10. Current
  BY <1>9 DEF Current
<1> QED
  BY <1>7, <1>8, <1>10 DEF Shown

LEMMA ShownNext ==
    ASSUME UiInv, Shown, [UiNext]_uiVars
    PROVE  Shown'
<1>1. DOMAIN calls = 1 .. Len(calls) /\ Prompts \subseteq 1 .. Len(calls)
  BY DEF UiInv, UiTypeOK, QueueType, Prompts
<1>2. CASE \E i \in Prompts : i = Min(Prompts) /\ (ServeRead(i) \/ TimeOut(i))
  BY <1>1, <1>2, ReadsShown, TimeOutShown
<1>3. CASE Server
  <2>1. CASE \E i \in DOMAIN calls :
               \/ ServePatch(i) \/ ServeDelete(i) \/ ServeBirth(i) \/ Read(i) \/ ServeList(i)
               \/ ServeProject(i) \/ ServeRead(i) \/ TimeOut(i) \/ LoseCall(i)
    <3>1. PICK i \in 1 .. Len(calls) :
             \/ ServePatch(i) \/ ServeDelete(i) \/ ServeBirth(i) \/ Read(i) \/ ServeList(i)
             \/ ServeProject(i) \/ ServeRead(i) \/ TimeOut(i) \/ LoseCall(i)
      BY <1>1, <2>1
    <3> QED
      BY <3>1, PatchShown, DeleteShown, BirthShown, ReadShown, ListShown, ProjectShown,
         ReadsShown, TimeOutShown, LoseShown
  <2>2. CASE \E t \in Threads : Elsewhere(t)
    BY <2>2, ElsewhereShown
  <2> QED
    BY <1>3, <2>1, <2>2 DEF Server
<1>4. CASE Connect \/ ConnectFailed \/ Retry \/ Disconnect \/ Offer \/ ConnectionClosed
  BY <1>4, ConnectShown, DialShown, DisconnectShown, OfferShown, ClosedShown
<1>5. CASE ThreadChanged \/ RailLands \/ PaneLands \/ Gesture
  BY <1>5, ThreadChangedShown, RailLandsShown, PaneLandsShown, GestureShown
<1>6. CASE UNCHANGED uiVars
  <2>1. UNCHANGED <<threads, given, conn, link, dialing, calls, wire, bridge, route, pane,
                    foreign, rail, raced, unread>>
    BY <1>6 DEF uiVars, server, connection, page
  <2>2. There' = There
    BY <2>1 DEF There
  <2>3. Dialed'
    BY <2>1 DEF Shown, Dialed
  <2>4. Sound'
    BY <2>1, <2>2 DEF Shown, Sound, CallSure, FrameSure, AnswerSure, Named
  <2>5. Truth' = Truth /\ BridgeTruth' = BridgeTruth /\ Mended' = Mended
    BY <2>1, <2>2 DEF Truth, BridgeTruth, Mended, Stale, Speaks, Told, Asked, Lists
  <2>6. Pinned' = Pinned /\ Listed' = Listed
    BY <2>1, <2>2 DEF Pinned, Listed, Told, Due, Asked, Granted
  <2>7. Current'
    BY <2>1, <2>5, <2>6 DEF Shown, Current
  <2> QED
    BY <2>3, <2>4, <2>7 DEF Shown
<1> QED
  BY <1>2, <1>3, <1>4, <1>5, <1>6 DEF UiNext

LEMMA ShownSafe == UiSpec => [](UiInv /\ Shown)
<1>1. UiInit => UiInv /\ Shown
  BY UiInitInv, ShownInit
<1>2. UiInv /\ Shown /\ [UiNext]_uiVars => UiInv' /\ Shown'
  BY UiNextInv, ShownNext
<1> QED
  BY <1>1, <1>2, PTL DEF UiSpec

\* At rest nothing is on its way, so what is shown is the registry's word.
LEMMA RestIs ==
    ASSUME UiInv, Shown, AtRest, conn = "Online", ~unread
    PROVE  /\ Pinned /\ Listed
           /\ \A t : ~Told(bridge, t) /\ ~Told(wire, t)
           /\ \A kind, ons : ~Due(kind, ons)
<1>1. calls = <<>> /\ wire = <<>> /\ bridge = <<>>
  BY DEF AtRest
<1>2. ToSet(calls) = {} /\ ToSet(wire) = {} /\ ToSet(bridge) = {}
  BY <1>1, ToSetNone
<1>3. link = "up"
  BY <1>1 DEF Shown, Dialed, UiInv, UiTypeOK, ConnType
<1> QED
  BY <1>2, <1>3 DEF Shown, Current, Told, Due, Asked, Granted

\* "The registry broadcast: keep the list current" (frontend rail/update.ts):
\* once nothing is on its way, the rail of a connected console shows every thread
\* as the registry has it, for any number of threads, projects, gestures, lost
\* connections and late answers; a thread that changed while a listing was being
\* answered is excepted.
THEOREM RowsFollow == UiSpec => []RowsAreCurrent
<1>1. UiInv /\ Shown => RowsAreCurrent
  BY RestIs DEF RowsAreCurrent, Listed
<1> QED
  BY <1>1, ShownSafe, PTL

\* "A thread opened mid-run must show its state and the stop control
\* immediately" (frontend thread/command.ts), and keeps showing it: at rest the
\* header of the open thread is the registry's word and its trail is loaded, if
\* no read was refused and no answer of another page landed here.
THEOREM PinnedFollows == UiSpec => []PinnedIsCurrent
<1>1. UiInv /\ Shown => PinnedIsCurrent
  BY RestIs DEF PinnedIsCurrent, Pinned
<1> QED
  BY <1>1, ShownSafe, PTL
=============================================================================
