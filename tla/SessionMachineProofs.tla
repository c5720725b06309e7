------------------------ MODULE SessionMachineProofs ------------------------
(***************************************************************************)
(* Theorems of the two ends of a thread's events.  Of SessionMachine, which *)
(* sends them: for every set of callers, with and without an adopted trail, *)
(* and for mailboxes of any length.  Of Live, the console's view, which     *)
(* takes them: for every set of threads and every bound.                    *)
(***************************************************************************)
EXTENDS SessionMachine, Live, FiniteSetTheorems, SequenceTheorems, TLAPS

\* The state a suspended handler left behind is one it may be entered from, and
\* the registry already shows the state it goes on to.
Suspended ==
    /\ handling = "Working" => state \in Startable /\ pushed = "working"
    /\ handling \in {"Idle", "Crashed"} => state \in Busy /\ pushed = "idle"

\* What the consoles were told agrees with the phase of the fiber.
Told ==
    /\ events.unsettled = IF run \in {"none", "titling", "died"} THEN 0 ELSE 1
    /\ events.unclosed = IF run = "compacting" \/ compaction = "compacting" THEN 1 ELSE 0

\* A closed host has nothing left to do; what it was busy with is cut short.
Stopped ==
    host = "closed" => /\ mailbox = <<>> /\ handling = "none"
                       /\ run = "none" /\ compaction = "none"
                       /\ state \in Busy => events.cut

IInv == TypeOK /\ Suspended /\ Told /\ Stopped /\ OneFiber /\ PushedMatches

----------------------------------------------------------------------------
(* Lemmas about the mailbox.                                               *)

\* An event is appended behind those queued.
LEMMA SendQueues ==
    ASSUME mailbox \in Seq(Event), NEW op, NEW from,
           [op |-> op, from |-> from] \in Event, Send(op, from)
    PROVE  /\ mailbox' \in Seq(Event)
           /\ op \in Reports => Queued' = Queued \cup {Len(mailbox) + 1}
           /\ op \notin Reports => Queued' = Queued
           /\ \A i \in Queued : mailbox'[i] = mailbox[i]
           /\ mailbox'[Len(mailbox) + 1].op = op
<1> DEFINE e == [op |-> op, from |-> from]
<1>1. /\ mailbox' = Append(mailbox, e) /\ mailbox' \in Seq(Event)
      /\ Len(mailbox) \in Nat /\ Len(mailbox') = Len(mailbox) + 1
      /\ mailbox'[Len(mailbox) + 1] = e
      /\ \A i \in 1 .. Len(mailbox) : mailbox'[i] = mailbox[i]
  BY DEF Send
<1> HIDE DEF e
<1>2. e.op = op
  BY DEF e
<1> QED
  BY <1>1, <1>2 DEF Queued

\* A handler takes the first event and the others move up.
LEMMA TakeDequeues ==
    ASSUME mailbox \in Seq(Event), NEW op, Takes(op)
    PROVE  /\ mailbox' \in Seq(Event) /\ host # "closed" /\ handling = "none"
           /\ Head(mailbox) \in Event /\ Head(mailbox).op = op
           /\ \A i \in Queued' : i + 1 \in Queued /\ mailbox'[i] = mailbox[i + 1]
           /\ op \in Reports => 1 \in Queued /\ mailbox[1].op = op
           /\ op \notin Reports /\ Queued # {} => Queued' # {}
<1>1. /\ mailbox # <<>> /\ mailbox' = Tail(mailbox) /\ mailbox' \in Seq(Event)
      /\ host # "closed" /\ handling = "none"
      /\ Head(mailbox) = mailbox[1] /\ Head(mailbox) \in Event /\ mailbox[1].op = op
      /\ Len(mailbox) \in Nat /\ Len(mailbox) >= 1 /\ Len(mailbox') = Len(mailbox) - 1
      /\ \A i \in 1 .. Len(mailbox') : mailbox'[i] = mailbox[i + 1]
  BY DEF Takes
<1>2. \A i \in Queued' : i + 1 \in Queued /\ mailbox'[i] = mailbox[i + 1]
  BY <1>1 DEF Queued
<1>3. op \in Reports => 1 \in Queued
  BY <1>1 DEF Queued
<1>4. ASSUME op \notin Reports, NEW j \in Queued
      PROVE  j - 1 \in Queued'
  <2>1. j # 1 /\ j \in 1 .. Len(mailbox) /\ mailbox[j].op \in Reports
    BY <1>1, <1>4 DEF Queued
  <2>2. j - 1 \in 1 .. Len(mailbox') /\ mailbox'[j - 1] = mailbox[j]
    BY <1>1, <2>1
  <2> QED
    BY <2>1, <2>2 DEF Queued
<1> QED
  BY <1>1, <1>2, <1>3, <1>4

----------------------------------------------------------------------------
\* The updates of the history are histories.
LEMMA NoEventsType == NoEvents \in History
BY DEF History, NoEvents

LEMMA MarkType ==
    ASSUME NEW e \in History, NEW b \in BOOLEAN
    PROVE  [e EXCEPT !.abort = b] \in History /\ [e EXCEPT !.cut = b] \in History
BY DEF History

LEMMA CountType ==
    ASSUME NEW e \in History, NEW i \in Int
    PROVE  [e EXCEPT !.unsettled = i] \in History /\ [e EXCEPT !.unclosed = i] \in History
BY DEF History

LEMMA FailType ==
    ASSUME NEW e \in History, NEW i \in Int, NEW j \in Int
    PROVE  [e EXCEPT !.unsettled = i, !.unclosed = j] \in History
BY DEF History

LEMMA AcceptType ==
    ASSUME NEW e \in History, NEW i \in Int, NEW a \in BOOLEAN, NEW b \in BOOLEAN
    PROVE  [e EXCEPT !.unsettled = i, !.abort = a, !.cut = b] \in History
BY DEF History

LEMMA HistoryStep == events \in History /\ [Next]_vars => events' \in History
<1> SUFFICES ASSUME events \in History, [Next]_vars PROVE events' \in History
  OBVIOUS
<1> DEFINE n == events.unsettled  m == events.unclosed
<1>1. n \in Int /\ m \in Int /\ events.cut \in BOOLEAN
  BY DEF History
<1>2. n + 1 \in Int /\ n - 1 \in Int /\ m + 1 \in Int /\ m - 1 \in Int
  BY <1>1
<1>3. CASE EnterWorking
  BY <1>2, <1>3, AcceptType DEF EnterWorking
<1>4. CASE Abort
  BY <1>4, MarkType DEF Abort
<1>5. CASE AutoCompact \/ StartCompaction
  BY <1>2, <1>5, CountType DEF AutoCompact, StartCompaction
<1>6. CASE AutoCompacted \/ EndCompaction \/ Settle
  BY <1>2, <1>6, CountType DEF AutoCompacted, EndCompaction, Settle
<1>7. CASE RunFails
  <2>1. (IF run = "compacting" THEN m - 1 ELSE m) \in Int
    BY <1>1
  <2> QED
    BY <1>2, <1>7, <2>1, FailType DEF RunFails
<1>8. CASE Close
  <2>1. (state \in Busy \/ events.cut) \in BOOLEAN
    BY <1>1
  <2> QED
    BY <1>8, <2>1, NoEventsType, MarkType DEF Close
<1>9. CASE Restart
  BY <1>9, NoEventsType DEF Restart
<1>10. CASE UNCHANGED events
  BY <1>10
<1> QED
  BY <1>3, <1>4, <1>5, <1>6, <1>7, <1>8, <1>9, <1>10
     DEF Next, Handle, Fiber, vars, Ask, Branch, MoveLane, Rename, RefuseRun, StartRun, RefuseCompact,
         Compact, SetModel, TakeReport, Leave, PromptAgent, AgentEnds, NoAutoCompact, Title,
         TitleDies, CompactionNotStarted, Dispose, Drain, Rebuild

LEMMA Types == TypeOK /\ [Next]_vars => TypeOK'
<1> SUFFICES ASSUME TypeOK, [Next]_vars PROVE TypeOK'
  OBVIOUS
<1> USE DEF TypeOK, fibers
<1>0. events' \in History
  BY HistoryStep
<1>1. ASSUME NEW c \in Callers, NEW op \in Ops, Ask(c, op)
      PROVE  TypeOK'
  <2>1. [op |-> op, from |-> c] \in Event
    BY DEF Event
  <2>2. mailbox' \in Seq(Event)
    BY <1>1, <2>1, SendQueues DEF Ask
  <2> QED
    BY <1>1, <2>2 DEF Ask, Event
<1>2. ASSUME NEW c \in Callers, Branch(c) \/ MoveLane(c)
      PROVE  TypeOK'
  BY <1>2 DEF Branch, MoveLane
<1>3. CASE Handle
  <2>1. ASSUME NEW op, Takes(op) PROVE mailbox' \in Seq(Event)
    BY <2>1, TakeDequeues
  <2>2. CASE RefuseRun \/ StartRun \/ Abort \/ RefuseCompact \/ Compact \/ SetModel \/ TakeReport
    <3>1. mailbox' \in Seq(Event)
      BY <2>1, <2>2 DEF RefuseRun, StartRun, Abort, RefuseCompact, Compact, SetModel, TakeReport
    <3> QED
      BY <1>0, <2>2, <3>1 DEF RefuseRun, StartRun, Abort, RefuseCompact, Compact, SetModel,
         TakeReport,
                        Reply, Event, Startable, Busy
  <2>3. CASE EnterWorking
    BY <1>0, <2>3 DEF EnterWorking, Busy
  <2>4. CASE Leave
    BY <1>0, <2>4 DEF Leave, Startable
  <2> QED
    BY <1>3, <2>2, <2>3, <2>4 DEF Handle
<1>4. CASE Fiber
  <2>1. ASSUME NEW op \in Reports, Send(op, "fiber") PROVE mailbox' \in Seq(Event)
    <3>1. [op |-> op, from |-> "fiber"] \in Event
      BY DEF Event
    <3> QED
      BY <2>1, <3>1, SendQueues
  <2>2. CASE Settle \/ Title \/ RunFails \/ CompactionNotStarted \/ EndCompaction
    <3>1. mailbox' \in Seq(Event)
      BY <2>1, <2>2 DEF Settle, Title, RunFails, CompactionNotStarted, EndCompaction, Reports
    <3> QED
      BY <1>0, <2>2, <3>1 DEF Settle, Title, RunFails, CompactionNotStarted, EndCompaction,
         Event
  <2>3. CASE \/ PromptAgent \/ AgentEnds \/ AutoCompact \/ NoAutoCompact \/ AutoCompacted
             \/ TitleDies \/ StartCompaction
    BY <1>0, <2>3 DEF TitleDies, PromptAgent, AgentEnds, AutoCompact, NoAutoCompact, AutoCompacted,
       StartCompaction
  <2> QED
    BY <1>4, <2>2, <2>3 DEF Fiber
<1>5. CASE Rename \/ Dispose \/ Drain
  BY <1>5 DEF Rename, Dispose, Drain
<1>7. CASE Close
  BY <1>0, <1>7 DEF Close
<1>8. CASE Rebuild \/ Restart
  <2>1. <<>> \in Seq(Event) /\ Boot \in Startable
    BY DEF Boot, Startable
  <2>2. CASE Rebuild
    BY <1>0, <2>1, <2>2 DEF Rebuild
  <2>3. CASE Restart
    BY <1>0, <2>1, <2>3 DEF Restart
  <2> QED
    BY <1>8, <2>2, <2>3
<1>6. CASE UNCHANGED vars
  BY <1>6 DEF vars
<1> QED
  BY <1>1, <1>2, <1>3, <1>4, <1>5, <1>6, <1>7, <1>8 DEF Next

----------------------------------------------------------------------------
(* The inductive invariant.                                                *)

LEMMA InitInv == Init => IInv
<1> SUFFICES ASSUME Init PROVE IInv
  OBVIOUS
<1>1. TypeOK
  <2>1. mailbox \in Seq(Event) /\ Boot \in Startable /\ events \in History
    BY NoEventsType DEF Init, Boot, Startable
  <2> QED
    BY <2>1 DEF Init, TypeOK
<1>2. Queued = {}
  BY DEF Init, Queued
<1> QED
  BY <1>1, <1>2 DEF Init, IInv, Suspended, Told, Stopped, OneFiber, PushedMatches, NoEvents,
                    Boot, Busy

Rest == Suspended /\ Told /\ Stopped /\ OneFiber /\ PushedMatches

\* A caller's event, and a step that touches neither the actor nor its fibers.
LEMMA OutsideStep ==
    ASSUME IInv,
           \/ \E c \in Callers, op \in Ops : Ask(c, op)
           \/ \E c \in Callers : Branch(c) \/ MoveLane(c)
           \/ Rename \/ Dispose \/ Drain \/ Close \/ Rebuild \/ Restart
           \/ UNCHANGED vars
    PROVE  Rest'
<1> USE DEF Rest, IInv, TypeOK, Suspended, Told, Stopped, PushedMatches, fibers
<1>1. ASSUME NEW c \in Callers, NEW op \in Ops, Ask(c, op)
      PROVE  Rest'
  <2>1. [op |-> op, from |-> c] \in Event /\ op \notin Reports
    BY DEF Event, Ops, Reports
  <2>2. Queued' = Queued /\ \A i \in Queued : mailbox'[i] = mailbox[i]
    BY <1>1, <2>1, SendQueues DEF Ask
  <2>3. OneFiber'
    BY <1>1, <2>2 DEF Ask, OneFiber
  <2> QED
    BY <1>1, <2>3 DEF Ask
<1>2. ASSUME mailbox' = mailbox
      PROVE  Queued' = Queued
  BY <1>2 DEF Queued
<1>3. CASE \/ \E c \in Callers : Branch(c) \/ MoveLane(c)
           \/ Rename \/ Dispose \/ Drain \/ UNCHANGED vars
  <2>1. OneFiber'
    BY <1>2, <1>3 DEF OneFiber, Branch, MoveLane, Rename, Dispose, Drain, vars
  <2> QED
    BY <1>3, <2>1 DEF Branch, MoveLane, Rename, Dispose, Drain, vars
<1>4. CASE Close
  <2>1. Queued' = {}
    BY <1>4 DEF Close, Queued
  <2>2. OneFiber'
    BY <1>4, <2>1 DEF Close, OneFiber
  <2>3. /\ events'.unsettled = 0 /\ events'.unclosed = 0
        /\ events'.cut = (state \in Busy \/ events.cut)
    BY <1>4 DEF Close, NoEvents, History
  <2> QED
    BY <1>4, <2>2, <2>3 DEF Close, Busy
<1>5. CASE Rebuild \/ Restart
  <2>1. Queued' = {}
    BY <1>5 DEF Rebuild, Restart, Queued
  <2>2. OneFiber'
    BY <1>5, <2>1 DEF Rebuild, Restart, OneFiber, Boot, Busy
  <2>3. CASE Rebuild
    BY <2>2, <2>3 DEF Rebuild, Boot, Busy
  <2>4. CASE Restart
    BY <2>2, <2>4 DEF Restart, NoEvents, Boot
  <2> QED
    BY <1>5, <2>3, <2>4
<1> QED
  BY <1>1, <1>3, <1>4, <1>5

\* The actor's handlers.
LEMMA HandleStep ==
    ASSUME IInv, Handle
    PROVE  Rest'
<1> USE DEF Rest, IInv, TypeOK, Suspended, Told, Stopped, PushedMatches, fibers
<1>1. ASSUME NEW op \in Ops, Takes(op)
      PROVE  /\ host # "closed" /\ handling = "none"
             /\ \A i \in Queued' : i + 1 \in Queued /\ mailbox'[i] = mailbox[i + 1]
             /\ Queued # {} => Queued' # {}
  <2>1. op \notin Reports
    BY DEF Ops, Reports
  <2> QED
    BY <1>1, <2>1, TakeDequeues
<1>2. (\A i \in Queued : i \in Int) /\ (\A i \in Queued' : i \in Int)
  BY DEF Queued
<1>3. ASSUME mailbox' = mailbox
      PROVE  Queued' = Queued
  BY <1>3 DEF Queued
<1>4. CASE RefuseRun \/ RefuseCompact \/ SetModel \/ Abort
  <2>1. PICK op \in Ops : Takes(op)
    BY <1>4 DEF RefuseRun, RefuseCompact, SetModel, Abort, Ops
  <2>2. UNCHANGED <<host, state, handling, run, compaction, pushed>>
    BY <1>4 DEF RefuseRun, RefuseCompact, SetModel, Abort
  <2>3. /\ events'.unsettled = events.unsettled /\ events'.unclosed = events.unclosed
        /\ events'.cut = events.cut
    BY <1>4 DEF RefuseRun, RefuseCompact, SetModel, Abort, History
  <2>4. /\ \A i, j \in Queued' : i = j /\ state' = From(mailbox'[i].op) /\ handling' = "none"
        /\ Queued # {} => Queued' # {}
        /\ Queued = {} => Queued' = {}
    BY <1>1, <1>2, <2>1, <2>2 DEF OneFiber
  <2>5. OneFiber'
    BY <2>2, <2>4 DEF OneFiber
  <2> QED
    BY <1>1, <2>1, <2>2, <2>3, <2>5
<1>5. CASE StartRun
  <2>1. Takes("run") /\ "run" \in Ops
    BY <1>5 DEF StartRun, Ops
  <2>2. run = "none" /\ compaction = "none" /\ Queued = {}
    BY <1>5 DEF StartRun, OneFiber, Startable, Busy, From
  <2>3. Queued' = {}
    BY <1>1, <2>1, <2>2
  <2>4. OneFiber'
    BY <1>5, <2>2, <2>3 DEF StartRun, OneFiber, Startable, Busy
  <2> QED
    BY <1>1, <1>5, <2>1, <2>4 DEF StartRun
<1>6. CASE EnterWorking
  <2>1. run = "none" /\ compaction = "none" /\ Queued = {} /\ Queued' = {}
    BY <1>3, <1>6 DEF EnterWorking, OneFiber, Startable, Busy, From
  <2>2. OneFiber'
    BY <1>6, <2>1 DEF EnterWorking, OneFiber, Busy
  <2>3. /\ events'.unsettled = events.unsettled + 1 /\ events'.unclosed = events.unclosed
    BY <1>6 DEF EnterWorking, History
  <2> QED
    BY <1>6, <2>1, <2>2, <2>3 DEF EnterWorking
<1>7. CASE Compact
  <2>1. Takes("compact") /\ "compact" \in Ops
    BY <1>7 DEF Compact, Ops
  <2>2. run = "none" /\ compaction = "none" /\ Queued = {}
    BY <1>7 DEF Compact, OneFiber, Startable, Busy, From
  <2>3. Queued' = {}
    BY <1>1, <2>1, <2>2
  <2>4. OneFiber'
    BY <1>1, <1>7, <2>1, <2>2, <2>3 DEF Compact, OneFiber
  <2> QED
    BY <1>1, <1>7, <2>1, <2>2, <2>4 DEF Compact, Startable
<1>8. CASE TakeReport
  <2>1. PICK op \in Reports : /\ Takes(op) /\ state = From(op)
                              /\ pushed' = "idle" /\ handling' \in {"Idle", "Crashed"}
                              /\ UNCHANGED <<host, state, fibers, events>>
    BY <1>8 DEF TakeReport
  <2>2. /\ 1 \in Queued /\ host # "closed" /\ handling = "none"
        /\ \A i \in Queued' : i + 1 \in Queued
    BY <2>1, TakeDequeues
  <2>3. run = "none" /\ compaction = "none" /\ Queued' = {}
    <3>1. \A i \in Queued' : i = 0 /\ i \in 1 .. Len(mailbox')
      BY <1>2, <2>2 DEF OneFiber, Queued
    <3> QED
      BY <2>2, <3>1 DEF OneFiber
  <2>4. state \in Busy
    BY <2>1 DEF From, Busy
  <2>5. OneFiber'
    BY <2>1, <2>3 DEF OneFiber
  <2> QED
    BY <2>1, <2>2, <2>3, <2>4, <2>5
<1>9. CASE Leave
  <2>1. run = "none" /\ compaction = "none" /\ Queued = {} /\ Queued' = {}
    BY <1>3, <1>9 DEF Leave, OneFiber
  <2>2. OneFiber'
    BY <1>9, <2>1 DEF Leave, OneFiber, Busy
  <2> QED
    BY <1>9, <2>1, <2>2 DEF Leave
<1> QED
  BY <1>4, <1>5, <1>6, <1>7, <1>8, <1>9 DEF Handle

\* The fibers: each runs in its own state, alone, and its report is its last step.
LEMMA FiberStep ==
    ASSUME IInv, Fiber
    PROVE  Rest'
<1> USE DEF Rest, IInv, TypeOK, Suspended, Told, Stopped, PushedMatches, fibers
<1>1. /\ run # "none" => state = "Working" /\ compaction = "none"
      /\ compaction # "none" => state = "Compacting" /\ run = "none"
      /\ run # "none" \/ compaction # "none" => handling = "none" /\ Queued = {}
  BY DEF OneFiber
<1>2. events.unsettled \in Int /\ events.unclosed \in Int
  BY DEF History
<1>3. ASSUME mailbox' = mailbox
      PROVE  Queued' = Queued
  BY <1>3 DEF Queued
<1>4. ASSUME NEW op \in Reports, Send(op, "fiber"), Queued = {}, state' = From(op), handling' = "none",
             run' = "none", compaction' = "none"
      PROVE  OneFiber'
  <2>1. [op |-> op, from |-> "fiber"] \in Event
    BY DEF Event
  <2>2. Queued' = {Len(mailbox) + 1} /\ mailbox'[Len(mailbox) + 1].op = op
    BY <1>4, <2>1, SendQueues
  <2> QED
    BY <1>4, <2>2 DEF OneFiber
<1>5. CASE PromptAgent \/ AgentEnds \/ NoAutoCompact
  <2>1. run' # "none" /\ mailbox' = mailbox /\ UNCHANGED <<host, state, handling, compaction, pushed, events>>
    BY <1>5 DEF PromptAgent, AgentEnds, NoAutoCompact
  <2>2. OneFiber'
    BY <1>1, <1>3, <1>5, <2>1 DEF OneFiber, PromptAgent, AgentEnds, NoAutoCompact
  <2> QED
    BY <1>1, <1>5, <2>1, <2>2 DEF PromptAgent, AgentEnds, NoAutoCompact
<1>6. CASE AutoCompact \/ AutoCompacted
  <2>1. run' # "none" /\ mailbox' = mailbox /\ UNCHANGED <<host, state, handling, compaction, pushed>>
    BY <1>6 DEF AutoCompact, AutoCompacted
  <2>2. OneFiber'
    BY <1>1, <1>3, <1>6, <2>1 DEF OneFiber, AutoCompact, AutoCompacted
  <2>3. /\ events'.unsettled = events.unsettled /\ events'.cut = events.cut
        /\ AutoCompact => events'.unclosed = events.unclosed + 1
        /\ AutoCompacted => events'.unclosed = events.unclosed - 1
    BY <1>6 DEF AutoCompact, AutoCompacted, History
  <2> QED
    BY <1>1, <1>6, <2>1, <2>2, <2>3 DEF AutoCompact, AutoCompacted
<1>7. CASE Settle \/ Title \/ RunFails
  <2>1. run # "none" /\ UNCHANGED <<host, state, handling, compaction, pushed>>
    BY <1>7 DEF Settle, Title, RunFails
  <2>2. \/ run' = "none" /\ (Send("RunFinished", "fiber") \/ Send("RunFailed", "fiber"))
        \/ run' = "titling" /\ mailbox' = mailbox
    BY <1>7 DEF Settle, Title, RunFails
  <2>3. ASSUME run' = "none", Send("RunFinished", "fiber") \/ Send("RunFailed", "fiber")
        PROVE  OneFiber'
    <3>1. /\ "RunFinished" \in Reports /\ From("RunFinished") = "Working"
          /\ "RunFailed" \in Reports /\ From("RunFailed") = "Working"
      BY DEF Reports, From
    <3>2. Queued = {} /\ state' = "Working" /\ handling' = "none" /\ compaction' = "none"
      BY <1>1, <2>1
    <3> QED
      BY <1>4, <2>3, <3>1, <3>2
  <2>4. ASSUME run' = "titling", mailbox' = mailbox
        PROVE  OneFiber'
    BY <1>1, <1>3, <2>1, <2>4 DEF OneFiber
  <2>5. OneFiber'
    BY <2>2, <2>3, <2>4
  <2>6. /\ events'.cut = events.cut
        /\ Settle => events'.unsettled = events.unsettled - 1 /\ events'.unclosed = events.unclosed
        /\ Title => events' = events
    BY <1>7 DEF Settle, Title, RunFails, History
  <2>7. ASSUME RunFails
        PROVE  /\ events'.unsettled = events.unsettled - 1
               /\ events'.unclosed = IF run = "compacting" THEN events.unclosed - 1 ELSE events.unclosed
    BY <2>7 DEF RunFails, History
  <2> QED
    BY <1>1, <1>7, <2>1, <2>5, <2>6, <2>7 DEF Settle, Title, RunFails
<1>8. CASE StartCompaction
  <2>1. OneFiber'
    BY <1>1, <1>3, <1>8 DEF OneFiber, StartCompaction
  <2>2. events'.unsettled = events.unsettled /\ events'.cut = events.cut /\ events'.unclosed = events.unclosed + 1
    BY <1>8 DEF StartCompaction, History
  <2> QED
    BY <1>1, <1>8, <2>1, <2>2 DEF StartCompaction
<1>9. CASE CompactionNotStarted \/ EndCompaction
  <2>1. /\ compaction # "none" /\ compaction' = "none" /\ UNCHANGED <<host, state, handling, run, pushed>>
        /\ \E op \in Reports : Send(op, "fiber") /\ From(op) = "Compacting"
    BY <1>9 DEF CompactionNotStarted, EndCompaction, Reports, From
  <2>2. OneFiber'
    BY <1>1, <1>4, <2>1
  <2>3. /\ events'.unsettled = events.unsettled /\ events'.cut = events.cut
        /\ CompactionNotStarted => events' = events
        /\ EndCompaction => events'.unclosed = events.unclosed - 1
    BY <1>9 DEF CompactionNotStarted, EndCompaction, History
  <2> QED
    BY <1>1, <1>9, <2>1, <2>2, <2>3 DEF CompactionNotStarted, EndCompaction
<1>10. CASE TitleDies
  <2>1. /\ run = "titling" /\ run' = "died" /\ mailbox' = mailbox
        /\ UNCHANGED <<host, state, handling, compaction, pushed, events>>
    BY <1>10 DEF TitleDies
  <2>2. OneFiber'
    BY <1>1, <1>3, <2>1 DEF OneFiber
  <2> QED
    BY <1>1, <2>1, <2>2
<1> QED
  BY <1>5, <1>6, <1>7, <1>8, <1>9, <1>10 DEF Fiber

LEMMA StepInv == IInv /\ [Next]_vars => IInv'
<1> SUFFICES ASSUME IInv, [Next]_vars PROVE IInv'
  OBVIOUS
<1>1. TypeOK'
  BY Types DEF IInv
<1>2. Rest'
  BY OutsideStep, HandleStep, FiberStep DEF Next
<1> QED
  BY <1>1, <1>2 DEF Rest, IInv

LEMMA Invariance == Spec => []IInv
BY InitInv, StepInv, PTL DEF Spec

----------------------------------------------------------------------------
(* The theorems.                                                           *)

\* Every variable keeps its type (session-machine.ts:100-120 for the events).
THEOREM TypeCorrect == Spec => []TypeOK
BY Invariance, PTL DEF IInv

\* A busy machine has one fiber or its one report, and no other state has any:
\* no interleaving of commands, fibers, disposals and restarts starts a run
\* beside a compaction (session-machine.ts:496-711), and nothing but a title that
\* cannot be stored (session-machine.ts:390) leaves a busy machine with nothing
\* to end it; not even then is there a second fiber or a report.
THEOREM BusyMachineHasOneFiber == Spec => []OneFiber
BY Invariance, PTL DEF IInv

\* Between handlers the registry shows "working" exactly when the machine is
\* Working (session-machine.ts:445-466, 656-682).
THEOREM RegistryShowsTheState == Spec => []PushedMatches
BY Invariance, PTL DEF IInv

\* What consoles are told of a thread is a behaviour of RunEvents: an accepted
\* run settles once before the next, and compaction events pair outside of it
\* (session-machine.ts:261-329, 400-426).
THEOREM ImplementsRunEvents == Spec => ConsoleSpec
<1>1. Init => Console!Init
  BY DEF Init, NoEvents, Console!Init
<1>2. IInv /\ [Next]_vars => [Console!Next]_<<events.unsettled, events.unclosed>>
  <2> SUFFICES ASSUME IInv, [Next]_vars
               PROVE  Console!Next \/ UNCHANGED <<events.unsettled, events.unclosed>>
    OBVIOUS
  <2> USE DEF Console!Next
  <2>1. /\ run # "none" => compaction = "none"
        /\ handling = "Working" => run = "none" /\ compaction = "none"
        /\ events \in History /\ events.unsettled \in Int /\ events.unclosed \in Int
    BY DEF IInv, TypeOK, OneFiber, History
  <2>2. CASE EnterWorking
    <3>1. events'.unsettled = events.unsettled + 1 /\ events'.unclosed = events.unclosed
      BY <2>1, <2>2 DEF EnterWorking, History
    <3> QED
      BY <2>1, <2>2, <3>1 DEF EnterWorking, IInv, Told, Console!Accept
  <2>3. CASE Settle
    <3>1. events'.unsettled = events.unsettled - 1 /\ events'.unclosed = events.unclosed
      BY <2>1, <2>3 DEF Settle, History
    <3> QED
      BY <2>1, <2>3, <3>1 DEF Settle, IInv, Told, Console!Settle
  <2>4. CASE AutoCompact \/ StartCompaction
    <3>1. events'.unsettled = events.unsettled /\ events'.unclosed = events.unclosed + 1
      BY <2>1, <2>4 DEF AutoCompact, StartCompaction, History
    <3> QED
      BY <2>1, <2>4, <3>1 DEF AutoCompact, StartCompaction, IInv, Told, Console!CompactionStart
  <2>5. CASE AutoCompacted \/ EndCompaction
    <3>1. events'.unsettled = events.unsettled /\ events'.unclosed = events.unclosed - 1
      BY <2>1, <2>5 DEF AutoCompacted, EndCompaction, History
    <3> QED
      BY <2>1, <2>5, <3>1 DEF AutoCompacted, EndCompaction, IInv, Told, Console!CompactionEnd
  <2>6. CASE RunFails
    <3>1. /\ events'.unsettled = events.unsettled - 1
          /\ events'.unclosed = IF run = "compacting" THEN events.unclosed - 1 ELSE events.unclosed
      BY <2>1, <2>6 DEF RunFails, History
    <3> QED
      BY <2>1, <2>6, <3>1 DEF RunFails, IInv, Told, Console!Over
  <2>7. CASE Close \/ Restart
    <3>1. events'.unsettled = 0 /\ events'.unclosed = 0
      BY <2>7 DEF Close, Restart, NoEvents
    <3> QED
      BY <3>1 DEF Console!Over
  <2>8. CASE Abort
    BY <2>1, <2>8 DEF Abort, History
  <2>9. CASE UNCHANGED events
    BY <2>9
  <2> QED
    BY <2>2, <2>3, <2>4, <2>5, <2>6, <2>7, <2>8, <2>9
       DEF Next, Handle, Fiber, vars, Ask, Branch, MoveLane, Rename, RefuseRun, StartRun,
           RefuseCompact, Compact, SetModel, TakeReport, Leave, PromptAgent, AgentEnds,
           NoAutoCompact, Title, TitleDies, CompactionNotStarted, Dispose, Drain, Rebuild
<1> QED
  BY <1>1, <1>2, Invariance, PTL DEF Spec, ConsoleSpec, Console!Spec

----------------------------------------------------------------------------
(* The console's view of the open thread (Live), which takes the events a  *)
(* thread's machine sends, for every set of threads and every bound: first *)
(* sequences.                                                              *)

\* A set of naturals that is not empty has a least element.
LEMMA Least ==
    ASSUME NEW S, S \subseteq Nat, S # {}
    PROVE  \E x \in S : \A y \in S : x <= y
<1>1. PICK x \in S : \A y \in S : ~ (<<y, x>> \in OpToRel(<, Nat))
  BY NatLessThanWellFounded, WFMin, Zenon
<1>2. \A y \in S : ~ (y < x)
  BY <1>1 DEF OpToRel
<1>3. \A y \in S : x <= y
  BY <1>2
<1> QED
  BY <1>3

\* What RemoveAt leaves: the places before k stay, those behind it move up.
LEMMA RemoveAtProperties ==
    ASSUME NEW S, NEW s \in Seq(S), NEW k \in 1 .. Len(s)
    PROVE  /\ RemoveAt(s, k) \in Seq(S)
           /\ Len(RemoveAt(s, k)) = Len(s) - 1
           /\ \A i \in 1 .. Len(s) - 1 :
                 RemoveAt(s, k)[i] = s[IF i < k THEN i ELSE i + 1]
<1>1. /\ SubSeq(s, 1, k - 1) \in Seq(S) /\ SubSeq(s, k + 1, Len(s)) \in Seq(S)
      /\ Len(SubSeq(s, 1, k - 1)) = k - 1 /\ Len(SubSeq(s, k + 1, Len(s))) = Len(s) - k
      /\ \A i \in 1 .. k - 1 : SubSeq(s, 1, k - 1)[i] = s[i]
      /\ \A i \in 1 .. Len(s) - k : SubSeq(s, k + 1, Len(s))[i] = s[k + i]
  OBVIOUS
<1> DEFINE a == SubSeq(s, 1, k - 1)
           b == SubSeq(s, k + 1, Len(s))
           q == a \o b
<1> HIDE DEF a, b
<1>2. /\ a \in Seq(S) /\ b \in Seq(S) /\ Len(a) = k - 1 /\ Len(b) = Len(s) - k
      /\ \A i \in 1 .. k - 1 : a[i] = s[i]
      /\ \A i \in 1 .. Len(s) - k : b[i] = s[k + i]
  BY <1>1 DEF a, b
<1>3. /\ q \in Seq(S) /\ Len(q) = Len(a) + Len(b)
      /\ \A i \in 1 .. Len(a) + Len(b) : q[i] = IF i <= Len(a) THEN a[i] ELSE b[i - Len(a)]
  BY ONLY <1>2, ConcatProperties DEF q
<1> HIDE DEF q
<1>4. q \in Seq(S) /\ Len(q) = Len(s) - 1
  BY <1>2, <1>3
<1>5. ASSUME NEW i \in 1 .. Len(s) - 1
      PROVE q[i] = s[IF i < k THEN i ELSE i + 1]
  <2>0. i \in 1 .. Len(a) + Len(b)
    BY <1>2
  <2>1. CASE i < k
    <3>1. i <= Len(a) /\ i \in 1 .. k - 1
      BY <1>2, <2>1
    <3>2. q[i] = a[i]
      BY <1>3, <2>0, <3>1
    <3> QED
      BY <3>1, <3>2, <1>2, <2>1
  <2>2. CASE ~ (i < k)
    <3> DEFINE m == i - Len(a)
    <3>1. ~ (i <= Len(a)) /\ m \in 1 .. Len(s) - k /\ k + m = i + 1
      BY <1>2, <2>2
    <3>2. q[i] = b[m]
      BY <1>3, <2>0, <3>1
    <3> HIDE DEF m
    <3>3. b[m] = s[k + m]
      BY <3>1, <1>2
    <3> QED
      BY <3>1, <3>2, <3>3, <2>2
  <2> QED
    BY <2>1, <2>2
<1>6. RemoveAt(s, k) = q
  BY DEF RemoveAt, q, a, b
<1> QED
  BY <1>4, <1>5, <1>6

----------------------------------------------------------------------------
(* Merged.                                                                 *)

Sorted(s) == \A i, j \in 1 .. Len(s) : i < j => s[i].seq <= s[j].seq

\* An enumeration of a finite set has its length and repeats nothing.
LEMMA Enumeration ==
    ASSUME NEW S, IsFiniteSet(S), NEW s
    PROVE  s \in SetToSeqs(S) <=>
              /\ s \in Seq(S) /\ Len(s) = Cardinality(S)
              /\ \A i, j \in 1 .. Len(s) : i # j => s[i] # s[j]
<1>1. Cardinality(S) \in Nat
  BY FS_CardinalityType
<1> DEFINE n == Cardinality(S)
<1> HIDE DEF n
<1>2. n \in Nat
  BY <1>1 DEF n
<1>3. s \in [1 .. n -> S] <=> s \in Seq(S) /\ Len(s) = n
  <2>1. ASSUME s \in [1 .. n -> S]
        PROVE s \in Seq(S) /\ Len(s) = n
    BY <2>1, <1>2
  <2>2. ASSUME s \in Seq(S), Len(s) = n
        PROVE s \in [1 .. n -> S]
    BY <2>2, LenProperties
  <2> QED
    BY <2>1, <2>2
<1>4. s \in SetToSeqs(S) <=>
         s \in [1 .. n -> S] /\ \A i, j \in 1 .. n : i # j => s[i] # s[j]
  BY DEF SetToSeqs, n
<1> QED
  BY <1>3, <1>4 DEF n

\* Entries that are not none have a last one.
LEMMA LastEntry ==
    ASSUME NEW U \in SUBSET Entries, U # {}
    PROVE  \E x \in U : \A u \in U : u.seq <= x.seq
<1> DEFINE B == {b \in Nat : \A u \in U : u.seq <= b}
<1>0. \A u \in U : u.seq \in Nat /\ u.seq >= 1 /\ u.seq <= MaxSeq
  BY LiveAssumption DEF Entries
<1>1. MaxSeq \in B
  BY <1>0, LiveAssumption
<1>2. PICK b \in B : \A c \in B : b <= c
  BY <1>1, Least
<1>3. PICK x \in U : x.seq > b - 1
  <2>1. SUFFICES ASSUME \A u \in U : ~ (u.seq > b - 1)
                 PROVE FALSE
    OBVIOUS
  <2>2. PICK u \in U : TRUE
    OBVIOUS
  <2>3. b \in Nat /\ b >= 1
    BY <2>2, <1>0
  <2>4. b - 1 \in Nat /\ \A v \in U : v.seq <= b - 1
    BY <2>1, <2>3, <1>0
  <2>5. b - 1 \in B
    BY <2>4
  <2> QED
    BY <2>5, <2>3, <1>2
<1>4. \A u \in U : u.seq <= x.seq
  BY <1>3, <1>2, <1>0
<1> QED
  BY <1>4

\* Finitely many entries can be put in the order of their sequences.
LEMMA SortedExists ==
    ASSUME NEW S \in SUBSET Entries, IsFiniteSet(S)
    PROVE  \E s \in SetToSeqs(S) : Sorted(s)
<1> DEFINE Sortable(U) == \E s \in SetToSeqs(U) : Sorted(s)
           N == {n \in Nat : \E U \in SUBSET Entries :
                    IsFiniteSet(U) /\ Cardinality(U) = n /\ ~ Sortable(U)}
<1> HIDE DEF Sortable
<1>1. SUFFICES ASSUME ~ Sortable(S)
               PROVE FALSE
  BY DEF Sortable
<1>2. Cardinality(S) \in N
  BY <1>1, FS_CardinalityType
<1>3. PICK n \in N : \A m \in N : n <= m
  BY <1>2, Least
<1>4. PICK U \in SUBSET Entries : IsFiniteSet(U) /\ Cardinality(U) = n /\ ~ Sortable(U)
  BY <1>3
<1>5. ASSUME U = {}
      PROVE FALSE
  <2> DEFINE e == <<>>
  <2>1. e \in Seq(U) /\ Len(e) = 0 /\ Cardinality(U) = 0
    BY <1>4, <1>5, FS_EmptySet
  <2> HIDE DEF e
  <2>2. \A i, j \in 1 .. Len(e) : i # j => e[i] # e[j]
    BY <2>1
  <2>4. e \in SetToSeqs(U) <=>
           /\ e \in Seq(U) /\ Len(e) = Cardinality(U)
           /\ \A i, j \in 1 .. Len(e) : i # j => e[i] # e[j]
    BY <1>4, Enumeration
  <2>5. e \in SetToSeqs(U)
    BY <2>1, <2>2, <2>4
  <2>3. Sorted(e)
    BY <2>1 DEF Sorted
  <2> QED
    BY <2>3, <2>5, <1>4 DEF Sortable
<1>6. PICK x \in U : \A u \in U : u.seq <= x.seq
  BY <1>5, LastEntry
<1> DEFINE V == U \ {x}
<1>7. IsFiniteSet(V) /\ Cardinality(V) = n - 1 /\ n \in Nat
  BY <1>4, <1>3, FS_RemoveElement
<1>8. n - 1 \in Nat
  BY <1>7, FS_CardinalityType
<1>9. Sortable(V)
  <2>1. SUFFICES ASSUME ~ Sortable(V)
                 PROVE FALSE
    OBVIOUS
  <2>2. n - 1 \in N
    BY <2>1, <1>7, <1>8
  <2> QED
    BY <2>2, <1>3, <1>7
<1>10. PICK s \in SetToSeqs(V) : Sorted(s)
  BY <1>9 DEF Sortable
<1>11. /\ s \in Seq(V) /\ Len(s) = n - 1
       /\ \A i, j \in 1 .. Len(s) : i # j => s[i] # s[j]
  BY <1>10, <1>7, Enumeration
<1> DEFINE t == Append(s, x)
<1>12. /\ s \in Seq(U) /\ \A i \in 1 .. n - 1 : s[i] \in U /\ s[i] # x
  <2>1. \A i \in 1 .. n - 1 : s[i] \in V
    BY <1>11, <1>8, ElementOfSeq
  <2>2. s \in Seq(U)
    BY <1>11
  <2> QED
    BY <2>1, <2>2
<1>13. /\ t \in Seq(U) /\ Len(t) = n
       /\ t[n] = x /\ \A i \in 1 .. n - 1 : t[i] = s[i]
  BY <1>11, <1>12, <1>7, <1>8
<1> HIDE DEF t, V
<1>14. ASSUME NEW i \in 1 .. Len(t), NEW j \in 1 .. Len(t), i # j
       PROVE t[i] # t[j]
  <2>1. CASE i = n
    BY <2>1, <1>14, <1>13, <1>12, <1>7
  <2>2. CASE j = n
    BY <2>2, <1>14, <1>13, <1>12, <1>7
  <2>3. CASE i # n /\ j # n
    <3>1. i \in 1 .. n - 1 /\ j \in 1 .. n - 1
      BY <2>3, <1>13, <1>7
    <3> QED
      BY <3>1, <1>11, <1>13, <1>14
  <2> QED
    BY <2>1, <2>2, <2>3
<1>15. ASSUME NEW i \in 1 .. Len(t), NEW j \in 1 .. Len(t), i < j
       PROVE t[i].seq <= t[j].seq
  <2>1. i \in 1 .. n - 1
    BY <1>15, <1>13, <1>7
  <2>2. CASE j = n
    BY <2>1, <2>2, <1>13, <1>12, <1>6
  <2>3. CASE j # n
    <3>1. j \in 1 .. n - 1
      BY <2>3, <1>13, <1>7
    <3> QED
      BY <3>1, <2>1, <1>10, <1>11, <1>13, <1>15 DEF Sorted
  <2> QED
    BY <2>2, <2>3
<1>16. t \in SetToSeqs(U)
  BY <1>13, <1>14, <1>4, Enumeration
<1>17. Sorted(t)
  BY <1>15 DEF Sorted
<1> QED
  BY <1>16, <1>17, <1>4 DEF Sortable

\* The elements of a sequence are finitely many.
LEMMA ToSetFinite ==
    ASSUME NEW S, NEW s \in Seq(S)
    PROVE  IsFiniteSet(ToSet(s)) /\ ToSet(s) \subseteq S
<1>1. s \in [1 .. Len(s) -> S] /\ DOMAIN s = 1 .. Len(s) /\ Len(s) \in Nat
  BY LenProperties
<1>2. s \in Surjection(1 .. Len(s), ToSet(s))
  BY <1>1 DEF ToSet, Surjection
<1>3. IsFiniteSet(1 .. Len(s))
  BY <1>1, FS_Interval
<1>4. IsFiniteSet(ToSet(s))
  BY <1>2, <1>3, FS_Surjection
<1> QED
  BY <1>1, <1>4 DEF ToSet

\* Merged holds the entries of both sides, each once, in order.
LEMMA MergedProperties ==
    ASSUME NEW a \in Seq(Entries), NEW b \in Seq(Entries)
    PROVE  /\ Merged(a, b) \in Seq(ToSet(a) \cup ToSet(b))
           /\ Merged(a, b) \in Seq(Entries)
           /\ Len(Merged(a, b)) = Cardinality(ToSet(a) \cup ToSet(b))
           /\ \A i, j \in 1 .. Len(Merged(a, b)) : i # j => Merged(a, b)[i] # Merged(a, b)[j]
           /\ Sorted(Merged(a, b))
<1> DEFINE S == ToSet(a) \cup ToSet(b)
<1>1. IsFiniteSet(S) /\ S \subseteq Entries
  BY ToSetFinite, FS_Union
<1>2. PICK s \in SetToSeqs(S) : Sorted(s)
  BY <1>1, SortedExists
<1>3. Merged(a, b) = CHOOSE m \in SetToSeqs(S) : Sorted(m)
  BY DEF Merged, Sorted
<1>4. Merged(a, b) \in SetToSeqs(S) /\ Sorted(Merged(a, b))
  BY <1>2, <1>3
<1> HIDE DEF S
<1>5. /\ Merged(a, b) \in Seq(S) /\ Len(Merged(a, b)) = Cardinality(S)
      /\ \A i, j \in 1 .. Len(Merged(a, b)) : i # j => Merged(a, b)[i] # Merged(a, b)[j]
  BY <1>1, <1>4, Enumeration
<1>6. Merged(a, b) \in Seq(Entries)
  BY <1>1, <1>5, SeqMonotonic
<1> QED
  BY <1>4, <1>5, <1>6 DEF S

\* The first entries of a thread.
Log(t, n) == [i \in 1 .. n |-> [thread |-> t, seq |-> i]]

\* An increasing sequence of n numbers of 1 .. n is 1, 2, ..., n.
LEMMA Squeeze ==
    ASSUME NEW n \in Nat, NEW g \in [1 .. n -> 1 .. n],
           \A i, j \in 1 .. n : i < j => g[i] < g[j]
    PROVE  \A i \in 1 .. n : g[i] = i
<1>1. ASSUME NEW k \in 1 .. n, g[k] < k
      PROVE FALSE
  <2> DEFINE B == {i \in 1 .. n : g[i] < i}
  <2>1. B \subseteq Nat /\ B # {}
    BY <1>1
  <2>2. PICK i \in B : \A j \in B : i <= j
    BY <2>1, Least
  <2>3. CASE i = 1
    BY <2>2, <2>3
  <2>4. CASE i # 1
    <3>1. i - 1 \in 1 .. n /\ i - 1 < i /\ i \in 1 .. n /\ i \in Nat
      BY <2>2, <2>4
    <3>2. g[i - 1] < g[i]
      BY <3>1
    <3>3. g[i - 1] < i - 1
      BY <3>1, <3>2, <2>2
    <3> QED
      BY <3>1, <3>3, <2>2
  <2> QED
    BY <2>3, <2>4
<1>2. ASSUME NEW k \in 1 .. n, g[k] > k
      PROVE FALSE
  <2> DEFINE B == {d \in 0 .. n - 1 : g[n - d] > n - d}
  <2>1. B \subseteq Nat /\ n - k \in B
    BY <1>2
  <2>2. PICK d \in B : \A e \in B : d <= e
    BY <2>1, Least
  <2>3. CASE d = 0
    BY <2>2, <2>3
  <2>4. CASE d # 0
    <3> DEFINE i == n - d
               j == n - (d - 1)
    <3>1. i \in 1 .. n /\ j \in 1 .. n /\ j = i + 1 /\ g[i] > i /\ d - 1 \in 0 .. n - 1
      BY <2>2, <2>4
    <3>2. g[i] < g[j]
      BY <3>1
    <3>3. g[j] > j
      BY <3>1, <3>2
    <3>4. d - 1 \in B
      BY <3>1, <3>3
    <3> QED
      <4>1. d \in Int
        BY <2>2
      <4> HIDE DEF B
      <4>2. d <= d - 1
        BY <3>4, <2>2
      <4> QED
        BY <4>1, <4>2
  <2> QED
    BY <2>3, <2>4
<1> QED
  BY <1>1, <1>2

\* The first entries of a thread, taken from two sides, are merged into the log.
LEMMA MergedLog ==
    ASSUME NEW a \in Seq(Entries), NEW b \in Seq(Entries),
           NEW t \in Threads, NEW n \in 0 .. MaxSeq,
           ToSet(a) \cup ToSet(b) = {[thread |-> t, seq |-> i] : i \in 1 .. n}
    PROVE  Merged(a, b) = Log(t, n)
<1> DEFINE S == ToSet(a) \cup ToSet(b)
           m == Merged(a, b)
           f == [i \in 1 .. n |-> [thread |-> t, seq |-> i]]
<1>1. f \in Bijection(1 .. n, S)
  BY DEF Bijection, Injection, Surjection, IsInjective
<1>2. Cardinality(S) = n /\ n \in Nat
  BY <1>1, FS_CountingElements, LiveAssumption DEF ExistsBijection
<1>3. /\ m \in Seq(S) /\ Len(m) = n
      /\ \A i, j \in 1 .. n : i # j => m[i] # m[j]
      /\ \A i, j \in 1 .. n : i < j => m[i].seq <= m[j].seq
  <2>1. /\ m \in Seq(S) /\ Len(m) = Cardinality(S)
        /\ \A i, j \in 1 .. Len(m) : i # j => m[i] # m[j]
        /\ Sorted(m)
    BY MergedProperties
  <2> HIDE DEF m, S
  <2> QED
    BY <1>2, <2>1 DEF Sorted
<1>4. \A x \in S : x.thread = t /\ x.seq \in 1 .. n /\ x = [thread |-> t, seq |-> x.seq]
  OBVIOUS
<1> HIDE DEF m, S
<1>5. m \in [1 .. n -> S]
  BY <1>3, LenProperties
<1> DEFINE g == [i \in 1 .. n |-> m[i].seq]
<1>6. g \in [1 .. n -> 1 .. n]
  BY <1>4, <1>5
<1>7. ASSUME NEW i \in 1 .. n, NEW j \in 1 .. n, i < j
      PROVE g[i] < g[j]
  <2>1. m[i].seq <= m[j].seq /\ m[i] # m[j]
    BY <1>3, <1>7
  <2>2. m[i].seq # m[j].seq
    BY <2>1, <1>4, <1>5
  <2>3. m[i].seq \in Nat /\ m[j].seq \in Nat
    BY <1>6
  <2> QED
    BY <2>1, <2>2, <2>3
<1>8. \A i \in 1 .. n : g[i] = i
  <2> HIDE DEF g
  <2> QED
    BY <1>2, <1>6, <1>7, Squeeze
<1>9. \A i \in 1 .. n : m[i] = [thread |-> t, seq |-> i]
  BY <1>8, <1>5, <1>4
<1>10. m = [i \in 1 .. n |-> [thread |-> t, seq |-> i]]
  BY <1>5, <1>9
<1> QED
  BY <1>10 DEF m, Log

----------------------------------------------------------------------------
(* The inductive invariant.                                                *)

\* The entries of a thread the server has announced.
Said(t) == IF stage[t] = "appended" THEN length[t] - 1 ELSE length[t]

Announces(e, t) == e.type = "entry_appended" /\ e.entry.thread = t

\* The announcement of an entry is under way.
Coming(t, k) == \E i \in 1 .. Len(incoming) : Announces(incoming[i], t) /\ incoming[i].entry.seq = k

Buffered(k) == \E i \in 1 .. Len(pending) : pending[i].seq = k

\* A read of the open page is under way.
OwnRead == \E i \in 1 .. Len(reads) : reads[i].page = routes
OwnAnswer == \E i \in 1 .. Len(answers) : answers[i].page = routes

\* A message streams below the bound, and what is announced was appended.
ServerOK ==
    /\ \A t \in Threads :
          /\ stage[t] = "streaming" => length[t] < MaxSeq
          /\ stage[t] \in {"appended", "announced"} => length[t] >= 1
    /\ \A i \in 1 .. Len(incoming) : incoming[i].type # "settled" => incoming[i].entry.seq >= 1

\* The announcements of a thread come in order, and after one come all the rest.
AnnouncedOK ==
    \A t \in Threads : \A i \in 1 .. Len(incoming) : Announces(incoming[i], t) =>
        /\ incoming[i].entry.seq <= Said(t)
        /\ \A j \in 1 .. Len(incoming) : i < j /\ Announces(incoming[j], t) =>
              incoming[i].entry.seq < incoming[j].entry.seq
        /\ \A k \in incoming[i].entry.seq + 1 .. Said(t) : Coming(t, k)

\* The end of a run comes behind its messages.
EndedOK ==
    \A t \in Threads : \A i \in 1 .. Len(incoming) :
        /\ stage[t] = "settled"
        /\ incoming[i].type \in {"message_start", "message_end"} /\ incoming[i].entry.thread = t
        => \E j \in 1 .. Len(incoming) :
              i < j /\ incoming[j].type = "settled" /\ incoming[j].entry.thread = t

\* Off line nothing is under way.
OfflineOK ==
    ~ online =>
        /\ incoming = <<>> /\ reads = <<>> /\ answers = <<>>
        /\ ~ cut => message = NoEntry

\* The open page has one read under way, of its own thread.
FlightsOK ==
    /\ \A i \in 1 .. Len(reads) :
          /\ reads[i].page <= routes
          /\ reads[i].page = routes => reads[i].thread = route
    /\ \A i \in 1 .. Len(answers) :
          /\ answers[i].page <= routes
          /\ answers[i].page = routes => answers[i].thread = route
          /\ \A k \in 1 .. Len(answers[i].entries) : answers[i].entries[k].thread = answers[i].thread
    /\ \A i, j \in 1 .. Len(reads) : reads[i].page = routes /\ reads[j].page = routes => i = j
    /\ \A i, j \in 1 .. Len(answers) : answers[i].page = routes /\ answers[j].page = routes => i = j
    /\ ~ (OwnRead /\ OwnAnswer)

\* A read that catches up is the only one under way.
AloneOK ==
    ~ foreign /\ trail.tag = "Success" =>
        /\ OwnRead => Len(reads) = 1
        /\ OwnAnswer => reads = <<>>

\* The first read of a page takes the whole log, and what it came too early for
\* is buffered or comes.
FirstOK ==
    ~ foreign /\ trail.tag # "Success" =>
        /\ \A i \in 1 .. Len(reads) : reads[i].page = routes => reads[i].since = 0
        /\ \A i \in 1 .. Len(answers) : answers[i].page = routes =>
              /\ answers[i].entries = Log(route, answers[i].tail)
              /\ answers[i].tail <= length[route]
              /\ \A k \in answers[i].tail + 1 .. Said(route) : Coming(route, k) \/ Buffered(k)

\* What is buffered is in order and before what comes.
BufferOK ==
    /\ trail.tag = "Success" => pending = <<>>
    /\ \A i \in 1 .. Len(pending) :
          /\ pending[i].thread = route /\ pending[i].seq <= Said(route)
          /\ \A j \in 1 .. Len(pending) : i < j => pending[i].seq < pending[j].seq
          /\ \A j \in 1 .. Len(incoming) : Announces(incoming[j], route) =>
                pending[i].seq < incoming[j].entry.seq

\* What is loaded is of the route, in order and up to its tail.
LoadedOK ==
    /\ trail.tag # "Success" => trail.entries = <<>>
    /\ ~ foreign /\ trail.tag = "Success" =>
          /\ route \in Threads
          /\ \A i \in 1 .. Len(trail.entries) :
                /\ trail.entries[i].thread = route /\ trail.entries[i].seq <= trail.tail
                /\ \A j \in 1 .. Len(trail.entries) :
                      i < j => trail.entries[i].seq < trail.entries[j].seq

\* A trail that was loaded once is the log up to its tail, and on line the rest
\* comes.
WholeOK ==
    ~ foreign /\ ~ reloaded /\ trail.tag = "Success" /\ ~ OwnRead /\ ~ OwnAnswer =>
        /\ trail.entries = Log(route, trail.tail)
        /\ trail.tail <= length[route]
        /\ online => \A k \in trail.tail + 1 .. Said(route) : Coming(route, k)

\* A streaming copy of a settled run is about to be cleared.
MessageOK ==
    ~ cut /\ route # NoThread /\ stage[route] = "settled" /\ message # NoEntry =>
        \E i \in 1 .. Len(incoming) : incoming[i].type = "settled" /\ incoming[i].entry.thread = route

LiveInv ==
    /\ LiveTypeOK /\ ServerOK /\ AnnouncedOK /\ EndedOK /\ OfflineOK /\ FlightsOK /\ AloneOK
    /\ FirstOK /\ BufferOK /\ LoadedOK /\ WholeOK /\ MessageOK

----------------------------------------------------------------------------
(* Steps.                                                                  *)

\* What an event sent does to the queue.
LEMMA EmitFacts ==
    ASSUME LiveTypeOK, NEW type \in {"message_start", "entry_appended", "message_end", "settled"},
           NEW t \in Threads, NEW k \in 0 .. MaxSeq, Emit(type, t, k)
    PROVE  /\ incoming' \in Seq(Events)
           /\ ~ online => incoming' = incoming
           /\ online =>
                /\ Len(incoming') = Len(incoming) + 1
                /\ incoming'[Len(incoming) + 1] = [type |-> type, entry |-> [thread |-> t, seq |-> k]]
           /\ \A i \in 1 .. Len(incoming) : i \in 1 .. Len(incoming') /\ incoming'[i] = incoming[i]
<1> DEFINE e == [type |-> type, entry |-> [thread |-> t, seq |-> k]]
<1>1. e \in Events
  BY DEF Events
<1>2. incoming \in Seq(Events) /\ Len(incoming) \in Nat
  BY DEF LiveTypeOK
<1>3. CASE ~ online
  BY <1>2, <1>3 DEF Emit
<1>4. CASE online
  <2>1. incoming' = Append(incoming, e)
    BY <1>4 DEF Emit
  <2> HIDE DEF e
  <2>2. /\ incoming' \in Seq(Events) /\ Len(incoming') = Len(incoming) + 1
        /\ incoming'[Len(incoming) + 1] = e
        /\ \A i \in 1 .. Len(incoming) : incoming'[i] = incoming[i]
    BY <1>1, <1>2, <2>1
  <2> QED
    BY <1>2, <1>4, <2>2 DEF e
<1> QED
  BY <1>3, <1>4

\* The answer to a read.
LEMMA AnswerFacts ==
    ASSUME LiveTypeOK, NEW r \in Reads
    PROVE  /\ Answer(r) \in Answers
           /\ Answer(r).thread = r.thread /\ Answer(r).page = r.page
           /\ Answer(r).tail = length[r.thread]
           /\ \A k \in 1 .. Len(Answer(r).entries) : Answer(r).entries[k].thread = r.thread
           /\ r.since = 0 => Answer(r).entries = Log(r.thread, length[r.thread])
<1>1. /\ r.thread \in Threads /\ r.since \in 0 .. MaxSeq /\ r.page \in 0 .. MaxRoutes
      /\ length[r.thread] \in 0 .. MaxSeq /\ MaxSeq \in Nat
  BY LiveAssumption DEF Reads, LiveTypeOK
<1> DEFINE n == length[r.thread] - r.since
           f == [i \in 1 .. n |-> [thread |-> r.thread, seq |-> r.since + i]]
<1>2. f \in Seq(Entries) /\ \A k \in 1 .. Len(f) : f[k].thread = r.thread
  <2>1. CASE n < 0
    <3>1. 1 .. n = 1 .. 0
      BY <1>1, <2>1
    <3>2. f = [i \in 1 .. 0 |-> [thread |-> r.thread, seq |-> r.since + i]]
      BY <3>1
    <3> HIDE DEF f
    <3>3. f \in [1 .. 0 -> Entries]
      BY <3>2
    <3> QED
      BY <3>3
  <2>2. CASE n >= 0
    <3>1. n \in Nat /\ \A i \in 1 .. n : r.since + i \in 1 .. MaxSeq
      BY <1>1, <2>2
    <3>2. f \in [1 .. n -> Entries] /\ \A k \in 1 .. n : f[k].thread = r.thread
      BY <1>1, <3>1 DEF Entries
    <3> HIDE DEF f, n
    <3>3. f \in Seq(Entries) /\ Len(f) = n
      BY <3>1, <3>2
    <3> QED
      BY <3>2, <3>3
  <2>3. n \in Int
    BY <1>1
  <2> HIDE DEF f, n
  <2> QED
    BY <2>1, <2>2, <2>3
<1>3. Answer(r) = [thread |-> r.thread, page |-> r.page, entries |-> f, tail |-> length[r.thread]]
  BY DEF Answer
<1>4. r.since = 0 => f = Log(r.thread, length[r.thread])
  BY <1>1 DEF Log
<1> HIDE DEF f
<1> QED
  BY <1>1, <1>2, <1>3, <1>4 DEF Answers

\* The trail a read that landed leaves.
LEMMA LandingFacts ==
    ASSUME LiveTypeOK, NEW a \in Answers, FoldTrailLoaded(a)
    PROVE  LET m == Merged(a.entries, pending) IN
           /\ trail' \in Trails /\ trail'.tag = "Success" /\ trail'.entries = m
           /\ m = <<>> => trail'.tail = a.tail /\ message' = message
           /\ m # <<>> => /\ trail'.tail = Larger(a.tail, m[Len(m)].seq)
                          /\ message' = NoEntry
           /\ pending' = <<>>
<1> DEFINE m == Merged(a.entries, pending)
<1>1. a.entries \in Seq(Entries) /\ a.tail \in 0 .. MaxSeq /\ pending \in Seq(Entries)
  BY DEF Answers, LiveTypeOK
<1>2. m \in Seq(Entries)
  BY <1>1, MergedProperties
<1>3. /\ trail' = [tag |-> "Success", entries |-> m,
                   tail |-> IF m = <<>> THEN a.tail ELSE Larger(a.tail, Last(m).seq)]
      /\ pending' = <<>>
      /\ message' = IF m = <<>> THEN message ELSE NoEntry
  BY DEF FoldTrailLoaded
<1> HIDE DEF m
<1>4. m # <<>> => m[Len(m)] \in Entries /\ Last(m) = m[Len(m)]
  BY <1>2 DEF Last
<1>5. m # <<>> => Larger(a.tail, m[Len(m)].seq) \in 0 .. MaxSeq
  BY <1>1, <1>4, LiveAssumption DEF Larger, Entries
<1>6. trail' \in Trails
  BY <1>1, <1>2, <1>3, <1>4, <1>5 DEF Trails
<1>7. /\ trail'.tag = "Success" /\ trail'.entries = m
      /\ m = <<>> => trail'.tail = a.tail /\ message' = message
      /\ m # <<>> => trail'.tail = Larger(a.tail, m[Len(m)].seq) /\ message' = NoEntry
  BY <1>3, <1>4
<1> QED
  BY <1>3, <1>6, <1>7 DEF m

\* What remains of events the console has taken one from.
LEMMA TailFacts ==
    ASSUME LiveTypeOK, incoming # <<>>, incoming' = Tail(incoming)
    PROVE  /\ incoming' \in Seq(Events) /\ Len(incoming') = Len(incoming) - 1 /\ Len(incoming) >= 1
           /\ Head(incoming) = incoming[1] /\ Head(incoming) \in Events
           /\ \A i \in 1 .. Len(incoming') : i + 1 \in 2 .. Len(incoming) /\ incoming'[i] = incoming[i + 1]
           /\ \A i \in 2 .. Len(incoming) : i - 1 \in 1 .. Len(incoming') /\ incoming'[i - 1] = incoming[i]
<1>1. incoming \in Seq(Events) /\ Len(incoming) \in Nat /\ Len(incoming) >= 1
  BY EmptySeq DEF LiveTypeOK
<1>2. /\ incoming' \in Seq(Events) /\ Len(incoming') = Len(incoming) - 1
      /\ \A i \in 1 .. Len(incoming') : incoming'[i] = incoming[i + 1]
      /\ Head(incoming) = incoming[1] /\ Head(incoming) \in Events
  BY <1>1
<1>3. ASSUME NEW i \in 2 .. Len(incoming)
      PROVE i - 1 \in 1 .. Len(incoming') /\ incoming'[i - 1] = incoming[i]
  <2> DEFINE k == i - 1
  <2>1. k \in 1 .. Len(incoming') /\ k + 1 = i
    BY <1>1, <1>2
  <2> HIDE DEF k
  <2>2. incoming'[k] = incoming[i]
    BY <1>2, <2>1
  <2> QED
    BY <2>1, <2>2 DEF k
<1> QED
  BY <1>1, <1>2, <1>3

\* Every step keeps the types.
LEMMA TypeNext ==
    ASSUME LiveTypeOK, ServerOK, [LiveNext]_liveVars
    PROVE  LiveTypeOK'
<1> USE LiveAssumption
<1>1. ASSUME NEW t \in Threads, Stream(t)
      PROVE LiveTypeOK'
  <2>1. length[t] + 1 \in 0 .. MaxSeq
    BY <1>1 DEF Stream, LiveTypeOK
  <2>2. incoming' \in Seq(Events)
    BY <1>1, <2>1, EmitFacts DEF Stream
  <2> QED
    BY <1>1, <2>2 DEF Stream, Advance, LiveTypeOK, Stages, pane, bounds, history
<1>2. ASSUME NEW t \in Threads, AppendMessage(t)
      PROVE LiveTypeOK'
  BY <1>2 DEF AppendMessage, Advance, LiveTypeOK, Stages, pane, bounds, history, ServerOK
<1>3. ASSUME NEW t \in Threads, Announce(t)
      PROVE LiveTypeOK'
  <2>1. incoming' \in Seq(Events)
    BY <1>3, EmitFacts DEF Announce, LiveTypeOK
  <2> QED
    BY <1>3, <2>1 DEF Announce, Advance, LiveTypeOK, Stages, pane, bounds, history
<1>4. ASSUME NEW t \in Threads, EndMessage(t)
      PROVE LiveTypeOK'
  <2>1. incoming' \in Seq(Events)
    BY <1>4, EmitFacts DEF EndMessage, LiveTypeOK
  <2> QED
    BY <1>4, <2>1 DEF EndMessage, Advance, LiveTypeOK, Stages, pane, bounds, history
<1>5. ASSUME NEW t \in Threads, RunSettles(t)
      PROVE LiveTypeOK'
  <2>0. 0 \in 0 .. MaxSeq
    OBVIOUS
  <2>1. incoming' \in Seq(Events)
    BY <1>5, <2>0, EmitFacts DEF RunSettles
  <2> QED
    BY <1>5, <2>1 DEF RunSettles, Advance, LiveTypeOK, Stages, pane, bounds, history
<1>6. ASSUME Serve
      PROVE LiveTypeOK'
  <2>1. PICK i \in 1 .. Len(reads) :
           reads' = RemoveAt(reads, i) /\ answers' = Append(answers, Answer(reads[i]))
    BY <1>6 DEF Serve
  <2>2. reads' \in Seq(Reads) /\ reads[i] \in Reads
    BY <2>1, RemoveAtProperties, ElementOfSeq DEF LiveTypeOK
  <2>3. answers' \in Seq(Answers)
    BY <2>1, <2>2, AnswerFacts DEF LiveTypeOK
  <2> QED
    BY <1>6, <2>2, <2>3 DEF Serve, LiveTypeOK, server, pane, bounds, history
<1>7. ASSUME ReceiveEvent
      PROVE LiveTypeOK'
  <2>1. incoming' \in Seq(Events) /\ Head(incoming) \in Events /\ 1 \in 1 .. Len(incoming)
        /\ Head(incoming) = incoming[1]
    BY <1>7, TailFacts DEF ReceiveEvent, LiveTypeOK
  <2> DEFINE e == Head(incoming)
  <2>2. e.type # "settled" => e.entry \in Entries
    BY <2>1 DEF ServerOK, Events, Entries
  <2>3. trail' \in Trails /\ pending' \in Seq(Entries) /\ message' \in Entries \cup {NoEntry}
    <3> HIDE DEF e
    <3>1. CASE UNCHANGED pane
      BY <3>1 DEF pane, LiveTypeOK
    <3>2. CASE e.type = "entry_appended" /\ FoldEntryAppended(e.entry) /\ ~ UNCHANGED pane
      <4>1. e.entry \in Entries
        BY <2>2, <3>2
      <4>2. CASE trail.tag # "Success"
        <5>1. pending' = Append(pending, e.entry) /\ UNCHANGED <<trail, message>>
          BY <3>2, <4>2 DEF FoldEntryAppended
        <5>2. pending' \in Seq(Entries)
          BY <4>1, <5>1 DEF LiveTypeOK
        <5> QED
          BY <5>1, <5>2 DEF LiveTypeOK
      <4>3. CASE trail.tag = "Success"
        <5>1. /\ trail' = [trail EXCEPT !.entries = Append(@, e.entry), !.tail = e.entry.seq]
              /\ message' = NoEntry /\ UNCHANGED pending
          BY <3>2, <4>3 DEF FoldEntryAppended
        <5>2. Append(trail.entries, e.entry) \in Seq(Entries) /\ e.entry.seq \in 0 .. MaxSeq
          BY <4>1 DEF LiveTypeOK, Trails, Entries
        <5> QED
          BY <5>1, <5>2 DEF LiveTypeOK, Trails
      <4> QED
        BY <4>2, <4>3
    <3>3. CASE /\ e.type \in {"message_start", "message_end"}
               /\ message' = e.entry /\ UNCHANGED <<trail, pending>>
      BY <3>3, <2>2 DEF LiveTypeOK
    <3>4. CASE message' = NoEntry /\ UNCHANGED <<trail, pending>>
      BY <3>4 DEF LiveTypeOK
    <3> QED
      BY <1>7, <3>1, <3>2, <3>3, <3>4 DEF ReceiveEvent, FoldLive, e
  <2> QED
    BY <1>7, <2>1, <2>3 DEF ReceiveEvent, LiveTypeOK, server, bounds, history
<1>8. ASSUME TrailLoaded
      PROVE LiveTypeOK'
  <2>1. PICK i \in 1 .. Len(answers) :
           /\ answers' = RemoveAt(answers, i) /\ FoldTrailLoaded(answers[i])
           /\ foreign' = (foreign \/ answers[i].page # routes)
    BY <1>8 DEF TrailLoaded
  <2>2. answers' \in Seq(Answers) /\ answers[i] \in Answers
    BY <2>1, RemoveAtProperties, ElementOfSeq DEF LiveTypeOK
  <2>3. trail' \in Trails /\ pending' \in Seq(Entries) /\ message' \in Entries \cup {NoEntry}
    <3>1. trail' \in Trails /\ pending' = <<>> /\ message' \in {message, NoEntry}
      BY <2>1, <2>2, LandingFacts, Zenon
    <3> QED
      BY <3>1 DEF LiveTypeOK
  <2> QED
    BY <1>8, <2>1, <2>2, <2>3 DEF TrailLoaded, LiveTypeOK, server, bounds
<1>9. ASSUME TrailFailed
      PROVE LiveTypeOK'
  <2>1. reads' \in Seq(Reads)
    BY <1>9, RemoveAtProperties DEF TrailFailed, LiveTypeOK
  <2>2. trail' \in Trails
    BY <1>9 DEF TrailFailed, Unloaded, Trails
  <2> QED
    BY <1>9, <2>1, <2>2 DEF TrailFailed, LiveTypeOK, server, bounds, history
<1>10. ASSUME NEW t \in Threads \cup {NoThread}, ChangedRoute(t)
       PROVE LiveTypeOK'
  <2>1. routes' \in 0 .. MaxRoutes
    BY <1>10 DEF ChangedRoute, LiveTypeOK
  <2>2. reads' \in Seq(Reads)
    <3>1. CASE t # NoThread /\ online
      <4>1. [thread |-> t, since |-> 0, page |-> routes'] \in Reads
        BY <2>1, <3>1 DEF Reads
      <4> QED
        BY <1>10, <3>1, <4>1 DEF ChangedRoute, Read, LiveTypeOK
    <3> QED
      BY <1>10, <3>1 DEF ChangedRoute, LiveTypeOK
  <2>3. trail' \in Trails
    BY <1>10 DEF ChangedRoute, Unloaded, Trails
  <2>4. pending' \in Seq(Entries) /\ message' \in Entries \cup {NoEntry}
    BY <1>10 DEF ChangedRoute
  <2>5. /\ length' = length /\ stage' = stage /\ incoming' = incoming /\ answers' = answers
        /\ online' = online /\ closes' = closes /\ route' = t
        /\ reloaded' = FALSE /\ foreign' = FALSE /\ cut' = FALSE
    BY <1>10 DEF ChangedRoute, server
  <2> QED
    BY <2>1, <2>2, <2>3, <2>4, <2>5 DEF LiveTypeOK
<1>11. ASSUME Connected
       PROVE LiveTypeOK'
  <2>1. routes' = routes
    BY <1>11 DEF Connected, bounds
  <2>2. reads' \in Seq(Reads)
    <3>1. CASE route # NoThread
      <4> DEFINE s == IF trail.tag = "Success" THEN trail.tail ELSE 0
      <4>1. [thread |-> route, since |-> s, page |-> routes'] \in Reads
        BY <2>1, <3>1 DEF Reads, LiveTypeOK, Trails
      <4> QED
        BY <1>11, <3>1, <4>1 DEF Connected, Read, LiveTypeOK
    <3> QED
      BY <1>11, <3>1 DEF Connected, LiveTypeOK
  <2> QED
    BY <1>11, <2>2 DEF Connected, LiveTypeOK, server, pane, bounds, history
<1>12. ASSUME ConnectionClosed
       PROVE LiveTypeOK'
  <2>1. trail' \in Trails
    BY <1>12 DEF ConnectionClosed, Unloaded, Trails, LiveTypeOK
  <2>2. closes' \in 0 .. MaxCloses
    BY <1>12 DEF ConnectionClosed, LiveTypeOK
  <2>3. incoming' \in Seq(Events) /\ reads' \in Seq(Reads) /\ answers' \in Seq(Answers)
    BY <1>12 DEF ConnectionClosed
  <2>4. /\ length' = length /\ stage' = stage /\ online' = FALSE /\ route' = route
        /\ pending' = pending /\ message' = message /\ routes' = routes
        /\ reloaded' = reloaded /\ foreign' = foreign /\ cut' = TRUE
    BY <1>12 DEF ConnectionClosed, server
  <2> QED
    BY <2>1, <2>2, <2>3, <2>4 DEF LiveTypeOK
<1>13. ASSUME UNCHANGED liveVars
       PROVE LiveTypeOK'
  BY <1>13 DEF liveVars, server, wire, pane, bounds, history, LiveTypeOK
<1> QED
  BY <1>1, <1>2, <1>3, <1>4, <1>5, <1>6, <1>7, <1>8, <1>9, <1>10, <1>11, <1>12,
     <1>13 DEF LiveNext

----------------------------------------------------------------------------
(* The server's steps.                                                     *)

ServerStep(t) == Stream(t) \/ AppendMessage(t) \/ Announce(t) \/ EndMessage(t) \/ RunSettles(t)

\* A step of the server leaves the console alone; what it announces is the next
\* entry of a thread, and it announces it to a console that is on line.
Grows ==
    /\ UNCHANGED <<reads, answers, online, route, trail, pending, message, closes, routes,
                   reloaded, foreign, cut>>
    /\ ~ online => incoming' = incoming
    /\ \A i \in 1 .. Len(incoming) : i \in 1 .. Len(incoming') /\ incoming'[i] = incoming[i]
    /\ \A t \in Threads : length'[t] >= length[t] /\ Said(t)' >= Said(t)
    /\ online => \A t \in Threads : \A k \in Said(t) + 1 .. Said(t)' : Coming(t, k)'
    /\ \A t \in Threads : \A j \in 1 .. Len(incoming') :
          Announces(incoming'[j], t) /\ j \notin 1 .. Len(incoming) =>
              /\ j = Len(incoming') /\ incoming'[j].entry.seq = Said(t) + 1
              /\ Said(t)' = Said(t) + 1

LEMMA SaidType ==
    ASSUME LiveTypeOK, NEW t \in Threads
    PROVE  Said(t) \in Int /\ length[t] \in Nat /\ Said(t) <= length[t]
BY DEF Said, LiveTypeOK

LEMMA EventType ==
    ASSUME LiveTypeOK, NEW i \in 1 .. Len(incoming)
    PROVE  /\ incoming[i] \in Events /\ incoming[i].entry.thread \in Threads
           /\ incoming[i].entry.seq \in Nat /\ incoming[i].entry.seq <= MaxSeq
<1>1. incoming[i] \in Events
  BY ElementOfSeq DEF LiveTypeOK
<1> QED
  BY <1>1 DEF Events

\* An event other than an announcement, sent when no announcement falls due.
LEMMA QuietGrows ==
    ASSUME LiveTypeOK, NEW t \in Threads, NEW k \in 0 .. MaxSeq,
           NEW type \in {"message_start", "message_end", "settled"},
           Emit(type, t, k), length' = length,
           \A u \in Threads : Said(u)' = Said(u),
           UNCHANGED <<reads, answers, online, route, pane, bounds, history>>
    PROVE  Grows
<1>1. /\ incoming' \in Seq(Events)
      /\ ~ online => incoming' = incoming
      /\ online =>
           /\ Len(incoming') = Len(incoming) + 1
           /\ incoming'[Len(incoming) + 1] = [type |-> type, entry |-> [thread |-> t, seq |-> k]]
      /\ \A i \in 1 .. Len(incoming) : i \in 1 .. Len(incoming') /\ incoming'[i] = incoming[i]
  BY EmitFacts
<1>2. Len(incoming) \in Nat
  BY DEF LiveTypeOK
<1>3. ASSUME NEW j \in 1 .. Len(incoming'), NEW u, Announces(incoming'[j], u)
      PROVE j \in 1 .. Len(incoming)
  <2>1. CASE ~ online
    BY <1>1, <2>1
  <2>2. CASE online
    <3>1. incoming'[Len(incoming) + 1].type # "entry_appended"
      BY <1>1, <2>2
    <3>2. j # Len(incoming) + 1
      BY <3>1, <1>3 DEF Announces
    <3> QED
      BY <1>1, <1>2, <2>2, <3>2
  <2> QED
    BY <2>1, <2>2
<1>4. \A u \in Threads : Said(u) \in Int /\ length[u] \in Nat
  BY SaidType
<1>5. \A u \in Threads : length'[u] >= length[u] /\ Said(u)' >= Said(u)
  BY <1>4
<1>6. \A u \in Threads : \A i \in Said(u) + 1 .. Said(u)' : FALSE
  BY <1>4
<1>7. UNCHANGED <<reads, answers, online, route, trail, pending, message, closes, routes,
                  reloaded, foreign, cut>>
  BY DEF pane, bounds, history
<1> QED
  BY <1>1, <1>3, <1>5, <1>6, <1>7 DEF Grows

LEMMA ServerGrows ==
    ASSUME LiveTypeOK, ServerOK, NEW t \in Threads, ServerStep(t)
    PROVE  Grows
<1>0. t \in DOMAIN stage /\ length[t] \in Nat /\ length[t] <= MaxSeq /\ MaxSeq \in Nat
      /\ length \in [Threads -> 0 .. MaxSeq] /\ stage \in [Threads -> Stages]
  BY LiveAssumption DEF LiveTypeOK
<1>1. CASE Stream(t)
  <2>1. \A u \in Threads : Said(u)' = Said(u)
    BY <1>0, <1>1 DEF Stream, Advance, Said
  <2>2. length[t] + 1 \in 0 .. MaxSeq
    BY <1>0, <1>1 DEF Stream
  <2> QED
    BY <1>1, <2>1, <2>2, QuietGrows DEF Stream, Advance
<1>2. CASE EndMessage(t)
  <2>1. \A u \in Threads : Said(u)' = Said(u)
    BY <1>0, <1>2 DEF EndMessage, Advance, Said
  <2>2. length[t] \in 0 .. MaxSeq
    BY <1>0
  <2> QED
    BY <1>2, <2>1, <2>2, QuietGrows DEF EndMessage, Advance
<1>3. CASE RunSettles(t)
  <2>1. \A u \in Threads : Said(u)' = Said(u)
    BY <1>0, <1>3 DEF RunSettles, Advance, Said
  <2>2. 0 \in 0 .. MaxSeq
    BY <1>0
  <2> QED
    BY <1>3, <2>1, <2>2, QuietGrows DEF RunSettles, Advance
<1>4. CASE AppendMessage(t)
  <2>1. /\ stage[t] = "streaming" /\ stage' = [stage EXCEPT ![t] = "appended"]
        /\ length' = [length EXCEPT ![t] = length[t] + 1] /\ incoming' = incoming
    BY <1>4 DEF AppendMessage, Advance
  <2>2. \A u \in Threads : Said(u)' = Said(u) /\ length'[u] >= length[u]
    BY <1>0, <2>1 DEF Said
  <2>3. \A u \in Threads : \A i \in Said(u) + 1 .. Said(u)' : FALSE
    BY <2>2, SaidType
  <2>4. \A u \in Threads : Said(u)' >= Said(u)
    BY <2>2, SaidType
  <2> QED
    BY <1>4, <2>1, <2>2, <2>3, <2>4 DEF Grows, AppendMessage, Advance, pane, bounds, history
<1>5. CASE Announce(t)
  <2>1. /\ stage[t] = "appended" /\ stage' = [stage EXCEPT ![t] = "announced"]
        /\ length' = length /\ Emit("entry_appended", t, length[t])
    BY <1>5 DEF Announce, Advance
  <2>2. /\ Said(t) = length[t] - 1 /\ Said(t)' = length[t]
        /\ \A u \in Threads \ {t} : Said(u)' = Said(u)
    BY <1>0, <2>1 DEF Said
  <2>3. length[t] \in 0 .. MaxSeq
    BY <1>0
  <2>4. /\ ~ online => incoming' = incoming
        /\ online =>
             /\ Len(incoming') = Len(incoming) + 1
             /\ incoming'[Len(incoming) + 1] =
                  [type |-> "entry_appended", entry |-> [thread |-> t, seq |-> length[t]]]
        /\ \A i \in 1 .. Len(incoming) : i \in 1 .. Len(incoming') /\ incoming'[i] = incoming[i]
    BY <2>1, <2>3, EmitFacts
  <2>5. Len(incoming) \in Nat /\ \A u \in Threads : Said(u) \in Int /\ length[u] \in Nat
    BY SaidType DEF LiveTypeOK
  <2>6. \A u \in Threads : length'[u] >= length[u] /\ Said(u)' >= Said(u)
    BY <2>1, <2>2, <2>5
  <2>7. ASSUME online, NEW u \in Threads, NEW k \in Said(u) + 1 .. Said(u)'
        PROVE Coming(u, k)'
    <3>1. u = t /\ k = length[t]
      BY <2>2, <2>5
    <3> DEFINE n == Len(incoming) + 1
    <3>2. n \in 1 .. Len(incoming')
      BY <2>4, <2>5, <2>7
    <3>3. Announces(incoming'[n], u) /\ incoming'[n].entry.seq = k
      BY <2>4, <2>7, <3>1 DEF Announces
    <3> HIDE DEF n
    <3> QED
      BY <3>2, <3>3 DEF Coming, Announces
  <2>8. ASSUME NEW u \in Threads, NEW j \in 1 .. Len(incoming'), Announces(incoming'[j], u),
               j \notin 1 .. Len(incoming)
        PROVE /\ j = Len(incoming') /\ incoming'[j].entry.seq = Said(u) + 1
              /\ Said(u)' = Said(u) + 1
    <3>1. online
      BY <2>4, <2>8
    <3>2. j = Len(incoming) + 1 /\ j = Len(incoming')
      BY <2>4, <2>5, <2>8, <3>1
    <3>3. u = t /\ incoming'[j].entry.seq = length[t]
      BY <2>4, <2>8, <3>1, <3>2 DEF Announces
    <3> QED
      BY <3>2, <3>3, <2>2, <2>5
  <2>9. UNCHANGED <<reads, answers, online, route, trail, pending, message, closes, routes,
                    reloaded, foreign, cut>>
    BY <1>5 DEF Announce, Advance, pane, bounds, history
  <2> QED
    BY <2>4, <2>6, <2>7, <2>8, <2>9 DEF Grows
<1> QED
  BY <1>1, <1>2, <1>3, <1>4, <1>5 DEF ServerStep

LEMMA GrowsAnnounced ==
    ASSUME LiveTypeOK, LiveTypeOK', AnnouncedOK, OfflineOK, Grows
    PROVE  AnnouncedOK'
<1>0. Len(incoming) \in Nat /\ Len(incoming') \in Nat
  BY DEF LiveTypeOK
<1>1. SUFFICES ASSUME NEW t \in Threads, NEW i \in 1 .. Len(incoming'), Announces(incoming'[i], t)
               PROVE  /\ incoming'[i].entry.seq <= Said(t)'
                      /\ \A j \in 1 .. Len(incoming') : i < j /\ Announces(incoming'[j], t) =>
                            incoming'[i].entry.seq < incoming'[j].entry.seq
                      /\ \A k \in incoming'[i].entry.seq + 1 .. Said(t)' : Coming(t, k)'
  BY DEF AnnouncedOK, Announces
<1>2. Said(t) \in Int /\ Said(t)' \in Int /\ Said(t)' >= Said(t)
  BY SaidType DEF Grows, Said, LiveTypeOK
<1>3. CASE i \notin 1 .. Len(incoming)
  <2>1. i = Len(incoming') /\ incoming'[i].entry.seq = Said(t) + 1 /\ Said(t)' = Said(t) + 1
    BY <1>1, <1>3 DEF Grows
  <2> QED
    BY <1>0, <1>2, <2>1
<1>4. CASE i \in 1 .. Len(incoming)
  <2> DEFINE s == incoming[i].entry.seq
  <2>1. s \in Nat /\ incoming'[i] = incoming[i] /\ Announces(incoming[i], t)
    BY <1>1, <1>4, EventType DEF Grows
  <2>2. /\ s <= Said(t)
        /\ \A j \in 1 .. Len(incoming) : i < j /\ Announces(incoming[j], t) => s < incoming[j].entry.seq
        /\ \A k \in s + 1 .. Said(t) : Coming(t, k)
    BY <1>4, <2>1 DEF AnnouncedOK
  <2>3. ASSUME NEW j \in 1 .. Len(incoming'), i < j, Announces(incoming'[j], t)
        PROVE s < incoming'[j].entry.seq
    <3>1. CASE j \in 1 .. Len(incoming)
      BY <2>2, <2>3, <3>1 DEF Grows
    <3>2. CASE j \notin 1 .. Len(incoming)
      <4>1. incoming'[j].entry.seq = Said(t) + 1
        BY <2>3, <3>2 DEF Grows
      <4> QED
        BY <4>1, <2>1, <2>2, <1>2
    <3> QED
      BY <3>1, <3>2
  <2>4. online
    BY <1>4, <1>0 DEF OfflineOK
  <2>5. ASSUME NEW k \in s + 1 .. Said(t)'
        PROVE Coming(t, k)'
    <3>1. CASE k <= Said(t)
      <4>1. k \in s + 1 .. Said(t)
        BY <3>1, <1>2, <2>1
      <4>2. PICK j \in 1 .. Len(incoming) : Announces(incoming[j], t) /\ incoming[j].entry.seq = k
        BY <2>2, <4>1 DEF Coming
      <4>3. j \in 1 .. Len(incoming') /\ Announces(incoming'[j], t) /\ incoming'[j].entry.seq = k
        BY <4>2 DEF Grows
      <4> QED
        BY <4>3 DEF Coming, Announces
    <3>2. CASE ~ (k <= Said(t))
      <4>1. k \in Said(t) + 1 .. Said(t)'
        BY <3>2, <1>2, <2>1
      <4> QED
        BY <2>4, <4>1 DEF Grows
    <3> QED
      BY <3>1, <3>2
  <2>6. incoming'[i].entry.seq = s
    BY <2>1
  <2> HIDE DEF s
  <2> QED
    BY <2>1, <2>2, <2>3, <2>5, <2>6, <1>2
<1> QED
  BY <1>3, <1>4

\* What comes keeps coming.
LEMMA StillComing ==
    ASSUME Grows, NEW t \in Threads, NEW k, Coming(t, k)
    PROVE  Coming(t, k)'
<1>1. PICK j \in 1 .. Len(incoming) : Announces(incoming[j], t) /\ incoming[j].entry.seq = k
  BY DEF Coming
<1>2. j \in 1 .. Len(incoming') /\ Announces(incoming'[j], t) /\ incoming'[j].entry.seq = k
  BY <1>1 DEF Grows
<1> QED
  BY <1>2 DEF Coming, Announces

LEMMA GrowsRest ==
    ASSUME LiveTypeOK, LiveTypeOK', LiveInv, Grows
    PROVE  OfflineOK' /\ FlightsOK' /\ AloneOK' /\ FirstOK' /\ BufferOK' /\ LoadedOK' /\ WholeOK'
<1>0. UNCHANGED <<reads, answers, online, route, trail, pending, message, closes, routes,
                  reloaded, foreign, cut>>
  BY DEF Grows
<1>1. OfflineOK'
  BY <1>0 DEF Grows, LiveInv, OfflineOK
<1>2. FlightsOK'
  BY <1>0 DEF LiveInv, FlightsOK, OwnRead, OwnAnswer
<1>3. AloneOK'
  BY <1>0 DEF LiveInv, AloneOK, OwnRead, OwnAnswer
<1>4. LoadedOK'
  BY <1>0 DEF LiveInv, LoadedOK
<1>5. ASSUME NEW t \in Threads
      PROVE /\ Said(t) \in Int /\ Said(t)' \in Int /\ Said(t)' >= Said(t)
            /\ length[t] \in Nat /\ length'[t] \in Nat /\ length'[t] >= length[t]
  BY SaidType DEF Grows, Said, LiveTypeOK
<1>5a. \A t \in Threads : \A k : Coming(t, k) => Coming(t, k)'
  BY StillComing
<1>6. FirstOK'
  <2>1. SUFFICES ASSUME ~ foreign, trail.tag # "Success"
                 PROVE  /\ \A i \in 1 .. Len(reads) : reads[i].page = routes => reads[i].since = 0
                        /\ \A i \in 1 .. Len(answers) : answers[i].page = routes =>
                              /\ answers[i].entries = Log(route, answers[i].tail)
                              /\ answers[i].tail <= length'[route]
                              /\ \A k \in answers[i].tail + 1 .. Said(route)' :
                                    Coming(route, k)' \/ Buffered(k)
    BY <1>0 DEF FirstOK, Buffered, Log, Coming, Said
  <2>2. \A i \in 1 .. Len(reads) : reads[i].page = routes => reads[i].since = 0
    BY <2>1 DEF LiveInv, FirstOK
  <2>3. ASSUME NEW i \in 1 .. Len(answers), answers[i].page = routes
        PROVE /\ answers[i].entries = Log(route, answers[i].tail)
              /\ answers[i].tail <= length'[route]
              /\ \A k \in answers[i].tail + 1 .. Said(route)' : Coming(route, k)' \/ Buffered(k)
    <3>1. answers[i] \in Answers /\ Len(answers) \in Nat
      BY ElementOfSeq DEF LiveTypeOK
    <3>2. route \in Threads /\ answers[i].tail \in Nat
      BY <2>3, <3>1 DEF LiveInv, FlightsOK, Answers
    <3>3. /\ answers[i].entries = Log(route, answers[i].tail)
          /\ answers[i].tail <= length[route]
          /\ \A k \in answers[i].tail + 1 .. Said(route) : Coming(route, k) \/ Buffered(k)
      BY <2>1, <2>3 DEF LiveInv, FirstOK
    <3>4. answers[i].tail <= length'[route]
      BY <3>2, <3>3, <1>5
    <3>5. online
      BY <3>1 DEF LiveInv, OfflineOK
    <3>6. ASSUME NEW k \in answers[i].tail + 1 .. Said(route)'
          PROVE Coming(route, k)' \/ Buffered(k)
      <4>1. CASE k <= Said(route)
        <5>1. Coming(route, k) \/ Buffered(k)
          BY <4>1, <3>2, <3>3, <1>5
        <5> QED
          BY <5>1, <3>2, <1>0, <1>5a
      <4>2. CASE ~ (k <= Said(route))
        <5>1. k \in Said(route) + 1 .. Said(route)'
          BY <4>2, <3>2, <1>5
        <5> QED
          BY <3>2, <3>5, <5>1 DEF Grows
      <4> QED
        BY <4>1, <4>2
    <3> QED
      BY <3>3, <3>4, <3>6
  <2> QED
    BY <2>2, <2>3
<1>7. BufferOK'
  <2>1. trail.tag = "Success" => pending = <<>>
    BY DEF LiveInv, BufferOK
  <2>2. ASSUME NEW i \in 1 .. Len(pending)
        PROVE /\ pending[i].thread = route /\ pending[i].seq <= Said(route)'
              /\ \A j \in 1 .. Len(pending) : i < j => pending[i].seq < pending[j].seq
              /\ \A j \in 1 .. Len(incoming') : Announces(incoming'[j], route) =>
                    pending[i].seq < incoming'[j].entry.seq
    <3>1. /\ pending[i].thread = route /\ pending[i].seq <= Said(route)
          /\ \A j \in 1 .. Len(pending) : i < j => pending[i].seq < pending[j].seq
          /\ \A j \in 1 .. Len(incoming) : Announces(incoming[j], route) =>
                pending[i].seq < incoming[j].entry.seq
      BY DEF LiveInv, BufferOK
    <3>2. pending[i] \in Entries
      BY ElementOfSeq DEF LiveTypeOK
    <3>3. route \in Threads /\ pending[i].seq \in Nat
      BY <3>1, <3>2 DEF Entries
    <3>4. ASSUME NEW j \in 1 .. Len(incoming'), Announces(incoming'[j], route)
          PROVE pending[i].seq < incoming'[j].entry.seq
      <4>1. CASE j \in 1 .. Len(incoming)
        BY <3>1, <3>4, <4>1 DEF Grows
      <4>2. CASE j \notin 1 .. Len(incoming)
        <5>1. incoming'[j].entry.seq = Said(route) + 1
          BY <3>3, <3>4, <4>2 DEF Grows
        <5> QED
          BY <5>1, <3>1, <3>3, <1>5
      <4> QED
        BY <4>1, <4>2
    <3>5. pending[i].seq <= Said(route)'
      BY <3>1, <3>3, <1>0, <1>5
    <3> QED
      BY <3>1, <3>4, <3>5
  <2>3. ASSUME NEW x
        PROVE Announces(x, route)' <=> Announces(x, route)
    BY <1>0 DEF Announces
  <2> QED
    BY <1>0, <2>1, <2>2 DEF BufferOK, Announces, Said
<1>8. WholeOK'
  <2>1. SUFFICES ASSUME ~ foreign, ~ reloaded, trail.tag = "Success", ~ OwnRead, ~ OwnAnswer
                 PROVE  /\ trail.entries = Log(route, trail.tail)
                        /\ trail.tail <= length'[route]
                        /\ online => \A k \in trail.tail + 1 .. Said(route)' : Coming(route, k)'
    BY <1>0 DEF WholeOK, OwnRead, OwnAnswer, Log, Coming, Said
  <2>2. /\ trail.entries = Log(route, trail.tail)
        /\ trail.tail <= length[route]
        /\ online => \A k \in trail.tail + 1 .. Said(route) : Coming(route, k)
    BY <2>1 DEF LiveInv, WholeOK
  <2>3. route \in Threads /\ trail.tail \in Nat
    BY <2>1 DEF LiveInv, LoadedOK, LiveTypeOK, Trails
  <2>4. ASSUME online, NEW k \in trail.tail + 1 .. Said(route)'
        PROVE Coming(route, k)'
    <3>1. CASE k <= Said(route)
      <4>1. Coming(route, k)
        BY <2>2, <2>3, <2>4, <3>1, <1>5
      <4> QED
        BY <4>1, <2>3, <1>0, <1>5a
    <3>2. CASE ~ (k <= Said(route))
      <4>1. k \in Said(route) + 1 .. Said(route)'
        BY <3>2, <2>3, <1>5
      <4> QED
        BY <2>3, <2>4, <4>1 DEF Grows
    <3> QED
      BY <3>1, <3>2
  <2>5. trail.tail <= length'[route]
    BY <2>2, <2>3, <1>5
  <2> QED
    BY <2>2, <2>4, <2>5
<1> QED
  BY <1>1, <1>2, <1>3, <1>4, <1>6, <1>7, <1>8

\* An event that was not there before is the one sent.
LEMMA NewEvent ==
    ASSUME LiveTypeOK, NEW type \in {"message_start", "entry_appended", "message_end", "settled"},
           NEW t \in Threads, NEW k \in 0 .. MaxSeq, Emit(type, t, k),
           NEW j \in 1 .. Len(incoming'), j \notin 1 .. Len(incoming)
    PROVE  /\ online /\ j = Len(incoming) + 1
           /\ incoming'[j].type = type /\ incoming'[j].entry.thread = t /\ incoming'[j].entry.seq = k
<1>1. /\ ~ online => incoming' = incoming
      /\ online =>
           /\ Len(incoming') = Len(incoming) + 1
           /\ incoming'[Len(incoming) + 1] = [type |-> type, entry |-> [thread |-> t, seq |-> k]]
  BY EmitFacts
<1>2. online
  BY <1>1
<1>3. j = Len(incoming) + 1
  BY <1>1, <1>2 DEF LiveTypeOK
<1> QED
  BY <1>1, <1>2, <1>3

\* A step sends at most one event; the last one of a run is its end.
ServerMoves(t) ==
    \E to \in Stages :
        /\ stage' = [stage EXCEPT ![t] = to]
        /\ to = "streaming" => length'[t] < MaxSeq
        /\ to \in {"appended", "announced"} => length'[t] >= 1
        /\ \A u \in Threads \ {t} : length'[u] = length[u]
        /\ \A j \in 1 .. Len(incoming') : j \notin 1 .. Len(incoming) =>
              /\ j = Len(incoming) + 1
              /\ incoming'[j].entry.thread = t
              /\ incoming'[j].type # "settled" => incoming'[j].entry.seq >= 1
              /\ to = "settled" => incoming'[j].type = "settled"
        /\ to = "settled" /\ online =>
              Len(incoming) + 1 \in 1 .. Len(incoming')

LEMMA ServerMovesStep ==
    ASSUME LiveTypeOK, ServerOK, NEW t \in Threads, ServerStep(t)
    PROVE  ServerMoves(t)
<1>0. /\ t \in DOMAIN stage /\ length[t] \in Nat /\ length[t] <= MaxSeq /\ MaxSeq \in Nat
      /\ length[t] \in 0 .. MaxSeq /\ 0 \in 0 .. MaxSeq
      /\ length \in [Threads -> 0 .. MaxSeq] /\ stage \in [Threads -> Stages]
  BY LiveAssumption DEF LiveTypeOK
<1>1. CASE Stream(t)
  <2>1. stage' = [stage EXCEPT ![t] = "streaming"] /\ length' = length /\ length[t] < MaxSeq
        /\ Emit("message_start", t, length[t] + 1) /\ length[t] + 1 \in 0 .. MaxSeq
    BY <1>0, <1>1 DEF Stream, Advance
  <2>2. \A j \in 1 .. Len(incoming') : j \notin 1 .. Len(incoming) =>
           /\ j = Len(incoming) + 1 /\ incoming'[j].entry.thread = t
           /\ incoming'[j].entry.seq = length[t] + 1
    BY <2>1, NewEvent
  <2> QED
    BY <1>0, <2>1, <2>2 DEF ServerMoves, Stages
<1>2. CASE AppendMessage(t)
  BY <1>0, <1>2 DEF AppendMessage, Advance, ServerMoves, Stages
<1>3. CASE Announce(t)
  <2>1. stage' = [stage EXCEPT ![t] = "announced"] /\ length' = length /\ length[t] >= 1
        /\ Emit("entry_appended", t, length[t])
    BY <1>0, <1>3 DEF Announce, Advance, ServerOK
  <2>2. \A j \in 1 .. Len(incoming') : j \notin 1 .. Len(incoming) =>
           /\ j = Len(incoming) + 1 /\ incoming'[j].entry.thread = t
           /\ incoming'[j].entry.seq = length[t]
    BY <1>0, <2>1, NewEvent
  <2> QED
    BY <1>0, <2>1, <2>2 DEF ServerMoves, Stages
<1>4. CASE EndMessage(t)
  <2>1. stage' = [stage EXCEPT ![t] = "ready"] /\ length' = length /\ length[t] >= 1
        /\ Emit("message_end", t, length[t])
    BY <1>0, <1>4 DEF EndMessage, Advance, ServerOK
  <2>2. \A j \in 1 .. Len(incoming') : j \notin 1 .. Len(incoming) =>
           /\ j = Len(incoming) + 1 /\ incoming'[j].entry.thread = t
           /\ incoming'[j].entry.seq = length[t]
    BY <1>0, <2>1, NewEvent
  <2> QED
    BY <1>0, <2>1, <2>2 DEF ServerMoves, Stages
<1>5. CASE RunSettles(t)
  <2>1. stage' = [stage EXCEPT ![t] = "settled"] /\ length' = length
        /\ Emit("settled", t, 0)
    BY <1>0, <1>5 DEF RunSettles, Advance
  <2>2. \A j \in 1 .. Len(incoming') : j \notin 1 .. Len(incoming) =>
           /\ j = Len(incoming) + 1 /\ incoming'[j].entry.thread = t
           /\ incoming'[j].type = "settled"
    BY <1>0, <2>1, NewEvent
  <2>3. online => Len(incoming') = Len(incoming) + 1
    BY <1>0, <2>1, EmitFacts
  <2>4. online => Len(incoming) + 1 \in 1 .. Len(incoming')
    BY <2>3 DEF LiveTypeOK
  <2> QED
    BY <1>0, <2>1, <2>2, <2>4 DEF ServerMoves, Stages
<1> QED
  BY <1>1, <1>2, <1>3, <1>4, <1>5 DEF ServerStep

LEMMA ServerMovesRest ==
    ASSUME LiveTypeOK, LiveInv, NEW t \in Threads, ServerMoves(t), Grows
    PROVE  ServerOK' /\ EndedOK' /\ MessageOK'
<1>1. PICK to \in Stages :
        /\ stage' = [stage EXCEPT ![t] = to]
        /\ to = "streaming" => length'[t] < MaxSeq
        /\ to \in {"appended", "announced"} => length'[t] >= 1
        /\ \A u \in Threads \ {t} : length'[u] = length[u]
        /\ \A j \in 1 .. Len(incoming') : j \notin 1 .. Len(incoming) =>
              /\ j = Len(incoming) + 1
              /\ incoming'[j].entry.thread = t
              /\ incoming'[j].type # "settled" => incoming'[j].entry.seq >= 1
              /\ to = "settled" => incoming'[j].type = "settled"
        /\ to = "settled" /\ online =>
              Len(incoming) + 1 \in 1 .. Len(incoming')
  BY DEF ServerMoves
<1>2. /\ t \in DOMAIN stage /\ stage'[t] = to /\ \A u \in Threads \ {t} : stage'[u] = stage[u]
      /\ Len(incoming) \in Nat
  BY <1>1 DEF LiveTypeOK
<1>3. \A i \in 1 .. Len(incoming) : i \in 1 .. Len(incoming') /\ incoming'[i] = incoming[i]
  BY DEF Grows
<1>4. ServerOK'
  <2>1. ASSUME NEW u \in Threads
        PROVE /\ stage'[u] = "streaming" => length'[u] < MaxSeq
              /\ stage'[u] \in {"appended", "announced"} => length'[u] >= 1
    BY <1>1, <1>2 DEF LiveInv, ServerOK
  <2>2. ASSUME NEW i \in 1 .. Len(incoming'), incoming'[i].type # "settled"
        PROVE incoming'[i].entry.seq >= 1
    <3>1. CASE i \in 1 .. Len(incoming)
      BY <1>3, <2>2, <3>1 DEF LiveInv, ServerOK
    <3>2. CASE i \notin 1 .. Len(incoming)
      BY <1>1, <2>2, <3>2
    <3> QED
      BY <3>1, <3>2
  <2> QED
    BY <2>1, <2>2 DEF ServerOK
<1>5. EndedOK'
  <2>1. SUFFICES ASSUME NEW u \in Threads, NEW i \in 1 .. Len(incoming'), stage'[u] = "settled",
                        incoming'[i].type \in {"message_start", "message_end"},
                        incoming'[i].entry.thread = u
                 PROVE  \E j \in 1 .. Len(incoming') :
                           i < j /\ incoming'[j].type = "settled" /\ incoming'[j].entry.thread = u
    BY DEF EndedOK
  <2>2. i \in 1 .. Len(incoming)
    <3>1. SUFFICES ASSUME i \notin 1 .. Len(incoming)
                   PROVE FALSE
      OBVIOUS
    <3>2. u = t
      BY <1>1, <2>1, <3>1
    <3> QED
      BY <1>1, <1>2, <2>1, <3>1, <3>2
  <2>3. CASE u = t
    <3>1. to = "settled" /\ incoming # <<>>
      BY <1>2, <2>1, <2>2, <2>3
    <3>2. online
      BY <3>1 DEF LiveInv, OfflineOK
    <3> DEFINE n == Len(incoming) + 1
    <3>3. n \in 1 .. Len(incoming') /\ n \notin 1 .. Len(incoming) /\ i < n
      BY <1>1, <1>2, <2>2, <3>1, <3>2
    <3> HIDE DEF n
    <3>4. incoming'[n].type = "settled" /\ incoming'[n].entry.thread = u
      BY <1>1, <2>3, <3>1, <3>3
    <3> QED
      BY <3>3, <3>4
  <2>4. CASE u # t
    <3>1. stage[u] = "settled" /\ incoming'[i] = incoming[i]
      BY <1>2, <1>3, <2>1, <2>2, <2>4
    <3>2. PICK j \in 1 .. Len(incoming) :
             i < j /\ incoming[j].type = "settled" /\ incoming[j].entry.thread = u
      BY <2>1, <2>2, <3>1 DEF LiveInv, EndedOK
    <3> QED
      BY <3>2, <1>3
  <2> QED
    BY <2>3, <2>4
<1>6. MessageOK'
  <2>0. route' = route /\ message' = message /\ cut' = cut /\ NoEntry' = NoEntry
    BY DEF Grows, NoEntry
  <2>1. SUFFICES ASSUME ~ cut, route # NoThread, stage'[route] = "settled", message # NoEntry
                 PROVE  \E i \in 1 .. Len(incoming') :
                           incoming'[i].type = "settled" /\ incoming'[i].entry.thread = route
    BY <2>0 DEF MessageOK
  <2>2. route \in Threads /\ online
    BY <2>1 DEF LiveTypeOK, LiveInv, OfflineOK
  <2>3. CASE route = t
    <3> DEFINE n == Len(incoming) + 1
    <3>1. to = "settled"
      BY <1>2, <2>1, <2>3
    <3>2. n \in 1 .. Len(incoming') /\ n \notin 1 .. Len(incoming)
      BY <1>1, <1>2, <2>2, <3>1
    <3> HIDE DEF n
    <3>3. incoming'[n].type = "settled" /\ incoming'[n].entry.thread = route
      BY <1>1, <2>3, <3>1, <3>2
    <3> QED
      BY <3>2, <3>3
  <2>4. CASE route # t
    <3>1. stage[route] = "settled"
      BY <1>2, <2>1, <2>2, <2>4
    <3>2. PICK i \in 1 .. Len(incoming) :
             incoming[i].type = "settled" /\ incoming[i].entry.thread = route
      BY <2>1, <3>1 DEF LiveInv, MessageOK
    <3> QED
      BY <3>2, <1>3
  <2> QED
    BY <2>3, <2>4
<1> QED
  BY <1>4, <1>5, <1>6

LEMMA ServerNext ==
    ASSUME LiveInv, NEW t \in Threads, ServerStep(t), LiveTypeOK'
    PROVE  LiveInv'
<1>1. LiveTypeOK /\ ServerOK /\ AnnouncedOK /\ OfflineOK
  BY DEF LiveInv
<1>2. Grows
  BY <1>1, ServerGrows
<1>3. ServerMoves(t)
  BY <1>1, ServerMovesStep
<1>4. AnnouncedOK'
  BY <1>1, <1>2, GrowsAnnounced
<1>5. OfflineOK' /\ FlightsOK' /\ AloneOK' /\ FirstOK' /\ BufferOK' /\ LoadedOK' /\ WholeOK'
  BY <1>1, <1>2, GrowsRest
<1>6. ServerOK' /\ EndedOK' /\ MessageOK'
  BY <1>1, <1>2, <1>3, ServerMovesRest
<1> QED
  BY <1>4, <1>5, <1>6 DEF LiveInv

----------------------------------------------------------------------------
(* The console's steps.                                                    *)

Has(s, p) == \E i \in 1 .. Len(s) : s[i].page = p
Once(s, p) == \A i, j \in 1 .. Len(s) : s[i].page = p /\ s[j].page = p => i = j

\* What is left when one of the reads, or answers, under way is taken.
LEMMA Taken ==
    ASSUME NEW S, NEW s \in Seq(S), NEW k \in 1 .. Len(s), NEW p, Once(s, p)
    PROVE  /\ RemoveAt(s, k) \in Seq(S) /\ Len(RemoveAt(s, k)) = Len(s) - 1
           /\ \A j \in 1 .. Len(RemoveAt(s, k)) :
                 \E m \in 1 .. Len(s) : RemoveAt(s, k)[j] = s[m]
           /\ Once(RemoveAt(s, k), p)
           /\ Has(RemoveAt(s, k), p) => Has(s, p)
           /\ s[k].page = p => ~ Has(RemoveAt(s, k), p)
           /\ s[k].page # p /\ Has(s, p) => Has(RemoveAt(s, k), p)
<1> DEFINE q == RemoveAt(s, k)
           at(j) == IF j < k THEN j ELSE j + 1
<1>1. q \in Seq(S) /\ Len(q) = Len(s) - 1 /\ \A j \in 1 .. Len(s) - 1 : q[j] = s[at(j)]
  BY RemoveAtProperties
<1>2. Len(s) \in Nat
  OBVIOUS
<1> HIDE DEF q
<1>3. ASSUME NEW j \in 1 .. Len(q)
      PROVE at(j) \in 1 .. Len(s) /\ at(j) # k /\ q[j] = s[at(j)]
  BY <1>1, <1>2
<1>4. \A i, j \in 1 .. Len(q) : at(i) = at(j) => i = j
  BY <1>1, <1>2
<1>5. ASSUME NEW m \in 1 .. Len(s), m # k
      PROVE \E j \in 1 .. Len(q) : at(j) = m
  <2>1. CASE m < k
    BY <2>1, <1>1, <1>2
  <2>2. CASE m > k
    <3>1. m - 1 \in 1 .. Len(q) /\ at(m - 1) = m
      BY <2>2, <1>1, <1>2
    <3> QED
      BY <3>1
  <2> QED
    BY <2>1, <2>2, <1>5
<1> HIDE DEF at
<1>6. Once(q, p)
  BY <1>3, <1>4 DEF Once
<1>7. Has(q, p) => Has(s, p)
  BY <1>3 DEF Has
<1>8. s[k].page = p => ~ Has(q, p)
  BY <1>3 DEF Has, Once
<1>9. ASSUME s[k].page # p, Has(s, p)
      PROVE Has(q, p)
  <2>1. PICK m \in 1 .. Len(s) : s[m].page = p
    BY <1>9 DEF Has
  <2>2. PICK j \in 1 .. Len(q) : at(j) = m
    BY <2>1, <1>5, <1>9
  <2> QED
    BY <2>1, <2>2, <1>3 DEF Has
<1>10. \A j \in 1 .. Len(q) : \E m \in 1 .. Len(s) : q[j] = s[m]
  BY <1>3
<1> QED
  BY <1>1, <1>6, <1>7, <1>8, <1>9, <1>10 DEF q

\* What is sent under a page that has nothing under way is the only one of it.
LEMMA Sent ==
    ASSUME NEW S, NEW s \in Seq(S), NEW x \in S, NEW p, Once(s, p)
    PROVE  /\ Append(s, x) \in Seq(S) /\ Len(Append(s, x)) = Len(s) + 1
           /\ \A i \in 1 .. Len(s) : Append(s, x)[i] = s[i]
           /\ Append(s, x)[Len(s) + 1] = x
           /\ x.page # p \/ ~ Has(s, p) => Once(Append(s, x), p)
           /\ Has(Append(s, x), p) <=> Has(s, p) \/ x.page = p
<1> DEFINE q == Append(s, x)
           n == Len(s) + 1
<1>1. /\ q \in Seq(S) /\ Len(q) = n /\ q[n] = x /\ n \in 1 .. Len(q)
      /\ \A i \in 1 .. Len(s) : q[i] = s[i] /\ i \in 1 .. Len(q)
      /\ \A i \in 1 .. Len(q) : i \in 1 .. Len(s) \/ i = n
  OBVIOUS
<1> HIDE DEF q, n
<1>2. x.page # p \/ ~ Has(s, p) => Once(q, p)
  BY <1>1 DEF Once, Has
<1>3. Has(q, p) <=> Has(s, p) \/ x.page = p
  BY <1>1 DEF Has
<1> QED
  BY <1>1, <1>2, <1>3 DEF q, n

LEMMA FlightsAgain ==
    /\ OwnRead <=> Has(reads, routes)
    /\ OwnAnswer <=> Has(answers, routes)
    /\ FlightsOK => Once(reads, routes) /\ Once(answers, routes)
BY DEF OwnRead, OwnAnswer, Has, Once, FlightsOK

\* A step of the console that takes no event leaves what the server has done.
LEMMA SameServer ==
    ASSUME ServerOK, AnnouncedOK, EndedOK, UNCHANGED <<server, incoming>>
    PROVE  ServerOK' /\ AnnouncedOK' /\ EndedOK'
<1>1. length' = length /\ stage' = stage /\ incoming' = incoming
  BY DEF server
<1> QED
  BY <1>1 DEF ServerOK, AnnouncedOK, EndedOK, Said, Announces, Coming

LEMMA ServeNext ==
    ASSUME LiveInv, Serve, LiveTypeOK'
    PROVE  LiveInv'
<1> USE DEF LiveInv
<1>1. PICK n \in 1 .. Len(reads) :
         reads' = RemoveAt(reads, n) /\ answers' = Append(answers, Answer(reads[n]))
  BY DEF Serve
<1>2. /\ length' = length /\ stage' = stage /\ incoming' = incoming /\ online' = online
      /\ route' = route /\ trail' = trail /\ pending' = pending /\ message' = message
      /\ closes' = closes /\ routes' = routes
      /\ reloaded' = reloaded /\ foreign' = foreign /\ cut' = cut
  BY DEF Serve, server, pane, bounds, history
<1> DEFINE r == reads[n]
           a == Answer(r)
<1>3. r \in Reads /\ reads \in Seq(Reads) /\ answers \in Seq(Answers)
  BY ElementOfSeq DEF LiveTypeOK
<1>4. /\ a \in Answers /\ a.thread = r.thread /\ a.page = r.page
      /\ a.tail = length[r.thread]
      /\ \A k \in 1 .. Len(a.entries) : a.entries[k].thread = r.thread
      /\ r.since = 0 => a.entries = Log(r.thread, length[r.thread])
  BY <1>3, AnswerFacts
<1> HIDE DEF a
<1>5. Once(reads, routes) /\ Once(answers, routes)
  BY FlightsAgain
<1>6. /\ Len(reads') = Len(reads) - 1
      /\ \A j \in 1 .. Len(reads') : \E m \in 1 .. Len(reads) : reads'[j] = reads[m]
      /\ Once(reads', routes)
      /\ Has(reads', routes) => Has(reads, routes)
      /\ r.page = routes => ~ Has(reads', routes)
      /\ r.page # routes /\ Has(reads, routes) => Has(reads', routes)
  <2> DEFINE q == RemoveAt(reads, n)
  <2>1. /\ Len(q) = Len(reads) - 1
        /\ \A j \in 1 .. Len(q) : \E m \in 1 .. Len(reads) : q[j] = reads[m]
        /\ Once(q, routes)
        /\ Has(q, routes) => Has(reads, routes)
        /\ reads[n].page = routes => ~ Has(q, routes)
        /\ reads[n].page # routes /\ Has(reads, routes) => Has(q, routes)
    BY <1>3, <1>5, Taken
  <2>2. reads' = q
    BY <1>1
  <2> HIDE DEF q
  <2> QED
    BY <2>1, <2>2
<1>7. /\ Len(answers') = Len(answers) + 1
      /\ \A i \in 1 .. Len(answers) : answers'[i] = answers[i]
      /\ answers'[Len(answers) + 1] = a
      /\ a.page # routes \/ ~ Has(answers, routes) => Once(answers', routes)
      /\ Has(answers', routes) <=> Has(answers, routes) \/ a.page = routes
  BY <1>1, <1>3, <1>4, <1>5, Sent DEF a
<1>8. r.page = routes => Has(reads, routes)
  BY DEF Has
<1>9. ~ (Has(reads, routes) /\ Has(answers, routes))
  BY FlightsAgain DEF FlightsOK
<1>10. r.page <= routes /\ (r.page = routes => r.thread = route)
  BY DEF FlightsOK
<1>11. ASSUME NEW i \in 1 .. Len(answers')
       PROVE (i \in 1 .. Len(answers) /\ answers'[i] = answers[i]) \/ answers'[i] = a
  BY <1>3, <1>7
<1>12. (OwnRead' <=> Has(reads', routes)) /\ (OwnAnswer' <=> Has(answers', routes))
  BY <1>2 DEF OwnRead, OwnAnswer, Has
<1> HIDE DEF r
<1>13. FlightsOK'
  <2>1. \A i \in 1 .. Len(reads') :
           /\ reads'[i].page <= routes
           /\ reads'[i].page = routes => reads'[i].thread = route
    BY <1>6 DEF FlightsOK
  <2>2. \A i \in 1 .. Len(answers') :
           /\ answers'[i].page <= routes
           /\ answers'[i].page = routes => answers'[i].thread = route
           /\ \A k \in 1 .. Len(answers'[i].entries) :
                 answers'[i].entries[k].thread = answers'[i].thread
    BY <1>4, <1>10, <1>11 DEF FlightsOK
  <2>3. Once(answers', routes)
    BY <1>4, <1>7, <1>8, <1>9
  <2>4. ~ (Has(reads', routes) /\ Has(answers', routes))
    BY <1>4, <1>6, <1>7, <1>8, <1>9
  <2>5. /\ \A i, j \in 1 .. Len(reads') : reads'[i].page = routes /\ reads'[j].page = routes => i = j
        /\ \A i, j \in 1 .. Len(answers') :
              answers'[i].page = routes /\ answers'[j].page = routes => i = j
    BY <1>6, <2>3 DEF Once
  <2> QED
    BY <1>2, <1>12, <2>1, <2>2, <2>4, <2>5 DEF FlightsOK
<1>14. AloneOK'
  <2>1. ASSUME ~ foreign, trail.tag = "Success"
        PROVE (OwnRead' => Len(reads') = 1) /\ (OwnAnswer' => reads' = <<>>)
    <3>1. Has(reads, routes) => Len(reads) = 1
      BY <2>1, FlightsAgain DEF AloneOK
    <3>2. ~ Has(answers, routes)
      BY <2>1, FlightsAgain, <1>3 DEF AloneOK
    <3>3. Has(reads, routes) => n = 1 /\ r.page = routes
      <4>1. SUFFICES ASSUME Has(reads, routes)
                     PROVE  n = 1 /\ r.page = routes
        OBVIOUS
      <4>2. PICK i \in 1 .. Len(reads) : reads[i].page = routes
        BY <4>1 DEF Has
      <4>3. Len(reads) = 1
        BY <3>1, <4>1
      <4>4. i = 1 /\ n = 1
        BY <4>3
      <4> QED
        BY <4>2, <4>4 DEF r
    <3>4. ~ OwnRead'
      BY <3>3, <1>6, <1>12
    <3>5. OwnAnswer' => Len(reads') = 0
      BY <3>1, <3>2, <1>4, <1>6, <1>7, <1>8, <1>12
    <3>6. reads' \in Seq(Reads)
      BY DEF LiveTypeOK
    <3> QED
      BY <3>4, <3>5, <3>6, EmptySeq
  <2> QED
    BY <1>2, <2>1 DEF AloneOK
<1>15. FirstOK'
  <2>1. SUFFICES ASSUME ~ foreign, trail.tag # "Success"
                 PROVE  /\ \A i \in 1 .. Len(reads') : reads'[i].page = routes => reads'[i].since = 0
                        /\ \A i \in 1 .. Len(answers') : answers'[i].page = routes =>
                              /\ answers'[i].entries = Log(route, answers'[i].tail)
                              /\ answers'[i].tail <= length[route]
                              /\ \A k \in answers'[i].tail + 1 .. Said(route) :
                                    Coming(route, k) \/ Buffered(k)
    BY ONLY <1>2, <2>1 DEF FirstOK, Said, Coming, Announces, Buffered, Log
  <2>2. /\ \A i \in 1 .. Len(reads) : reads[i].page = routes => reads[i].since = 0
        /\ \A i \in 1 .. Len(answers) : answers[i].page = routes =>
              /\ answers[i].entries = Log(route, answers[i].tail)
              /\ answers[i].tail <= length[route]
              /\ \A k \in answers[i].tail + 1 .. Said(route) : Coming(route, k) \/ Buffered(k)
    BY <2>1 DEF FirstOK
  <2>3. \A i \in 1 .. Len(reads') : reads'[i].page = routes => reads'[i].since = 0
    BY <1>6, <2>2
  <2>4. ASSUME a.page = routes
        PROVE /\ a.entries = Log(route, a.tail)
              /\ a.tail <= length[route]
              /\ \A k \in a.tail + 1 .. Said(route) : FALSE
    <3>1. r.since = 0
      BY <2>2, <2>4, <1>4 DEF r
    <3>2. r.thread = route /\ route \in Threads
      BY <1>3, <1>4, <1>10, <2>4 DEF Reads, r
    <3>3. length[route] \in Nat /\ Said(route) \in Int /\ Said(route) <= length[route]
      BY <3>2, SaidType
    <3> QED
      BY <3>1, <3>2, <3>3, <1>4
  <2> QED
    BY <1>11, <2>2, <2>3, <2>4
<1>16. OfflineOK'
  BY <1>1, <1>2, <1>3 DEF OfflineOK
<1>17. BufferOK' /\ LoadedOK' /\ MessageOK'
  BY <1>2 DEF BufferOK, LoadedOK, MessageOK, Announces, Said, NoEntry
<1>18. WholeOK'
  <2>1. ASSUME ~ OwnRead', ~ OwnAnswer'
        PROVE ~ OwnRead /\ ~ OwnAnswer
    BY <2>1, <1>4, <1>6, <1>7, <1>12, FlightsAgain
  <2> QED
    BY <1>2, <2>1 DEF WholeOK, Log, Said, Coming, Announces
<1>19. ServerOK' /\ AnnouncedOK' /\ EndedOK'
  BY SameServer DEF Serve
<1> QED
  BY <1>13, <1>14, <1>15, <1>16, <1>17, <1>18, <1>19

LEMMA FailedNext ==
    ASSUME LiveInv, TrailFailed, LiveTypeOK'
    PROVE  LiveInv'
<1> USE DEF LiveInv
<1>1. PICK n \in 1 .. Len(reads) : reads' = RemoveAt(reads, n)
  BY DEF TrailFailed
<1>2. /\ length' = length /\ stage' = stage /\ incoming' = incoming /\ answers' = answers
      /\ online' = online /\ route' = route /\ pending' = pending /\ message' = message
      /\ closes' = closes /\ routes' = routes
      /\ reloaded' = reloaded /\ foreign' = foreign /\ cut' = cut
      /\ trail'.tag = "Failure" /\ trail'.entries = <<>>
  BY DEF TrailFailed, server, bounds, history, Unloaded
<1>3. reads \in Seq(Reads) /\ answers \in Seq(Answers)
  BY DEF LiveTypeOK
<1>4. Once(reads, routes)
  BY FlightsAgain
<1>5. /\ \A j \in 1 .. Len(reads') : \E m \in 1 .. Len(reads) : reads'[j] = reads[m]
      /\ Once(reads', routes)
      /\ Has(reads', routes) => Has(reads, routes)
      /\ reads[n].page = routes => ~ Has(reads', routes)
  <2> DEFINE q == RemoveAt(reads, n)
  <2>1. /\ \A j \in 1 .. Len(q) : \E m \in 1 .. Len(reads) : q[j] = reads[m]
        /\ Once(q, routes)
        /\ Has(q, routes) => Has(reads, routes)
        /\ reads[n].page = routes => ~ Has(q, routes)
    BY <1>3, <1>4, Taken
  <2>2. reads' = q
    BY <1>1
  <2> HIDE DEF q
  <2> QED
    BY <2>1, <2>2
<1>6. (OwnRead' <=> Has(reads', routes)) /\ (OwnAnswer' <=> OwnAnswer)
  BY <1>2 DEF OwnRead, OwnAnswer, Has
<1>7. FlightsOK'
  <2>1. \A i \in 1 .. Len(reads') :
           /\ reads'[i].page <= routes
           /\ reads'[i].page = routes => reads'[i].thread = route
    BY <1>5 DEF FlightsOK
  <2>2. ~ (OwnRead' /\ OwnAnswer')
    BY <1>5, <1>6, FlightsAgain DEF FlightsOK
  <2>3. \A i, j \in 1 .. Len(reads') : reads'[i].page = routes /\ reads'[j].page = routes => i = j
    BY <1>5 DEF Once
  <2> QED
    BY <1>2, <2>1, <2>2, <2>3 DEF FlightsOK
<1>8. FirstOK'
  <2>1. SUFFICES ASSUME ~ foreign
                 PROVE  /\ \A i \in 1 .. Len(reads') : reads'[i].page = routes => reads'[i].since = 0
                        /\ \A i \in 1 .. Len(answers) : answers[i].page = routes =>
                              /\ answers[i].entries = Log(route, answers[i].tail)
                              /\ answers[i].tail <= length[route]
                              /\ \A k \in answers[i].tail + 1 .. Said(route) :
                                    Coming(route, k) \/ Buffered(k)
    BY ONLY <1>2, <2>1 DEF FirstOK, Said, Coming, Announces, Buffered, Log
  <2>2. CASE trail.tag # "Success"
    BY <1>5, <2>1, <2>2 DEF FirstOK
  <2>3. CASE trail.tag = "Success"
    <3>1. ~ OwnAnswer
      BY <1>3, <2>1, <2>3 DEF AloneOK
    <3>2. ~ Has(reads', routes)
      <4>1. SUFFICES ASSUME Has(reads, routes)
                     PROVE  reads[n].page = routes
        BY <1>5
      <4>2. Len(reads) = 1
        BY <2>1, <2>3, <4>1, FlightsAgain DEF AloneOK
      <4> QED
        BY <4>1, <4>2 DEF Has
    <3> QED
      BY <3>1, <3>2 DEF OwnAnswer, Has
  <2> QED
    BY <2>2, <2>3
<1>9. AloneOK' /\ LoadedOK' /\ WholeOK'
  BY <1>2 DEF AloneOK, LoadedOK, WholeOK
<1>10. BufferOK' /\ MessageOK'
  BY <1>2 DEF BufferOK, MessageOK, Announces, Said, NoEntry
<1>11. OfflineOK'
  BY <1>1, <1>2, <1>3 DEF OfflineOK
<1>12. ServerOK' /\ AnnouncedOK' /\ EndedOK'
  BY SameServer DEF TrailFailed
<1> QED
  BY <1>7, <1>8, <1>9, <1>10, <1>11, <1>12

LEMMA RouteNext ==
    ASSUME LiveInv, NEW t \in Threads \cup {NoThread}, ChangedRoute(t), LiveTypeOK'
    PROVE  LiveInv'
<1> USE DEF LiveInv
<1>1. /\ length' = length /\ stage' = stage /\ incoming' = incoming /\ answers' = answers
      /\ online' = online /\ route' = t /\ pending' = <<>> /\ message' = NoEntry
      /\ routes' = routes + 1 /\ trail'.tag = "Idle" /\ trail'.entries = <<>>
      /\ reads' = IF t # NoThread /\ online
                  THEN Append(reads, [thread |-> t, since |-> 0, page |-> routes'])
                  ELSE reads
  BY DEF ChangedRoute, server, Unloaded, Read
<1>2. /\ reads \in Seq(Reads) /\ answers \in Seq(Answers) /\ routes \in Nat
      /\ routes' \in 0 .. MaxRoutes
  BY DEF LiveTypeOK
<1>3. /\ \A i \in 1 .. Len(reads) : reads[i].page \in Nat /\ reads[i].page < routes'
      /\ \A i \in 1 .. Len(answers) : answers[i].page \in Nat /\ answers[i].page < routes'
  <2>1. ASSUME NEW i \in 1 .. Len(reads)
        PROVE reads[i].page \in Nat /\ reads[i].page < routes'
    <3>0. reads[i] \in Reads
      BY <1>2, ElementOfSeq
    <3>1. reads[i].page \in Nat
      BY <3>0 DEF Reads
    <3> QED
      BY <1>1, <1>2, <3>1 DEF FlightsOK
  <2>2. ASSUME NEW i \in 1 .. Len(answers)
        PROVE answers[i].page \in Nat /\ answers[i].page < routes'
    <3>0. answers[i] \in Answers
      BY <1>2, ElementOfSeq
    <3>1. answers[i].page \in Nat
      BY <3>0 DEF Answers
    <3> QED
      BY <1>1, <1>2, <3>1 DEF FlightsOK
  <2> QED
    BY <2>1, <2>2
<1>4. ~ OwnAnswer'
  BY <1>1, <1>2, <1>3 DEF OwnAnswer
<1>5. \A i \in 1 .. Len(reads') :
         \/ i \in 1 .. Len(reads) /\ reads'[i] = reads[i]
         \/ i = Len(reads) + 1 /\ reads'[i] = [thread |-> t, since |-> 0, page |-> routes']
  <2> DEFINE x == [thread |-> t, since |-> 0, page |-> routes']
  <2>1. CASE t # NoThread /\ online
    <3>1. reads' = Append(reads, x) /\ x \in Reads
      BY <1>1, <1>2, <2>1, LiveAssumption DEF Reads
    <3> HIDE DEF x
    <3>3. /\ Len(reads') = Len(reads) + 1 /\ reads'[Len(reads) + 1] = x
          /\ \A i \in 1 .. Len(reads) : reads'[i] = reads[i]
          /\ Len(reads) \in Nat
      BY <1>2, <3>1
    <3>4. \A i \in 1 .. Len(reads') : i \in 1 .. Len(reads) \/ i = Len(reads) + 1
      BY <3>3
    <3>2. \A i \in 1 .. Len(reads') : \/ i \in 1 .. Len(reads) /\ reads'[i] = reads[i]
                                      \/ i = Len(reads) + 1 /\ reads'[i] = x
      BY <3>3, <3>4
    <3> QED
      BY <3>2 DEF x
  <2>2. CASE ~ (t # NoThread /\ online)
    BY <1>1, <2>2
  <2> QED
    BY <2>1, <2>2
<1>6. \A i \in 1 .. Len(reads') :
         /\ reads'[i].page <= routes'
         /\ reads'[i].page = routes' =>
              reads'[i].thread = t /\ reads'[i].since = 0 /\ i = Len(reads) + 1
  <2>1. SUFFICES ASSUME NEW i \in 1 .. Len(reads')
                 PROVE  /\ reads'[i].page <= routes'
                        /\ reads'[i].page = routes' =>
                             reads'[i].thread = t /\ reads'[i].since = 0 /\ i = Len(reads) + 1
    OBVIOUS
  <2>2. CASE i \in 1 .. Len(reads) /\ reads'[i] = reads[i]
    <3>1. reads[i].page \in Nat /\ reads[i].page < routes' /\ routes' \in Nat
      BY <1>2, <1>3, <2>2
    <3> QED
      BY <2>2, <3>1
  <2>3. CASE i = Len(reads) + 1 /\ reads'[i] = [thread |-> t, since |-> 0, page |-> routes']
    BY <1>2, <2>3
  <2> QED
    BY <1>5, <2>2, <2>3
<1>7. FlightsOK'
  <2>1. \A i \in 1 .. Len(answers) :
           /\ answers[i].page <= routes' /\ answers[i].page # routes'
           /\ \A k \in 1 .. Len(answers[i].entries) : answers[i].entries[k].thread = answers[i].thread
    BY <1>2, <1>3 DEF FlightsOK
  <2>2. \A i, j \in 1 .. Len(reads') : reads'[i].page = routes' /\ reads'[j].page = routes' => i = j
    BY <1>6
  <2> QED
    BY <1>1, <1>4, <1>6, <2>1, <2>2 DEF FlightsOK
<1>8. AloneOK' /\ LoadedOK' /\ WholeOK' /\ MessageOK'
  BY <1>1 DEF AloneOK, LoadedOK, WholeOK, MessageOK, NoEntry
<1>9. BufferOK'
  BY <1>1 DEF BufferOK
<1>10. FirstOK'
  BY <1>4, <1>6 DEF FirstOK, OwnAnswer
<1>11. OfflineOK'
  BY <1>1 DEF OfflineOK, NoEntry
<1>12. ServerOK' /\ AnnouncedOK' /\ EndedOK'
  BY <1>1, SameServer DEF server
<1> QED
  BY <1>7, <1>8, <1>9, <1>10, <1>11, <1>12

LEMMA ConnectedNext ==
    ASSUME LiveInv, Connected, LiveTypeOK'
    PROVE  LiveInv'
<1> USE DEF LiveInv
<1> DEFINE s == IF trail.tag = "Success" THEN trail.tail ELSE 0
           x == [thread |-> route, since |-> s, page |-> routes]
<1>1. /\ length' = length /\ stage' = stage /\ incoming' = incoming /\ answers' = answers
      /\ online' = TRUE /\ route' = route /\ pending' = pending /\ message' = message
      /\ trail' = trail /\ routes' = routes
      /\ reloaded' = reloaded /\ foreign' = foreign /\ cut' = cut
      /\ ~ online
  BY DEF Connected, server, pane, bounds, history
<1>2. incoming = <<>> /\ reads = <<>> /\ answers = <<>>
  BY <1>1 DEF OfflineOK
<1>3. reads' = IF route = NoThread THEN <<>> ELSE <<x>>
  BY <1>1, <1>2 DEF Connected, Read
<1>4. /\ x.thread = route /\ x.page = routes /\ (trail.tag # "Success" => x.since = 0)
      /\ routes \in Nat
  BY DEF LiveTypeOK
<1> HIDE DEF s, x
<1>5. Len(reads') \in {0, 1} /\ \A i \in 1 .. Len(reads') : i = 1 /\ reads'[i] = x
  BY <1>3
<1>6. ~ OwnAnswer'
  BY <1>1, <1>2 DEF OwnAnswer
<1>7. FlightsOK'
  BY <1>1, <1>2, <1>4, <1>5, <1>6 DEF FlightsOK
<1>8. OwnRead' => Len(reads') = 1
  BY <1>5 DEF OwnRead
<1>9. AloneOK'
  BY <1>6, <1>8 DEF AloneOK
<1>10. FirstOK'
  BY <1>1, <1>2, <1>4, <1>5 DEF FirstOK
<1>11. BufferOK' /\ LoadedOK' /\ MessageOK'
  BY <1>1 DEF BufferOK, LoadedOK, MessageOK, Announces, Said, NoEntry
<1>12. WholeOK'
  <2>1. ASSUME ~ foreign, trail.tag = "Success"
        PROVE OwnRead'
    <3>1. route # NoThread
      BY <2>1, LiveAssumption DEF LoadedOK
    <3>2. Len(reads') = 1 /\ reads'[1] = x
      BY <1>3, <3>1
    <3> QED
      BY <1>1, <1>4, <3>2 DEF OwnRead
  <2> QED
    BY <1>1, <2>1 DEF WholeOK
<1>13. OfflineOK'
  BY <1>1 DEF OfflineOK
<1>14. ServerOK' /\ AnnouncedOK' /\ EndedOK'
  BY <1>1, SameServer DEF server
<1> QED
  BY <1>7, <1>9, <1>10, <1>11, <1>12, <1>13, <1>14

LEMMA ClosedNext ==
    ASSUME LiveInv, ConnectionClosed, LiveTypeOK'
    PROVE  LiveInv'
<1> USE DEF LiveInv
<1>1. /\ length' = length /\ stage' = stage
      /\ incoming' = <<>> /\ reads' = <<>> /\ answers' = <<>>
      /\ online' = FALSE /\ route' = route /\ pending' = pending /\ message' = message
      /\ routes' = routes /\ reloaded' = reloaded /\ foreign' = foreign /\ cut' = TRUE
  BY DEF ConnectionClosed, server
<1>2. \/ trail' = trail /\ reads = <<>> /\ answers = <<>>
      \/ trail'.tag = "Failure" /\ trail'.entries = <<>>
  BY DEF ConnectionClosed, Unloaded
<1>3. ~ OwnRead' /\ ~ OwnAnswer'
  BY <1>1 DEF OwnRead, OwnAnswer
<1>4. ServerOK' /\ AnnouncedOK' /\ EndedOK'
  BY <1>1 DEF ServerOK, AnnouncedOK, EndedOK
<1>5. FlightsOK' /\ AloneOK' /\ FirstOK'
  BY <1>1, <1>3 DEF FlightsOK, AloneOK, FirstOK
<1>6. OfflineOK' /\ MessageOK'
  BY <1>1 DEF OfflineOK, MessageOK
<1>7. LoadedOK'
  BY <1>1, <1>2 DEF LoadedOK
<1>8. BufferOK'
  BY <1>1, <1>2 DEF BufferOK, Said
<1>9. WholeOK'
  <2>1. ASSUME trail'.tag = "Success"
        PROVE trail' = trail /\ ~ OwnRead /\ ~ OwnAnswer
    BY <1>2, <2>1 DEF OwnRead, OwnAnswer
  <2> QED
    BY <1>1, <2>1 DEF WholeOK, Log
<1> QED
  BY <1>4, <1>5, <1>6, <1>7, <1>8, <1>9

\* Taking an event leaves the rest in order.
LEMMA TakenQueue ==
    ASSUME LiveInv, incoming # <<>>, incoming' = Tail(incoming),
           length' = length, stage' = stage
    PROVE  /\ ServerOK' /\ AnnouncedOK' /\ EndedOK'
           /\ \A t \in Threads : \A k :
                 Coming(t, k) /\ ~ (Announces(incoming[1], t) /\ incoming[1].entry.seq = k)
                    => Coming(t, k)'
           /\ \A t \in Threads : Announces(incoming[1], t) =>
                 /\ incoming[1].entry.seq <= Said(t)
                 /\ \A j \in 1 .. Len(incoming') : Announces(incoming'[j], t) =>
                       incoming[1].entry.seq < incoming'[j].entry.seq
<1> USE DEF LiveInv
<1>1. /\ incoming' \in Seq(Events) /\ Len(incoming') = Len(incoming) - 1 /\ Len(incoming) >= 1
      /\ \A i \in 1 .. Len(incoming') : i + 1 \in 2 .. Len(incoming) /\ incoming'[i] = incoming[i + 1]
      /\ \A i \in 2 .. Len(incoming) : i - 1 \in 1 .. Len(incoming') /\ incoming'[i - 1] = incoming[i]
  BY TailFacts
<1>2. Len(incoming) \in Nat /\ 1 \in 1 .. Len(incoming)
  BY <1>1 DEF LiveTypeOK
<1>3. \A i \in 1 .. Len(incoming') :
         i + 1 \in 1 .. Len(incoming) /\ i + 1 # 1 /\ 1 < i + 1 /\ incoming'[i] = incoming[i + 1]
  BY <1>1, <1>2
<1>4. \A j \in 1 .. Len(incoming) : j # 1 => j \in 2 .. Len(incoming)
  BY <1>2
<1>5. \A t \in Threads : Said(t)' = Said(t)
  BY DEF Said
<1>6. ASSUME NEW t \in Threads, NEW k, Coming(t, k),
             ~ (Announces(incoming[1], t) /\ incoming[1].entry.seq = k)
      PROVE Coming(t, k)'
  <2>1. PICK j \in 1 .. Len(incoming) : Announces(incoming[j], t) /\ incoming[j].entry.seq = k
    BY <1>6 DEF Coming
  <2>2. j \in 2 .. Len(incoming)
    BY <2>1, <1>4, <1>6
  <2> DEFINE i == j - 1
  <2>3. i \in 1 .. Len(incoming') /\ incoming'[i] = incoming[j]
    BY <2>2, <1>1
  <2> HIDE DEF i
  <2>4. Announces(incoming'[i], t) /\ incoming'[i].entry.seq = k
    BY <2>1, <2>3
  <2> QED
    BY <2>3, <2>4 DEF Coming, Announces
<1>7. \A t \in Threads : Announces(incoming[1], t) =>
         /\ incoming[1].entry.seq <= Said(t)
         /\ \A j \in 1 .. Len(incoming') : Announces(incoming'[j], t) =>
               incoming[1].entry.seq < incoming'[j].entry.seq
  BY <1>2, <1>3 DEF AnnouncedOK
<1>8. ServerOK'
  BY <1>3 DEF ServerOK
<1>9. AnnouncedOK'
  <2>1. SUFFICES ASSUME NEW t \in Threads, NEW i \in 1 .. Len(incoming'), Announces(incoming'[i], t)
                 PROVE  /\ incoming'[i].entry.seq <= Said(t)
                        /\ \A j \in 1 .. Len(incoming') : i < j /\ Announces(incoming'[j], t) =>
                              incoming'[i].entry.seq < incoming'[j].entry.seq
                        /\ \A k \in incoming'[i].entry.seq + 1 .. Said(t) : Coming(t, k)'
    BY <1>5 DEF AnnouncedOK, Announces
  <2> DEFINE n == i + 1
  <2>2. n \in 1 .. Len(incoming) /\ 1 < n /\ incoming'[i] = incoming[n] /\ Announces(incoming[n], t)
    BY <1>3, <2>1
  <2>3. \A j \in 1 .. Len(incoming') : i < j => n < j + 1
    BY <1>1
  <2> HIDE DEF n
  <2>4. incoming[n].entry.seq \in Nat /\ Said(t) \in Int
    BY <2>2, EventType, SaidType
  <2>5. /\ incoming[n].entry.seq <= Said(t)
        /\ \A j \in 1 .. Len(incoming) : n < j /\ Announces(incoming[j], t) =>
              incoming[n].entry.seq < incoming[j].entry.seq
        /\ \A k \in incoming[n].entry.seq + 1 .. Said(t) : Coming(t, k)
    BY <2>2 DEF AnnouncedOK
  <2>6. ASSUME NEW j \in 1 .. Len(incoming'), i < j, Announces(incoming'[j], t)
        PROVE incoming'[i].entry.seq < incoming'[j].entry.seq
    <3> DEFINE m == j + 1
    <3>1. m \in 1 .. Len(incoming) /\ n < m /\ incoming'[j] = incoming[m]
      BY <1>3, <2>3, <2>6
    <3> HIDE DEF m
    <3> QED
      BY <3>1, <2>2, <2>5, <2>6
  <2>7. ASSUME NEW k \in incoming'[i].entry.seq + 1 .. Said(t)
        PROVE Coming(t, k)'
    <3>1. Coming(t, k) /\ k \in Int /\ k > incoming[n].entry.seq
      BY <2>2, <2>4, <2>5
    <3>2. Announces(incoming[1], t) => incoming[1].entry.seq < incoming[n].entry.seq
      BY <1>2, <2>2 DEF AnnouncedOK
    <3>3. incoming[1].entry.seq \in Nat
      BY <1>2, EventType
    <3>4. ~ (Announces(incoming[1], t) /\ incoming[1].entry.seq = k)
      BY <3>1, <3>2, <3>3, <2>4
    <3> QED
      BY <3>1, <3>4, <1>6
  <2> QED
    BY <2>2, <2>5, <2>6, <2>7
<1>10. EndedOK'
  <2>1. SUFFICES ASSUME NEW t \in Threads, NEW i \in 1 .. Len(incoming'), stage'[t] = "settled",
                        incoming'[i].type \in {"message_start", "message_end"},
                        incoming'[i].entry.thread = t
                 PROVE  \E j \in 1 .. Len(incoming') :
                           i < j /\ incoming'[j].type = "settled" /\ incoming'[j].entry.thread = t
    BY ONLY <2>1 DEF EndedOK
  <2> DEFINE n == i + 1
  <2>2. n \in 1 .. Len(incoming) /\ incoming'[i] = incoming[n] /\ 1 < n /\ n \in Nat /\ n = i + 1
    BY <1>3, <2>1
  <2> HIDE DEF n
  <2>3. PICK j \in 1 .. Len(incoming) :
           n < j /\ incoming[j].type = "settled" /\ incoming[j].entry.thread = t
    BY <2>1, <2>2 DEF EndedOK
  <2> DEFINE m == j - 1
  <2>4. m \in 1 .. Len(incoming') /\ incoming'[m] = incoming[j] /\ i < m
    BY <1>1, <1>2, <2>2, <2>3
  <2> HIDE DEF m
  <2> QED
    BY <2>3, <2>4
<1> QED
  BY <1>6, <1>7, <1>8, <1>9, <1>10

\* What comes behind the first event still comes when it is taken.
LEMMA TakenSettled ==
    ASSUME LiveTypeOK, incoming # <<>>, incoming' = Tail(incoming), NEW t,
           \E i \in 1 .. Len(incoming) :
              i # 1 /\ incoming[i].type = "settled" /\ incoming[i].entry.thread = t
    PROVE  \E i \in 1 .. Len(incoming') : incoming'[i].type = "settled" /\ incoming'[i].entry.thread = t
<1>1. PICK j \in 1 .. Len(incoming) :
         j # 1 /\ incoming[j].type = "settled" /\ incoming[j].entry.thread = t
  OBVIOUS
<1> DEFINE m == j - 1
<1>2. j \in 2 .. Len(incoming)
  BY <1>1 DEF LiveTypeOK
<1>3. m \in 1 .. Len(incoming') /\ incoming'[m] = incoming[j]
  BY <1>2, TailFacts
<1> HIDE DEF m
<1> QED
  BY <1>1, <1>3

\* An event that adds nothing to the trail or the buffer.
LEMMA NothingNew ==
    ASSUME LiveInv, LiveTypeOK', ReceiveEvent, trail' = trail, pending' = pending,
           \/ ~ Announces(incoming[1], route)
           \/ trail.tag = "Success" /\ incoming[1].entry.seq <= trail.tail
    PROVE  FirstOK' /\ BufferOK' /\ LoadedOK' /\ WholeOK'
<1> USE DEF LiveInv
<1>1. /\ incoming # <<>> /\ incoming' = Tail(incoming) /\ length' = length /\ stage' = stage
      /\ reads' = reads /\ answers' = answers /\ online' = online /\ route' = route
      /\ routes' = routes /\ reloaded' = reloaded /\ foreign' = foreign
  BY DEF ReceiveEvent, server, bounds, history
<1>2. \A t \in Threads : \A k :
         Coming(t, k) /\ ~ (Announces(incoming[1], t) /\ incoming[1].entry.seq = k) => Coming(t, k)'
  BY <1>1, TakenQueue
<1>3. \A i \in 1 .. Len(incoming') : i + 1 \in 1 .. Len(incoming) /\ incoming'[i] = incoming[i + 1]
  BY <1>1, TailFacts DEF LiveTypeOK
<1>4. LoadedOK'
  BY <1>1 DEF LoadedOK
<1>5. BufferOK'
  <2>1. \A i \in 1 .. Len(pending) : \A j \in 1 .. Len(incoming') : Announces(incoming'[j], route) =>
           pending[i].seq < incoming'[j].entry.seq
    BY <1>3 DEF BufferOK
  <2> QED
    BY <1>1, <2>1 DEF BufferOK, Said, Announces
<1>6. FirstOK'
  <2>1. SUFFICES ASSUME ~ foreign, trail.tag # "Success"
                 PROVE  \A i \in 1 .. Len(answers) : answers[i].page = routes =>
                           \A k \in answers[i].tail + 1 .. Said(route) :
                                    Coming(route, k)' \/ Buffered(k)
    BY <1>1 DEF FirstOK, Said, Buffered, Log
  <2>2. SUFFICES ASSUME NEW i \in 1 .. Len(answers), answers[i].page = routes,
                        NEW k \in answers[i].tail + 1 .. Said(route)
                 PROVE  Coming(route, k)' \/ Buffered(k)
    OBVIOUS
  <2>3. Coming(route, k) \/ Buffered(k)
    BY <2>1, <2>2 DEF FirstOK
  <2>4. answers[i] \in Answers
    BY ElementOfSeq DEF LiveTypeOK
  <2>5. route \in Threads
    BY <2>2, <2>4 DEF FlightsOK, Answers
  <2> QED
    BY <2>1, <2>3, <2>5, <1>1, <1>2
<1>7. WholeOK'
  <2>1. SUFFICES ASSUME ~ foreign, ~ reloaded, trail.tag = "Success", ~ OwnRead, ~ OwnAnswer,
                        online, NEW k \in trail.tail + 1 .. Said(route)
                 PROVE  Coming(route, k)'
    BY <1>1 DEF WholeOK, Said, OwnRead, OwnAnswer, Log
  <2>2. Coming(route, k)
    BY <2>1 DEF WholeOK
  <2>3. route \in Threads /\ trail.tail \in Nat /\ k > trail.tail
    BY <2>1, SaidType DEF LoadedOK, LiveTypeOK, Trails
  <2>4. incoming[1].entry.seq \in Nat
    BY <1>1, TailFacts DEF Events
  <2>5. ~ (Announces(incoming[1], route) /\ incoming[1].entry.seq = k)
    BY <2>1, <2>3, <2>4
  <2> QED
    BY <2>2, <2>3, <2>5, <1>1, <1>2
<1> QED
  BY <1>4, <1>5, <1>6, <1>7

LEMMA ReceiveNext ==
    ASSUME LiveInv, ReceiveEvent, LiveTypeOK'
    PROVE  LiveInv'
<1> USE DEF LiveInv
<1> DEFINE e == incoming[1]
<1>1. /\ incoming # <<>> /\ incoming' = Tail(incoming) /\ length' = length /\ stage' = stage
      /\ reads' = reads /\ answers' = answers /\ online' = online /\ route' = route
      /\ routes' = routes /\ reloaded' = reloaded /\ foreign' = foreign /\ cut' = cut
  BY DEF ReceiveEvent, server, bounds, history
<1>2. Head(incoming) = e /\ e \in Events /\ 1 \in 1 .. Len(incoming) /\ Len(incoming) \in Nat
  BY <1>1, TailFacts DEF LiveTypeOK
<1>3. IF e.entry.thread = route THEN FoldLive(e) ELSE UNCHANGED pane
  BY <1>2 DEF ReceiveEvent
<1>4. ServerOK' /\ AnnouncedOK' /\ EndedOK'
  BY <1>1, TakenQueue
<1>5. online
  BY <1>1 DEF OfflineOK
<1>6. OfflineOK' /\ FlightsOK'
  BY <1>1, <1>5 DEF OfflineOK, FlightsOK, OwnRead, OwnAnswer
<1>7. ASSUME trail'.tag = trail.tag
      PROVE AloneOK'
  BY <1>1, <1>7 DEF AloneOK, OwnRead, OwnAnswer
<1>8. e.entry.thread \in Threads /\ e.entry.seq \in Nat
  BY <1>2 DEF Events
<1>9. ASSUME message' = message, ~ (e.type = "settled" /\ e.entry.thread = route)
      PROVE MessageOK'
  <2>1. SUFFICES ASSUME ~ cut, route # NoThread, stage[route] = "settled", message # NoEntry
                 PROVE  \E i \in 1 .. Len(incoming') :
                           incoming'[i].type = "settled" /\ incoming'[i].entry.thread = route
    BY <1>1, <1>9 DEF MessageOK, NoEntry
  <2>2. \E i \in 1 .. Len(incoming) :
           i # 1 /\ incoming[i].type = "settled" /\ incoming[i].entry.thread = route
    BY <2>1, <1>9 DEF MessageOK
  <2> QED
    BY <1>1, <2>2, TakenSettled
<1>10. message' = NoEntry => MessageOK'
  BY DEF MessageOK, NoEntry
<1>11. CASE UNCHANGED pane /\ e.entry.thread # route
  <2>1. trail' = trail /\ pending' = pending /\ message' = message
    BY <1>11 DEF pane
  <2>2. FirstOK' /\ BufferOK' /\ LoadedOK' /\ WholeOK'
    BY <1>11, <2>1, NothingNew DEF Announces
  <2>3. AloneOK' /\ MessageOK'
    BY <2>1, <1>7, <1>9, <1>11
  <2> QED
    BY <2>2, <2>3, <1>4, <1>6
<1>12. CASE /\ e.entry.thread = route /\ e.type \in {"message_start", "message_end"}
            /\ message' = e.entry /\ UNCHANGED <<trail, pending>>
  <2>1. FirstOK' /\ BufferOK' /\ LoadedOK' /\ WholeOK'
    BY <1>12, NothingNew DEF Announces
  <2>2. AloneOK'
    BY <1>7, <1>12
  <2>3. MessageOK'
    <3>1. SUFFICES ASSUME stage[route] = "settled"
                   PROVE  \E i \in 1 .. Len(incoming') :
                             incoming'[i].type = "settled" /\ incoming'[i].entry.thread = route
      BY <1>1 DEF MessageOK
    <3>2. PICK j \in 1 .. Len(incoming) :
             1 < j /\ incoming[j].type = "settled" /\ incoming[j].entry.thread = route
      BY <1>2, <1>8, <1>12, <3>1 DEF EndedOK
    <3>3. j # 1
      BY <3>2
    <3> QED
      BY <1>1, <3>2, <3>3, TakenSettled
  <2> QED
    BY <2>1, <2>2, <2>3, <1>4, <1>6
<1>13. CASE e.type = "settled" /\ message' = NoEntry /\ UNCHANGED <<trail, pending>>
  <2>1. FirstOK' /\ BufferOK' /\ LoadedOK' /\ WholeOK'
    BY <1>13, NothingNew DEF Announces
  <2>2. AloneOK' /\ MessageOK'
    BY <1>7, <1>10, <1>13
  <2> QED
    BY <2>1, <2>2, <1>4, <1>6
<1>14. CASE /\ Announces(e, route) /\ trail.tag = "Success" /\ e.entry.seq <= trail.tail
            /\ UNCHANGED pane
  <2>1. trail' = trail /\ pending' = pending /\ message' = message
    BY <1>14 DEF pane
  <2>2. FirstOK' /\ BufferOK' /\ LoadedOK' /\ WholeOK'
    BY <1>14, <2>1, NothingNew
  <2>3. AloneOK' /\ MessageOK'
    BY <2>1, <1>7, <1>9, <1>14 DEF Announces
  <2> QED
    BY <2>2, <2>3, <1>4, <1>6
<1>15. \A t \in Threads : \A k : Coming(t, k) /\ ~ (Announces(e, t) /\ e.entry.seq = k) => Coming(t, k)'
  BY <1>1, TakenQueue
<1>16. ASSUME Announces(e, route)
       PROVE /\ route \in Threads /\ e.entry.seq <= Said(route)
             /\ \A j \in 1 .. Len(incoming') : Announces(incoming'[j], route) =>
                   e.entry.seq < incoming'[j].entry.seq
             /\ \A j \in 1 .. Len(incoming) : 1 < j /\ Announces(incoming[j], route) =>
                   e.entry.seq < incoming[j].entry.seq
             /\ e.entry = [thread |-> route, seq |-> e.entry.seq] /\ e.entry \in Entries
  <2>1. route \in Threads
    BY <1>8, <1>16 DEF Announces
  <2>2. e.entry.seq >= 1
    BY <1>2, <1>16 DEF ServerOK, Announces
  <2>3. e.entry = [thread |-> route, seq |-> e.entry.seq] /\ e.entry \in Entries
    BY <1>2, <1>16, <2>2, LiveAssumption DEF Events, Entries, Announces
  <2>4. /\ e.entry.seq <= Said(route)
        /\ \A j \in 1 .. Len(incoming') : Announces(incoming'[j], route) =>
              e.entry.seq < incoming'[j].entry.seq
    BY <1>1, <1>16, <2>1, TakenQueue
  <2>5. \A j \in 1 .. Len(incoming) : 1 < j /\ Announces(incoming[j], route) =>
           e.entry.seq < incoming[j].entry.seq
    BY <1>2, <1>16, <2>1 DEF AnnouncedOK
  <2> QED
    BY <2>1, <2>3, <2>4, <2>5
<1>17. \A i \in 1 .. Len(incoming') : i + 1 \in 1 .. Len(incoming) /\ incoming'[i] = incoming[i + 1]
  BY <1>1, TailFacts DEF LiveTypeOK
<1>18. CASE /\ Announces(e, route) /\ trail.tag # "Success"
            /\ pending' = Append(pending, e.entry) /\ UNCHANGED <<trail, message>>
  <2> DEFINE n == Len(pending) + 1
  <2>1. pending \in Seq(Entries) /\ Len(pending) \in Nat /\ e.entry \in Entries
    BY <1>16, <1>18 DEF LiveTypeOK
  <2> HIDE DEF e
  <2>2. /\ Len(pending') = n /\ pending'[n] = e.entry
        /\ \A i \in 1 .. Len(pending) : pending'[i] = pending[i]
    BY <1>18, <2>1
  <2>3. /\ n \in 1 .. n /\ n = Len(pending) + 1
        /\ \A i \in 1 .. n : i \in 1 .. Len(pending) \/ i = n
        /\ \A i \in 1 .. Len(pending) : i \in 1 .. n /\ i < n
    BY <2>1
  <2> HIDE DEF n
  <2>4. \A i \in 1 .. Len(pending) : pending[i].thread = route /\ pending[i].seq < e.entry.seq
    BY <1>2, <1>18 DEF BufferOK, e
  <2>5. BufferOK'
    <3>1. ASSUME NEW i \in 1 .. n
          PROVE /\ pending'[i].thread = route /\ pending'[i].seq <= Said(route)
                /\ \A j \in 1 .. n : i < j => pending'[i].seq < pending'[j].seq
                /\ \A j \in 1 .. Len(incoming') : Announces(incoming'[j], route) =>
                      pending'[i].seq < incoming'[j].entry.seq
      <4>1. CASE i = n
        <5>1. \A j \in 1 .. n : ~ (i < j)
          BY <4>1, <2>1, <2>3
        <5>2. pending'[i].thread = route /\ pending'[i].seq = e.entry.seq
          BY <4>1, <2>2, <1>18 DEF Announces
        <5> QED
          BY <5>1, <5>2, <1>16, <1>18
      <4>2. CASE i \in 1 .. Len(pending)
        <5>1. pending'[i] = pending[i]
          BY <2>2, <4>2
        <5>2. /\ pending[i].thread = route /\ pending[i].seq <= Said(route)
              /\ \A j \in 1 .. Len(pending) : i < j => pending[i].seq < pending[j].seq
              /\ \A j \in 1 .. Len(incoming) : Announces(incoming[j], route) =>
                    pending[i].seq < incoming[j].entry.seq
          BY <4>2 DEF BufferOK
        <5>3. \A j \in 1 .. n : i < j => pending[i].seq < pending'[j].seq
          BY <2>2, <2>3, <2>4, <4>2, <5>2
        <5>4. \A j \in 1 .. Len(incoming') : Announces(incoming'[j], route) =>
                 pending[i].seq < incoming'[j].entry.seq
          BY <1>17, <5>2
        <5> QED
          BY <5>1, <5>2, <5>3, <5>4
      <4> QED
        BY <4>1, <4>2, <2>3
    <3>2. trail'.tag # "Success"
      BY <1>18
    <3> QED
      BY <1>1, <2>2, <3>1, <3>2 DEF BufferOK, Said, Announces
  <2>6. FirstOK'
    <3>1. SUFFICES ASSUME ~ foreign,
                          NEW i \in 1 .. Len(answers), answers[i].page = routes,
                          NEW k \in answers[i].tail + 1 .. Said(route)
                   PROVE  Coming(route, k)' \/ Buffered(k)'
      BY <1>1, <1>18 DEF FirstOK, Said, Log
    <3>2. Coming(route, k) \/ Buffered(k)
      BY <3>1, <1>18 DEF FirstOK
    <3>3. CASE Buffered(k)
      BY <3>3, <2>2, <2>3 DEF Buffered
    <3>4. CASE e.entry.seq = k
      BY <3>4, <2>2, <2>3 DEF Buffered
    <3>5. CASE Coming(route, k) /\ e.entry.seq # k
      BY <3>5, <1>1, <1>15, <1>16, <1>18
    <3> QED
      BY <3>2, <3>3, <3>4, <3>5
  <2>7. LoadedOK' /\ WholeOK' /\ AloneOK'
    BY <1>1, <1>7, <1>18 DEF LoadedOK, WholeOK
  <2>8. MessageOK'
    BY <1>9, <1>18 DEF Announces, e
  <2> QED
    BY <2>5, <2>6, <2>7, <2>8, <1>4, <1>6
<1>19. CASE /\ Announces(e, route) /\ trail.tag = "Success" /\ ~ (e.entry.seq <= trail.tail)
            /\ trail' = [trail EXCEPT !.entries = Append(@, e.entry), !.tail = e.entry.seq]
            /\ message' = NoEntry /\ pending' = pending
  <2> DEFINE s == trail.entries
             n == Len(s) + 1
             k == e.entry.seq
  <2>1. /\ trail \in Trails /\ s \in Seq(Entries) /\ Len(s) \in Nat /\ trail.tail \in Nat
        /\ e.entry \in Entries
    BY <1>16, <1>19 DEF LiveTypeOK, Trails
  <2>2. trail'.tag = "Success" /\ trail'.entries = Append(s, e.entry) /\ trail'.tail = k
    BY <1>19, <2>1 DEF Trails
  <2>3. k \in Nat /\ k > trail.tail /\ e.entry.thread = route
    BY <1>8, <1>19, <2>1 DEF Announces
  <2> HIDE DEF e, s
  <2>4. /\ Len(trail'.entries) = n /\ trail'.entries[n] = e.entry
        /\ \A i \in 1 .. Len(s) : trail'.entries[i] = s[i]
    BY <2>1, <2>2
  <2>5. /\ n \in 1 .. n /\ n = Len(s) + 1
        /\ \A i \in 1 .. n : i \in 1 .. Len(s) \/ i = n
        /\ \A i \in 1 .. Len(s) : i \in 1 .. n /\ i < n
    BY <2>1
  <2> HIDE DEF n
  <2>6. LoadedOK'
    <3>1. SUFFICES ASSUME ~ foreign
                   PROVE  /\ route \in Threads
                          /\ \A i \in 1 .. n :
                                /\ trail'.entries[i].thread = route /\ trail'.entries[i].seq <= k
                                /\ \A j \in 1 .. n : i < j =>
                                      trail'.entries[i].seq < trail'.entries[j].seq
      BY <1>1, <2>2, <2>4 DEF LoadedOK
    <3>2. /\ route \in Threads
          /\ \A i \in 1 .. Len(s) :
                /\ s[i].thread = route /\ s[i].seq <= trail.tail
                /\ \A j \in 1 .. Len(s) : i < j => s[i].seq < s[j].seq
      BY <3>1, <1>19 DEF LoadedOK, s
    <3>3. \A i \in 1 .. Len(s) : s[i].seq < k
      <4>1. ASSUME NEW i \in 1 .. Len(s)
            PROVE s[i].seq < k
        <5>1. s[i] \in Entries
          BY <2>1, ElementOfSeq
        <5>2. s[i].seq \in Nat
          BY <5>1 DEF Entries
        <5> QED
          BY <5>2, <3>2, <2>1, <2>3
      <4> QED
        BY <4>1
    <3>4. ASSUME NEW i \in 1 .. n
          PROVE /\ trail'.entries[i].thread = route /\ trail'.entries[i].seq <= k
                /\ \A j \in 1 .. n : i < j => trail'.entries[i].seq < trail'.entries[j].seq
      <4>1. CASE i = n
        <5>1. \A j \in 1 .. n : ~ (i < j)
          BY <4>1, <2>1, <2>5
        <5> QED
          BY <4>1, <5>1, <2>3, <2>4
      <4>2. CASE i \in 1 .. Len(s)
        <5>1. trail'.entries[i] = s[i] /\ s[i] \in Entries
          BY <4>2, <2>1, <2>4, ElementOfSeq
        <5>2. s[i].seq <= k
          BY <5>1, <4>2, <3>3, <2>3 DEF Entries
        <5>3. \A j \in 1 .. n : i < j => s[i].seq < trail'.entries[j].seq
          BY <4>2, <2>4, <2>5, <3>2, <3>3
        <5> QED
          BY <5>1, <5>2, <5>3, <4>2, <3>2
      <4> QED
        BY <4>1, <4>2, <2>5
    <3> QED
      BY <3>2, <3>4
  <2>7. WholeOK'
    <3>1. SUFFICES ASSUME ~ foreign, ~ reloaded, ~ OwnRead, ~ OwnAnswer
                   PROVE  /\ trail'.entries = Log(route, k)
                          /\ k <= length[route]
                          /\ \A m \in k + 1 .. Said(route) : Coming(route, m)'
      BY <1>1, <2>2 DEF WholeOK, OwnRead, OwnAnswer, Said, Log
    <3>2. /\ s = Log(route, trail.tail)
          /\ \A m \in trail.tail + 1 .. Said(route) : Coming(route, m)
      BY <3>1, <1>5, <1>19 DEF WholeOK, s
    <3>3. route \in Threads /\ k <= Said(route) /\ Said(route) \in Int /\ length[route] \in Nat
          /\ Said(route) <= length[route]
      BY <1>16, <1>19, SaidType
    <3>4. k = trail.tail + 1
      <4>1. SUFFICES ASSUME k # trail.tail + 1
                     PROVE FALSE
        OBVIOUS
      <4>2. trail.tail + 1 < k /\ trail.tail + 1 \in trail.tail + 1 .. Said(route)
        BY <4>1, <2>1, <2>3, <3>3
      <4>3. PICK j \in 1 .. Len(incoming) :
               Announces(incoming[j], route) /\ incoming[j].entry.seq = trail.tail + 1
        BY <3>2, <4>2 DEF Coming
      <4>4. j # 1
        BY <4>1, <4>3 DEF e
      <4>5. 1 < j
        BY <4>4, <1>2
      <4>6. k < trail.tail + 1
        BY <1>16, <1>19, <4>3, <4>5
      <4> QED
        BY <4>2, <4>6, <2>1, <2>3
    <3>5. trail'.entries = Log(route, k)
      <4>1. e.entry = [thread |-> route, seq |-> k]
        BY <1>16, <1>19
      <4>2. Len(s) = trail.tail /\ \A i \in 1 .. Len(s) : s[i] = [thread |-> route, seq |-> i]
        <5>1. s = [i \in 1 .. trail.tail |-> [thread |-> route, seq |-> i]]
          BY <3>2 DEF Log
        <5>2. DOMAIN s = 1 .. trail.tail /\ DOMAIN s = 1 .. Len(s)
          BY <5>1, <2>1, LenProperties
        <5>3. Len(s) = trail.tail
          BY <5>2, <2>1
        <5> QED
          BY <5>1, <5>3
      <4>3. n = k
        BY <4>2, <3>4, <2>5
      <4>4. trail'.entries \in Seq(Entries)
        BY <2>1, <2>2
      <4>5. trail'.entries = [i \in 1 .. n |-> trail'.entries[i]]
        BY <4>4, <2>4, LenProperties
      <4>6. \A i \in 1 .. n : trail'.entries[i] = [thread |-> route, seq |-> i]
        BY <4>1, <4>2, <4>3, <2>4, <2>5
      <4> QED
        BY <4>3, <4>5, <4>6 DEF Log
    <3>6. ASSUME NEW m \in k + 1 .. Said(route)
          PROVE Coming(route, m)'
      <4>1. m \in trail.tail + 1 .. Said(route) /\ m # k
        BY <3>3, <3>4, <2>1, <2>3
      <4>2. Coming(route, m)
        BY <3>2, <4>1
      <4> QED
        BY <1>1, <1>15, <3>3, <4>1, <4>2
    <3> QED
      BY <3>3, <3>5, <3>6, <2>3
  <2>8. BufferOK'
    <3>1. pending = <<>>
      BY <1>19 DEF BufferOK
    <3> QED
      BY <1>19, <3>1 DEF BufferOK
  <2>9. FirstOK' /\ AloneOK' /\ MessageOK'
    BY <1>7, <1>10, <1>19, <2>2 DEF FirstOK
  <2> QED
    BY <2>6, <2>7, <2>8, <2>9, <1>4, <1>6
<1> HIDE DEF e
<1>20. ASSUME e.entry.thread = route
       PROVE FoldLive(e)
  BY <1>3, <1>20
<1>21. CASE e.entry.thread = route /\ e.type = "entry_appended" /\ FoldEntryAppended(e.entry)
  <2>1. Announces(e, route)
    BY <1>21 DEF Announces
  <2> QED
    BY <1>14, <1>18, <1>19, <1>21, <2>1 DEF FoldEntryAppended
<1> QED
  BY <1>3, <1>11, <1>12, <1>13, <1>21 DEF FoldLive

\* The first read of a page, merged with what came too early for it, is the log
\* up to the last of the two.
LEMMA FirstLanding ==
    ASSUME LiveInv, NEW n \in 1 .. Len(answers), answers[n].page = routes,
           ~ foreign, trail.tag # "Success"
    PROVE  \E last \in 0 .. MaxSeq :
              /\ answers[n].tail <= last /\ last <= length[route]
              /\ Merged(answers[n].entries, pending) = Log(route, last)
              /\ \A k \in last + 1 .. Said(route) : Coming(route, k)
<1> USE DEF LiveInv
<1> DEFINE a == answers[n]
           p == Len(pending)
           last == IF p = 0 THEN a.tail ELSE Larger(a.tail, pending[p].seq)
<1>1. a \in Answers
  BY ElementOfSeq DEF LiveTypeOK
<1>2. /\ route \in Threads /\ a.tail \in 0 .. MaxSeq /\ a.tail \in Nat /\ a.entries \in Seq(Entries)
      /\ MaxSeq \in Nat
  BY <1>1, LiveAssumption DEF FlightsOK, Answers
<1>3. /\ a.entries = Log(route, a.tail) /\ a.tail <= length[route]
      /\ \A k \in a.tail + 1 .. Said(route) : Coming(route, k) \/ Buffered(k)
  BY DEF FirstOK
<1>4. /\ Said(route) \in Int /\ length[route] \in Nat /\ Said(route) <= length[route]
      /\ length[route] <= MaxSeq
  BY <1>2, SaidType DEF LiveTypeOK
<1>5. pending \in Seq(Entries) /\ p \in Nat
  BY DEF LiveTypeOK
<1>6. ASSUME NEW i \in 1 .. p
      PROVE /\ pending[i].seq \in Nat /\ pending[i].seq >= 1 /\ pending[i].seq <= Said(route)
            /\ pending[i] = [thread |-> route, seq |-> pending[i].seq]
            /\ \A j \in 1 .. p : i < j => pending[i].seq < pending[j].seq
            /\ \A j \in 1 .. Len(incoming) : Announces(incoming[j], route) =>
                  pending[i].seq < incoming[j].entry.seq
  <2>1. pending[i] \in Entries
    BY <1>5, ElementOfSeq
  <2>2. pending[i].thread = route
    BY DEF BufferOK
  <2> QED
    BY <2>1, <2>2, <1>2 DEF BufferOK, Entries
<1> HIDE DEF a
<1>6a. \A i \in 1 .. p :
          pending[i].seq \in Nat /\ pending[i].seq >= 1 /\ pending[i].seq <= Said(route)
  BY <1>6
<1>6b. \A i, j \in 1 .. p : i < j => pending[i].seq < pending[j].seq
  BY <1>6
<1> HIDE DEF p
<1>7. ASSUME NEW i \in 1 .. p
      PROVE pending[i].seq <= pending[p].seq /\ p \in 1 .. p
  <2>1. p \in 1 .. p
    BY <1>5
  <2>2. CASE i = p
    BY <2>1, <2>2, <1>6a
  <2>3. CASE i < p
    BY <2>1, <2>3, <1>6a, <1>6b
  <2> QED
    BY <2>1, <2>2, <2>3, <1>5
<1>8. /\ last \in Nat /\ a.tail <= last /\ last <= length[route]
      /\ p # 0 => pending[p].seq <= last
      /\ last = a.tail \/ (p \in 1 .. p /\ last = pending[p].seq)
  <2>1. CASE p = 0
    BY <2>1, <1>2, <1>3
  <2>2. CASE p # 0
    <3>1. p \in 1 .. p
      BY <2>2, <1>5 DEF p
    <3>2. pending[p].seq \in Nat /\ pending[p].seq <= length[route]
      BY <3>1, <1>4, <1>6a
    <3> QED
      BY <2>2, <3>1, <3>2, <1>2, <1>3 DEF Larger
  <2> QED
    BY <2>1, <2>2
<1> HIDE DEF last
<1>9. ASSUME NEW k, Coming(route, k), NEW i \in 1 .. p
      PROVE pending[i].seq < k
  <2>1. PICK j \in 1 .. Len(incoming) : Announces(incoming[j], route) /\ incoming[j].entry.seq = k
    BY <1>9 DEF Coming
  <2> QED
    BY <2>1, <1>6
<1>10. ASSUME NEW k \in last + 1 .. Said(route)
       PROVE Coming(route, k)
  <2>1. k \in a.tail + 1 .. Said(route) /\ k > last
    BY <1>2, <1>4, <1>8
  <2>2. SUFFICES ASSUME Buffered(k)
                 PROVE FALSE
    BY <2>1, <1>3
  <2>3. PICK i \in 1 .. p : pending[i].seq = k
    BY <2>2 DEF Buffered, p
  <2>4. p # 0
    BY <2>3, <1>5
  <2>5. pending[p].seq <= last /\ pending[p].seq \in Nat
    BY <2>3, <2>4, <1>6a, <1>7, <1>8
  <2> QED
    BY <2>1, <2>3, <2>4, <2>5, <1>6a, <1>7, <1>8
<1>11. Len(a.entries) = a.tail /\ \A i \in 1 .. a.tail : a.entries[i] = [thread |-> route, seq |-> i]
  <2>1. a.entries = [i \in 1 .. a.tail |-> [thread |-> route, seq |-> i]]
    BY <1>3 DEF Log
  <2>2. DOMAIN a.entries = 1 .. a.tail /\ DOMAIN a.entries = 1 .. Len(a.entries)
    BY <2>1, <1>2, LenProperties
  <2>3. Len(a.entries) = a.tail
    BY <2>2, <1>2
  <2> QED
    BY <2>1, <2>3
<1>12. ToSet(a.entries) \cup ToSet(pending) = {[thread |-> route, seq |-> i] : i \in 1 .. last}
  <2>0. /\ ToSet(a.entries) = {a.entries[i] : i \in 1 .. a.tail}
        /\ ToSet(pending) = {pending[i] : i \in 1 .. p}
    <3>1. DOMAIN a.entries = 1 .. a.tail /\ DOMAIN pending = 1 .. p
      BY <1>2, <1>5, <1>11, LenProperties DEF p
    <3> QED
      BY <3>1 DEF ToSet
  <2>1. ASSUME NEW i \in 1 .. a.tail
        PROVE a.entries[i] \in {[thread |-> route, seq |-> k] : k \in 1 .. last}
    <3>1. i \in 1 .. last
      BY <1>2, <1>8
    <3> QED
      BY <3>1, <1>11
  <2>2. ASSUME NEW i \in 1 .. p
        PROVE pending[i] \in {[thread |-> route, seq |-> k] : k \in 1 .. last}
    <3>1. p # 0 /\ pending[p].seq \in Nat
      BY <1>5, <1>6a, <1>7
    <3>2. pending[i].seq \in 1 .. last
      BY <3>1, <1>6a, <1>7, <1>8
    <3> QED
      BY <3>2, <1>6
  <2>3. ASSUME NEW k \in 1 .. last
        PROVE [thread |-> route, seq |-> k] \in ToSet(a.entries) \cup ToSet(pending)
    <3>1. CASE k <= a.tail
      <4>1. k \in 1 .. a.tail
        BY <3>1, <1>2
      <4> QED
        BY <4>1, <2>0, <1>11
    <3>2. CASE ~ (k <= a.tail)
      <4>1. p \in 1 .. p /\ last = pending[p].seq
        BY <3>2, <1>8, <1>2
      <4>2. k \in a.tail + 1 .. Said(route)
        BY <3>2, <4>1, <1>2, <1>4, <1>6a
      <4>3. ~ Coming(route, k)
        <5>1. SUFFICES ASSUME Coming(route, k)
                       PROVE FALSE
          OBVIOUS
        <5>2. pending[p].seq < k
          BY <4>1, <5>1, <1>9
        <5> QED
          BY <4>1, <5>2, <1>8
      <4>4. PICK i \in 1 .. p : pending[i].seq = k
        BY <4>2, <4>3, <1>3 DEF Buffered, p
      <4>5. pending[i] = [thread |-> route, seq |-> k]
        BY <4>4, <1>6
      <4> QED
        BY <4>5, <2>0
    <3> QED
      BY <3>1, <3>2
  <2> QED
    BY <2>0, <2>1, <2>2, <2>3
<1>13. last \in 0 .. MaxSeq
  BY <1>4, <1>8, <1>2
<1>14. Merged(a.entries, pending) = Log(route, last)
  BY <1>2, <1>5, <1>12, <1>13, MergedLog
<1> QED
  BY <1>8, <1>10, <1>13, <1>14 DEF a

LEMMA LoadedNext ==
    ASSUME LiveInv, TrailLoaded, LiveTypeOK'
    PROVE  LiveInv'
<1> USE DEF LiveInv
<1>1. PICK n \in 1 .. Len(answers) :
         /\ answers' = RemoveAt(answers, n) /\ FoldTrailLoaded(answers[n])
         /\ foreign' = (foreign \/ answers[n].page # routes)
  BY DEF TrailLoaded
<1>2. /\ length' = length /\ stage' = stage /\ incoming' = incoming /\ reads' = reads
      /\ online' = online /\ route' = route /\ routes' = routes /\ cut' = cut
      /\ reloaded' = (reloaded \/ trail.tag = "Success")
  BY DEF TrailLoaded, server, bounds
<1> DEFINE a == answers[n]
           m == Merged(a.entries, pending)
<1>3. reads \in Seq(Reads) /\ answers \in Seq(Answers) /\ a \in Answers
  BY ElementOfSeq DEF LiveTypeOK
<1>4. a.entries \in Seq(Entries) /\ pending \in Seq(Entries) /\ a.tail \in Nat
  <2> HIDE DEF a
  <2> QED
    BY <1>3 DEF LiveTypeOK, Answers
<1>5. /\ trail'.tag = "Success" /\ trail'.entries = m /\ pending' = <<>>
      /\ m = <<>> => trail'.tail = a.tail /\ message' = message
      /\ m # <<>> => trail'.tail = Larger(a.tail, m[Len(m)].seq) /\ message' = NoEntry
  BY <1>1, <1>3, LandingFacts
<1>6. /\ m \in Seq(ToSet(a.entries) \cup ToSet(pending)) /\ m \in Seq(Entries)
      /\ \A i, j \in 1 .. Len(m) : i # j => m[i] # m[j]
      /\ Sorted(m)
  BY <1>4, MergedProperties
<1> HIDE DEF m
<1>7. /\ \A j \in 1 .. Len(answers') : \E i \in 1 .. Len(answers) : answers'[j] = answers[i]
      /\ Once(answers', routes)
      /\ Has(answers', routes) => Has(answers, routes)
      /\ a.page = routes => ~ Has(answers', routes)
  <2> DEFINE q == RemoveAt(answers, n)
  <2>0. Once(answers, routes)
    BY FlightsAgain
  <2>1. /\ \A j \in 1 .. Len(q) : \E i \in 1 .. Len(answers) : q[j] = answers[i]
        /\ Once(q, routes)
        /\ Has(q, routes) => Has(answers, routes)
        /\ answers[n].page = routes => ~ Has(q, routes)
    BY <1>3, <2>0, Taken
  <2>2. answers' = q
    BY <1>1
  <2> HIDE DEF q
  <2> QED
    BY <2>1, <2>2
<1>8. (OwnRead' <=> OwnRead) /\ (OwnAnswer' <=> Has(answers', routes))
  BY <1>2 DEF OwnRead, OwnAnswer, Has
<1>9. FlightsOK'
  <2>1. \A i \in 1 .. Len(answers') :
           /\ answers'[i].page <= routes
           /\ answers'[i].page = routes => answers'[i].thread = route
           /\ \A k \in 1 .. Len(answers'[i].entries) :
                 answers'[i].entries[k].thread = answers'[i].thread
    <3>1. SUFFICES ASSUME NEW j \in 1 .. Len(answers')
                   PROVE  /\ answers'[j].page <= routes
                          /\ answers'[j].page = routes => answers'[j].thread = route
                          /\ \A k \in 1 .. Len(answers'[j].entries) :
                                answers'[j].entries[k].thread = answers'[j].thread
      OBVIOUS
    <3>2. PICK i \in 1 .. Len(answers) : answers'[j] = answers[i]
      BY <1>7
    <3> QED
      BY <3>2 DEF FlightsOK
  <2>2. ~ (OwnRead' /\ OwnAnswer')
    BY <1>7, <1>8, FlightsAgain DEF FlightsOK
  <2>3. \A i, j \in 1 .. Len(answers') :
           answers'[i].page = routes /\ answers'[j].page = routes => i = j
    BY <1>7 DEF Once
  <2> QED
    BY <1>2, <2>1, <2>2, <2>3 DEF FlightsOK
<1>10. ASSUME ~ foreign'
       PROVE ~ foreign /\ a.page = routes /\ a.thread = route /\ route \in Threads
             /\ ~ OwnRead' /\ ~ OwnAnswer'
  <2>1. ~ foreign /\ a.page = routes
    BY <1>1, <1>10
  <2>2. a.thread = route /\ route \in Threads
    BY <2>1, <1>3 DEF FlightsOK, Answers
  <2>3. OwnAnswer
    BY <2>1 DEF OwnAnswer
  <2>4. ~ OwnRead
    BY <2>3 DEF FlightsOK
  <2> QED
    BY <2>1, <2>2, <2>4, <1>7, <1>8
<1>11. AloneOK'
  BY <1>10 DEF AloneOK
<1>12. FirstOK' /\ BufferOK'
  BY <1>5 DEF FirstOK, BufferOK
<1>13. LoadedOK'
  <2>1. SUFFICES ASSUME ~ foreign'
                 PROVE  /\ route \in Threads
                        /\ \A i \in 1 .. Len(m) :
                              /\ m[i].thread = route /\ m[i].seq <= trail'.tail
                              /\ \A j \in 1 .. Len(m) : i < j => m[i].seq < m[j].seq
    BY <1>2, <1>5 DEF LoadedOK
  <2>2. ASSUME NEW i \in 1 .. Len(m)
        PROVE m[i] \in Entries /\ m[i].thread = route /\ m[i].seq \in Nat
    <3>1. m[i] \in ToSet(a.entries) \cup ToSet(pending) /\ m[i] \in Entries
      BY <1>6, ElementOfSeq
    <3>2. \A x \in ToSet(a.entries) : x.thread = route
      <4>1. \A k \in 1 .. Len(a.entries) : a.entries[k].thread = route
        BY <1>10, <2>1 DEF FlightsOK
      <4>2. DOMAIN a.entries = 1 .. Len(a.entries)
        BY <1>4, LenProperties
      <4> QED
        BY <4>1, <4>2 DEF ToSet
    <3>3. \A x \in ToSet(pending) : x.thread = route
      <4>1. DOMAIN pending = 1 .. Len(pending)
        BY <1>4, LenProperties
      <4> QED
        BY <4>1 DEF ToSet, BufferOK
    <3> QED
      BY <3>1, <3>2, <3>3 DEF Entries
  <2>3. ASSUME NEW i \in 1 .. Len(m), NEW j \in 1 .. Len(m), i < j
        PROVE m[i].seq < m[j].seq
    <3>1. m[i].seq <= m[j].seq /\ m[i] # m[j]
      BY <1>6, <2>3 DEF Sorted
    <3>2. m[i].seq # m[j].seq
      BY <3>1, <2>2 DEF Entries
    <3> QED
      BY <3>1, <3>2, <2>2
  <2>4. ASSUME NEW i \in 1 .. Len(m)
        PROVE m[i].seq <= trail'.tail
    <3> DEFINE l == Len(m)
    <3>1. m # <<>> /\ l \in 1 .. Len(m) /\ (i = l \/ i < l)
      BY <1>6
    <3>2. m[l].seq \in Nat /\ m[i].seq <= m[l].seq
      BY <3>1, <2>2, <2>3
    <3>3. trail'.tail = Larger(a.tail, m[l].seq)
      BY <3>1, <1>5
    <3> HIDE DEF l
    <3>4. m[i].seq \in Nat
      BY <2>2
    <3> QED
      BY <3>2, <3>3, <3>4, <1>4 DEF Larger
  <2> QED
    BY <2>1, <2>2, <2>3, <2>4, <1>10
<1>14. WholeOK'
  <2>1. SUFFICES ASSUME ~ foreign', ~ reloaded'
                 PROVE  /\ m = Log(route, trail'.tail)
                        /\ trail'.tail <= length[route]
                        /\ \A k \in trail'.tail + 1 .. Said(route) : Coming(route, k)
    BY <1>2, <1>5 DEF WholeOK, Log, Said, Coming, Announces
  <2>2. ~ foreign /\ a.page = routes /\ trail.tag # "Success"
    BY <2>1, <1>2, <1>10
  <2>3. PICK last \in 0 .. MaxSeq :
           /\ a.tail <= last /\ last <= length[route]
           /\ m = Log(route, last)
           /\ \A k \in last + 1 .. Said(route) : Coming(route, k)
    BY <2>2, FirstLanding DEF m
  <2>4. trail'.tail = last
    <3>1. last \in Nat /\ DOMAIN m = 1 .. last /\ DOMAIN m = 1 .. Len(m) /\ Len(m) \in Nat
      BY <2>3, <1>6, LenProperties, LiveAssumption DEF Log
    <3>2. Len(m) = last
      BY <3>1
    <3>3. CASE last = 0
      BY <3>1, <3>2, <3>3, <2>3, <1>4, <1>5, <1>6
    <3>4. CASE last # 0
      <4>1. m # <<>> /\ last \in 1 .. last
        BY <3>1, <3>2, <3>4
      <4>2. m[last].seq = last
        BY <2>3, <4>1 DEF Log
      <4>3. trail'.tail = Larger(a.tail, last)
        BY <4>1, <4>2, <3>2, <1>5
      <4> QED
        BY <4>3, <3>1, <2>3, <1>4 DEF Larger
    <3> QED
      BY <3>3, <3>4
  <2> QED
    BY <2>3, <2>4
<1>15. MessageOK'
  <2>1. message' = message \/ message' = NoEntry
    BY <1>5
  <2> QED
    BY <1>2, <2>1 DEF MessageOK, NoEntry
<1>16. OfflineOK'
  BY <1>2, <1>3 DEF OfflineOK
<1>17. ServerOK' /\ AnnouncedOK' /\ EndedOK'
  BY <1>2, SameServer DEF server
<1> QED
  BY <1>9, <1>11, <1>12, <1>13, <1>14, <1>15, <1>16, <1>17

----------------------------------------------------------------------------
(* The theorems.                                                           *)

LEMMA LiveInitially ==
    ASSUME LiveInit
    PROVE  LiveInv
<1>1. LiveTypeOK
  <2>1. trail \in Trails
    BY LiveAssumption DEF LiveInit, Trails, Unloaded
  <2>2. /\ length \in [Threads -> 0 .. MaxSeq] /\ stage \in [Threads -> Stages]
        /\ closes \in 0 .. MaxCloses /\ routes \in 0 .. MaxRoutes
    BY LiveAssumption DEF LiveInit, Stages
  <2>3. /\ incoming \in Seq(Events) /\ reads \in Seq(Reads) /\ answers \in Seq(Answers)
        /\ pending \in Seq(Entries)
    BY EmptySeq DEF LiveInit
  <2>4. /\ message \in Entries \cup {NoEntry}
        /\ online \in BOOLEAN /\ route \in Threads \cup {NoThread}
        /\ reloaded \in BOOLEAN /\ foreign \in BOOLEAN /\ cut \in BOOLEAN
    BY DEF LiveInit
  <2> QED
    BY <2>1, <2>2, <2>3, <2>4 DEF LiveTypeOK
<1>2. /\ length = [t \in Threads |-> 0] /\ stage = [t \in Threads |-> "settled"]
      /\ incoming = <<>> /\ reads = <<>> /\ answers = <<>> /\ pending = <<>>
      /\ message = NoEntry /\ trail.tag = "Idle" /\ trail.entries = <<>>
  BY DEF LiveInit, Unloaded
<1>3. ServerOK /\ AnnouncedOK /\ EndedOK /\ OfflineOK
  BY <1>2 DEF ServerOK, AnnouncedOK, EndedOK, OfflineOK
<1>4. FlightsOK /\ AloneOK /\ FirstOK /\ BufferOK
  BY <1>2 DEF FlightsOK, AloneOK, FirstOK, BufferOK, OwnRead
<1>5. LoadedOK /\ WholeOK /\ MessageOK
  BY <1>2 DEF LoadedOK, WholeOK, MessageOK
<1> QED
  BY <1>1, <1>3, <1>4, <1>5 DEF LiveInv

LEMMA LiveStep ==
    ASSUME LiveInv, [LiveNext]_liveVars
    PROVE  LiveInv'
<1>1. LiveTypeOK'
  BY TypeNext DEF LiveInv
<1>2. ASSUME NEW t \in Threads,
             Stream(t) \/ AppendMessage(t) \/ Announce(t) \/ EndMessage(t) \/ RunSettles(t)
      PROVE LiveInv'
  BY <1>1, <1>2, ServerNext DEF ServerStep
<1>3. ASSUME UNCHANGED liveVars
      PROVE LiveInv'
  <2>1. /\ length' = length /\ stage' = stage /\ incoming' = incoming /\ reads' = reads
        /\ answers' = answers /\ online' = online /\ route' = route /\ trail' = trail
        /\ pending' = pending /\ message' = message /\ routes' = routes
        /\ reloaded' = reloaded /\ foreign' = foreign /\ cut' = cut
    BY <1>3 DEF liveVars, server, wire, pane, bounds, history
  <2>2. ServerOK' /\ AnnouncedOK' /\ EndedOK'
    BY <2>1, SameServer DEF LiveInv, server
  <2>3. OfflineOK' /\ FlightsOK' /\ AloneOK'
    BY <2>1 DEF LiveInv, OfflineOK, FlightsOK, AloneOK, OwnRead, OwnAnswer, NoEntry
  <2>4. FirstOK' /\ BufferOK'
    BY <2>1 DEF LiveInv, FirstOK, BufferOK, Said, Coming, Announces, Buffered, Log
  <2>5. LoadedOK' /\ WholeOK' /\ MessageOK'
    BY <2>1 DEF LiveInv, LoadedOK, WholeOK, MessageOK, OwnRead, OwnAnswer, Said, Coming,
                Announces, Log, NoEntry
  <2> QED
    BY <1>1, <2>2, <2>3, <2>4, <2>5 DEF LiveInv
<1>4. CASE Serve
  BY <1>1, <1>4, ServeNext
<1>5. CASE ReceiveEvent
  BY <1>1, <1>5, ReceiveNext
<1>6. CASE TrailLoaded
  BY <1>1, <1>6, LoadedNext
<1>7. CASE TrailFailed
  BY <1>1, <1>7, FailedNext
<1>8. ASSUME NEW t \in Threads \cup {NoThread}, ChangedRoute(t)
      PROVE LiveInv'
  BY <1>1, <1>8, RouteNext
<1>9. CASE Connected
  BY <1>1, <1>9, ConnectedNext
<1>10. CASE ConnectionClosed
  BY <1>1, <1>10, ClosedNext
<1> QED
  BY <1>2, <1>3, <1>4, <1>5, <1>6, <1>7, <1>8, <1>9, <1>10 DEF LiveNext

\* LiveInv holds of the console's view in every state.
THEOREM PaneInductive == LiveSpec => []LiveInv
<1>1. LiveInit => LiveInv
  BY LiveInitially
<1>2. LiveInv /\ [LiveNext]_liveVars => LiveInv'
  BY LiveStep
<1> QED
  BY <1>1, <1>2, PTL DEF LiveSpec

\* The trail is shown in the order of the log, each entry once.
THEOREM PaneOrdered == LiveSpec => []Ordered
<1>1. LiveInv => Ordered
  BY DEF LiveInv, LoadedOK, Ordered
<1>2. LiveSpec => []LiveInv
  BY PaneInductive
<1> QED
  BY <1>1, <1>2, PTL

\* "The losslessness guarantee" (live.ts).
THEOREM PaneComplete == LiveSpec => []Complete
<1>1. LiveInv => Complete
  <2>1. SUFFICES ASSUME LiveInv, Quiet, trail.tag = "Success", ~ reloaded, ~ foreign,
                        stage[route] # "appended"
                 PROVE  trail.entries = [i \in 1 .. length[route] |-> [thread |-> route, seq |-> i]]
    BY DEF Complete
  <2>2. ~ OwnRead /\ ~ OwnAnswer /\ online /\ \A k : ~ Coming(route, k)
    BY <2>1 DEF Quiet, OwnRead, OwnAnswer, Coming
  <2>3. /\ trail.entries = Log(route, trail.tail)
        /\ trail.tail <= length[route]
        /\ \A k \in trail.tail + 1 .. Said(route) : FALSE
    BY <2>1, <2>2 DEF LiveInv, WholeOK
  <2>4. route \in Threads /\ trail.tail \in Nat /\ length[route] \in Nat
    BY <2>1 DEF LiveInv, LoadedOK, LiveTypeOK, Trails
  <2>5. Said(route) = length[route]
    BY <2>1 DEF Said
  <2>6. trail.tail = length[route]
    BY <2>3, <2>4, <2>5
  <2> QED
    BY <2>3, <2>6 DEF Log
<1>2. LiveSpec => []LiveInv
  BY PaneInductive
<1> QED
  BY <1>1, <1>2, PTL

\* A run that has settled leaves nothing streaming.
THEOREM PaneSettled == LiveSpec => []SettledIsBlank
<1>1. LiveInv => SettledIsBlank
  BY DEF LiveInv, MessageOK, SettledIsBlank, Quiet
<1>2. LiveSpec => []LiveInv
  BY PaneInductive
<1> QED
  BY <1>1, <1>2, PTL
=============================================================================
