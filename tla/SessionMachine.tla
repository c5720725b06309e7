--------------------------- MODULE SessionMachine ---------------------------
(***************************************************************************)
(* One thread's host: the effect-machine actor of session-machine.ts, the  *)
(* fibers it spawns for a run and for a manual compaction, and the host    *)
(* value of session-host.ts that callers hold and the host cache disposes. *)
(*                                                                         *)
(* The actor takes one event of its mailbox at a time.  A handler that     *)
(* awaits pushState is two steps: the state other fibers see stays the old *)
(* one in between.  The fibers run beside the actor and report their end   *)
(* through the mailbox.                                                    *)
(*                                                                         *)
(* External, with any outcome: the agent's prompt (pi-agent-core), compact,*)
(* completeSimple (pi-ai), and whether there is anything to compact.       *)
(***************************************************************************)
EXTENDS Integers, Sequences

CONSTANTS
    Callers,       \* those who hold the host value
    Adopted        \* TRUE: the trail was imported with an open operation

ASSUME MachineAssumption == Adopted \in BOOLEAN /\ "fiber" \notin Callers

VARIABLES
    host,       \* live, closing (dispose waits), draining, closed
    state,      \* the actor's state
    mailbox,    \* events not yet handled: [op, from]
    handling,   \* the state a handler awaiting pushState goes on to, or "none"
    run,        \* the Working fiber's phase; died: it ended and reports nothing
    compaction, \* the Compacting fiber's phase
    controller, \* compactionAbortRef: none, set, aborted
    model,      \* a model is selected
    name,       \* the thread's name: auto, user, titled
    pushed,     \* the registry's state of the thread
    calls,      \* what each caller awaits
    events      \* history: what consoles were told

vars == <<host, state, mailbox, handling, run, compaction, controller, model,
          name, pushed, calls, events>>
fibers == <<run, compaction, controller>>

\* prompt, steer and follow_up share their transitions ("run"); of the config
\* commands only set_model changes what the machine reads.
Ops == {"run", "abort", "compact", "setModel"}
Reports == {"RunFinished", "RunFailed", "CompactFinished", "CompactFailed"}
Busy == {"Working", "Compacting"}
Startable == {"Idle", "Interrupted"}
Event == [op : Ops, from : Callers] \cup [op : Reports, from : {"fiber"}]

\* unsettled: runs acknowledged less settled events; unclosed: compaction_start
\* events less compaction_end; abort: an abort of the run was acknowledged; cut: a
\* dispose cut a run or compaction short.
History == [unsettled : Int, unclosed : Int, abort : BOOLEAN, cut : BOOLEAN]
NoEvents == [unsettled |-> 0, unclosed |-> 0, abort |-> FALSE, cut |-> FALSE]

\* SessionHost.create: an open operation in the trail means Interrupted.
Boot == IF Adopted THEN "Interrupted" ELSE "Idle"

Init ==
    /\ host = "live" /\ state = Boot
    /\ mailbox = <<>> /\ handling = "none"
    /\ run = "none" /\ compaction = "none" /\ controller = "none"
    /\ model \in BOOLEAN
    /\ name \in {"auto", "user"}
    /\ pushed = "idle"
    /\ calls = [c \in Callers |-> "none"]
    /\ events = NoEvents

Send(op, from) == mailbox' = Append(mailbox, [op |-> op, from |-> from])

----------------------------------------------------------------------------
(* The callers: actor.ask, and branch, which bypasses the mailbox.         *)

Ask(c, op) ==
    /\ host \in {"live", "closing"}
    /\ calls[c] = "none"
    /\ Send(op, c)
    /\ calls' = [calls EXCEPT ![c] = "reply"]
    /\ UNCHANGED <<host, state, handling, fibers, model, name, pushed, events>>

\* branch reads a snapshot of the state and the entry, then moves the lane.
Branch(c) ==
    /\ calls[c] = "none"
    /\ state \notin Busy
    /\ calls' = [calls EXCEPT ![c] = "branch"]
    /\ UNCHANGED <<host, state, mailbox, handling, fibers, model, name, pushed, events>>

MoveLane(c) ==
    /\ calls[c] = "branch"
    /\ calls' = [calls EXCEPT ![c] = "none"]
    /\ UNCHANGED <<host, state, mailbox, handling, fibers, model, name, pushed, events>>

\* rename_thread, through the registry (hub-commands.ts).
Rename ==
    /\ name' = "user"
    /\ UNCHANGED <<host, state, mailbox, handling, fibers, model, pushed, calls, events>>

----------------------------------------------------------------------------
(* The actor's handlers.                                                   *)

Takes(op) ==
    /\ host # "closed"
    /\ handling = "none"
    /\ mailbox # <<>> /\ Head(mailbox).op = op
    /\ mailbox' = Tail(mailbox)

Reply == calls' = [calls EXCEPT ![Head(mailbox).from] = "none"]

RefuseRun ==
    /\ Takes("run")
    /\ state \in Startable => ~model
    /\ Reply
    /\ UNCHANGED <<host, state, handling, fibers, model, name, pushed, events>>

\* Mutant: the guard lets a run start beside a manual compaction.
StartRun_WhileCompacting ==
    /\ Takes("run") /\ state \in Startable \cup {"Compacting"} /\ model
    /\ pushed' = "working"
    /\ handling' = "Working"
    /\ calls' = [calls EXCEPT ![Head(mailbox).from] = "accepted"]
    /\ UNCHANGED <<host, state, fibers, model, name, events>>

\* A run command from idle pushes "working" ...
StartRun ==
    /\ Takes("run") /\ state \in Startable /\ model
    /\ pushed' = "working"
    /\ handling' = "Working"
    /\ calls' = [calls EXCEPT ![Head(mailbox).from] = "accepted"]
    /\ UNCHANGED <<host, state, fibers, model, name, events>>

\* Mutant: the reply is held until the run settles.
EnterWorking_HoldsReply ==
    /\ handling = "Working"
    /\ handling' = "none"
    /\ state' = "Working"
    /\ run' = "starting"
    /\ events' = [events EXCEPT !.unsettled = @ + 1, !.abort = FALSE, !.cut = FALSE]
    /\ UNCHANGED <<host, mailbox, compaction, controller, model, name, pushed, calls>>

\* ... then acknowledges, enters Working, and spawns the run's fiber.
EnterWorking ==
    /\ handling = "Working"
    /\ handling' = "none"
    /\ state' = "Working"
    /\ run' = "starting"
    /\ calls' = [c \in Callers |-> IF calls[c] = "accepted" THEN "none" ELSE calls[c]]
    /\ events' = [events EXCEPT !.unsettled = @ + 1, !.abort = FALSE, !.cut = FALSE]
    /\ UNCHANGED <<host, mailbox, compaction, controller, model, name, pushed>>

\* compact and agent are signalled; the signals' effects are AgentEnds' and
\* AutoCompacted's choices.
Abort ==
    /\ Takes("abort")
    /\ Reply
    /\ IF state = "Working"
       THEN /\ controller' = IF controller = "set" THEN "aborted" ELSE controller
            /\ events' = [events EXCEPT !.abort = TRUE]
       ELSE UNCHANGED <<controller, events>>
    /\ UNCHANGED <<host, state, handling, run, compaction, model, name, pushed>>

\* A busy host refuses, and so does one with nothing to compact.
RefuseCompact ==
    /\ Takes("compact")
    /\ Reply
    /\ UNCHANGED <<host, state, handling, fibers, model, name, pushed, events>>

\* The model is not asked for here.
Compact ==
    /\ Takes("compact") /\ state \in Startable
    /\ Reply
    /\ state' = "Compacting"
    /\ compaction' = "preparing"
    /\ UNCHANGED <<host, handling, run, controller, model, name, pushed, events>>

\* The model is set before its entry is appended: a failed append still sets it.
SetModel ==
    /\ Takes("setModel")
    /\ Reply
    /\ model' \in {model, TRUE}
    /\ UNCHANGED <<host, state, handling, fibers, name, pushed, events>>

From(op) == IF op \in {"RunFinished", "RunFailed"} THEN "Working" ELSE "Compacting"

\* Mutant: only a run that ended well pushes "idle".
TakeReport_FailureKeepsPushed ==
    \E op \in Reports :
        /\ Takes(op) /\ state = From(op)
        /\ pushed' = IF op = "RunFailed" THEN pushed ELSE "idle"
        /\ handling' = IF op = "RunFailed" THEN "Crashed" ELSE "Idle"
        /\ UNCHANGED <<host, state, fibers, model, name, calls, events>>

\* A fiber's report: push "idle", then enter the next state.
TakeReport ==
    \E op \in Reports :
        /\ Takes(op) /\ state = From(op)
        /\ pushed' = "idle"
        /\ handling' = IF op = "RunFailed" THEN "Crashed" ELSE "Idle"
        /\ UNCHANGED <<host, state, fibers, model, name, calls, events>>

Leave ==
    /\ handling \in {"Idle", "Crashed"}
    /\ state' = handling
    /\ handling' = "none"
    /\ UNCHANGED <<host, mailbox, fibers, model, name, pushed, calls, events>>

----------------------------------------------------------------------------
(* The Working fiber: runCommand.                                          *)

PromptAgent ==
    /\ run = "starting"
    /\ run' = "agent"
    /\ UNCHANGED <<host, state, mailbox, handling, compaction, controller, model, name,
                   pushed, calls, events>>

\* agent.prompt resolves; a turn that ended aborted or failed is not compacted,
\* nor is one without a model or with compaction off.
AgentEnds ==
    /\ run = "agent"
    /\ run' \in {"checking", "ending"}
    /\ UNCHANGED <<host, state, mailbox, handling, compaction, controller, model, name,
                   pushed, calls, events>>

\* maybeAutoCompact has read the trail: compact a context that is too long.
AutoCompact ==
    /\ run = "checking" /\ model
    /\ run' = "compacting"
    /\ controller' = "set"
    /\ events' = [events EXCEPT !.unclosed = @ + 1]
    /\ UNCHANGED <<host, state, mailbox, handling, compaction, model, name, pushed, calls>>

NoAutoCompact ==
    /\ run = "checking"
    /\ run' = "ending"
    /\ UNCHANGED <<host, state, mailbox, handling, compaction, controller, model, name,
                   pushed, calls, events>>

\* compaction_end: compacted, or aborted, and the run goes on.
AutoCompacted ==
    /\ run = "compacting"
    /\ run' = "ending"
    /\ controller' = "none"
    /\ events' = [events EXCEPT !.unclosed = @ - 1]
    /\ UNCHANGED <<host, state, mailbox, handling, compaction, model, name, pushed, calls>>

\* settled, then the title when the thread's name is still automatic.
Settle ==
    /\ run = "ending"
    /\ events' = [events EXCEPT !.unsettled = @ - 1]
    /\ \/ /\ name = "auto"
          /\ run' = "titling"
          /\ UNCHANGED mailbox
       \/ /\ run' = "none"
          /\ Send("RunFinished", "fiber")
    /\ UNCHANGED <<host, state, handling, compaction, controller, model, name, pushed, calls>>

\* The title arrives (or fails); the record read before the call is not read again.
Title ==
    /\ run = "titling"
    /\ name' \in {name, "titled"}
    /\ run' = "none"
    /\ Send("RunFinished", "fiber")
    /\ UNCHANGED <<host, state, handling, compaction, controller, model, pushed, calls, events>>

\* The title's record cannot be stored.  Registries store with orDie, and neither
\* Effect.ignore nor catchEager catches a defect: the fiber ends here, unreported.
\* The thread DO has renamed its record in memory by then, the daemon has not.
TitleDies ==
    /\ run = "titling"
    /\ name' \in {name, "titled"}
    /\ run' = "died"
    /\ UNCHANGED <<host, state, mailbox, handling, compaction, controller, model, pushed,
                   calls, events>>

\* Mutant: a failed title call fails the run as well.
RunFails_InTitle ==
    /\ run \in {"agent", "checking", "compacting", "titling"}
    /\ controller # "aborted"
    /\ run' = "none"
    /\ controller' = "none"
    /\ events' = [events EXCEPT !.unsettled = @ - 1,
                                !.unclosed = IF run = "compacting" THEN @ - 1 ELSE @]
    /\ Send("RunFailed", "fiber")
    /\ UNCHANGED <<host, state, handling, compaction, model, name, pushed, calls>>

\* The prompt throws, the trail cannot be read or prepared, or the compaction
\* fails: its compaction_end, then settled, then the report.
RunFails ==
    /\ run \in {"agent", "checking", "compacting"}
    /\ controller # "aborted"
    /\ run' = "none"
    /\ controller' = "none"
    /\ events' = [events EXCEPT !.unsettled = @ - 1,
                                !.unclosed = IF run = "compacting" THEN @ - 1 ELSE @]
    /\ Send("RunFailed", "fiber")
    /\ UNCHANGED <<host, state, handling, compaction, model, name, pushed, calls>>

----------------------------------------------------------------------------
(* The Compacting fiber: runCompaction("manual").                          *)

StartCompaction ==
    /\ compaction = "preparing" /\ model
    /\ compaction' = "compacting"
    /\ controller' = "set"
    /\ events' = [events EXCEPT !.unclosed = @ + 1]
    /\ UNCHANGED <<host, state, mailbox, handling, run, model, name, pushed, calls>>

\* No model, or an unreadable trail: the fiber fails before compaction_start.
CompactionNotStarted ==
    /\ compaction = "preparing"
    /\ compaction' = "none"
    /\ Send("CompactFailed", "fiber")
    /\ UNCHANGED <<host, state, handling, run, controller, model, name, pushed, calls, events>>

EndCompaction ==
    /\ compaction = "compacting"
    /\ compaction' = "none"
    /\ controller' = "none"
    /\ events' = [events EXCEPT !.unclosed = @ - 1]
    /\ \E op \in {"CompactFinished", "CompactFailed"} : Send(op, "fiber")
    /\ UNCHANGED <<host, state, handling, run, model, name, pushed, calls>>

----------------------------------------------------------------------------
(* dispose, by the host cache: before a crashed host is rebuilt, and when  *)
(* the thread is archived or deleted or its env changes.                   *)

Dispose ==
    /\ host = "live"
    /\ host' = "closing"
    /\ controller' = IF controller = "set" THEN "aborted" ELSE controller
    /\ UNCHANGED <<state, mailbox, handling, run, compaction, model, name, pushed, calls, events>>

\* The wait for the run to settle ends, or times out (DISPOSE_SETTLE_TIMEOUT).
Drain ==
    /\ host = "closing"
    /\ host' = "draining"
    /\ UNCHANGED <<state, mailbox, handling, fibers, model, name, pushed, calls, events>>

\* drain answers what is queued and stops the actor, its fiber with it.
Close ==
    /\ host = "draining" /\ mailbox = <<>> /\ handling = "none"
    /\ host' = "closed"
    /\ run' = "none" /\ compaction' = "none" /\ controller' = "none"
    /\ events' = [NoEvents EXCEPT !.cut = (state \in Busy \/ events.cut)]
    /\ UNCHANGED <<state, mailbox, handling, model, name, pushed, calls>>

\* hostFor: the next command builds a new host from the trail.
Rebuild ==
    /\ host = "closed"
    /\ host' = "live"
    /\ state' = Boot
    /\ model' \in BOOLEAN
    /\ UNCHANGED <<mailbox, handling, fibers, name, pushed, calls, events>>

\* The daemon dies and comes back: everything but the trail and the name is gone.
Restart ==
    /\ host' = "live" /\ state' = Boot
    /\ mailbox' = <<>> /\ handling' = "none"
    /\ run' = "none" /\ compaction' = "none" /\ controller' = "none"
    /\ model' \in BOOLEAN
    /\ pushed' = "idle"
    /\ calls' = [c \in Callers |-> "none"]
    /\ events' = NoEvents
    /\ UNCHANGED name

Handle ==
    \/ RefuseRun \/ StartRun \/ EnterWorking \/ Abort \/ RefuseCompact \/ Compact
    \/ SetModel \/ TakeReport \/ Leave

Fiber ==
    \/ PromptAgent \/ AgentEnds \/ AutoCompact \/ NoAutoCompact \/ AutoCompacted
    \/ Settle \/ Title \/ TitleDies \/ RunFails
    \/ StartCompaction \/ CompactionNotStarted \/ EndCompaction

Next ==
    \/ \E c \in Callers, op \in Ops : Ask(c, op)
    \/ \E c \in Callers : Branch(c) \/ MoveLane(c)
    \/ Rename
    \/ Handle
    \/ Fiber
    \/ Dispose \/ Drain \/ Close \/ Rebuild
    \/ Restart

Spec == Init /\ [][Next]_vars

\* Handlers only await storage and the registry, never the provider.
FairSpec == Spec /\ WF_vars(Handle)
----------------------------------------------------------------------------
(* Properties.                                                             *)

Queued == {i \in 1 .. Len(mailbox) : mailbox[i].op \in Reports}

TypeOK ==
    /\ host \in {"live", "closing", "draining", "closed"}
    /\ state \in Startable \cup Busy \cup {"Crashed"}
    /\ mailbox \in Seq(Event)
    /\ handling \in {"none", "Working", "Idle", "Crashed"}
    /\ run \in {"none", "starting", "agent", "checking", "compacting", "ending", "titling",
                "died"}
    /\ compaction \in {"none", "preparing", "compacting"}
    /\ controller \in {"none", "set", "aborted"}
    /\ model \in BOOLEAN /\ name \in {"auto", "user", "titled"}
    /\ pushed \in {"idle", "working"}
    /\ calls \in [Callers -> {"none", "reply", "accepted", "branch"}]
    /\ events \in History

\* A busy machine has one fiber, and a way to leave: the fiber lives in the
\* state that spawned it, or its one report is queued or being handled.  No
\* other state has any.  Excepted is a run whose title could not be stored: its
\* fiber is dead and reports nothing, and the machine stays Working, with nobody
\* beside it, until it is disposed or the process restarts.
OneFiber ==
    /\ host # "closed" /\ state \in Busy /\ run # "died"
         => run # "none" \/ compaction # "none" \/ Queued # {} \/ handling # "none"
    /\ run # "none" => state = "Working" /\ compaction = "none"
    /\ compaction # "none" => state = "Compacting"
    /\ run # "none" \/ compaction # "none" => handling = "none" /\ Queued = {}
    /\ \A i, j \in Queued : i = j /\ state = From(mailbox[i].op) /\ handling = "none"

\* Between handlers the registry says "working" exactly when the machine is
\* Working, unless a dispose cut the run short.
PushedMatches ==
    handling = "none" /\ ~events.cut => (pushed = "working" <=> state = "Working")

\* The consoles' view of runs and compactions.
Console == INSTANCE RunEvents WITH unsettled <- events.unsettled,
                                   unclosed <- events.unclosed
ConsoleSpec == Console!Spec

\* Every command sent to the actor is answered, whatever the provider does:
\* run commands and compactions are acknowledged at acceptance.
CallsAreAnswered ==
    \A c \in Callers : calls[c] \in {"reply", "accepted"} ~> calls[c] \in {"none", "branch"}

\* "A user rename wins over auto-title forever" (hub-commands.ts): the title
\* written after the call to the model overwrites a rename made meanwhile.
UserNameStays == [][name = "user" => name' = "user"]_vars

\* "Abort settles the in-flight run" (session-machine.ts): an abort that comes
\* between the prompt and its auto-compaction is acknowledged and then lost.
NoCompactionAfterAbort == [][AutoCompact => ~events.abort]_vars

\* The title is "Best-effort, never fails or delays the run or the prompt
\* response" (session-machine.ts): one that cannot be stored ends the fiber
\* before its report, and every later command is refused.
TitleIsBestEffort == run # "died"
=============================================================================
