------------------------------ MODULE RunEvents ------------------------------
(***************************************************************************)
(* What a thread's consoles are promised of its event stream: an accepted  *)
(* run settles once, and before the next is accepted; every compaction_end *)
(* follows its compaction_start; and no run settles or starts inside a     *)
(* compaction.                                                             *)
(***************************************************************************)
EXTENDS Integers

VARIABLES
    unsettled,  \* runs accepted less settled events
    unclosed    \* compaction_start less compaction_end events

Init == unsettled = 0 /\ unclosed = 0

Accept ==
    /\ unsettled = 0 /\ unclosed = 0
    /\ unsettled' = 1 /\ UNCHANGED unclosed

Settle ==
    /\ unsettled = 1 /\ unclosed = 0
    /\ unsettled' = 0 /\ UNCHANGED unclosed

CompactionStart ==
    /\ unclosed = 0
    /\ unclosed' = 1 /\ UNCHANGED unsettled

CompactionEnd ==
    /\ unclosed = 1
    /\ unclosed' = 0 /\ UNCHANGED unsettled

\* A failed compaction ends its run; a host that goes away ends both unsaid.
Over == unsettled' = 0 /\ unclosed' = 0

Next == Accept \/ Settle \/ CompactionStart \/ CompactionEnd \/ Over

Spec == Init /\ [][Next]_<<unsettled, unclosed>>
==============================================================================
