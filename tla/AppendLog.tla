----------------------------- MODULE AppendLog -----------------------------
(***************************************************************************)
(* What a session trail promises: records are only ever appended, one at a *)
(* time, and an append is acknowledged only while it is the newest record. *)
(***************************************************************************)
EXTENDS Naturals, Sequences

CONSTANT Records

VARIABLES
    entries,  \* the durable log
    acked     \* the positions acknowledged to their callers

Init == entries = <<>> /\ acked = {}

AppendRecord ==
    /\ entries' # <<>> /\ entries'[Len(entries')] \in Records
    /\ entries' = Append(entries, entries'[Len(entries')])
    /\ UNCHANGED acked

Acknowledge ==
    /\ entries # <<>>
    /\ acked' = acked \cup {Len(entries)}
    /\ UNCHANGED entries

Next == AppendRecord \/ Acknowledge

Spec == Init /\ [][Next]_<<entries, acked>>
=============================================================================
