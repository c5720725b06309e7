------------------------------ MODULE MCTrail ------------------------------
(* Instances of Trail for TLC. *)
EXTENDS Trail, TLC

CONSTANTS a, b, c1, c2

EntryOps == {"appendEntry", "moveLane", "createLane"}
RecordOps == {"appendEntry", "startOperation", "finishOperation"}
HostOps == {"appendEntry", "moveLane", "setName"}
AllOps == Methods

Symmetry == Permutations({a, b}) \cup Permutations({c1, c2})
=============================================================================
