---------------------------- MODULE TrailProofs ----------------------------
(***************************************************************************)
(* Theorems of Trail, for every set of ids, lanes and callers, every log   *)
(* bound and both backends unless a theorem names one.                     *)
(***************************************************************************)
EXTENDS Trail, TLAPS, SequenceTheorems

Holding == {"writing", "renaming", "written"}

\* The permit: the call past its validation is the one that holds it, what it
\* writes is a mutation, and its key is within the bound.
Permit ==
    /\ \A c \in Calls : calls[c].pc \in Holding <=> c = holder
    /\ mode # "up" => \A c \in Calls : calls[c].pc = "idle"
    /\ \A c \in Calls :
          /\ calls[c].pc = "queued" => \E op \in Ops : calls[c].req \in RequestsOf(op)
          /\ calls[c].pc \in Holding => calls[c].mut \in Mutations
          /\ calls[c].pc \in {"renaming", "written"} => Room
          /\ calls[c].pc = "renaming" => tmp[mem.seq + 1] = calls[c].mut

\* The keys on disk: the memory covers them, but for the one being applied and
\* those the replay has left.
Covered ==
    /\ ~meta => \A k \in Seqs : ~Written(k)
    /\ mode = "creating" => ~meta
    /\ mode \in {"replaying", "up"} => meta
    /\ mode = "up" => \A k \in Seqs : Written(k) =>
          \/ k <= mem.seq
          \/ k = mem.seq + 1 /\ \E c \in Calls : calls[c].pc = "written"
    /\ mode = "replaying" => left \subseteq Listed
    /\ mode = "replaying" => \A k \in Seqs : Written(k) =>
          k <= mem.seq \/ [src |-> "key", seq |-> k] \in left
    /\ \A k \in acked : Written(k)
    /\ \A c \in Calls : calls[c].pc = "written" => Written(mem.seq + 1)

\* What was validated is still applicable when its write resolves.
Validated ==
    /\ \A l \in Lanes : mem.leaf[l] # Missing => IsTarget(mem, mem.leaf[l])
    /\ \A c \in Calls : calls[c].pc \in Holding =>
          Applicable(mem, calls[c].mut, mem.seq + 1)

IInv == TypeOK /\ Permit /\ Covered /\ Validated

----------------------------------------------------------------------------
(* Lemmas about the operators of SessionState.                             *)

LEMMA EmptyStateType == EmptyState \in States
BY TrailAssumption DEF EmptyState, States, Refs

\* Applying a mutation keeps the memory well-formed (session-state.ts:183-278).
LEMMA ApplyType ==
    ASSUME NEW s \in States, NEW m \in Mutations, s.seq < MaxSeq
    PROVE  Apply(s, m) \in States
<1> DEFINE t == Apply(s, m)
<1>1. t.seq \in 0 .. MaxSeq
  BY TrailAssumption DEF Apply, States
<1>2. t.used \in SUBSET Ids
  BY DEF Apply, States, Mutations, Refs
<1>3. t.parentOf \in [Ids -> Refs \cup {Missing}]
  BY DEF Apply, States, Mutations, Refs
<1>4. t.leaf \in [Lanes -> Refs \cup {Missing}]
  BY DEF Apply, States, Mutations, Refs
<1>5. t.open \in [Lanes -> SUBSET Ids]
  BY DEF Apply, Opened, States, Mutations, Refs
<1> QED
  BY <1>1, <1>2, <1>3, <1>4, <1>5 DEF Apply, States

\* What a validated request writes is a mutation (do-session.ts:184-335).
LEMMA MutationType ==
    ASSUME NEW s \in States, NEW op \in Ops, NEW r \in RequestsOf(op), Admits(s, r)
    PROVE  MutationOf(s, r) \in Mutations
<1>1. op \in Methods /\ r.op = op /\ KindOf[op] \in Kinds
  BY TrailAssumption DEF RequestsOf, Methods, IdOps, KindOf, Kinds
<1>2. r.id \in Refs /\ r.lane \in Lanes /\ r.ref \in Refs
  BY TrailAssumption DEF RequestsOf, Refs
<1>3. KindOf[op] \in {"entry", "started", "finished", "record"} <=> op \in IdOps
  BY <1>1 DEF Methods, IdOps, KindOf
<1>4. op \in IdOps => r.id \in Ids
  BY <1>1 DEF Admits
<1>5. op = "appendEntry" => s.leaf[r.lane] \in Refs
  BY <1>1, <1>2 DEF Admits, HasLane, States, IdOps
<1>6. KindOf[op] = "fact" => op \notin IdOps
  BY <1>3
<1> QED
  BY <1>1, <1>2, <1>3, <1>4, <1>5, <1>6 DEF MutationOf, Mutations

\* A validated request's mutation is one that applyMutation accepts.
LEMMA AdmitsApplicable ==
    ASSUME NEW s \in States, NEW op \in Ops, NEW r \in RequestsOf(op), Admits(s, r),
           \A l \in Lanes : s.leaf[l] # Missing => IsTarget(s, s.leaf[l])
    PROVE  Applicable(s, MutationOf(s, r), s.seq + 1)
<1>1. op \in Methods /\ r.op = op /\ r.lane \in Lanes
  BY TrailAssumption DEF RequestsOf
<1> DEFINE m == MutationOf(s, r)
<1>2. CASE op = "appendEntry"
  BY <1>1, <1>2 DEF Applicable, MutationOf, KindOf, Admits, IdOps, HasLane
<1>3. CASE op \in IdOps \ {"appendEntry"}
  BY <1>1, <1>3 DEF Applicable, MutationOf, KindOf, Admits, IdOps, HasLane
<1>4. CASE op \notin IdOps
  <2>1. KindOf[op] \in {"lane", "fact"}
    BY <1>1, <1>4 DEF KindOf, Methods, IdOps
  <2>2. op # "appendEntry"
    BY <1>4 DEF IdOps
  <2>3. IsTarget(s, r.ref)
    BY <1>1, <1>4 DEF RequestsOf, Admits, IsTarget, Methods
  <2> QED
    BY <1>1, <2>1, <2>2, <2>3 DEF Applicable, MutationOf
<1> QED
  BY <1>2, <1>3, <1>4

\* Applying an applicable mutation leaves every lane at an entry or at none.
LEMMA ApplyLeaves ==
    ASSUME NEW s \in States, NEW m \in Mutations, Applicable(s, m, s.seq + 1),
           \A l \in Lanes : s.leaf[l] # Missing => IsTarget(s, s.leaf[l]),
           NEW l \in Lanes, Apply(s, m).leaf[l] # Missing
    PROVE  IsTarget(Apply(s, m), Apply(s, m).leaf[l])
<1>1. \A r \in Refs : IsTarget(s, r) => IsTarget(Apply(s, m), r)
  BY TrailAssumption DEF IsTarget, IsEntry, Apply, Mutations, States, Refs
<1>2. m.kind = "entry" => IsTarget(Apply(s, m), m.id)
  BY TrailAssumption DEF IsTarget, IsEntry, Apply, Mutations, States, Refs
<1>3. m.kind = "lane" => IsTarget(Apply(s, m), m.ref)
  BY <1>1 DEF Applicable, Mutations
<1>4. Apply(s, m).leaf[l] \in {s.leaf[l], m.id, m.ref}
  BY DEF Apply, States
<1> QED
  BY <1>1, <1>2, <1>3 DEF Apply, States

LEMMA RequestType ==
    ASSUME NEW op \in Ops, NEW r \in RequestsOf(op)
    PROVE  r \in Requests
BY TrailAssumption DEF RequestsOf, Requests, Methods, IdOps, Refs

----------------------------------------------------------------------------
(* Type correctness, and the invariant it needs.                           *)

LEMMA InitIInv == Init => IInv
<1> SUFFICES ASSUME Init PROVE IInv
  OBVIOUS
<1>1. TypeOK
  BY TrailAssumption, EmptyStateType
  DEF Init, TypeOK, Seqs, Idle, NoRequest, Requests, Methods, IdOps, Items, Refs
<1>2. Permit
  BY TrailAssumption DEF Init, Permit, Idle, Holding
<1>3. Covered
  BY DEF Init, Covered, Written, Idle
<1>4. Validated
  BY DEF Init, Validated, EmptyState, IsTarget, Idle, Holding
<1> QED
  BY <1>1, <1>2, <1>3, <1>4 DEF IInv

USE DEF Holding

LEMMA KeepsIInv == IInv /\ [Next]_vars => IInv'
<1> SUFFICES ASSUME IInv, [Next]_vars PROVE IInv'
  OBVIOUS
<1> USE DEF IInv
<1>1. ASSUME NEW c \in Calls, NEW op \in Ops, NEW r \in RequestsOf(op), Request(c, r)
      PROVE  IInv'
  <2>1. TypeOK'
    BY <1>1, RequestType, TrailAssumption DEF Request, TypeOK, Idle, disk
  <2>2. Permit'
    BY <1>1 DEF Request, Permit, TypeOK, Idle, disk, Room
  <2>3. Covered'
    BY <1>1 DEF Request, Covered, TypeOK, Idle, disk, Written, Listed
  <2>4. Validated'
    BY <1>1 DEF Request, Validated, TypeOK, Idle
  <2> QED
    BY <2>1, <2>2, <2>3, <2>4
<1>2. ASSUME NEW c \in Calls, Validate(c)
      PROVE  IInv'
  <2>1. PICK op \in Ops : calls[c].req \in RequestsOf(op)
    BY <1>2 DEF Validate, Permit
  <2>2. CASE Admits(mem, calls[c].req)
    <3>1. MutationOf(mem, calls[c].req) \in Mutations
      BY <2>1, <2>2, MutationType DEF TypeOK
    <3>2. TypeOK'
      BY <1>2, <2>2, <3>1 DEF Validate, TypeOK, disk
    <3>3. Permit'
      BY <1>2, <2>2, <3>1, TrailAssumption DEF Validate, Permit, TypeOK, disk, Room
    <3>4. Covered'
      BY <1>2, <2>2 DEF Validate, Covered, TypeOK, disk, Written, Listed
    <3>5. Applicable(mem, MutationOf(mem, calls[c].req), mem.seq + 1)
      BY <2>1, <2>2, AdmitsApplicable DEF TypeOK, Validated
    <3>6. Validated'
      BY <1>2, <2>2, <3>5 DEF Validate, Validated, TypeOK
    <3> QED
      BY <3>2, <3>3, <3>4, <3>6
  <2>3. CASE ~Admits(mem, calls[c].req)
    <3>1. TypeOK'
      BY <1>2, <2>3, TrailAssumption
      DEF Validate, TypeOK, disk, Idle, NoRequest, Requests, Methods, IdOps, Refs
    <3>2. Permit'
      BY <1>2, <2>3 DEF Validate, Permit, TypeOK, disk, Idle, Room
    <3>3. Covered'
      BY <1>2, <2>3 DEF Validate, Covered, TypeOK, disk, Idle, Written, Listed
    <3>4. Validated'
      BY <1>2, <2>3 DEF Validate, Validated, TypeOK, Idle
    <3> QED
      BY <3>1, <3>2, <3>3, <3>4
  <2> QED
    BY <2>2, <2>3
<1>3. ASSUME NEW c \in Calls, Put(c)
      PROVE  IInv'
  <2>1. calls[c].mut \in Mutations /\ calls[c].mut # Blank /\ mem.seq + 1 \in Seqs
    BY <1>3, TrailAssumption
    DEF Put, Permit, TypeOK, Mutations, Kinds, Blank, Room, Seqs, States
  <2>2. TypeOK'
    BY <1>3, <2>1 DEF Put, TypeOK
  <2>3. Permit'
    BY <1>3, <2>1 DEF Put, Permit, TypeOK, Room
  <2>4. Covered'
    BY <1>3, <2>1 DEF Put, Covered, Permit, TypeOK, Written, Listed
  <2>5. Validated'
    BY <1>3 DEF Put, Validated, TypeOK
  <2> QED
    BY <2>2, <2>3, <2>4, <2>5
<1>4. ASSUME NEW c \in Calls, WriteTmp(c)
      PROVE  IInv'
  <2>1. calls[c].mut \in Mutations /\ mem.seq + 1 \in Seqs
    BY <1>4, TrailAssumption DEF WriteTmp, Permit, TypeOK, Room, Seqs, States
  <2>2. TypeOK'
    BY <1>4, <2>1 DEF WriteTmp, TypeOK
  <2>3. Permit'
    BY <1>4, <2>1 DEF WriteTmp, Permit, TypeOK, Room
  <2>4. Covered'
    BY <1>4 DEF WriteTmp, Covered, Permit, TypeOK, Written
  <2>5. Validated'
    BY <1>4 DEF WriteTmp, Validated, TypeOK
  <2> QED
    BY <2>2, <2>3, <2>4, <2>5
<1>5. ASSUME NEW c \in Calls, Rename(c)
      PROVE  IInv'
  <2>1. /\ calls[c].mut \in Mutations /\ calls[c].mut # Blank /\ mem.seq + 1 \in Seqs
        /\ tmp[mem.seq + 1] = calls[c].mut
    BY <1>5, TrailAssumption
    DEF Rename, Permit, TypeOK, Mutations, Kinds, Blank, Room, Seqs, States
  <2>2. TypeOK'
    BY <1>5, <2>1 DEF Rename, TypeOK
  <2>3. Permit'
    BY <1>5, <2>1 DEF Rename, Permit, TypeOK, Room
  <2>4. Covered'
    BY <1>5, <2>1 DEF Rename, Covered, Permit, TypeOK, Written
  <2>5. Validated'
    BY <1>5 DEF Rename, Validated, TypeOK
  <2> QED
    BY <2>2, <2>3, <2>4, <2>5
<1>6. ASSUME NEW c \in Calls, WriteFails(c)
      PROVE  IInv'
  <2>1. TypeOK'
    BY <1>6, TrailAssumption DEF WriteFails, TypeOK, Idle, NoRequest, Requests, Methods, IdOps, Refs
  <2>2. Permit'
    BY <1>6, TrailAssumption DEF WriteFails, Permit, TypeOK, Idle, Room
  <2>3. Covered'
    BY <1>6 DEF WriteFails, Covered, Permit, TypeOK, Idle, Written
  <2>4. Validated'
    BY <1>6 DEF WriteFails, Validated, TypeOK, Idle
  <2> QED
    BY <2>1, <2>2, <2>3, <2>4
<1>7. ASSUME NEW c \in Calls, Commit(c)
      PROVE  IInv'
  <2> DEFINE m == calls[c].mut
  <2>1. m \in Mutations /\ mem.seq < MaxSeq /\ mem.seq + 1 \in Seqs
    BY <1>7, TrailAssumption DEF Commit, Permit, TypeOK, Room, Seqs, States
  <2>2. Applicable(mem, m, mem.seq + 1)
    BY <1>7 DEF Commit, Validated
  <2>3. /\ mem' = Apply(mem, m)
        /\ mem' \in States
        /\ mem'.seq = mem.seq + 1
    <3>1. mem' = Apply(mem, m)
      BY <1>7, <2>2 DEF Commit
    <3>2. Apply(mem, m) \in States /\ Apply(mem, m).seq = mem.seq + 1
      BY <2>1, ApplyType DEF TypeOK, Apply
    <3> QED
      BY <3>1, <3>2
  <2>4. /\ acked' = acked \cup {mem.seq + 1}
        /\ calls' = [calls EXCEPT ![c] = Idle]
        /\ holder' = None
        /\ UNCHANGED <<meta, log, tmp, mode, left>>
        /\ calls[c].pc = "written"
    BY <1>7, <2>2 DEF Commit, disk
  <2> HIDE DEF m
  <2>5. TypeOK'
    BY <2>1, <2>3, <2>4, TrailAssumption
    DEF TypeOK, Idle, NoRequest, Requests, Methods, IdOps, Refs
  <2>6. Permit'
    BY <2>4, TrailAssumption DEF Permit, TypeOK, Idle, Room
  <2>7. Covered'
    BY <2>1, <2>3, <2>4 DEF Covered, Permit, TypeOK, Idle, Written, Seqs, States
  <2>8. Validated'
    <3>1. \A l \in Lanes : mem'.leaf[l] # Missing => IsTarget(mem', mem'.leaf[l])
      BY <2>1, <2>2, <2>3, ApplyLeaves DEF Validated, TypeOK
    <3>2. \A d \in Calls : calls'[d].pc \notin Holding
      BY <2>4 DEF Permit, TypeOK, Idle
    <3> QED
      BY <3>1, <3>2 DEF Validated
  <2> QED
    BY <2>5, <2>6, <2>7, <2>8
<1>8. CASE Create
  BY <1>8 DEF Create, TypeOK, Permit, Covered, Validated, disk, Written, Room
<1>9. CASE PutMeta
  BY <1>9 DEF PutMeta, TypeOK, Permit, Covered, Validated, Written, Room
<1>10. CASE Load
  <2>1. TypeOK'
    BY <1>10 DEF Load, TypeOK, disk, Listed, Items
  <2>2. Permit'
    BY <1>10 DEF Load, Permit, disk, Room
  <2>3. Covered'
    BY <1>10 DEF Load, Covered, disk, Listed, Written
  <2>4. Validated'
    BY <1>10 DEF Load, Validated
  <2> QED
    BY <2>1, <2>2, <2>3, <2>4
<1>11. ASSUME NEW i \in left, Replay(i)
       PROVE  IInv'
  <2>1. i \in Items /\ i \in Listed
    BY <1>11 DEF Replay, TypeOK, Covered
  <2>2. Stored(i) \in Mutations
    BY <2>1 DEF Stored, Listed, Items, TypeOK, Mutations, Kinds, Blank, Torn
  <2>3. CASE Applicable(mem, Stored(i), i.seq)
    <3>1. i.seq = mem.seq + 1 /\ mem.seq < MaxSeq
      BY <2>1, <2>3, TrailAssumption DEF Applicable, Items, Seqs, TypeOK, States
    <3>2. mem' = Apply(mem, Stored(i)) /\ mem' \in States /\ mem'.seq = mem.seq + 1
      BY <1>11, <2>2, <2>3, <3>1, ApplyType DEF Replay, TypeOK, Apply
    <3>3. /\ left' = left \ {i}
          /\ mode = "replaying"
          /\ UNCHANGED <<meta, log, tmp, mode, holder, calls, acked>>
      BY <1>11, <2>3 DEF Replay, disk
    <3>4. TypeOK'
      BY <3>2, <3>3 DEF TypeOK
    <3>5. Permit'
      BY <3>3 DEF Permit
    <3>6. Covered'
      BY <2>1, <3>1, <3>2, <3>3 DEF Covered, Permit, Written, Listed, TypeOK, States, Seqs
    <3>7. Validated'
      <4>1. \A l \in Lanes : mem'.leaf[l] # Missing => IsTarget(mem', mem'.leaf[l])
        BY <2>2, <2>3, <3>1, <3>2, ApplyLeaves DEF Validated, TypeOK
      <4>2. \A d \in Calls : calls'[d].pc \notin Holding
        BY <3>3 DEF Permit
      <4> QED
        BY <4>1, <4>2 DEF Validated
    <3> QED
      BY <3>4, <3>5, <3>6, <3>7
  <2>4. CASE ~Applicable(mem, Stored(i), i.seq)
    <3>1. /\ mode' = "unloadable" /\ mode = "replaying" /\ mem' = EmptyState /\ left' = {}
          /\ UNCHANGED <<meta, log, tmp, holder, calls, acked>>
      BY <1>11, <2>4 DEF Replay, disk
    <3>2. TypeOK' /\ Permit' /\ Covered'
      BY <3>1, EmptyStateType DEF TypeOK, Permit, Covered, Room, Written
    <3>3. Validated'
      BY <3>1 DEF Permit, Validated, EmptyState, IsTarget
    <3> QED
      BY <3>2, <3>3
  <2> QED
    BY <2>3, <2>4
<1>12. CASE Loaded
  BY <1>12 DEF Loaded, TypeOK, Permit, Covered, Validated, disk, Written, Room
<1>13. CASE Crash
  <2>1. TypeOK'
    BY <1>13, EmptyStateType, TrailAssumption
    DEF Crash, TypeOK, Idle, NoRequest, Requests, Methods, IdOps, Refs
  <2>2. Permit'
    BY <1>13, TrailAssumption DEF Crash, Permit, Idle, Room
  <2>3. Covered'
    BY <1>13 DEF Crash, Covered, Idle, Written
  <2>4. Validated'
    BY <1>13 DEF Crash, Validated, EmptyState, Idle, IsTarget
  <2> QED
    BY <2>1, <2>2, <2>3, <2>4
<1>14. CASE UNCHANGED vars
  BY <1>14 DEF vars, TypeOK, Permit, Covered, Validated, Written, Room, Listed
<1> QED
  BY <1>1, <1>2, <1>3, <1>4, <1>5, <1>6, <1>7, <1>8, <1>9, <1>10, <1>11, <1>12, <1>13,
     <1>14 DEF Next, Step

THEOREM Invariance == Spec => []IInv
BY InitIInv, KeepsIInv, PTL DEF Spec

\* Every variable keeps its type.
THEOREM TypeCorrect == Spec => []TypeOK
BY Invariance, PTL DEF IInv

----------------------------------------------------------------------------
(* What callers may rely on, with either backend.                          *)

\* A write that reached the disk is accepted by the memory it is applied to
\* (do-session.ts:184-335): a resolved put is never followed by a rejection.
THEOREM CommitsAreAccepted == Spec => []CommitNeverRejected
<1>1. IInv => CommitNeverRejected
  BY DEF IInv, Validated, CommitNeverRejected
<1> QED
  BY <1>1, Invariance, PTL

\* A key is written once: only the permit's holder writes, above every key the
\* memory knows.
LEMMA WrittenStays ==
    IInv /\ [Next]_vars => \A k \in Seqs : Written(k) => log'[k] = log[k]
<1> SUFFICES ASSUME IInv, [Next]_vars, NEW k \in Seqs, Written(k)
             PROVE  log'[k] = log[k]
  OBVIOUS
<1>1. ASSUME NEW c \in Calls, Put(c) \/ Rename(c)
      PROVE  log'[k] = log[k]
  <2>1. calls[c].pc \in {"writing", "renaming"} /\ calls[c].pc # "written"
    BY <1>1 DEF Put, Rename
  <2>2. mode = "up" /\ \A d \in Calls : calls[d].pc # "written"
    BY <2>1 DEF IInv, Permit, TypeOK
  <2>3. k <= mem.seq
    BY <2>2 DEF IInv, Covered
  <2>4. k # mem.seq + 1
    BY <2>3 DEF IInv, TypeOK, States, Seqs
  <2> QED
    BY <1>1, <2>4 DEF Put, Rename, IInv, TypeOK
<1>2. UNCHANGED log \/ \E c \in Calls : Put(c) \/ Rename(c)
  BY DEF Next, vars, Step, Request, Validate, WriteTmp, WriteFails, Commit, Create,
     PutMeta, Load, Replay, Loaded, Crash, disk
<1> QED
  BY <1>1, <1>2

\* What was acknowledged stays on disk and is never overwritten, whatever
\* calls interleave, fail or are cut by a crash (do-session.ts:353-361).
THEOREM AckedIsDurable == Spec => AckedStays
<1>1. IInv /\ [Next]_vars => [\A k \in acked : log'[k] = log[k]]_vars
  BY WrittenStays DEF IInv, Covered, TypeOK
<1> QED
  BY <1>1, Invariance, PTL DEF Spec, AckedStays

----------------------------------------------------------------------------
(* On Durable Object storage there is no .tmp: the log has no gap, and the *)
(* trail is an append-only log.                                            *)

\* The memory covers exactly the keys on disk.
NoGap ==
    /\ \A k \in Seqs : tmp[k] = Blank
    /\ LogIsPrefix
    /\ mode \in {"up", "replaying"} => \A k \in 1 .. mem.seq : Written(k)
    /\ mode \in {"down", "creating"} => mem.seq = 0

LEMMA InitNoGap == Init => NoGap
BY TrailAssumption DEF Init, NoGap, LogIsPrefix, Written, EmptyState

LEMMA KeepsNoGap ==
    ASSUME FileBackend = FALSE
    PROVE  IInv /\ IInv' /\ NoGap /\ [Next]_vars => NoGap'
<1> SUFFICES ASSUME IInv, IInv', NoGap, [Next]_vars PROVE NoGap'
  OBVIOUS
<1> USE DEF NoGap, LogIsPrefix, Written
<1>0. mem.seq \in 0 .. MaxSeq /\ MaxSeq \in Nat
  BY TrailAssumption DEF IInv, TypeOK, States
<1>1. ASSUME NEW c \in Calls, Put(c)
      PROVE  NoGap'
  <2>1. mode = "up" /\ calls[c].mut # Blank
    BY <1>1 DEF Put, IInv, Permit, TypeOK, Mutations, Kinds, Blank
  <2>2. \A k \in Seqs : log[k] # Blank => k <= mem.seq
    BY <1>1 DEF Put, IInv, Permit, Covered, TypeOK
  <2>3. /\ log' = [log EXCEPT ![mem.seq + 1] = calls[c].mut]
        /\ log \in [Seqs -> Mutations \cup {Blank}]
        /\ UNCHANGED <<mem, tmp, mode>>
    BY <1>1 DEF Put, IInv, TypeOK
  <2> QED
    BY <1>0, <2>1, <2>2, <2>3 DEF Seqs
<1>2. ASSUME NEW c \in Calls, Commit(c)
      PROVE  NoGap'
  <2>1. mode = "up" /\ Applicable(mem, calls[c].mut, mem.seq + 1)
    BY <1>2 DEF Commit, IInv, Permit, Validated
  <2>2. mem'.seq = mem.seq + 1 /\ UNCHANGED <<log, tmp, mode>>
    BY <1>2, <2>1 DEF Commit, disk, Apply
  <2>3. log[mem.seq + 1] # Blank
    BY <1>2 DEF Commit, IInv, Covered
  <2> QED
    BY <1>0, <2>1, <2>2, <2>3
<1>3. ASSUME NEW i \in left, Replay(i)
      PROVE  NoGap'
  <2>1. i \in Listed /\ i \in Items
    BY <1>3 DEF Replay, IInv, Covered, TypeOK
  <2>2. log[i.seq] # Blank
    BY <2>1 DEF Listed, Items
  <2>3. CASE Applicable(mem, Stored(i), i.seq)
    <3>1. mem'.seq = i.seq /\ i.seq = mem.seq + 1 /\ UNCHANGED <<log, tmp, mode>>
      BY <1>3, <2>3 DEF Replay, Apply, Applicable, disk
    <3> QED
      BY <1>0, <1>3, <2>2, <3>1 DEF Replay
  <2>4. CASE ~Applicable(mem, Stored(i), i.seq)
    BY <1>3, <2>4 DEF Replay, disk
  <2> QED
    BY <2>3, <2>4
<1>4. CASE \/ \E c \in Calls : \/ Validate(c) \/ WriteTmp(c) \/ Rename(c) \/ WriteFails(c)
                              \/ \E op \in Ops : \E r \in RequestsOf(op) : Request(c, r)
           \/ Create \/ UNCHANGED vars
  <2>1. ~\E c \in Calls : WriteTmp(c)
    BY DEF WriteTmp
  <2>2. \A c \in Calls : ~Rename(c)
    <3>1. SUFFICES ASSUME NEW c \in Calls, Rename(c) PROVE FALSE
      OBVIOUS
    <3>2. calls[c].mut \in Mutations /\ tmp[mem.seq + 1] = calls[c].mut /\ mem.seq + 1 \in Seqs
      BY <1>0, <3>1 DEF Rename, IInv, Permit, Room, Seqs
    <3> QED
      BY <3>2 DEF Mutations, Kinds, Blank
  <2>3. ASSUME NEW c \in Calls, WriteFails(c)
        PROVE  NoGap'
    BY <2>3 DEF WriteFails
  <2>4. ASSUME NEW c \in Calls, Validate(c)
        PROVE  NoGap'
    BY <2>4 DEF Validate, disk
  <2>5. ASSUME NEW c \in Calls, NEW op \in Ops, NEW r \in RequestsOf(op), Request(c, r)
        PROVE  NoGap'
    BY <2>5 DEF Request, disk
  <2>6. CASE Create \/ UNCHANGED vars
    BY <2>6 DEF Create, disk, vars
  <2> QED
    BY <1>4, <2>1, <2>2, <2>3, <2>4, <2>5, <2>6
<1>5. CASE PutMeta \/ Load \/ Loaded
  BY <1>0, <1>5 DEF PutMeta, Load, Loaded, disk
<1>6. CASE Crash
  BY <1>6 DEF Crash, EmptyState
<1> QED
  BY <1>1, <1>2, <1>3, <1>4, <1>5, <1>6 DEF Next, Step

\* A crash or a failed put at any step leaves the keys 1..n of the log
\* (do-session.ts:15-19).
THEOREM PrefixOnDurableObject ==
    ASSUME FileBackend = FALSE
    PROVE  Spec => []LogIsPrefix
<1>1. Spec => []NoGap
  BY InitNoGap, KeepsNoGap, Invariance, PTL DEF Spec
<1>2. NoGap => LogIsPrefix
  BY DEF NoGap
<1> QED
  BY <1>1, <1>2, PTL

----------------------------------------------------------------------------
(* The refinement: each put appends one record, each commit acknowledges   *)
(* the newest one, and every other step leaves the abstract log alone.     *)

IsLen(n) == n \in 0 .. MaxSeq /\ \A k \in Seqs : Written(k) <=> k <= n
HasLen == \E n \in 0 .. MaxSeq : IsLen(n)
Entries == [k \in 1 .. LogLen |-> log[k]]

LEMMA LogLenIs == \A n : IsLen(n) => LogLen = n
<1> SUFFICES ASSUME NEW n, IsLen(n) PROVE LogLen = n
  OBVIOUS
<1>1. \A j \in 0 .. MaxSeq : (\A k \in Seqs : Written(k) <=> k <= j) => j = n
  BY TrailAssumption DEF IsLen, Seqs
<1> QED
  BY <1>1, TrailAssumption DEF LogLen, IsLen

LEMMA AppendIs ==
    ASSUME NEW n \in Nat, NEW f, NEW r, NEW S, \A k \in 1 .. n : f[k] \in S, r \in S
    PROVE  Append([k \in 1 .. n |-> f[k]], r)
             = [k \in 1 .. n + 1 |-> IF k = n + 1 THEN r ELSE f[k]]
<1> DEFINE s == [k \in 1 .. n |-> f[k]]
           t == [k \in 1 .. n + 1 |-> IF k = n + 1 THEN r ELSE f[k]]
<1>1. s \in Seq(S) /\ Len(s) = n
  OBVIOUS
<1>2. /\ Append(s, r) \in Seq(S)
      /\ Len(Append(s, r)) = n + 1
      /\ \A i \in 1 .. n : Append(s, r)[i] = s[i]
      /\ Append(s, r)[n + 1] = r
  BY <1>1, AppendProperties
<1>3. t \in Seq(S) /\ Len(t) = n + 1
  OBVIOUS
<1>4. \A i \in 1 .. n + 1 : Append(s, r)[i] = t[i]
  BY <1>2
<1> QED
  BY <1>2, <1>3, <1>4, SeqEqual

\* A put extends the log by one key.
LEMMA PutExtends ==
    ASSUME FileBackend = FALSE, IInv, NoGap, NEW c \in Calls, Put(c)
    PROVE  /\ IsLen(mem.seq)
           /\ (\A k \in Seqs : Written(k)' <=> k <= mem.seq + 1)
           /\ mem.seq + 1 \in Seqs
           /\ calls[c].mut \in Mutations
           /\ log' = [log EXCEPT ![mem.seq + 1] = calls[c].mut]
<1>1. mode = "up" /\ calls[c].mut \in Mutations /\ calls[c].mut # Blank
  BY DEF Put, IInv, Permit, TypeOK, Mutations, Kinds, Blank
<1>2. mem.seq \in 0 .. MaxSeq /\ mem.seq + 1 \in Seqs /\ MaxSeq \in Nat
  BY TrailAssumption DEF Put, Room, IInv, TypeOK, States, Seqs
<1>3. \A k \in Seqs : Written(k) <=> k <= mem.seq
  <2>1. \A k \in Seqs : Written(k) => k <= mem.seq
    BY <1>1 DEF Put, IInv, Permit, Covered, TypeOK
  <2> QED
    BY <1>1, <1>2, <2>1 DEF NoGap, Seqs
<1>4. log' = [log EXCEPT ![mem.seq + 1] = calls[c].mut]
  BY DEF Put
<1>5. \A k \in Seqs : Written(k)' <=> k <= mem.seq + 1
  BY <1>1, <1>2, <1>3, <1>4 DEF Written, IInv, TypeOK, Seqs
<1> QED
  BY <1>1, <1>2, <1>3, <1>4, <1>5 DEF IsLen

\* With one atomic put there is nothing to rename.
LEMMA NeverRenames ==
    ASSUME IInv, NoGap, NEW c \in Calls
    PROVE  ~Rename(c)
<1>1. SUFFICES ASSUME Rename(c) PROVE FALSE
  OBVIOUS
<1>2. calls[c].mut \in Mutations /\ tmp[mem.seq + 1] = calls[c].mut /\ mem.seq + 1 \in Seqs
  BY <1>1, TrailAssumption DEF Rename, IInv, Permit, Room, Seqs, TypeOK, States
<1> QED
  BY <1>2 DEF NoGap, Mutations, Kinds, Blank

LEMMA LogChanges ==
    ASSUME FileBackend = FALSE, IInv, NoGap, [Next]_vars
    PROVE  UNCHANGED log \/ \E c \in Calls : Put(c)
BY NeverRenames DEF Next, vars, Step, Request, Validate, WriteTmp, WriteFails, Commit,
   Create, PutMeta, Load, Replay, Loaded, Crash, disk

LEMMA InitLen == Init => HasLen /\ Durable!Init
<1> SUFFICES ASSUME Init PROVE HasLen /\ Durable!Init
  OBVIOUS
<1>1. IsLen(0)
  BY TrailAssumption DEF IsLen, Init, Written, Seqs
<1>2. LogLen = 0
  BY <1>1, LogLenIs
<1>3. [k \in 1 .. LogLen |-> log[k]] = <<>>
  BY <1>2
<1> QED
  BY <1>1, <1>3, TrailAssumption DEF HasLen, IsLen, Durable!Init, Init

LEMMA KeepsLen ==
    ASSUME FileBackend = FALSE
    PROVE  IInv /\ NoGap /\ HasLen /\ [Next]_vars => HasLen'
<1> SUFFICES ASSUME IInv, NoGap, HasLen, [Next]_vars PROVE HasLen'
  OBVIOUS
<1>1. CASE UNCHANGED log
  BY <1>1 DEF HasLen, IsLen, Written
<1>2. ASSUME NEW c \in Calls, Put(c)
      PROVE  HasLen'
  <2>1. mem.seq + 1 \in Seqs /\ \A k \in Seqs : Written(k)' <=> k <= mem.seq + 1
    BY <1>2, PutExtends
  <2>2. mem.seq + 1 \in 0 .. MaxSeq
    BY <2>1, TrailAssumption DEF Seqs
  <2>3. (\A k \in Seqs : Written(k) <=> k <= mem.seq + 1)'
    BY <1>2, <2>1 DEF Put, Written
  <2>4. UNCHANGED mem
    BY <1>2 DEF Put
  <2> QED
    BY <2>2, <2>3, <2>4 DEF HasLen, IsLen
<1> QED
  BY <1>1, <1>2, LogChanges

LEMMA LenPrime == ASSUME NEW n, IsLen(n)' PROVE LogLen' = n
<1>1. \A j \in 0 .. MaxSeq : (\A k \in Seqs : Written(k)' <=> k <= j) => j = n
  BY TrailAssumption DEF IsLen, Seqs
<1> QED
  BY <1>1, TrailAssumption DEF LogLen, IsLen

LEMMA Simulates ==
    ASSUME FileBackend = FALSE, IInv, NoGap, HasLen, [Next]_vars
    PROVE  [Durable!Next]_<<Entries, acked>>
<1>1. PICK n \in 0 .. MaxSeq : IsLen(n)
  BY DEF HasLen
<1>2. LogLen = n /\ n \in Nat
  BY <1>1, LogLenIs, TrailAssumption
<1>3. ASSUME NEW c \in Calls, Put(c)
      PROVE  Durable!AppendRecord
  <2> DEFINE m == calls[c].mut
  <2>1. n = mem.seq
    BY <1>2, <1>3, PutExtends, LogLenIs
  <2>2. IsLen(n + 1)'
    <3>1. n + 1 \in Seqs /\ \A k \in Seqs : Written(k)' <=> k <= n + 1
      BY <1>3, <2>1, PutExtends
    <3> QED
      BY <3>1, TrailAssumption DEF IsLen, Seqs, Written
  <2>3. LogLen' = n + 1
    BY <2>2, LenPrime
  <2>4. /\ log' = [log EXCEPT ![n + 1] = m]
        /\ n + 1 \in Seqs
        /\ m \in Mutations
        /\ UNCHANGED acked
    BY <1>3, <2>1, PutExtends DEF Put
  <2>5. \A k \in 1 .. n : log[k] \in Mutations
    BY <1>1, <2>4, TrailAssumption DEF IsLen, Written, IInv, TypeOK, Seqs
  <2> HIDE DEF m
  <2>6. Append(Entries, m) = [k \in 1 .. n + 1 |-> IF k = n + 1 THEN m ELSE log[k]]
    BY <1>2, <2>4, <2>5, AppendIs DEF Entries
  <2>7. Entries' = [k \in 1 .. n + 1 |-> IF k = n + 1 THEN m ELSE log[k]]
    BY <1>2, <2>3, <2>4, TrailAssumption DEF Entries, IInv, TypeOK, Seqs
  <2>8. Entries' # <<>> /\ Len(Entries') = n + 1 /\ Entries'[n + 1] = m
    BY <1>2, <2>7
  <2> QED
    BY <2>4, <2>6, <2>7, <2>8 DEF Durable!AppendRecord, Entries
<1>4. CASE UNCHANGED log
  <2>1. LogLen' = n
    BY <1>1, <1>4, LenPrime DEF IsLen, Written
  <2>2. UNCHANGED Entries
    BY <1>2, <1>4, <2>1 DEF Entries
  <2>3. ASSUME NEW c \in Calls, Commit(c)
        PROVE  Durable!Acknowledge
    <3>1. mode = "up" /\ Written(mem.seq + 1) /\ acked' = acked \cup {mem.seq + 1}
      BY <2>3 DEF Commit, IInv, Permit, Covered, Validated
    <3>2. mem.seq + 1 \in Seqs
      BY <2>3, TrailAssumption DEF Commit, IInv, Permit, Room, TypeOK, States, Seqs
    <3>3. n = mem.seq + 1
      <4>1. mem.seq + 1 <= n
        BY <1>1, <3>1, <3>2 DEF IsLen
      <4>2. \A k \in Seqs : Written(k) => k <= mem.seq + 1
        BY <3>1, <3>2 DEF IInv, Covered, TypeOK, States, Seqs
      <4>3. n \in Seqs /\ Written(n)
        BY <1>1, <3>2, <4>1 DEF IsLen, Seqs
      <4> QED
        BY <1>2, <3>2, <4>1, <4>2, <4>3 DEF Seqs
    <3>4. Entries \in Seq(Mutations) /\ Len(Entries) = n
      <4>1. \A k \in 1 .. n : log[k] \in Mutations
        BY <1>1, TrailAssumption DEF IsLen, Written, IInv, TypeOK, Seqs
      <4> QED
        BY <1>2, <4>1 DEF Entries
    <3>5. Entries # <<>> /\ acked' = acked \cup {Len(Entries)}
      BY <1>2, <3>1, <3>2, <3>3, <3>4 DEF Seqs
    <3> QED
      BY <2>2, <3>5 DEF Durable!Acknowledge, Entries
  <2>4. UNCHANGED acked \/ \E c \in Calls : Commit(c)
    BY DEF Next, vars, Step, Request, Validate, Put, WriteTmp, Rename, WriteFails, Create,
       PutMeta, Load, Replay, Loaded, Crash, disk
  <2> QED
    BY <2>2, <2>3, <2>4 DEF Durable!Next
<1> QED
  BY <1>3, <1>4, LogChanges DEF Durable!Next

\* On Durable Object storage the trail implements the append-only log of
\* AppendLog: records are appended one at a time, never changed or removed, and
\* acknowledged in order (do-session.ts:15-24).
THEOREM TrailImplementsAppendLog ==
    ASSUME FileBackend = FALSE
    PROVE  Spec => AppendOnly
<1>1. Spec => [](NoGap /\ HasLen)
  BY InitNoGap, KeepsNoGap, InitLen, KeepsLen, Invariance, PTL DEF Spec
<1>2. Spec => Durable!Init
  BY InitLen DEF Spec
<1>3. IInv /\ NoGap /\ HasLen /\ [Next]_vars => [Durable!Next]_<<Entries, acked>>
  BY Simulates
<1> QED
  BY <1>1, <1>2, <1>3, Invariance, PTL DEF Spec, AppendOnly, Durable!Spec, Entries

----------------------------------------------------------------------------
(* On Durable Object storage every load succeeds, and the memory is what   *)
(* the keys say.  Both are stated of any log g and memory s first.         *)

\* A lane or a name has no id of its own.
Plain(m) == m.kind \in {"lane", "fact"} => m.id = None

\* h gives the memory after each key: every key is applicable where it is replayed.
Replays(g, h) ==
    /\ h[0] = EmptyState
    /\ \A k \in Seqs : h[k - 1] \in States
    /\ \A k \in Seqs : g[k] # Blank =>
          Applicable(h[k - 1], g[k], k) /\ h[k] = Apply(h[k - 1], g[k])

Bears(m) == m.kind \in {"entry", "started", "finished", "record"}
OfLane(m, l) == m.kind \in {"entry", "lane"} /\ m.lane = l
LeafOf(m) == IF m.kind = "entry" THEN m.id ELSE m.ref

\* The last of the first n keys that moves a lane gives its leaf.
Led(g, s, l) ==
    \/ (\A k \in 1 .. s.seq : ~OfLane(g[k], l)) /\ s.leaf[l] = EmptyState.leaf[l]
    \/ \E k \in 1 .. s.seq :
          /\ OfLane(g[k], l) /\ s.leaf[l] = LeafOf(g[k])
          /\ \A j \in 1 .. s.seq : OfLane(g[j], l) => j <= k

Starts(m, l) == m.kind = "started" /\ m.lane = l
Finishes(m, l, i) == m.kind = "finished" /\ m.lane = l /\ m.ref = i
StillOpen(g, n, l, i) == \E k \in 1 .. n :
    /\ Starts(g[k], l) /\ g[k].id = i
    /\ \A j \in k + 1 .. n : ~Finishes(g[j], l, i)

\* The memory s is what the first s.seq keys of g say.
Knows(g, s) ==
    /\ \A i \in Ids : i \in s.used <=> \E k \in 1 .. s.seq : Bears(g[k]) /\ g[k].id = i
    /\ \A l \in Lanes : Led(g, s, l)
    /\ \A l \in Lanes : \A i \in Ids : i \in s.open[l] <=> StillOpen(g, s.seq, l, i)
    /\ \A i \in Ids : IsEntry(s, i) <=> \E k \in 1 .. s.seq : g[k].kind = "entry" /\ g[k].id = i
    /\ \A k \in 1 .. s.seq : g[k].kind = "entry" => s.parentOf[g[k].id] = g[k].ref

Logs == [Seqs -> Mutations \cup {Blank}]

LEMMA KnowsNothing == ASSUME NEW g \in Logs PROVE Knows(g, EmptyState)
<1>1. EmptyState.seq = 0 /\ 1 .. EmptyState.seq = {}
  BY DEF EmptyState
<1>2. \A l \in Lanes : Led(g, EmptyState, l) /\ \A i \in Ids : ~StillOpen(g, EmptyState.seq, l, i)
  BY <1>1 DEF Led, StillOpen
<1> QED
  BY <1>1, <1>2 DEF Knows, EmptyState, IsEntry

\* Only the keys up to the memory's own count.
LEMMA KnowsFrame ==
    ASSUME NEW g \in Logs, NEW f \in Logs, NEW s \in States, Knows(g, s),
           \A k \in 1 .. s.seq : f[k] = g[k]
    PROVE  Knows(f, s)
<1>1. \A l \in Lanes : Led(f, s, l)
  BY DEF Knows, Led
<1>2. ASSUME NEW l \in Lanes, NEW i \in Ids
      PROVE  StillOpen(f, s.seq, l, i) <=> StillOpen(g, s.seq, l, i)
  <2>1. s.seq \in Nat
    BY TrailAssumption DEF States
  <2>2. \A k \in 1 .. s.seq : \A j \in k + 1 .. s.seq : j \in 1 .. s.seq
    BY <2>1
  <2> QED
    BY <2>2 DEF StillOpen
<1> QED
  BY <1>1, <1>2 DEF Knows

\* Applying the next key keeps the memory what the keys say
\* (session-state.ts:183-278).
LEMMA KnowsNext ==
    ASSUME NEW g \in Logs, NEW s \in States, Knows(g, s),
           s.seq + 1 \in Seqs, g[s.seq + 1] \in Mutations, Plain(g[s.seq + 1]),
           Applicable(s, g[s.seq + 1], s.seq + 1)
    PROVE  Knows(g, Apply(s, g[s.seq + 1]))
<1> DEFINE n == s.seq
           m == g[n + 1]
           t == Apply(s, m)
<1>1. n \in Nat /\ t.seq = n + 1 /\ 1 .. n + 1 = (1 .. n) \cup {n + 1} /\ n + 1 \notin 1 .. n
  BY TrailAssumption DEF States, Apply
<1>2. /\ m.id \in Refs /\ m.ref \in Refs /\ m.kind \in Kinds
      /\ Bears(m) => m.id \in Ids /\ m.lane \in Lanes
      /\ ~Bears(m) => m.id = None
  BY DEF Mutations, Bears, Plain, Kinds
<1>3. ASSUME NEW i \in Ids
      PROVE  i \in t.used <=> \E k \in 1 .. n + 1 : Bears(g[k]) /\ g[k].id = i
  <2>1. i \in t.used <=> i \in s.used \/ m.id = i
    BY TrailAssumption DEF Apply
  <2>2. i \in s.used <=> \E k \in 1 .. n : Bears(g[k]) /\ g[k].id = i
    BY DEF Knows
  <2> QED
    BY <1>1, <1>2, <2>1, <2>2, TrailAssumption
<1>4. ASSUME NEW l \in Lanes
      PROVE  Led(g, t, l)
  <2>1. CASE OfLane(m, l)
    <3>1. t.leaf[l] = LeafOf(m)
      BY <2>1 DEF OfLane, LeafOf, Apply, States
    <3>2. n + 1 \in 1 .. t.seq /\ \A j \in 1 .. t.seq : j <= n + 1
      BY <1>1
    <3> QED
      BY <2>1, <3>1, <3>2 DEF Led
  <2>2. CASE ~OfLane(m, l)
    <3>1. t.leaf[l] = s.leaf[l]
      BY <2>2 DEF OfLane, Apply, States
    <3>2. CASE (\A k \in 1 .. n : ~OfLane(g[k], l)) /\ s.leaf[l] = EmptyState.leaf[l]
      BY <1>1, <2>2, <3>1, <3>2 DEF Led
    <3>3. CASE \E k \in 1 .. n : /\ OfLane(g[k], l) /\ s.leaf[l] = LeafOf(g[k])
                                 /\ \A j \in 1 .. n : OfLane(g[j], l) => j <= k
      BY <1>1, <2>2, <3>1, <3>3 DEF Led
    <3> QED
      BY <3>2, <3>3 DEF Knows, Led
  <2> QED
    BY <2>1, <2>2
<1>5. ASSUME NEW l \in Lanes, NEW i \in Ids
      PROVE  i \in t.open[l] <=> StillOpen(g, n + 1, l, i)
  <2>1. i \in s.open[l] <=> StillOpen(g, n, l, i)
    BY DEF Knows
  <2>2. \A k \in 1 .. n : k + 1 .. n + 1 = (k + 1 .. n) \cup {n + 1}
    BY <1>1
  <2>3. StillOpen(g, n + 1, l, i) <=> \/ StillOpen(g, n, l, i) /\ ~Finishes(m, l, i)
                                      \/ Starts(m, l) /\ m.id = i
    <3>1. n + 1 + 1 .. n + 1 = {}
      BY <1>1
    <3>2. ASSUME StillOpen(g, n + 1, l, i)
          PROVE  \/ StillOpen(g, n, l, i) /\ ~Finishes(m, l, i)
                 \/ Starts(m, l) /\ m.id = i
      BY <1>1, <2>2, <3>2 DEF StillOpen
    <3>3. ASSUME StillOpen(g, n, l, i), ~Finishes(m, l, i)
          PROVE  StillOpen(g, n + 1, l, i)
      BY <1>1, <2>2, <3>3 DEF StillOpen
    <3>4. ASSUME Starts(m, l), m.id = i
          PROVE  StillOpen(g, n + 1, l, i)
      BY <1>1, <3>1, <3>4 DEF StillOpen
    <3> QED
      BY <3>2, <3>3, <3>4
  <2>4. i \in t.open[l] <=> \/ i \in s.open[l] /\ ~Finishes(m, l, i)
                            \/ Starts(m, l) /\ m.id = i
    BY DEF Apply, Opened, Starts, Finishes, States
  <2> QED
    BY <2>1, <2>3, <2>4
<1>6. ASSUME NEW i \in Ids
      PROVE  IsEntry(t, i) <=> \E k \in 1 .. n + 1 : g[k].kind = "entry" /\ g[k].id = i
  <2>1. IsEntry(t, i) <=> IsEntry(s, i) \/ (m.kind = "entry" /\ m.id = i)
    BY <1>2, TrailAssumption DEF IsEntry, Apply, States, Refs
  <2>2. IsEntry(s, i) <=> \E k \in 1 .. n : g[k].kind = "entry" /\ g[k].id = i
    BY DEF Knows
  <2> QED
    BY <1>1, <2>1, <2>2
<1>7. ASSUME NEW k \in 1 .. n + 1, g[k].kind = "entry"
      PROVE  t.parentOf[g[k].id] = g[k].ref
  <2>1. CASE k = n + 1
    BY <1>2, <1>7, <2>1 DEF Apply, States, Bears
  <2>2. CASE k \in 1 .. n
    <3>1. g[k] \in Mutations /\ g[k].id \in Ids
      BY <1>1, <1>7, <2>2, TrailAssumption DEF Logs, Seqs, Mutations, Blank
    <3>2. g[k].id \in s.used
      BY <1>7, <2>2, <3>1 DEF Knows, Bears
    <3>3. m.kind = "entry" => m.id # g[k].id
      BY <3>2 DEF Applicable
    <3>4. s.parentOf[g[k].id] = g[k].ref
      BY <1>7, <2>2 DEF Knows
    <3> QED
      BY <3>1, <3>3, <3>4 DEF Apply, States
  <2> QED
    BY <1>1, <2>1, <2>2
<1> HIDE DEF t, m
<1>8. Knows(g, t)
  BY <1>1, <1>3, <1>4, <1>5, <1>6, <1>7 DEF Knows
<1> QED
  BY <1>8 DEF t, m

\* Knowing the keys up to the memory's own is what MemoryMatchesLog says.
LEMMA KnowsDescribes ==
    ASSUME log \in Logs, mem \in States, Knows(log, mem),
           \A k \in 1 .. mem.seq : log[k] \in Mutations
    PROVE  Describes(mem.seq)
<1> DEFINE n == mem.seq
<1>1. mem.used = {log[k].id : k \in {i \in 1 .. n : log[i].kind = "entry" \/ IsRecord(i)}}
  BY DEF Knows, Bears, IsRecord, States, Mutations
<1>2. ASSUME NEW l \in Lanes
      PROVE  mem.leaf[l] = LeafIn(l, n)
  <2>1. CASE (\A k \in 1 .. n : ~OfLane(log[k], l)) /\ mem.leaf[l] = EmptyState.leaf[l]
    BY <2>1 DEF LeafIn, LaneKeys, OfLane
  <2>2. ASSUME NEW k \in 1 .. n, OfLane(log[k], l), mem.leaf[l] = LeafOf(log[k]),
               \A j \in 1 .. n : OfLane(log[j], l) => j <= k
        PROVE  mem.leaf[l] = LeafIn(l, n)
    <3>1. \A j \in 1 .. n : j \in LaneKeys(l, n) <=> OfLane(log[j], l)
      BY DEF LaneKeys, OfLane
    <3>2. LaneKeys(l, n) \subseteq 1 .. n
      BY DEF LaneKeys
    <3>3. k \in LaneKeys(l, n) /\ \A j \in LaneKeys(l, n) : j <= k
      BY <2>2, <3>1, <3>2
    <3>4. \A x \in LaneKeys(l, n) : (\A j \in LaneKeys(l, n) : j <= x) => x = k
      BY <3>2, <3>3
    <3>5. LastOf(LaneKeys(l, n)) = k
      BY <3>3, <3>4 DEF LastOf
    <3> QED
      BY <2>2, <3>3, <3>5 DEF LeafIn, LeafOf
  <2> QED
    BY <2>1, <2>2 DEF Knows, Led
<1>3. ASSUME NEW l \in Lanes
      PROVE  mem.open[l] = OpenIn(l, n)
  <2>1. \A i \in Ids : i \in mem.open[l] <=> i \in OpenIn(l, n)
    <3>1. SUFFICES ASSUME NEW i \in Ids PROVE StillOpen(log, n, l, i) <=> i \in OpenIn(l, n)
      BY DEF Knows
    <3>2. ASSUME NEW k \in 1 .. n, log[k].id = i
          PROVE  /\ Starts(log[k], l)
                 /\ \A j \in k + 1 .. n : ~Finishes(log[j], l, i)
                 <=> k \in {x \in 1 .. n :
                        /\ log[x].kind = "started" /\ log[x].lane = l
                        /\ ~\E j \in x + 1 .. n : log[j].kind = "finished" /\ log[j].lane = l
                                                  /\ log[j].ref = log[x].id}
      BY <3>2 DEF Starts, Finishes
    <3> QED
      BY <3>2 DEF StillOpen, OpenIn
  <2>2. OpenIn(l, n) \subseteq Ids /\ mem.open[l] \subseteq Ids
    BY DEF OpenIn, States, Mutations
  <2> QED
    BY <2>1, <2>2
<1>4. {i \in Ids : IsEntry(mem, i)} = {log[k].id : k \in EntryKeys(n)}
  BY DEF Knows, EntryKeys, Mutations
<1>5. \A k \in EntryKeys(n) : mem.parentOf[log[k].id] = log[k].ref
  BY DEF Knows, EntryKeys
<1> QED
  BY <1>1, <1>2, <1>3, <1>4, <1>5 DEF Describes

----------------------------------------------------------------------------
(* What a load finds, and what the storage answers from.                   *)

\* The log replays, and the memory is the one after its newest applied key.
Replayable == \E h \in [0 .. MaxSeq -> States] :
    Replays(log, h) /\ (mode \in {"up", "replaying"} => mem = h[mem.seq])

Rebuilt ==
    /\ LoadNeverFails
    /\ mode \in {"down", "creating"} => mem = EmptyState
    /\ mode = "replaying" => \A i \in left : i.seq > mem.seq
    /\ \A c \in Calls : calls[c].pc = "written" => log[mem.seq + 1] = calls[c].mut
    /\ \A k \in Seqs : Plain(log[k])
    /\ \A c \in Calls : calls[c].pc \in Holding => Plain(calls[c].mut)
    /\ mode \in {"up", "replaying"} => Knows(log, mem)
    /\ Replayable

LEMMA InitRebuilt == Init => Rebuilt
<1> SUFFICES ASSUME Init PROVE Rebuilt
  OBVIOUS
<1>1. Replayable
  <2> DEFINE h == [k \in 0 .. MaxSeq |-> EmptyState]
  <2>1. h \in [0 .. MaxSeq -> States] /\ Replays(log, h)
    BY EmptyStateType, TrailAssumption DEF Init, Replays, Seqs
  <2> QED
    BY <2>1 DEF Init, Replayable
<1> QED
  BY <1>1 DEF Init, Rebuilt, LoadNeverFails, Plain, Blank, Idle

\* A request that has no id of its own writes none.
LEMMA PlainMutation ==
    ASSUME NEW s \in States, NEW op \in Ops, NEW r \in RequestsOf(op)
    PROVE  Plain(MutationOf(s, r))
BY TrailAssumption DEF Plain, MutationOf, RequestsOf, KindOf, Methods, IdOps

\* The memory after the next key, live and in a load.
LEMMA AppliesNext ==
    ASSUME IInv, Rebuilt, mode \in {"up", "replaying"}, mem.seq + 1 \in Seqs,
           Written(mem.seq + 1), UNCHANGED log,
           mem' = Apply(mem, log[mem.seq + 1]), mode' \in {"up", "replaying"}
    PROVE  Knows(log, mem)' /\ Replayable' /\ Applicable(mem, log[mem.seq + 1], mem.seq + 1)
<1> DEFINE m == log[mem.seq + 1]
<1>1. PICK h \in [0 .. MaxSeq -> States] : Replays(log, h) /\ mem = h[mem.seq]
  BY DEF Rebuilt, Replayable
<1>2. mem.seq \in Nat /\ mem.seq + 1 - 1 = mem.seq
  BY TrailAssumption DEF IInv, TypeOK, States
<1>3. Applicable(mem, m, mem.seq + 1) /\ h[mem.seq + 1] = Apply(mem, m)
  BY <1>1, <1>2 DEF Replays, Written
<1>4. m \in Mutations /\ Plain(m) /\ log \in Logs /\ mem \in States
  BY DEF IInv, TypeOK, Written, Rebuilt, Logs
<1> HIDE DEF m
<1>5. Knows(log, mem')
  BY <1>3, <1>4, KnowsNext DEF Rebuilt, m
<1>6. mem' = h[mem'.seq]
  BY <1>3 DEF Apply, m
<1>7. Replayable'
  BY <1>1, <1>6 DEF Replayable
<1> QED
  BY <1>3, <1>5, <1>7 DEF m

LEMMA KeepsRebuilt ==
    ASSUME FileBackend = FALSE
    PROVE  IInv /\ IInv' /\ NoGap /\ Rebuilt /\ [Next]_vars => Rebuilt'
<1> SUFFICES ASSUME IInv, IInv', NoGap, Rebuilt, [Next]_vars PROVE Rebuilt'
  OBVIOUS
<1>0. /\ mem.seq \in 0 .. MaxSeq /\ MaxSeq \in Nat /\ log \in Logs /\ mem \in States
      /\ calls \in [Calls -> [pc : {"idle", "queued", "writing", "renaming", "written"},
                              req : Requests, mut : Mutations \cup {Blank}]]
  BY TrailAssumption DEF IInv, TypeOK, States, Logs
<1>1. ASSUME NEW c \in Calls, NEW op \in Ops, NEW r \in RequestsOf(op), Request(c, r)
      PROVE  Rebuilt'
  <2>1. /\ UNCHANGED <<log, mem, mode, left>>
        /\ calls' = [calls EXCEPT ![c] = [Idle EXCEPT !.pc = "queued", !.req = r]]
    BY <1>1 DEF Request, disk
  <2> QED
    BY <1>0, <2>1 DEF Rebuilt, LoadNeverFails, Replayable, Idle
<1>2. ASSUME NEW c \in Calls, Validate(c)
      PROVE  Rebuilt'
  <2>1. UNCHANGED <<log, mem, mode, left>>
    BY <1>2 DEF Validate, disk
  <2>2. PICK op \in Ops : calls[c].req \in RequestsOf(op)
    BY <1>2 DEF Validate, IInv, Permit
  <2>3. Plain(MutationOf(mem, calls[c].req))
    BY <1>0, <2>2, PlainMutation
  <2>4. \/ calls' = [calls EXCEPT ![c].pc = "writing", ![c].mut = MutationOf(mem, calls[c].req)]
        \/ calls' = [calls EXCEPT ![c] = Idle]
    BY <1>2 DEF Validate
  <2>5. /\ \A d \in Calls : calls'[d].pc = "written" => log[mem.seq + 1] = calls'[d].mut
        /\ \A d \in Calls : calls'[d].pc \in Holding => Plain(calls'[d].mut)
    BY <1>0, <2>3, <2>4 DEF Rebuilt, Idle
  <2> QED
    BY <2>1, <2>5 DEF Rebuilt, LoadNeverFails, Replayable
<1>3. ASSUME NEW c \in Calls, Put(c)
      PROVE  Rebuilt'
  <2> DEFINE n == mem.seq
             m == calls[c].mut
  <2>1. /\ n + 1 \in Seqs /\ m \in Mutations
        /\ log' = [log EXCEPT ![n + 1] = m]
        /\ \A k \in Seqs : Written(k) => k <= n
    BY <1>3, PutExtends DEF IsLen
  <2>2. /\ calls[c].pc = "writing" /\ calls' = [calls EXCEPT ![c].pc = "written"]
        /\ UNCHANGED <<mem, mode, left>>
        /\ mode = "up"
    BY <1>3 DEF Put, IInv, Permit
  <2>3. Applicable(mem, m, n + 1) /\ Plain(m)
    BY <2>2 DEF IInv, Validated, Rebuilt
  <2>4. log' \in Logs /\ \A k \in 1 .. n : log'[k] = log[k]
    BY <1>0, <2>1 DEF Logs, Seqs
  <2> HIDE DEF m
  <2>5. Knows(log', mem)
    BY <1>0, <2>2, <2>4, KnowsFrame DEF Rebuilt
  <2>6. Replayable'
    <3>1. PICK h \in [0 .. MaxSeq -> States] : Replays(log, h) /\ mem = h[n]
      BY <2>2 DEF Rebuilt, Replayable
    <3> DEFINE g == [h EXCEPT ![n + 1] = Apply(mem, m)]
    <3>2. n < MaxSeq /\ n + 1 - 1 = n
      BY <1>0, <2>1 DEF Seqs
    <3>3. Apply(mem, m) \in States
      BY <1>0, <2>1, <3>2, ApplyType
    <3>4. g \in [0 .. MaxSeq -> States] /\ g[n] = mem
      <4> DEFINE x == Apply(mem, m)
      <4>1. n \in 0 .. MaxSeq /\ n + 1 # n /\ x \in States
        BY <1>0, <3>3
      <4> HIDE DEF x
      <4>2. [h EXCEPT ![n + 1] = x] \in [0 .. MaxSeq -> States]
        BY <3>1, <4>1
      <4>3. [h EXCEPT ![n + 1] = x][n] = h[n]
        BY <3>1, <4>1
      <4> QED
        BY <3>1, <4>2, <4>3 DEF x
    <3>5. ASSUME NEW k \in Seqs, log'[k] # Blank
          PROVE  Applicable(g[k - 1], log'[k], k) /\ g[k] = Apply(g[k - 1], log'[k])
      <4>1. CASE k = n + 1
        BY <1>0, <2>1, <2>3, <3>1, <3>2, <3>4, <4>1 DEF Seqs, Logs
      <4>2. CASE k # n + 1
        <5>1. log'[k] = log[k] /\ k <= n
          BY <1>0, <2>1, <3>5, <4>2 DEF Logs, Written
        <5>2. g[k - 1] = h[k - 1] /\ g[k] = h[k]
          BY <1>0, <3>1, <4>2, <5>1 DEF Seqs
        <5> QED
          BY <3>1, <3>5, <5>1, <5>2 DEF Replays
      <4> QED
        BY <4>1, <4>2
    <3>6. g[0] = EmptyState /\ \A k \in Seqs : g[k - 1] \in States
      BY <1>0, <3>1, <3>4 DEF Replays, Seqs
    <3> HIDE DEF g
    <3>7. Replays(log', g)
      BY <3>5, <3>6 DEF Replays
    <3> QED
      BY <2>2, <3>1, <3>4, <3>7 DEF Replayable
  <2>7. \A k \in Seqs : Plain(log'[k])
    BY <1>0, <2>1, <2>3 DEF Rebuilt, Logs
  <2>8. \A d \in Calls : calls[d].pc = "written" => FALSE
    BY <2>2 DEF IInv, Permit
  <2>9. log'[n + 1] = m
    BY <1>0, <2>1 DEF Logs
  <2>10. /\ \A d \in Calls : calls'[d].pc = "written" => log'[mem'.seq + 1] = calls'[d].mut
         /\ \A d \in Calls : calls'[d].pc \in Holding => Plain(calls'[d].mut)
    BY <1>0, <2>2, <2>3, <2>8, <2>9 DEF Rebuilt, m
  <2> QED
    BY <2>2, <2>5, <2>6, <2>7, <2>10 DEF Rebuilt, LoadNeverFails
<1>4. ASSUME NEW c \in Calls, WriteFails(c)
      PROVE  Rebuilt'
  <2>1. UNCHANGED <<log, mem, mode, left>> /\ calls' = [calls EXCEPT ![c] = Idle]
    BY <1>4 DEF WriteFails
  <2> QED
    BY <1>0, <2>1 DEF Rebuilt, LoadNeverFails, Replayable, Idle
<1>5. ASSUME NEW c \in Calls, Commit(c)
      PROVE  Rebuilt'
  <2>1. mode = "up" /\ mem.seq + 1 \in Seqs /\ Written(mem.seq + 1)
    BY <1>0, <1>5 DEF Commit, IInv, Permit, Covered, Room, Seqs
  <2>2. calls[c].mut = log[mem.seq + 1] /\ Applicable(mem, calls[c].mut, mem.seq + 1)
    BY <1>5 DEF Commit, IInv, Validated, Rebuilt
  <2>3. /\ mem' = Apply(mem, log[mem.seq + 1]) /\ UNCHANGED <<log, mode, left>>
        /\ calls' = [calls EXCEPT ![c] = Idle]
    BY <1>5, <2>2 DEF Commit, disk
  <2>4. Knows(log, mem)' /\ Replayable'
    BY <2>1, <2>3, AppliesNext
  <2>5. \A d \in Calls : calls'[d].pc \notin Holding
    BY <1>0, <1>5, <2>3 DEF Commit, IInv, Permit, Idle
  <2> QED
    BY <2>1, <2>3, <2>4, <2>5 DEF Rebuilt, LoadNeverFails
<1>6. CASE Create
  BY <1>6 DEF Create, disk, Rebuilt, LoadNeverFails, Replayable
<1>7. CASE PutMeta \/ Load
  <2>1. /\ UNCHANGED <<log, mem, calls>> /\ mem = EmptyState /\ mem.seq = 0
        /\ mode' = "up" \/ (mode' = "replaying" /\ left' = Listed)
    BY <1>7 DEF PutMeta, Load, disk, Rebuilt, NoGap
  <2>2. Replayable'
    BY <2>1 DEF Rebuilt, Replayable, Replays
  <2>3. Knows(log, mem)
    BY <1>0, <2>1, KnowsNothing
  <2>4. \A i \in Listed : i.seq > 0
    BY <1>0 DEF Listed, Seqs
  <2> QED
    BY <2>1, <2>2, <2>3, <2>4 DEF Rebuilt, LoadNeverFails
<1>8. ASSUME NEW i \in left, Replay(i)
      PROVE  Rebuilt'
  <2>1. mode = "replaying" /\ i \in Listed /\ i \in Items /\ i.seq > mem.seq
    BY <1>8 DEF Replay, IInv, Covered, TypeOK, Rebuilt
  <2>2. \A j \in Listed : j.src = "key"
    BY DEF Listed, NoGap
  <2>3. Stored(i) = log[i.seq] /\ Written(i.seq) /\ i.seq \in Seqs
    BY <2>1, <2>2 DEF Listed, Stored, Items, Written
  <2>4. \A j \in left : i.seq <= j.seq
    BY <1>8, <2>1, <2>2 DEF Replay, IsNext, IInv, Covered
  <2>5. mem.seq + 1 \in Seqs /\ Written(mem.seq + 1)
    BY <1>0, <2>1, <2>3 DEF NoGap, LogIsPrefix, Seqs
  <2>6. [src |-> "key", seq |-> mem.seq + 1] \in left
    BY <1>0, <2>1, <2>5 DEF IInv, Covered
  <2>7. i.seq = mem.seq + 1
    BY <1>0, <2>1, <2>3, <2>4, <2>6 DEF Seqs
  <2>8. Applicable(mem, log[mem.seq + 1], mem.seq + 1)
    <3>1. PICK h \in [0 .. MaxSeq -> States] : Replays(log, h) /\ mem = h[mem.seq]
      BY <2>1 DEF Rebuilt, Replayable
    <3>2. \A k \in Seqs : log[k] # Blank => Applicable(h[k - 1], log[k], k)
      BY <3>1 DEF Replays
    <3> DEFINE e == mem.seq + 1
    <3>3. e \in Seqs /\ log[e] # Blank /\ e - 1 = mem.seq
      BY <1>0, <2>5 DEF Written
    <3> HIDE DEF e
    <3>4. Applicable(h[e - 1], log[e], e)
      BY <3>2, <3>3
    <3>5. Applicable(mem, log[e], e)
      BY <3>1, <3>3, <3>4, Zenon
    <3> QED
      BY <3>5 DEF e
  <2>9. /\ mem' = Apply(mem, log[mem.seq + 1]) /\ left' = left \ {i}
        /\ UNCHANGED <<mode, log, calls>>
    BY <1>8, <2>3, <2>7, <2>8 DEF Replay, disk
  <2>10. Knows(log, mem)' /\ Replayable'
    BY <2>1, <2>5, <2>9, AppliesNext
  <2>11. mem'.seq = mem.seq + 1 /\ \A j \in left' : j.seq > mem'.seq
    <3>1. \A j \in left : j = [src |-> "key", seq |-> j.seq] /\ j.seq \in Seqs
      BY <2>1, <2>2 DEF IInv, Covered, TypeOK, Items
    <3>2. i = [src |-> "key", seq |-> mem.seq + 1]
      BY <2>7, <3>1
    <3>3. mem'.seq = mem.seq + 1
      BY <2>9 DEF Apply
    <3>4. ASSUME NEW j \in left \ {i}
          PROVE  j.seq > mem.seq + 1
      BY <1>0, <2>4, <2>7, <3>1, <3>2, <3>4 DEF Seqs
    <3> QED
      BY <2>9, <3>3, <3>4
  <2>12. \A d \in Calls : calls'[d].pc \notin Holding
    BY <2>1, <2>9 DEF IInv, Permit
  <2> QED
    BY <2>1, <2>9, <2>10, <2>11, <2>12 DEF Rebuilt, LoadNeverFails
<1>9. CASE Loaded
  BY <1>9 DEF Loaded, disk, Rebuilt, LoadNeverFails, Replayable
<1>10. CASE Crash
  <2>1. /\ mode' = "down" /\ mem' = EmptyState /\ UNCHANGED log
        /\ \A d \in Calls : calls'[d].pc \notin Holding
    BY <1>10 DEF Crash, Idle
  <2> QED
    BY <2>1 DEF Rebuilt, LoadNeverFails, Replayable
<1>11. CASE UNCHANGED vars
  BY <1>11 DEF vars, Rebuilt, LoadNeverFails, Replayable
<1>12. \A c \in Calls : ~WriteTmp(c) /\ ~Rename(c)
  BY NeverRenames DEF WriteTmp
<1> QED
  BY <1>1, <1>2, <1>3, <1>4, <1>5, <1>6, <1>7, <1>8, <1>9, <1>10, <1>11, <1>12 DEF Next, Step

LEMMA RebuiltAlways == ASSUME FileBackend = FALSE PROVE Spec => [](NoGap /\ Rebuilt)
BY InitNoGap, KeepsNoGap, InitRebuilt, KeepsRebuilt, Invariance, PTL DEF Spec

\* On Durable Object storage a load never fails: no crash or failed put at any
\* step of any mutation leaves a trail that replays to an invalid mutation
\* (do-session.ts:15-19).
THEOREM EveryLoadSucceeds ==
    ASSUME FileBackend = FALSE
    PROVE  Spec => []LoadNeverFails
<1>1. Rebuilt => LoadNeverFails
  BY DEF Rebuilt
<1> QED
  BY <1>1, RebuiltAlways, PTL

\* On Durable Object storage the memory that answers (used ids, parents, lane
\* leaves, open operations) is what the keys say, live and after every load, but
\* for the one mutation that is written and not applied (do-session.ts:139-174).
THEOREM MemoryIsTheLog ==
    ASSUME FileBackend = FALSE
    PROVE  Spec => []MemoryMatchesLog
<1>1. ASSUME IInv, NoGap, Rebuilt
      PROVE  MemoryMatchesLog
  <2>1. SUFFICES ASSUME mode = "up"
                 PROVE  Describes(IF \E c \in Calls : calls[c].pc = "written"
                                  THEN LogLen - 1 ELSE LogLen)
    BY DEF MemoryMatchesLog
  <2>2. mem.seq \in 0 .. MaxSeq /\ MaxSeq \in Nat /\ log \in Logs /\ mem \in States
    BY <1>1, TrailAssumption DEF IInv, TypeOK, States, Logs
  <2>3. \A k \in 1 .. mem.seq : log[k] \in Mutations
    BY <1>1, <2>1, <2>2 DEF NoGap, Written, Logs, Seqs
  <2>4. Describes(mem.seq)
    BY <1>1, <2>1, <2>2, <2>3, KnowsDescribes DEF Rebuilt
  <2>5. CASE \E c \in Calls : calls[c].pc = "written"
    <3>1. mem.seq + 1 \in Seqs /\ Written(mem.seq + 1)
      BY <1>1, <2>2, <2>5 DEF IInv, Permit, Covered, Room, Seqs
    <3>2. IsLen(mem.seq + 1)
      BY <1>1, <2>1, <2>2, <3>1 DEF IsLen, IInv, Covered, NoGap, LogIsPrefix, Seqs
    <3>3. LogLen - 1 = mem.seq
      BY <2>2, <3>2, LogLenIs
    <3> QED
      BY <2>4, <2>5, <3>3
  <2>6. CASE ~\E c \in Calls : calls[c].pc = "written"
    <3>1. IsLen(mem.seq)
      BY <1>1, <2>1, <2>2, <2>6 DEF IsLen, IInv, Covered, NoGap, Seqs
    <3> QED
      BY <2>4, <2>6, <3>1, LogLenIs
  <2> QED
    BY <2>5, <2>6
<1> QED
  BY <1>1, RebuiltAlways, Invariance, PTL
=============================================================================
