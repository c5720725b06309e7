------------------------------- MODULE Trail -------------------------------
(***************************************************************************)
(* One session trail: DoSessionStorage (worker/src/do-session.ts) over the *)
(* in-memory SessionState (worker/src/session-state.ts) and a KvStore      *)
(* (store/src/kv.ts, records.ts).                                          *)
(*                                                                         *)
(* A mutation runs under the write semaphore: it is validated against the  *)
(* memory, gets the next sequence number, is put under the key log/<seq>,  *)
(* and is then applied to the memory.  The process may die at any step; a  *)
(* load replays the keys into an empty memory.                             *)
(*                                                                         *)
(* Abstracted: payloads, timestamps, names, label texts and statistics.  A *)
(* mutation keeps the identifiers its validation reads.                    *)
(***************************************************************************)
EXTENDS Integers

CONSTANTS
    Ids,          \* the ids of entries and records (one namespace)
    Lanes,        \* lane names
    Main,         \* the lane every session starts with
    None,         \* JSON null: the root's parent, a lane at no entry
    Missing,      \* Map.get of an absent key
    Calls,        \* callers of the storage's mutating methods
    Ops,          \* the methods they call
    MaxSeq,       \* bound: the longest log explored
    FileBackend   \* TRUE: KvStore.file (tmp + rename); FALSE: KvStore.doStorage

IdOps == {"appendEntry", "startOperation", "finishOperation", "appendRecord"}
Methods == IdOps \cup {"createLane", "moveLane", "setName", "setLabel"}

ASSUME TrailAssumption ==
    /\ Main \in Lanes
    /\ None \notin Ids /\ Missing \notin Ids /\ None # Missing
    /\ None \notin Calls
    /\ Ops \subseteq Methods
    /\ MaxSeq \in Nat
    /\ FileBackend \in BOOLEAN

Seqs == 1 .. MaxSeq
Refs == Ids \cup {None}
Kinds == {"entry", "started", "finished", "record", "lane", "fact"}

\* ref: an entry's parent, a finished record's runId, a lane's new leaf, a
\* label's target; lane is None for a fact.
Mutations ==
    {m \in [kind : Kinds, id : Refs, lane : Lanes \cup {None}, ref : Refs] :
        m.kind \in {"entry", "started", "finished", "record"} =>
            m.id \in Ids /\ m.lane \in Lanes}
Blank == [kind |-> "blank", id |-> None, lane |-> None, ref |-> None]
Torn == [Blank EXCEPT !.kind = "torn"]

States == [seq : 0 .. MaxSeq, used : SUBSET Ids,
           parentOf : [Ids -> Refs \cup {Missing}],
           leaf : [Lanes -> Refs \cup {Missing}],
           open : [Lanes -> SUBSET Ids]]

VARIABLES
    meta,      \* the key "meta" exists
    log,       \* the key log/<seq>: a mutation, or Blank
    tmp,       \* the file log/<seq>.tmp: a mutation, Torn, or Blank
    mode,      \* the storage object: down, creating, replaying, up, unloadable
    mem,       \* its SessionState
    left,      \* the listed records the load has not replayed yet
    holder,    \* the call that holds the write semaphore
    calls,     \* the callers
    acked      \* history: the sequence numbers of resolved mutations

vars == <<meta, log, tmp, mode, mem, left, holder, calls, acked>>

Requests == [op : Methods, id : Refs, lane : Lanes, ref : Refs]
NoRequest == [op |-> "setName", id |-> None, lane |-> Main, ref |-> None]
Items == [src : {"key", "tmp"}, seq : Seqs]

----------------------------------------------------------------------------
(* SessionState.                                                           *)

EmptyState ==
    [seq |-> 0, used |-> {},
     parentOf |-> [i \in Ids |-> Missing],
     leaf |-> [l \in Lanes |-> IF l = Main THEN None ELSE Missing],
     open |-> [l \in Lanes |-> {}]]

HasLane(s, l) == s.leaf[l] # Missing
IsEntry(s, i) == s.parentOf[i] # Missing
IsTarget(s, r) == r = None \/ (r \in Ids /\ IsEntry(s, r))

\* applyMutation's checks: the sequence, then those of the mutation's kind.
Applicable(s, m, k) ==
    /\ k = s.seq + 1
    /\ m.kind = "entry" =>
          /\ m.id \notin s.used
          /\ HasLane(s, m.lane)
          /\ m.ref = s.leaf[m.lane]
          /\ IsTarget(s, m.ref)
    /\ m.kind \in {"started", "finished", "record"} =>
          /\ HasLane(s, m.lane)
          /\ m.id \notin s.used
    /\ m.kind \in {"lane", "fact"} => IsTarget(s, m.ref)

\* Mutant: a finished record closes its own id, not its runId.
Opened_ByRecordId(s, m) ==
    IF m.kind = "started" THEN [s.open EXCEPT ![m.lane] = @ \cup {m.id}]
    ELSE IF m.kind = "finished" THEN [s.open EXCEPT ![m.lane] = @ \ {m.id}]
    ELSE s.open

Opened(s, m) ==
    IF m.kind = "started" THEN [s.open EXCEPT ![m.lane] = @ \cup {m.id}]
    ELSE IF m.kind = "finished" THEN [s.open EXCEPT ![m.lane] = @ \ {m.ref}]
    ELSE s.open

\* Mutant: every mutation adds its id, also one that has none.
Apply_NullId(s, m) ==
    [s EXCEPT !.seq = @ + 1, !.used = @ \cup {m.id}, !.open = Opened(s, m)]

Apply(s, m) ==
    [seq      |-> s.seq + 1,
     used     |-> s.used \cup ({m.id} \ {None}),
     parentOf |-> IF m.kind = "entry"
                  THEN [s.parentOf EXCEPT ![m.id] = m.ref] ELSE s.parentOf,
     leaf     |-> IF m.kind = "entry" THEN [s.leaf EXCEPT ![m.lane] = m.id]
                  ELSE IF m.kind = "lane" THEN [s.leaf EXCEPT ![m.lane] = m.ref]
                  ELSE s.leaf,
     open     |-> Opened(s, m)]

----------------------------------------------------------------------------
(* DoSessionStorage's methods: what each validates, and what it writes.    *)

\* Mutant: validateUnusedId is forgotten.
Admits_ReusedId(s, r) ==
    /\ r.op \in IdOps =>
          HasLane(s, r.lane)
    /\ r.op = "startOperation" => s.open[r.lane] = {}
    /\ r.op \in {"createLane", "moveLane"} => HasLane(s, r.lane) = (r.op = "moveLane")
    /\ r.op \in {"createLane", "moveLane", "setLabel"} => IsTarget(s, r.ref)

Admits(s, r) ==
    /\ r.op \in IdOps =>
          HasLane(s, r.lane) /\ r.id \in Ids \ s.used
    /\ r.op = "startOperation" => s.open[r.lane] = {}
    /\ r.op = "createLane" => ~HasLane(s, r.lane) /\ IsTarget(s, r.ref)
    /\ r.op = "moveLane" => HasLane(s, r.lane) /\ IsTarget(s, r.ref)
    /\ r.op = "setLabel" => r.ref # None /\ IsTarget(s, r.ref)

KindOf == [appendEntry |-> "entry", startOperation |-> "started",
           finishOperation |-> "finished", appendRecord |-> "record",
           createLane |-> "lane", moveLane |-> "lane",
           setName |-> "fact", setLabel |-> "fact"]

MutationOf(s, r) ==
    [kind |-> KindOf[r.op],
     id   |-> r.id,
     lane |-> IF KindOf[r.op] = "fact" THEN None ELSE r.lane,
     ref  |-> IF r.op = "appendEntry" THEN s.leaf[r.lane] ELSE r.ref]

----------------------------------------------------------------------------
Idle == [pc |-> "idle", req |-> NoRequest, mut |-> Blank]

Init ==
    /\ meta = FALSE
    /\ log = [k \in Seqs |-> Blank]
    /\ tmp = [k \in Seqs |-> Blank]
    /\ mode = "down"
    /\ mem = EmptyState
    /\ left = {}
    /\ holder = None
    /\ calls = [c \in Calls |-> Idle]
    /\ acked = {}

disk == <<meta, log, tmp>>

\* Bound: callers ask nothing of a full log, and a write past MaxSeq fails.
Room == mem.seq < MaxSeq

\* A caller's request, which waits for the permit.
Request(c, r) ==
    /\ mode = "up" /\ Room
    /\ calls[c].pc = "idle"
    /\ calls' = [calls EXCEPT ![c] = [Idle EXCEPT !.pc = "queued", !.req = r]]
    /\ UNCHANGED <<disk, mode, mem, left, holder, acked>>

\* Mutants: no semaphore; a refusal that keeps the permit.
Validate_NoPermit(c) ==
    /\ calls[c].pc = "queued"
    /\ Admits(mem, calls[c].req)
    /\ calls' = [calls EXCEPT ![c].pc = "writing",
                              ![c].mut = MutationOf(mem, calls[c].req)]
    /\ UNCHANGED <<disk, mode, mem, left, holder, acked>>
Validate_KeepsPermit(c) ==
    /\ calls[c].pc = "queued" /\ holder = None
    /\ holder' = c
    /\ calls' = IF Admits(mem, calls[c].req)
                THEN [calls EXCEPT ![c].pc = "writing",
                                   ![c].mut = MutationOf(mem, calls[c].req)]
                ELSE [calls EXCEPT ![c] = Idle]
    /\ UNCHANGED <<disk, mode, mem, left, acked>>

\* With the permit: validate and build, or throw and give the permit back.
Validate(c) ==
    /\ calls[c].pc = "queued" /\ holder = None
    /\ LET r == calls[c].req IN
       \/ /\ Admits(mem, r)
          /\ holder' = c
          /\ calls' = [calls EXCEPT ![c].pc = "writing", ![c].mut = MutationOf(mem, r)]
       \/ /\ ~Admits(mem, r)
          /\ calls' = [calls EXCEPT ![c] = Idle]
          /\ UNCHANGED holder
    /\ UNCHANGED <<disk, mode, mem, left, acked>>

\* Durable Object storage: one atomic put.
Put(c) ==
    /\ ~FileBackend /\ calls[c].pc = "writing" /\ Room
    /\ log' = [log EXCEPT ![mem.seq + 1] = calls[c].mut]
    /\ calls' = [calls EXCEPT ![c].pc = "written"]
    /\ UNCHANGED <<meta, tmp, mode, mem, left, holder, acked>>

\* File storage: write the sibling .tmp, then rename it over the key.
WriteTmp(c) ==
    /\ FileBackend /\ calls[c].pc = "writing" /\ Room
    /\ tmp' = [tmp EXCEPT ![mem.seq + 1] = calls[c].mut]
    /\ calls' = [calls EXCEPT ![c].pc = "renaming"]
    /\ UNCHANGED <<meta, log, mode, mem, left, holder, acked>>

Rename(c) ==
    /\ calls[c].pc = "renaming"
    /\ log' = [log EXCEPT ![mem.seq + 1] = tmp[mem.seq + 1]]
    /\ tmp' = [tmp EXCEPT ![mem.seq + 1] = Blank]
    /\ calls' = [calls EXCEPT ![c].pc = "written"]
    /\ UNCHANGED <<meta, mode, mem, left, holder, acked>>

\* Mutant: the sequence number of a failed write is not given again.
WriteFails_BurnsSeq(c) ==
    /\ calls[c].pc = "writing" /\ mem.seq + 1 < MaxSeq
    /\ mem' = [mem EXCEPT !.seq = @ + 1]
    /\ calls' = [calls EXCEPT ![c] = Idle]
    /\ holder' = None
    /\ UNCHANGED <<disk, mode, left, acked>>

\* A write that fails is a defect: the method rejects, the permit is released,
\* the memory is as before.  A failed file write may leave a torn .tmp.
WriteFails(c) ==
    /\ calls[c].pc \in {"writing", "renaming"}
    /\ \/ UNCHANGED tmp
       \/ /\ FileBackend /\ calls[c].pc = "writing" /\ Room
          /\ tmp' = [tmp EXCEPT ![mem.seq + 1] = Torn]
    /\ calls' = [calls EXCEPT ![c] = Idle]
    /\ holder' = None
    /\ UNCHANGED <<meta, log, mode, mem, left, acked>>

\* The put resolved: apply to the memory (which throws on an inapplicable
\* mutation), release the permit, resolve the caller's promise.
Commit(c) ==
    /\ calls[c].pc = "written"
    /\ IF Applicable(mem, calls[c].mut, mem.seq + 1)
       THEN /\ mem' = Apply(mem, calls[c].mut)
            /\ acked' = acked \cup {mem.seq + 1}
       ELSE UNCHANGED <<mem, acked>>
    /\ calls' = [calls EXCEPT ![c] = Idle]
    /\ holder' = None
    /\ UNCHANGED <<disk, mode, left>>

----------------------------------------------------------------------------
(* Creation, load and crash.                                               *)

\* DoSessionRepo.create: no meta key, so write it; then an empty memory.
Create ==
    /\ mode = "down" /\ ~meta
    /\ mode' = "creating"
    /\ UNCHANGED <<disk, mem, left, holder, calls, acked>>

PutMeta ==
    /\ mode = "creating"
    /\ meta' = TRUE
    /\ mode' = "up"
    /\ UNCHANGED <<log, tmp, mem, left, holder, calls, acked>>

\* DoSessionStorage.load lists every record of the session.  The file
\* backend's listing includes leftover .tmp files; a torn one fails to decode
\* and is skipped.
Listed ==
    [src : {"key"}, seq : {k \in Seqs : log[k] # Blank}]
    \cup [src : {"tmp"}, seq : {k \in Seqs : tmp[k] \notin {Blank, Torn}}]

Load ==
    /\ mode = "down" /\ meta
    /\ mode' = "replaying"
    /\ left' = Listed
    /\ UNCHANGED <<disk, mem, holder, calls, acked>>

\* Mutant: the records are replayed in the order of the listing.
IsNext_Unsorted(i) == i \in left

\* The replay order: by sequence number; a .tmp key's number is NaN, so with
\* one in the list the comparator orders nothing reliably.
IsNext(i) ==
    \/ \E j \in left : j.src = "tmp"
    \/ \A j \in left : i.seq <= j.seq

Stored(i) == IF i.src = "key" THEN log[i.seq] ELSE tmp[i.seq]

Replay(i) ==
    /\ mode = "replaying" /\ i \in left /\ IsNext(i)
    /\ IF Applicable(mem, Stored(i), i.seq)
       THEN /\ mem' = Apply(mem, Stored(i))
            /\ left' = left \ {i}
            /\ UNCHANGED mode
       ELSE /\ mode' = "unloadable"
            /\ mem' = EmptyState
            /\ left' = {}
    /\ UNCHANGED <<disk, holder, calls, acked>>

Loaded ==
    /\ mode = "replaying" /\ left = {}
    /\ mode' = "up"
    /\ UNCHANGED <<disk, mem, left, holder, calls, acked>>

\* The process dies: the memory and the callers are gone, the disk stays; a
\* file write in progress may leave a torn .tmp.
Crash ==
    /\ mode # "down"
    /\ \/ UNCHANGED tmp
       \/ \E c \in Calls :
            /\ FileBackend /\ calls[c].pc = "writing" /\ Room
            /\ tmp' = [tmp EXCEPT ![mem.seq + 1] = Torn]
    /\ mode' = "down"
    /\ mem' = EmptyState
    /\ left' = {}
    /\ holder' = None
    /\ calls' = [c \in Calls |-> Idle]
    /\ UNCHANGED <<meta, log, acked>>

\* The requests each method accepts: the arguments it does not read are fixed.
RequestsOf(op) ==
    [op : {op},
     id : IF op \in IdOps THEN Ids ELSE {None},
     lane : IF op \in {"setName", "setLabel"} THEN {Main} ELSE Lanes,
     ref : IF op \in {"finishOperation", "setLabel"} THEN Ids
           ELSE IF op \in {"createLane", "moveLane"} THEN Refs ELSE {None}]

Step(c) ==
    \/ Validate(c)
    \/ Put(c)
    \/ WriteTmp(c)
    \/ Rename(c)
    \/ WriteFails(c)
    \/ Commit(c)

Next ==
    \/ \E c \in Calls, op \in Ops : \E r \in RequestsOf(op) : Request(c, r)
    \/ \E c \in Calls : Step(c)
    \/ Create
    \/ PutMeta
    \/ Load
    \/ \E i \in left : Replay(i)
    \/ Loaded
    \/ Crash

Spec == Init /\ [][Next]_vars

\* The runtime runs every fiber it has; the semaphore serves its waiters in
\* order, so a waiter that keeps finding the permit free gets it; a write that
\* was started resolves or fails.
FairSpec ==
    /\ Spec
    /\ \A c \in Calls :
          /\ SF_vars(Validate(c))
          /\ WF_vars(Put(c) \/ WriteTmp(c) \/ Rename(c) \/ WriteFails(c) \/ Commit(c))
    /\ WF_vars(PutMeta) /\ WF_vars(Loaded) /\ WF_vars(\E i \in left : Replay(i))

----------------------------------------------------------------------------
TypeOK ==
    /\ meta \in BOOLEAN
    /\ log \in [Seqs -> Mutations \cup {Blank}]
    /\ tmp \in [Seqs -> Mutations \cup {Blank, Torn}]
    /\ mode \in {"down", "creating", "replaying", "up", "unloadable"}
    /\ mem \in States
    /\ left \in SUBSET Items
    /\ holder \in Calls \cup {None}
    /\ calls \in [Calls -> [pc : {"idle", "queued", "writing", "renaming", "written"},
                            req : Requests, mut : Mutations \cup {Blank}]]
    /\ acked \in SUBSET Seqs
----------------------------------------------------------------------------
(* Properties.                                                             *)

Written(k) == log[k] # Blank
LogLen == CHOOSE n \in 0 .. MaxSeq : \A k \in Seqs : Written(k) <=> k <= n

\* The keys are 1..n with no gap: a crash or a failed write at any step of any
\* mutation leaves a prefix of the log (do-session.ts:15-19).
LogIsPrefix == \A k \in Seqs : Written(k) => \A j \in 1 .. k : Written(j)

\* A mutation whose promise resolved stays on disk, and no later write,
\* failure or crash overwrites its key (do-session.ts:353-361).
AckedStays == [][\A k \in acked : log'[k] = log[k]]_vars

\* What the first n keys say of a session, without replaying them.
LastOf(S) == CHOOSE k \in S : \A j \in S : j <= k
IsRecord(k) == log[k].kind \in {"started", "finished", "record"}
EntryKeys(n) == {k \in 1 .. n : log[k].kind = "entry"}
LaneKeys(l, n) == {k \in 1 .. n : log[k].kind \in {"entry", "lane"} /\ log[k].lane = l}
LeafIn(l, n) ==
    IF LaneKeys(l, n) = {} THEN EmptyState.leaf[l]
    ELSE LET m == log[LastOf(LaneKeys(l, n))] IN
         IF m.kind = "entry" THEN m.id ELSE m.ref
OpenIn(l, n) ==
    {log[k].id : k \in {i \in 1 .. n :
        /\ log[i].kind = "started" /\ log[i].lane = l
        /\ ~\E j \in i + 1 .. n : log[j].kind = "finished" /\ log[j].lane = l
                                  /\ log[j].ref = log[i].id}}
Describes(n) ==
    /\ mem.seq = n
    /\ mem.used = {log[k].id : k \in {i \in 1 .. n : log[i].kind = "entry" \/ IsRecord(i)}}
    /\ \A l \in Lanes : mem.leaf[l] = LeafIn(l, n) /\ mem.open[l] = OpenIn(l, n)
    /\ {i \in Ids : IsEntry(mem, i)} = {log[k].id : k \in EntryKeys(n)}
    /\ \A k \in EntryKeys(n) : mem.parentOf[log[k].id] = log[k].ref

\* Whenever the storage answers, its memory (used ids, parents, lane leaves,
\* open operations) is what the keys on disk say, except for the one mutation
\* that is written and not yet applied: after any run of writes, failures and
\* crashes, the memory built live and the one a load would build are the same
\* (session-state.ts:183-278, do-session.ts:139-174).
MemoryMatchesLog ==
    mode = "up" =>
        Describes(IF \E c \in Calls : calls[c].pc = "written" THEN LogLen - 1 ELSE LogLen)

\* A load never fails: no crash or failed write leaves a trail that replays to
\* an invalid mutation (do-session.ts:15-19, kv.ts:145-148).
LoadNeverFails == mode # "unloadable"

\* What reaches the disk was validated against the memory it is applied to, so
\* applyMutation never throws after its put (do-session.ts:184-335): otherwise
\* the rejected mutation would be on disk and in no memory.
CommitNeverRejected ==
    \A c \in Calls : calls[c].pc = "written" => Applicable(mem, calls[c].mut, mem.seq + 1)

\* Every mutating call is answered (or dies with the process): a refused or
\* failed one gives the permit back (do-session.ts:353-356).
CallsAreAnswered == \A c \in Calls : calls[c].pc # "idle" ~> calls[c].pc = "idle"

\* The trail is an append-only log with one writer.
Durable == INSTANCE AppendLog WITH
    Records <- Mutations,
    entries <- [k \in 1 .. LogLen |-> log[k]],
    acked <- acked
AppendOnly == Durable!Spec
=============================================================================
