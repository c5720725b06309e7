---------------------------- MODULE ThreadsProofs ----------------------------
(***************************************************************************)
(* Theorems of Threads, for every set of commands and every number of      *)
(* threads, hosts, kills of the daemon and faults, whatever files there    *)
(* are to adopt.                                                           *)
(***************************************************************************)
EXTENDS Threads, SequenceTheorems, TLAPS

Recs == [there : BOOLEAN, source : BOOLEAN, session : BOOLEAN,
         name : {"first", "user"}, archived : BOOLEAN]
Muts == {Own} \cup UNION {ToSet(ReadPiSession(s.file).muts) : s \in Scenes}
Trails == [there : BOOLEAN, log : Seq(Muts)]
Hosts == [of : 0 .. MaxThreads, is : {"none", "live", "crashed", "disposed"}, tail : Nat]
Pcs == {"new", "patch", "put", "publish", "delete", "dispose", "forget", "erase", "remove",
        "look", "exists", "host", "rebuild", "open", "build", "run", "parse", "meta", "replay"}
       \cup Ended
Commands == [kind : Kinds, pc : Pcs, on : 0 .. MaxThreads, read : Recs, host : 0 .. MaxHosts,
             muts : Seq(Muts), at : Nat]

Typed ==
    /\ \E s \in Scenes : file = s.file
    /\ records \in [Tids -> Recs] /\ stored \in [Tids -> Recs]
    /\ trail \in [Tids -> Trails]
    /\ hosts \in [Tids -> 0 .. MaxHosts] /\ host \in [Hids -> Hosts]
    /\ permit \in Cmds \cup {"none"}
    /\ cmds \in [Cmds -> Commands]
    /\ fresh \in 1 .. MaxThreads /\ deleted \subseteq Tids /\ early \subseteq Tids

\* Which commands are where, and that they have a thread there.
Opens == {"look", "exists", "host", "rebuild", "open", "build", "run"}
Acting == {"patch", "put", "publish", "delete", "dispose", "forget", "erase", "remove", "meta",
           "replay"} \cup Opens
PlacedAt(c) ==
    /\ cmds[c].pc \in Acting => On(c) \in Tids
    /\ cmds[c].pc \in {"new", "parse", "refused", "invalid"} => On(c) = 0
    /\ cmds[c].pc \in Opens => cmds[c].kind \in {"prompt", "read"}
    /\ cmds[c].pc \in {"delete", "dispose"} => cmds[c].kind = "delete"
    /\ cmds[c].pc \in {"forget", "erase", "remove"} => cmds[c].kind \in {"delete", "import"}
    /\ cmds[c].pc \in {"parse", "meta", "replay"} => cmds[c].kind = "import"
    /\ cmds[c].pc = "patch" => cmds[c].kind \notin {"create", "delete"}
    /\ cmds[c].pc \in {"put", "publish"} => cmds[c].kind # "delete"
    /\ cmds[c].pc \in {"dispose", "erase", "remove"} => On(c) \in deleted
    /\ cmds[c].pc \in {"dispose", "rebuild", "run"} => cmds[c].host \in Hids
Placed == \A c \in Cmds : PlacedAt(c)

-----------------------------------------------------------------------------
(* One host.                                                               *)

\* Who builds a host of its thread.
Building(c) ==
    \/ cmds[c].pc \in {"rebuild", "open", "build"}
    \/ Opening(c) /\ cmds[c].pc \in {"patch", "put", "publish"}

\* The map's hosts are there, a host that could answer is the map's, one command
\* builds at a time and has its thread's entry empty, or to be disposed.
Mapped ==
    /\ \A h \in Hids : host[h].is = "none" => host[h].of = 0
    /\ \A t \in Tids : hosts[t] # 0 => host[hosts[t]].of = t
    /\ \A h \in Hids : host[h].is \in {"live", "crashed"} =>
          host[h].of \in Tids /\ (hosts[host[h].of] = h \/ host[h].of \in deleted)
PermittedAt(c) ==
    /\ Building(c) => permit = c
    /\ Building(c) /\ cmds[c].pc # "rebuild" => hosts[On(c)] = 0
    /\ cmds[c].pc \in {"rebuild", "run"} => host[cmds[c].host].of = On(c)
    /\ cmds[c].pc = "rebuild" => hosts[On(c)] \in {0, cmds[c].host}
Permitted == \A c \in Cmds : PermittedAt(c)

-----------------------------------------------------------------------------
(* What is acknowledged is on the disk.                                    *)

KeptAt(c) ==
    /\ cmds[c].pc \in {"put", "publish"} => cmds[c].read.there
    /\ cmds[c].pc = "publish" /\ On(c) \notin deleted => stored[On(c)].there
    /\ cmds[c].kind \in {"create", "import"} /\ At(c, "done") =>
          On(c) \in Tids /\ (On(c) \notin deleted => records[On(c)].there)
Kept ==
    /\ \A t \in Tids \ deleted : records[t].there => stored[t].there
    /\ \A c \in Cmds : KeptAt(c)

-----------------------------------------------------------------------------
(* An import.                                                              *)

\* Threads are numbered as they come; a trail that is not there is empty.
Numbered ==
    /\ \A c \in Cmds : On(c) <= fresh
    /\ \A h \in Hids : host[h].of <= fresh
    /\ \A t \in Tids : t > fresh => ~records[t].there /\ ~stored[t].there
    /\ \A t \in Tids : ~trail[t].there => trail[t].log = <<>>

\* An import whose thread nobody was faster to command is alone with it.
Alone(c) == cmds[c].kind = "import" /\ On(c) # 0 /\ On(c) \notin early
Untouched(c) ==
    /\ \A d \in Cmds \ {c} : On(d) # On(c)
    /\ \A h \in Hids : host[h].of # On(c)
Solo == \A c \in Cmds : Alone(c) /\ cmds[c].pc \notin {"done", "lost"} => Untouched(c)

Begins(muts, log) == Len(muts) <= Len(log) /\ \A i \in 1 .. Len(muts) : log[i] = muts[i]

\* How far it has got: in the second half the record has its session.
AdoptingAt(c) ==
    /\ cmds[c].pc \in {"meta", "replay", "patch", "forget"} => records[On(c)].there
    /\ cmds[c].pc = "replay" =>
          /\ trail[On(c)].there
          /\ Len(trail[On(c)].log) = cmds[c].at /\ cmds[c].at <= Len(cmds[c].muts)
          /\ \A i \in 1 .. cmds[c].at : trail[On(c)].log[i] = cmds[c].muts[i]
    /\ cmds[c].pc = "patch" \/ (cmds[c].pc \in {"put", "publish"} /\ cmds[c].read.session) =>
          Begins(cmds[c].muts, trail[On(c)].log)
    /\ cmds[c].pc \in {"erase", "remove", "failed"} => ~records[On(c)].there
    /\ cmds[c].pc \in {"remove", "failed"} => ~stored[On(c)].there
Adopting == \A c \in Cmds : Alone(c) => AdoptingAt(c)

\* What an adopted thread's next sessions append comes after the file's mutations.
AdoptedAt(c) ==
    /\ Begins(cmds[c].muts, trail[On(c)].log)
    /\ \A d \in Cmds : On(d) = On(c) /\ Opening(d) /\ cmds[d].pc \in {"build", "patch", "put", "publish"}
          => cmds[d].at >= Len(cmds[c].muts)
    /\ \A h \in Hids : host[h].of = On(c) => host[h].tail >= Len(cmds[c].muts)
Adopted == \A c \in Cmds :
    Alone(c) /\ At(c, "done") /\ On(c) \notin deleted => AdoptedAt(c)

IInv ==
    /\ Typed /\ Placed
    /\ Mapped /\ Permitted
    /\ Kept
    /\ Numbered /\ Solo /\ Adopting /\ Adopted

-----------------------------------------------------------------------------
(* Types.                                                                  *)

LEMMA SeqGrows == ASSUME NEW S, NEW T, S \subseteq T, NEW q \in Seq(S) PROVE q \in Seq(T)
OBVIOUS

LEMMA MutsAreTyped == ASSUME NEW s \in Scenes PROVE ReadPiSession(s.file).muts \in Seq(Muts)
<1> DEFINE muts == ReadPiSession(s.file).muts
<1>1. muts \in Seq(ToSet(muts))
  BY ThreadsAssumption
<1>2. ToSet(muts) \subseteq Muts
  BY DEF Muts
<1> HIDE DEF muts
<1>3. muts \in Seq(Muts)
  BY <1>1, <1>2, SeqGrows
<1> QED
  BY <1>3 DEF muts

LEMMA PutLogIs ==
    ASSUME NEW log \in Seq(Muts), NEW k \in Nat \ {0}, NEW m \in Muts
    PROVE  /\ PutLog(log, k, m) \in Seq(Muts)
           /\ Len(PutLog(log, k, m)) >= Len(log)
           /\ \A i \in 1 .. Len(log) : i # k => PutLog(log, k, m)[i] = log[i]
           /\ k = Len(log) + 1 => Len(PutLog(log, k, m)) = k /\ PutLog(log, k, m)[k] = m
BY DEF PutLog

LEMMA Defaults == NoRecord \in Recs /\ NoTrail \in Trails /\ NoHost \in Hosts /\ Own \in Muts
<1>1. <<>> \in Seq(Muts)
  OBVIOUS
<1> QED
  BY <1>1, ThreadsAssumption DEF NoRecord, Recs, NoTrail, Trails, NoHost, Hosts, Muts

LEMMA PatchedIs ==
    ASSUME NEW c, NEW rec \in Recs
    PROVE  LET r == Patched(c, rec) IN
           r \in Recs /\ r.there = rec.there /\ (r.session = rec.session \/ r.session)
<1>1. \/ Patched(c, rec) = [rec EXCEPT !.name = "user"]
      \/ Patched(c, rec) = [rec EXCEPT !.archived = TRUE]
      \/ Patched(c, rec) = [rec EXCEPT !.archived = FALSE]
      \/ Patched(c, rec) = [rec EXCEPT !.session = TRUE]
  BY DEF Patched
<1> QED
  BY <1>1 DEF Recs

\* A step of one command: the others stay, and its kind and, unless it read the
\* file just now, what it imports.
Steps(c) ==
    /\ cmds' \in [Cmds -> Commands]
    /\ \A d \in Cmds \ {c} : cmds'[d] = cmds[d]
    /\ cmds'[c].kind = cmds[c].kind
    /\ cmds[c].pc # "parse" => cmds'[c].muts = cmds[c].muts
    /\ cmds[c].pc \notin {"new", "parse"} => cmds'[c].on = cmds[c].on

LEMMA GoSteps ==
    ASSUME Typed, NEW c \in Cmds, NEW pc \in Pcs, Go(c, pc)
    PROVE  /\ Steps(c) /\ cmds'[c].pc = pc
           /\ cmds'[c].on = cmds[c].on /\ cmds'[c].read = cmds[c].read
           /\ cmds'[c].at = cmds[c].at /\ cmds'[c].host = cmds[c].host
BY DEF Typed, Commands, Go, Steps

LEMMA GoWithSteps ==
    ASSUME Typed, NEW c \in Cmds, NEW pc \in Pcs, NEW rec \in Recs, GoWith(c, pc, rec)
    PROVE  /\ Steps(c) /\ cmds'[c].pc = pc
           /\ cmds'[c].on = cmds[c].on /\ cmds'[c].read = rec
           /\ cmds'[c].at = cmds[c].at /\ cmds'[c].host = cmds[c].host
BY DEF Typed, Commands, GoWith, Steps

-----------------------------------------------------------------------------
(* What each action does with the commands.                                *)

LEMMA CreateThreadIs ==
    ASSUME Typed, NEW c \in Cmds, CreateThread(c)
    PROVE  /\ Steps(c) /\ At(c, "new") /\ cmds[c].kind = "create"
           /\ fresh + 1 \in Tids /\ fresh' = fresh + 1
           /\ cmds'[c].pc = "put" /\ cmds'[c].on = fresh + 1
           /\ cmds'[c].read.there /\ ~cmds'[c].read.session /\ cmds'[c].at = cmds[c].at
<1> DEFINE r == [NoRecord EXCEPT !.there = TRUE, !.source = FALSE]
<1>1. r \in Recs /\ r.there /\ ~r.session
  BY DEF NoRecord, Recs
<1>2. cmds' = [cmds EXCEPT ![c].pc = "put", ![c].on = fresh + 1, ![c].read = r]
  BY DEF CreateThread, Create
<1> HIDE DEF r
<1>3. fresh + 1 \in Tids /\ fresh' = fresh + 1
  BY ThreadsAssumption DEF CreateThread, Create, Typed, Tids
<1>4. fresh + 1 \in 0 .. MaxThreads /\ cmds[c].pc = "new" /\ cmds[c].kind = "create"
  BY <1>3 DEF Tids, CreateThread, Is
<1>5. /\ Steps(c)
      /\ cmds'[c].pc = "put" /\ cmds'[c].on = fresh + 1 /\ cmds'[c].read = r
      /\ cmds'[c].at = cmds[c].at
  <2>1. "put" \in Pcs /\ cmds[c] \in Commands /\ cmds \in [Cmds -> Commands]
    BY DEF Typed, Pcs
  <2>2. /\ cmds'[c].pc = "put" /\ cmds'[c].on = fresh + 1 /\ cmds'[c].read = r
        /\ cmds'[c].at = cmds[c].at /\ cmds'[c].kind = cmds[c].kind
        /\ cmds'[c].muts = cmds[c].muts
    BY <1>2, <2>1 DEF Commands
  <2>3. \A d \in Cmds \ {c} : cmds'[d] = cmds[d]
    BY <1>2, <2>1
  <2>4. cmds'[c] \in Commands
    BY <1>1, <1>2, <1>4, <2>1 DEF Commands
  <2> QED
    BY <1>2, <1>4, <2>1, <2>2, <2>3, <2>4 DEF Steps
<1> QED
  BY <1>1, <1>3, <1>4, <1>5 DEF At

LEMMA ResolveIs ==
    ASSUME Typed, NEW c \in Cmds, Resolve(c)
    PROVE  \E t \in Tids :
           /\ Steps(c) /\ At(c, "new") /\ cmds[c].kind \notin {"create", "import", "none"}
           /\ records[t].there
           /\ early' = IF Importing(t) THEN early \cup {t} ELSE early
           /\ cmds'[c].on = t /\ cmds'[c].pc \in {"patch", "delete", "host", "look"}
           /\ cmds'[c].pc = "delete" <=> cmds[c].kind = "delete"
           /\ cmds'[c].pc \in {"host", "look"} <=> cmds[c].kind \in {"prompt", "read"}
<1>1. PICK t \in Tids :
         /\ records[t].there
         /\ early' = IF Importing(t) THEN early \cup {t} ELSE early
         /\ cmds' = [cmds EXCEPT ![c].on = t, ![c].pc = FirstStep[cmds[c].kind]]
  BY DEF Resolve
<1>2. At(c, "new") /\ cmds[c].kind \in DOMAIN FirstStep
  BY DEF Resolve
<1> DEFINE pc == FirstStep[cmds[c].kind]
<1>3. /\ cmds[c].kind \in {"rename", "archive", "unarchive", "delete", "prompt", "read"}
      /\ pc \in {"patch", "delete", "host", "look"}
      /\ pc = "delete" <=> cmds[c].kind = "delete"
      /\ pc \in {"host", "look"} <=> cmds[c].kind \in {"prompt", "read"}
  BY <1>2 DEF FirstStep
<1>4. cmds' = [cmds EXCEPT ![c].on = t, ![c].pc = pc]
  BY <1>1
<1> HIDE DEF pc
<1>5. t \in 0 .. MaxThreads
  BY DEF Tids
<1>6. /\ Steps(c) /\ cmds'[c].on = t /\ cmds'[c].pc = pc
  BY <1>2, <1>3, <1>4, <1>5 DEF Typed, Commands, Pcs, Steps, At
<1> QED
  BY <1>1, <1>2, <1>3, <1>6

LEMMA PatchIs ==
    ASSUME Typed, Placed, NEW c \in Cmds, Patch(c)
    PROVE  /\ Steps(c) /\ At(c, "patch") /\ On(c) \in Tids
           /\ cmds'[c].at = cmds[c].at /\ cmds'[c].host = cmds[c].host
           /\ records[On(c)].there =>
                 /\ cmds'[c].pc = "put" /\ cmds'[c].read = Patched(c, records[On(c)])
                 /\ cmds'[c].read.there
           /\ ~records[On(c)].there =>
                 cmds'[c].pc = (IF Opening(c) THEN "build" ELSE "failed")
<1>1. On(c) \in Tids /\ At(c, "patch")
  BY DEF Placed, PlacedAt, Acting, Patch, At
<1>2. records[On(c)] \in Recs
  BY <1>1 DEF Typed
<1>3. CASE records[On(c)].there
  <2>1. GoWith(c, "put", Patched(c, records[On(c)]))
    BY <1>3 DEF Patch
  <2>2. Patched(c, records[On(c)]) \in Recs /\ Patched(c, records[On(c)]).there
    BY <1>2, <1>3, PatchedIs
  <2> QED
    BY <1>1, <1>3, <2>1, <2>2, GoWithSteps DEF Pcs
<1>4. CASE ~records[On(c)].there
  BY <1>1, <1>4, GoSteps DEF Patch, Pcs, Ended
<1> QED
  BY <1>3, <1>4

LEMMA PublishIs ==
    ASSUME Typed, NEW c \in Cmds, Publish(c)
    PROVE  /\ Steps(c) /\ At(c, "publish") /\ cmds'[c].on = cmds[c].on
           /\ cmds'[c].pc = AfterPatch(c)
           /\ cmds'[c].read = cmds[c].read
           /\ cmds'[c].at = cmds[c].at /\ cmds'[c].host = cmds[c].host
<1>1. AfterPatch(c) \in Pcs /\ Go(c, AfterPatch(c)) /\ At(c, "publish")
  BY DEF AfterPatch, Pcs, Ended, Publish
<1> QED
  BY <1>1, GoSteps DEF Steps

LEMMA DeleteIs ==
    ASSUME Typed, Placed, NEW c \in Cmds, Delete(c)
    PROVE  /\ Steps(c) /\ At(c, "delete") /\ On(c) \in Tids /\ cmds'[c].on = cmds[c].on
           /\ cmds[c].kind = "delete"
           /\ cmds'[c].pc \in {"failed", "forget", "dispose"}
           /\ cmds'[c].pc # "failed" => On(c) \in deleted'
           /\ cmds'[c].pc = "dispose" => cmds'[c].host \in Hids
<1>1. On(c) \in Tids /\ At(c, "delete") /\ cmds[c].kind = "delete"
  BY DEF Placed, PlacedAt, Acting, Delete, At
<1>2. CASE ~records[On(c)].there
  BY <1>1, <1>2, GoSteps DEF Delete, Pcs, Ended
<1>3. CASE records[On(c)].there
  <2> DEFINE pc == IF hosts[On(c)] = 0 THEN "forget" ELSE "dispose"
  <2>1. cmds' = [cmds EXCEPT ![c].host = hosts[On(c)], ![c].pc = pc]
    BY <1>3 DEF Delete
  <2>2. hosts[On(c)] \in 0 .. MaxHosts /\ pc \in {"forget", "dispose"}
        /\ (pc = "dispose" => hosts[On(c)] \in Hids)
    BY <1>1, ThreadsAssumption DEF Typed, Hids
  <2>3. On(c) \in deleted'
    BY <1>1, <1>3 DEF Delete
  <2> HIDE DEF pc
  <2>4. Steps(c) /\ cmds'[c].host = hosts[On(c)] /\ cmds'[c].pc = pc /\ cmds'[c].on = cmds[c].on
    BY <1>1, <2>1, <2>2 DEF Typed, Commands, Pcs, Steps, At
  <2> QED
    BY <1>1, <2>2, <2>3, <2>4
<1> QED
  BY <1>2, <1>3

LEMMA ReadOnlyHostIs ==
    ASSUME Typed, Placed, NEW c \in Cmds, ReadOnlyHost(c)
    PROVE  /\ Steps(c) /\ At(c, "look") /\ On(c) \in Tids /\ cmds'[c].on = cmds[c].on
           /\ cmds'[c].pc \in {"run", "done", "host", "exists"}
           /\ cmds'[c].pc = "run" => hosts[On(c)] # 0 /\ cmds'[c].host = hosts[On(c)]
<1>1. On(c) \in Tids /\ At(c, "look")
  BY DEF Placed, PlacedAt, Acting, Opens, ReadOnlyHost, At
<1> DEFINE pc == IF Cached(On(c)) THEN "run"
                 ELSE IF ~records[On(c)].there THEN "done"
                 ELSE IF records[On(c)].session THEN "host" ELSE "exists"
<1>2. cmds' = [cmds EXCEPT ![c].host = hosts[On(c)], ![c].pc = pc]
  BY DEF ReadOnlyHost
<1>3. /\ pc \in {"run", "done", "host", "exists"} /\ (pc = "run" => hosts[On(c)] # 0)
      /\ hosts[On(c)] \in 0 .. MaxHosts
  BY <1>1 DEF Cached, Typed
<1> HIDE DEF pc
<1>4. Steps(c) /\ cmds'[c].host = hosts[On(c)] /\ cmds'[c].pc = pc /\ cmds'[c].on = cmds[c].on
  <2>1. pc \in Pcs /\ cmds[c] \in Commands /\ cmds \in [Cmds -> Commands]
    BY <1>3 DEF Typed, Pcs, Ended, Opens
  <2> QED
    BY <1>1, <1>2, <1>3, <2>1 DEF Commands, Steps, At
<1> QED
  BY <1>1, <1>3, <1>4

LEMMA HostForIs ==
    ASSUME Typed, Placed, NEW c \in Cmds, HostFor(c)
    PROVE  /\ Steps(c) /\ At(c, "host") /\ On(c) \in Tids /\ cmds'[c].on = cmds[c].on
           /\ permit = "none"
           /\ cmds'[c].pc \in {"rebuild", "run", "failed", "open"}
           /\ cmds'[c].pc \in {"rebuild", "run"} => hosts[On(c)] # 0
           /\ cmds'[c].pc = "open" => hosts[On(c)] = 0 /\ records[On(c)].there
           /\ cmds'[c].host = hosts[On(c)] /\ cmds'[c].read = records[On(c)]
           /\ permit' = IF cmds'[c].pc \in {"rebuild", "open"} THEN c ELSE "none"
<1>1. On(c) \in Tids /\ At(c, "host") /\ permit = "none"
  BY DEF Placed, PlacedAt, Acting, Opens, HostFor, At
<1> DEFINE pc == IF Crashed(On(c)) THEN "rebuild"
                 ELSE IF Cached(On(c)) THEN "run"
                 ELSE IF ~records[On(c)].there THEN "failed" ELSE "open"
<1>2. /\ cmds' = [cmds EXCEPT ![c].host = hosts[On(c)], ![c].pc = pc, ![c].read = records[On(c)]]
      /\ permit' = IF pc \in {"rebuild", "open"} THEN c ELSE "none"
  BY DEF HostFor
<1>3. /\ pc \in {"rebuild", "run", "failed", "open"}
      /\ pc \in {"rebuild", "run"} => hosts[On(c)] # 0
      /\ pc = "open" => hosts[On(c)] = 0 /\ records[On(c)].there
      /\ hosts[On(c)] \in 0 .. MaxHosts /\ records[On(c)] \in Recs
  BY <1>1 DEF Cached, Crashed, Typed
<1> HIDE DEF pc
<1>4. /\ Steps(c) /\ cmds'[c].host = hosts[On(c)] /\ cmds'[c].pc = pc
      /\ cmds'[c].on = cmds[c].on /\ cmds'[c].read = records[On(c)]
  <2>1. pc \in Pcs /\ cmds[c] \in Commands /\ cmds \in [Cmds -> Commands]
    BY <1>3 DEF Typed, Pcs, Ended, Opens
  <2> QED
    BY <1>1, <1>2, <1>3, <2>1 DEF Commands, Steps, At
<1> QED
  BY <1>1, <1>2, <1>3, <1>4

LEMMA RebuildIs ==
    ASSUME Typed, Placed, NEW c \in Cmds, Rebuild(c)
    PROVE  /\ Steps(c) /\ At(c, "rebuild") /\ On(c) \in Tids /\ cmds'[c].on = cmds[c].on
           /\ cmds'[c].pc \in {"open", "failed"}
           /\ cmds'[c].pc = "open" => permit' = permit
           /\ cmds'[c].pc = "failed" => permit' = IF permit = c THEN "none" ELSE permit
<1>1. On(c) \in Tids /\ At(c, "rebuild")
  BY DEF Placed, PlacedAt, Acting, Opens, Rebuild, At
<1>2. records[On(c)] \in Recs /\ {"open", "failed"} \subseteq Pcs
  BY <1>1 DEF Typed, Pcs, Opens, Ended
<1>3. CASE records[On(c)].there
  BY <1>1, <1>2, <1>3, GoWithSteps DEF Rebuild
<1>4. CASE ~records[On(c)].there
  BY <1>1, <1>2, <1>4, GoSteps DEF Rebuild, Release
<1> QED
  BY <1>3, <1>4

LEMMA OpenSessionIs ==
    ASSUME Typed, Placed, NEW c \in Cmds, OpenSession(c)
    PROVE  /\ Steps(c) /\ At(c, "open") /\ On(c) \in Tids /\ cmds'[c].on = cmds[c].on
           /\ cmds'[c].pc \in {"build", "patch", "failed"}
           /\ cmds'[c].pc # "failed" =>
                 permit' = permit /\ cmds'[c].at = Len(trail[On(c)].log)
           /\ cmds'[c].pc = "failed" => permit' = IF permit = c THEN "none" ELSE permit
<1>1. On(c) \in Tids /\ At(c, "open")
  BY DEF Placed, PlacedAt, Acting, Opens, OpenSession, At
<1>2. CASE Load(trail[On(c)].log).failed
  BY <1>1, <1>2, GoSteps DEF OpenSession, Release, Pcs, Ended
<1>3. CASE ~Load(trail[On(c)].log).failed
  <2> DEFINE pc == IF cmds[c].read.session THEN "build" ELSE "patch"
             n == Len(trail[On(c)].log)
  <2>1. cmds' = [cmds EXCEPT ![c].at = n, ![c].pc = pc] /\ permit' = permit
    BY <1>3 DEF OpenSession
  <2>2. pc \in {"build", "patch"} /\ n \in Nat
    BY <1>1 DEF Typed, Trails
  <2> HIDE DEF pc, n
  <2>3. Steps(c) /\ cmds'[c].at = n /\ cmds'[c].pc = pc /\ cmds'[c].on = cmds[c].on
    <3> DEFINE x == [cmds[c] EXCEPT !.at = n, !.pc = pc]
    <3>1. pc \in Pcs /\ cmds \in [Cmds -> Commands] /\ cmds[c] \in Commands
      BY <2>2 DEF Typed, Pcs
    <3>2. x \in Commands
      BY <2>2, <3>1 DEF Commands
    <3>3. x.at = n /\ x.pc = pc /\ x.on = cmds[c].on /\ x.kind = cmds[c].kind /\ x.muts = cmds[c].muts
      BY <3>1 DEF Commands
    <3>4. cmds' = [cmds EXCEPT ![c] = x]
      BY <2>1, <3>1
    <3> HIDE DEF x
    <3> QED
      BY <3>1, <3>2, <3>3, <3>4 DEF Steps
  <2> QED
    BY <1>1, <2>1, <2>2, <2>3 DEF n
<1> QED
  BY <1>2, <1>3

LEMMA BuildIs ==
    ASSUME Typed, Placed, NEW c \in Cmds, Build(c)
    PROVE  /\ Steps(c) /\ At(c, "build") /\ On(c) \in Tids /\ cmds'[c].on = cmds[c].on
           /\ cmds'[c].pc = "run" /\ cmds'[c].host \in Hids
           /\ host[cmds'[c].host].is = "none"
           /\ hosts' = [hosts EXCEPT ![On(c)] = cmds'[c].host]
           /\ host' = [host EXCEPT ![cmds'[c].host] =
                         [of |-> On(c), is |-> "live",
                          tail |-> IF cmds[c].at = 0 THEN 1 ELSE cmds[c].at]]
           /\ trail' = IF cmds[c].at = 0
                       THEN [trail EXCEPT ![On(c)] =
                               [there |-> TRUE, log |-> PutLog(trail[On(c)].log, 1, Own)]]
                       ELSE trail
<1>1. On(c) \in Tids /\ At(c, "build")
  BY DEF Placed, PlacedAt, Acting, Opens, Build, At
<1>2. PICK h \in Hids :
        /\ host[h].is = "none"
        /\ hosts' = [hosts EXCEPT ![On(c)] = h]
        /\ IF cmds[c].at = 0
           THEN /\ PutMutation(On(c), 1, Own)
                /\ host' = [host EXCEPT ![h] = [of |-> On(c), is |-> "live", tail |-> 1]]
           ELSE /\ host' = [host EXCEPT ![h] = [of |-> On(c), is |-> "live", tail |-> cmds[c].at]]
                /\ UNCHANGED trail
        /\ cmds' = [cmds EXCEPT ![c].pc = "run", ![c].host = h]
  BY DEF Build
<1>3. h \in 0 .. MaxHosts /\ "run" \in Pcs
  BY DEF Hids, Pcs, Opens
<1>4. Steps(c) /\ cmds'[c].pc = "run" /\ cmds'[c].host = h /\ cmds'[c].on = cmds[c].on
  BY <1>1, <1>2, <1>3 DEF Typed, Commands, Steps, At
<1>5. cmds[c].at = 0 =>
         trail' = [trail EXCEPT ![On(c)] =
                     [there |-> TRUE, log |-> PutLog(trail[On(c)].log, 1, Own)]]
  BY <1>1, <1>2 DEF PutMutation, Typed
<1> QED
  BY <1>1, <1>2, <1>4, <1>5

LEMMA RunIs ==
    ASSUME Typed, Placed, NEW c \in Cmds, Run(c)
    PROVE  /\ Steps(c) /\ At(c, "run") /\ On(c) \in Tids /\ cmds'[c].on = cmds[c].on
           /\ cmds'[c].pc \in {"failed", "done"}
           /\ \/ UNCHANGED <<trail, host>>
              \/ LET h == cmds[c].host IN
                 /\ host[h].is = "live"
                 /\ trail' = [trail EXCEPT ![On(c)] =
                        [there |-> TRUE, log |-> PutLog(trail[On(c)].log, host[h].tail + 1, Own)]]
                 /\ host' = [host EXCEPT ![h].tail = @ + 1]
<1>1. On(c) \in Tids /\ At(c, "run")
  BY DEF Placed, PlacedAt, Acting, Opens, Run, At
<1>2. Go(c, "failed") \/ Go(c, "done")
  BY DEF Run
<1>3. {"failed", "done"} \subseteq Pcs
  BY DEF Pcs, Ended
<1> QED
  BY <1>1, <1>2, <1>3, GoSteps DEF Run, PutMutation, Typed

LEMMA ParseIs ==
    ASSUME Typed, Placed, NEW c \in Cmds, Parse(c)
    PROVE  /\ Steps(c) /\ At(c, "parse") /\ cmds[c].kind = "import"
           /\ \/ cmds'[c].pc = "invalid" /\ cmds'[c].on = cmds[c].on /\ UNCHANGED fresh
              \/ /\ fresh + 1 \in Tids /\ fresh' = fresh + 1
                 /\ cmds'[c].pc = "put" /\ cmds'[c].on = fresh + 1
                 /\ cmds'[c].read.there /\ ~cmds'[c].read.session
<1>1. At(c, "parse") /\ cmds[c].kind = "import"
  BY DEF Placed, PlacedAt, Parse, At
<1>2. CASE ~ReadPiSession(file).ok
  BY <1>1, <1>2, GoSteps DEF Parse, Pcs, Ended, history
<1>3. CASE ReadPiSession(file).ok
  <2> DEFINE muts == ReadPiSession(file).muts
             r == [NoRecord EXCEPT !.there = TRUE, !.source = TRUE]
  <2>1. r \in Recs /\ r.there /\ ~r.session
    BY DEF NoRecord, Recs
  <2>2. muts \in Seq(Muts)
    BY MutsAreTyped DEF Typed
  <2>3. cmds' = [cmds EXCEPT ![c].pc = "put", ![c].on = fresh + 1, ![c].read = r, ![c].muts = muts]
    BY <1>3 DEF Parse
  <2>4. fresh + 1 \in Tids /\ fresh' = fresh + 1 /\ fresh + 1 \in 0 .. MaxThreads
    BY <1>3, ThreadsAssumption DEF Parse, Typed, Tids
  <2> HIDE DEF muts, r
  <2>5. "put" \in Pcs /\ cmds[c] \in Commands /\ cmds \in [Cmds -> Commands]
    BY DEF Typed, Pcs
  <2>6. cmds'[c] \in Commands
    BY <2>1, <2>2, <2>3, <2>4, <2>5 DEF Commands
  <2>7. /\ cmds'[c].pc = "put" /\ cmds'[c].on = fresh + 1 /\ cmds'[c].read = r
        /\ cmds'[c].kind = cmds[c].kind
    BY <2>3, <2>5 DEF Commands
  <2>8. \A d \in Cmds \ {c} : cmds'[d] = cmds[d]
    BY <2>3, <2>5
  <2>9. Steps(c)
    BY <1>1, <2>3, <2>5, <2>6, <2>7, <2>8 DEF Steps, At
  <2> QED
    BY <1>1, <2>1, <2>4, <2>7, <2>9
<1> QED
  BY <1>2, <1>3

LEMMA ImportMetaIs ==
    ASSUME Typed, Placed, NEW c \in Cmds, ImportMeta(c)
    PROVE  /\ Steps(c) /\ At(c, "meta") /\ On(c) \in Tids /\ cmds'[c].on = cmds[c].on
           /\ cmds[c].kind = "import"
           /\ \/ trail[On(c)].there /\ cmds'[c].pc = "forget" /\ UNCHANGED trail
              \/ /\ ~trail[On(c)].there /\ cmds'[c].pc = "replay" /\ cmds'[c].at = 0
                 /\ trail' = [trail EXCEPT ![On(c)].there = TRUE]
<1>1. On(c) \in Tids /\ At(c, "meta") /\ cmds[c].kind = "import"
  BY DEF Placed, PlacedAt, Acting, ImportMeta, At
<1>2. CASE trail[On(c)].there
  BY <1>1, <1>2, GoSteps DEF ImportMeta, Pcs
<1>3. CASE ~trail[On(c)].there
  <2>1. cmds' = [cmds EXCEPT ![c].pc = "replay", ![c].at = 0]
    BY <1>3 DEF ImportMeta
  <2>2. "replay" \in Pcs
    BY DEF Pcs
  <2>3. /\ Steps(c) /\ cmds'[c].pc = "replay" /\ cmds'[c].at = 0 /\ cmds'[c].on = cmds[c].on
    BY <1>1, <2>1, <2>2 DEF Typed, Commands, Steps, At
  <2> QED
    BY <1>1, <1>3, <2>3 DEF ImportMeta
<1> QED
  BY <1>2, <1>3

LEMMA ReplayOneIs ==
    ASSUME Typed, Placed, NEW c \in Cmds, ReplayOne(c)
    PROVE  /\ Steps(c) /\ At(c, "replay") /\ On(c) \in Tids /\ cmds'[c].on = cmds[c].on
           /\ cmds[c].kind = "import"
           /\ cmds[c].at < Len(cmds[c].muts) /\ cmds'[c].at = cmds[c].at + 1
           /\ cmds'[c].pc = "replay" /\ cmds'[c].muts = cmds[c].muts
           /\ cmds[c].muts[cmds[c].at + 1] \in Muts
           /\ trail' = [trail EXCEPT ![On(c)] = [there |-> TRUE,
                 log |-> PutLog(trail[On(c)].log, cmds[c].at + 1, cmds[c].muts[cmds[c].at + 1])]]
<1>1. On(c) \in Tids /\ At(c, "replay") /\ cmds[c].kind = "import"
  BY DEF Placed, PlacedAt, Acting, ReplayOne, At
<1>2. cmds' = [cmds EXCEPT ![c].at = @ + 1] /\ cmds[c].at < Len(cmds[c].muts)
  BY DEF ReplayOne
<1>3. /\ Steps(c) /\ cmds'[c].at = cmds[c].at + 1 /\ cmds'[c].on = cmds[c].on
      /\ cmds'[c].pc = "replay" /\ cmds'[c].muts = cmds[c].muts
  <2>1. cmds \in [Cmds -> Commands] /\ cmds[c] \in Commands
    BY DEF Typed
  <2>2. cmds' = [cmds EXCEPT ![c].at = cmds[c].at + 1] /\ cmds[c].at + 1 \in Nat
    BY <1>2, <2>1 DEF Commands
  <2> QED
    BY <1>1, <2>1, <2>2 DEF Commands, Steps, At
<1>4. cmds[c].muts \in Seq(Muts) /\ cmds[c].at \in Nat
  BY DEF Typed, Commands
<1>5. cmds[c].muts[cmds[c].at + 1] \in Muts
  BY <1>2, <1>4
<1> QED
  BY <1>1, <1>2, <1>3, <1>5 DEF ReplayOne, PutMutation, Typed

\* The actions that only move on.
LEMMA Movers ==
    ASSUME Typed, Placed, NEW c \in Cmds
    PROVE  /\ Put(c) => /\ Steps(c) /\ At(c, "put") /\ On(c) \in Tids /\ cmds'[c].pc = "publish"
                        /\ cmds'[c].on = cmds[c].on /\ cmds'[c].read = cmds[c].read
                        /\ cmds'[c].at = cmds[c].at
           /\ DisposeHost(c) => /\ Steps(c) /\ At(c, "dispose") /\ On(c) \in Tids
                                /\ cmds'[c].pc = "forget" /\ cmds'[c].on = cmds[c].on
                                /\ cmds[c].kind = "delete" /\ On(c) \in deleted
                                /\ cmds[c].host \in Hids
           /\ Forget(c) => /\ Steps(c) /\ At(c, "forget") /\ On(c) \in Tids
                           /\ cmds[c].kind \in {"delete", "import"} /\ cmds'[c].on = cmds[c].on
                           /\ cmds'[c].pc = IF records[On(c)].there THEN "erase" ELSE Gone(c)
           /\ Erase(c) => /\ Steps(c) /\ At(c, "erase") /\ On(c) \in Tids /\ On(c) \in deleted
                          /\ cmds[c].kind \in {"delete", "import"} /\ cmds'[c].on = cmds[c].on
                          /\ cmds'[c].pc = "remove"
           /\ RemoveDir(c) => /\ Steps(c) /\ At(c, "remove") /\ On(c) \in Tids /\ On(c) \in deleted
                              /\ cmds[c].kind \in {"delete", "import"} /\ cmds'[c].on = cmds[c].on
                              /\ cmds'[c].pc = Gone(c)
           /\ SessionStarted(c) => /\ Steps(c) /\ At(c, "exists") /\ cmds'[c].on = cmds[c].on
                                   /\ On(c) \in Tids /\ cmds'[c].pc \in {"host", "done"}
           /\ ImportPiSession(c) => /\ Steps(c) /\ At(c, "new") /\ cmds'[c].on = cmds[c].on
                                    /\ cmds[c].kind = "import"
                                    /\ cmds'[c].pc \in {"refused", "parse"}
           /\ WriteFails(c) => /\ Steps(c) /\ At(c, "replay") /\ cmds'[c].on = cmds[c].on
                               /\ cmds[c].kind = "import" /\ On(c) \in Tids
                               /\ cmds'[c].pc = "forget"
           /\ LoadBack(c) => /\ Steps(c) /\ At(c, "replay") /\ cmds'[c].on = cmds[c].on
                             /\ cmds[c].kind = "import" /\ On(c) \in Tids
                             /\ cmds[c].at = Len(cmds[c].muts)
                             /\ cmds'[c].pc \in {"forget", "patch"}
<1>1. \A pc \in Pcs : Go(c, pc) =>
         /\ Steps(c) /\ cmds'[c].pc = pc
         /\ cmds'[c].on = cmds[c].on /\ cmds'[c].read = cmds[c].read
         /\ cmds'[c].at = cmds[c].at /\ cmds'[c].host = cmds[c].host
  BY GoSteps
<1>2. {"publish", "forget", "erase", "remove", "host", "done", "failed", "refused", "parse", "patch"}
         \subseteq Pcs
  BY DEF Pcs, Opens, Ended
<1>3. Gone(c) \in Pcs
  BY <1>2 DEF Gone
<1>4. ASSUME NEW pc \in Acting, At(c, pc) PROVE On(c) \in Tids
  BY <1>4 DEF Placed, PlacedAt, At
<1>5. Put(c) => Go(c, "publish") /\ At(c, "put") /\ On(c) \in Tids
  BY <1>4 DEF Put, Acting
<1>6. DisposeHost(c) => /\ Go(c, "forget") /\ At(c, "dispose") /\ On(c) \in Tids
                        /\ cmds[c].kind = "delete" /\ On(c) \in deleted /\ cmds[c].host \in Hids
  BY <1>4 DEF DisposeHost, Acting, Placed, PlacedAt, At
<1>7. Forget(c) => /\ Go(c, IF records[On(c)].there THEN "erase" ELSE Gone(c))
                   /\ At(c, "forget") /\ On(c) \in Tids /\ cmds[c].kind \in {"delete", "import"}
  BY <1>4 DEF Forget, Acting, Placed, PlacedAt, At
<1>8. Erase(c) => /\ Go(c, "remove") /\ At(c, "erase") /\ On(c) \in Tids /\ On(c) \in deleted
                  /\ cmds[c].kind \in {"delete", "import"}
  BY <1>4 DEF Erase, Acting, Placed, PlacedAt, At
<1>9. RemoveDir(c) => /\ Go(c, Gone(c)) /\ At(c, "remove") /\ On(c) \in Tids
                      /\ On(c) \in deleted /\ cmds[c].kind \in {"delete", "import"}
  BY <1>4 DEF RemoveDir, Acting, Placed, PlacedAt, At
<1>10. SessionStarted(c) => /\ Go(c, "host") \/ Go(c, "done")
                            /\ At(c, "exists") /\ On(c) \in Tids
  BY <1>4 DEF SessionStarted, Acting, Opens
<1>11. ImportPiSession(c) => /\ Go(c, "refused") \/ Go(c, "parse")
                             /\ At(c, "new") /\ cmds[c].kind = "import"
  BY DEF ImportPiSession, Is, At
<1>12. WriteFails(c) => /\ Go(c, "forget") /\ At(c, "replay") /\ On(c) \in Tids
                        /\ cmds[c].kind = "import"
  BY <1>4 DEF WriteFails, Acting, Placed, PlacedAt, At
<1>13. LoadBack(c) => /\ Go(c, "forget") \/ Go(c, "patch")
                      /\ At(c, "replay") /\ On(c) \in Tids /\ cmds[c].kind = "import"
                      /\ cmds[c].at = Len(cmds[c].muts)
  BY <1>4 DEF LoadBack, Acting, Placed, PlacedAt, At
<1> QED
  BY <1>1, <1>2, <1>3, <1>5, <1>6, <1>7, <1>8, <1>9, <1>10, <1>11, <1>12, <1>13

-----------------------------------------------------------------------------
(* Types and places are kept.                                              *)

\* A step of a command that leaves the disk and the cache alone.
LEMMA TypedFrame ==
    ASSUME Typed, NEW c \in Cmds, Steps(c), fresh' \in 1 .. MaxThreads,
           deleted' \subseteq Tids, early' \subseteq Tids,
           UNCHANGED <<file, records, stored, trail, hosts, host>>,
           permit' \in Cmds \cup {"none"}
    PROVE  Typed'
BY DEF Typed, Steps

LEMMA Disposed ==
    ASSUME Typed, NEW h \in Hids, NEW t \in Tids
    PROVE  /\ [host EXCEPT ![h].is = "disposed"] \in [Hids -> Hosts]
           /\ [hosts EXCEPT ![t] = 0] \in [Tids -> 0 .. MaxHosts]
<1>1. host[h] \in Hosts /\ host \in [Hids -> Hosts]
  BY DEF Typed
<1>2. [host[h] EXCEPT !.is = "disposed"] \in Hosts
  BY <1>1 DEF Hosts
<1>3. [host EXCEPT ![h].is = "disposed"] \in [Hids -> Hosts]
  BY <1>1, <1>2
<1>4. 0 \in 0 .. MaxHosts /\ hosts \in [Tids -> 0 .. MaxHosts]
  BY ThreadsAssumption DEF Typed
<1> QED
  BY <1>3, <1>4

LEMMA TypedKept == ASSUME Typed, Placed, [Next]_vars PROVE Typed'
<1> USE DEF disk, cache, history, bounds
<1>1. CASE UNCHANGED vars
  BY <1>1 DEF vars, Typed
<1>2. ASSUME NEW c \in Cmds, CreateThread(c) PROVE Typed'
  BY <1>2, CreateThreadIs, TypedFrame DEF CreateThread, Create, Tids, Typed
<1>3. ASSUME NEW c \in Cmds, Resolve(c) PROVE Typed'
  BY <1>3, ResolveIs, TypedFrame DEF Resolve, Typed
<1>4. ASSUME NEW c \in Cmds, Patch(c) PROVE Typed'
  BY <1>4, PatchIs, TypedFrame DEF Patch, Typed
<1>5. ASSUME NEW c \in Cmds, Put(c) PROVE Typed'
  <2>1. stored' = [stored EXCEPT ![On(c)] = cmds[c].read] /\ cmds[c].read \in Recs
    BY <1>5 DEF Put, Typed, Commands
  <2>2. Steps(c)
    BY <1>5, Movers
  <2> QED
    BY <1>5, <2>1, <2>2 DEF Put, Typed, Steps
<1>6. ASSUME NEW c \in Cmds, Publish(c) PROVE Typed'
  <2>1. records' = [records EXCEPT ![On(c)] = cmds[c].read] /\ cmds[c].read \in Recs
    BY <1>6 DEF Publish, Typed, Commands
  <2>2. Steps(c)
    BY <1>6, PublishIs
  <2> QED
    BY <1>6, <2>1, <2>2 DEF Publish, Typed, Steps
<1>7. ASSUME NEW c \in Cmds, Delete(c) PROVE Typed'
  BY <1>7, DeleteIs, TypedFrame DEF Delete, Typed
<1>8. ASSUME NEW c \in Cmds, DisposeHost(c) PROVE Typed'
  <2>1. Steps(c) /\ On(c) \in Tids /\ cmds[c].host \in Hids
    BY <1>8, Movers
  <2>2. host' \in [Hids -> Hosts] /\ hosts' \in [Tids -> 0 .. MaxHosts]
    BY <1>8, <2>1, Disposed DEF DisposeHost, Typed
  <2> QED
    BY <1>8, <2>1, <2>2 DEF DisposeHost, Typed, Steps
<1>9. ASSUME NEW c \in Cmds, Forget(c) PROVE Typed'
  <2>1. Steps(c) /\ On(c) \in Tids
    BY <1>9, Movers
  <2>2. records' \in [Tids -> Recs] /\ deleted' \subseteq Tids
    BY <1>9, <2>1, Defaults DEF Forget, Typed
  <2> QED
    BY <1>9, <2>1, <2>2 DEF Forget, Typed, Steps
<1>10. ASSUME NEW c \in Cmds, Erase(c) PROVE Typed'
  <2>1. Steps(c) /\ stored' \in [Tids -> Recs]
    BY <1>10, Movers, Defaults DEF Erase, Typed
  <2> QED
    BY <1>10, <2>1 DEF Erase, Typed, Steps
<1>11. ASSUME NEW c \in Cmds, RemoveDir(c) PROVE Typed'
  <2>1. Steps(c) /\ trail' \in [Tids -> Trails]
    BY <1>11, Movers, Defaults DEF RemoveDir, Typed
  <2> QED
    BY <1>11, <2>1 DEF RemoveDir, Typed, Steps
<1>12. ASSUME NEW c \in Cmds, ReadOnlyHost(c) PROVE Typed'
  BY <1>12, ReadOnlyHostIs, TypedFrame DEF ReadOnlyHost, Typed
<1>13. ASSUME NEW c \in Cmds, SessionStarted(c) PROVE Typed'
  BY <1>13, Movers, TypedFrame DEF SessionStarted, Typed
<1>14. ASSUME NEW c \in Cmds, HostFor(c) PROVE Typed'
  BY <1>14, HostForIs, TypedFrame DEF HostFor, Typed
<1>15. ASSUME NEW c \in Cmds, Rebuild(c) PROVE Typed'
  <2>1. Steps(c) /\ permit' \in Cmds \cup {"none"} /\ On(c) \in Tids /\ cmds[c].host \in Hids
    BY <1>15, RebuildIs DEF Typed, Placed, PlacedAt, At
  <2>2. host' \in [Hids -> Hosts] /\ hosts' \in [Tids -> 0 .. MaxHosts]
    BY <1>15, <2>1, Disposed DEF Rebuild, Typed
  <2> QED
    BY <1>15, <2>1, <2>2 DEF Rebuild, Typed, Steps
<1>16. ASSUME NEW c \in Cmds, OpenSession(c) PROVE Typed'
  <2>1. Steps(c) /\ permit' \in Cmds \cup {"none"}
    BY <1>16, OpenSessionIs DEF Typed
  <2>2. trail' \in [Tids -> Trails]
    BY <1>16 DEF OpenSession, Typed, Trails
  <2> QED
    BY <1>16, <2>1, <2>2 DEF OpenSession, Typed, Steps
<1>17. ASSUME NEW c \in Cmds, Build(c) PROVE Typed'
  <2> DEFINE h == cmds'[c].host
             new == [of |-> On(c), is |-> "live", tail |-> IF cmds[c].at = 0 THEN 1 ELSE cmds[c].at]
             log == PutLog(trail[On(c)].log, 1, Own)
  <2>1. /\ Steps(c) /\ On(c) \in Tids /\ h \in Hids
        /\ hosts' = [hosts EXCEPT ![On(c)] = h] /\ host' = [host EXCEPT ![h] = new]
        /\ trail' = IF cmds[c].at = 0
                    THEN [trail EXCEPT ![On(c)] = [there |-> TRUE, log |-> log]] ELSE trail
    BY <1>17, BuildIs
  <2>2. new \in Hosts
    <3>1. On(c) \in 0 .. MaxThreads /\ cmds[c].at \in Nat
      BY DEF Typed, Commands, On
    <3> QED
      BY <3>1 DEF Hosts
  <2>3. [there |-> TRUE, log |-> log] \in Trails
    <3>1. trail[On(c)].log \in Seq(Muts)
      BY <2>1 DEF Typed, Trails
    <3>2. log \in Seq(Muts)
      BY <3>1, PutLogIs, Defaults
    <3> HIDE DEF log
    <3> QED
      BY <3>2 DEF Trails
  <2>4. permit' \in Cmds \cup {"none"}
    BY <1>17 DEF Build, Release, Typed
  <2>5. h \in 0 .. MaxHosts
    BY <2>1 DEF Hids
  <2> HIDE DEF h, new, log
  <2>6. hosts' \in [Tids -> 0 .. MaxHosts] /\ host' \in [Hids -> Hosts] /\ trail' \in [Tids -> Trails]
    BY <2>1, <2>2, <2>3, <2>5 DEF Typed
  <2> QED
    BY <1>17, <2>1, <2>4, <2>6 DEF Build, Typed, Steps
<1>18. ASSUME NEW c \in Cmds, Run(c) PROVE Typed'
  <2>1. Steps(c) /\ UNCHANGED <<file, records, stored, hosts, permit, fresh, deleted, early>>
    BY <1>18, RunIs DEF Run
  <2>2. CASE UNCHANGED <<trail, host>>
    BY <2>1, <2>2 DEF Typed, Steps
  <2>3. CASE LET h == cmds[c].host IN
             /\ host[h].is = "live"
             /\ trail' = [trail EXCEPT ![On(c)] =
                    [there |-> TRUE, log |-> PutLog(trail[On(c)].log, host[h].tail + 1, Own)]]
             /\ host' = [host EXCEPT ![h].tail = @ + 1]
    <3> DEFINE h == cmds[c].host
               log == PutLog(trail[On(c)].log, host[h].tail + 1, Own)
    <3>1. On(c) \in Tids /\ h \in Hids
      BY <1>18, RunIs DEF Placed, PlacedAt, At
    <3>2. trail[On(c)].log \in Seq(Muts) /\ host[h] \in Hosts /\ host[h].tail + 1 \in Nat \ {0}
      BY <3>1 DEF Typed, Trails, Hosts
    <3>3. log \in Seq(Muts)
      BY <3>2, PutLogIs, Defaults
    <3>4. /\ trail' = [trail EXCEPT ![On(c)] = [there |-> TRUE, log |-> log]]
          /\ host' = [host EXCEPT ![h].tail = @ + 1]
      BY <2>3
    <3> HIDE DEF log, h
    <3>5. trail' \in [Tids -> Trails]
      BY <3>3, <3>4 DEF Typed, Trails
    <3>6. host' \in [Hids -> Hosts]
      BY <3>1, <3>2, <3>4 DEF Typed, Hosts
    <3> QED
      BY <2>1, <3>5, <3>6 DEF Typed, Steps
  <2> QED
    BY <1>18, <2>2, <2>3, RunIs
<1>19. ASSUME NEW c \in Cmds, ImportPiSession(c) PROVE Typed'
  BY <1>19, Movers, TypedFrame DEF ImportPiSession, Typed
<1>20. ASSUME NEW c \in Cmds, Parse(c) PROVE Typed'
  BY <1>20, ParseIs, TypedFrame DEF Parse, Typed, Tids
<1>21. ASSUME NEW c \in Cmds, ImportMeta(c) PROVE Typed'
  <2>1. Steps(c) /\ On(c) \in Tids
    BY <1>21, ImportMetaIs
  <2>2. trail' = trail \/ trail' = [trail EXCEPT ![On(c)].there = TRUE]
    BY <1>21, ImportMetaIs
  <2>3. trail[On(c)] \in Trails /\ trail \in [Tids -> Trails]
    BY <2>1 DEF Typed
  <2>4. [trail[On(c)] EXCEPT !.there = TRUE] \in Trails
    BY <2>3 DEF Trails
  <2>5. trail' \in [Tids -> Trails]
    BY <2>2, <2>3, <2>4
  <2> QED
    BY <1>21, <2>1, <2>5 DEF ImportMeta, Typed, Steps
<1>22. ASSUME NEW c \in Cmds, ReplayOne(c) PROVE Typed'
  <2> DEFINE k == cmds[c].at + 1
             log == PutLog(trail[On(c)].log, k, cmds[c].muts[k])
  <2>1. /\ Steps(c) /\ On(c) \in Tids /\ cmds[c].muts[k] \in Muts
        /\ trail' = [trail EXCEPT ![On(c)] = [there |-> TRUE, log |-> log]]
    BY <1>22, ReplayOneIs
  <2>2. trail[On(c)].log \in Seq(Muts) /\ k \in Nat \ {0}
    BY <2>1 DEF Typed, Trails, Commands
  <2>3. log \in Seq(Muts)
    BY <2>1, <2>2, PutLogIs
  <2> HIDE DEF log
  <2>4. trail' \in [Tids -> Trails]
    BY <2>1, <2>3 DEF Typed, Trails
  <2> QED
    BY <1>22, <2>1, <2>4 DEF ReplayOne, Typed, Steps
<1>23. ASSUME NEW c \in Cmds, WriteFails(c) PROVE Typed'
  BY <1>23, Movers, TypedFrame DEF WriteFails, Typed
<1>24. ASSUME NEW c \in Cmds, LoadBack(c) PROVE Typed'
  BY <1>24, Movers, TypedFrame DEF LoadBack, Typed
<1>25. ASSUME NEW h \in Hids, HostCrashes(h) PROVE Typed'
  BY <1>25 DEF HostCrashes, Typed, Hosts
<1>26. CASE Restart
  <2>1. host' \in [Hids -> Hosts]
    BY <1>26 DEF Restart, Typed, Hosts
  <2>2. cmds' \in [Cmds -> Commands]
    <3>1. "lost" \in Pcs
      BY DEF Pcs, Ended
    <3>2. \A c \in Cmds : cmds[c] \in Commands /\ [cmds[c] EXCEPT !.pc = "lost"] \in Commands
      BY <3>1 DEF Typed, Commands
    <3> QED
      BY <1>26, <3>2 DEF Restart
  <2> QED
    BY <1>26, <2>1, <2>2, ThreadsAssumption DEF Restart, Typed
<1> QED
  BY <1>1, <1>2, <1>3, <1>4, <1>5, <1>6, <1>7, <1>8, <1>9, <1>10, <1>11, <1>12, <1>13, <1>14,
     <1>15, <1>16, <1>17, <1>18, <1>19, <1>20, <1>21, <1>22, <1>23, <1>24, <1>25, <1>26 DEF Next

\* A command's step keeps what the others' places say, and no deletion is undone.
LEMMA PlacedFrame ==
    ASSUME Placed, NEW c \in Cmds, Steps(c), deleted \subseteq deleted', PlacedAt(c)'
    PROVE  Placed'
BY DEF Placed, PlacedAt, Steps, On

LEMMA PlacedKept == ASSUME Typed, Placed, [Next]_vars PROVE Placed'
<1> USE DEF disk, cache, history, bounds, At, On
<1>1. CASE UNCHANGED vars
  BY <1>1 DEF vars, Placed, PlacedAt
<1>2. ASSUME NEW c \in Cmds, CreateThread(c) PROVE Placed'
  <2>1. Steps(c) /\ cmds'[c].pc = "put" /\ cmds'[c].on \in Tids /\ cmds'[c].kind = "create"
    BY <1>2, CreateThreadIs DEF Steps
  <2>2. PlacedAt(c)'
    BY <2>1 DEF PlacedAt, Opens
  <2> QED
    BY <1>2, <2>1, <2>2, PlacedFrame DEF CreateThread, Create
<1>3. ASSUME NEW c \in Cmds, Resolve(c) PROVE Placed'
  <2>1. PICK t \in Tids :
          /\ Steps(c) /\ cmds[c].kind \notin {"create", "import", "none"}
          /\ cmds'[c].on = t /\ cmds'[c].pc \in {"patch", "delete", "host", "look"}
          /\ cmds'[c].pc = "delete" <=> cmds[c].kind = "delete"
          /\ cmds'[c].pc \in {"host", "look"} <=> cmds[c].kind \in {"prompt", "read"}
    BY <1>3, ResolveIs
  <2>2. PlacedAt(c)'
    BY <2>1 DEF PlacedAt, Opens, Steps
  <2> QED
    BY <1>3, <2>1, <2>2, PlacedFrame DEF Resolve
<1>4. ASSUME NEW c \in Cmds, Patch(c) PROVE Placed'
  <2>1. Steps(c) /\ cmds[c].pc = "patch" /\ cmds[c].on \in Tids
    BY <1>4, PatchIs
  <2>2. cmds'[c].pc \in {"put", "failed"} \/ (cmds'[c].pc = "build" /\ Opening(c))
    BY <1>4, PatchIs
  <2>3. cmds'[c].on = cmds[c].on
    BY <2>1 DEF Steps
  <2>4. PlacedAt(c)'
    BY <2>1, <2>2, <2>3 DEF PlacedAt, Placed, Opens, Steps, Opening
  <2> QED
    BY <1>4, <2>1, <2>4, PlacedFrame DEF Patch
<1>5. ASSUME NEW c \in Cmds, Put(c) PROVE Placed'
  <2>1. PlacedAt(c)'
    BY <1>5, Movers DEF PlacedAt, Placed, Opens, Steps
  <2> QED
    BY <1>5, <2>1, Movers, PlacedFrame DEF Put
<1>6. ASSUME NEW c \in Cmds, Publish(c) PROVE Placed'
  <2>1. /\ Steps(c) /\ cmds[c].pc = "publish" /\ cmds'[c].on = cmds[c].on
        /\ \/ cmds'[c].pc = "build" /\ Opening(c)
           \/ cmds'[c].pc = "meta" /\ cmds[c].kind = "import"
           \/ cmds'[c].pc = "done"
    BY <1>6, PublishIs DEF AfterPatch
  <2>2. PlacedAt(c)'
    BY <2>1 DEF PlacedAt, Placed, Acting, Opens, Steps, Opening
  <2> QED
    BY <1>6, <2>1, <2>2, PlacedFrame DEF Publish
<1>7. ASSUME NEW c \in Cmds, Delete(c) PROVE Placed'
  <2>1. PlacedAt(c)'
    BY <1>7, DeleteIs DEF PlacedAt, Placed, Opens, Steps
  <2> QED
    BY <1>7, <2>1, DeleteIs, PlacedFrame DEF Delete
<1>8. ASSUME NEW c \in Cmds, DisposeHost(c) PROVE Placed'
  <2>1. PlacedAt(c)'
    BY <1>8, Movers DEF PlacedAt, Placed, Opens, Steps
  <2> QED
    BY <1>8, <2>1, Movers, PlacedFrame DEF DisposeHost
<1>9. ASSUME NEW c \in Cmds, Forget(c) PROVE Placed'
  <2>1. /\ Steps(c) /\ cmds[c].on \in Tids /\ cmds'[c].on = cmds[c].on
        /\ cmds[c].kind \in {"delete", "import"} /\ cmds'[c].pc \in {"erase", "failed", "done"}
    BY <1>9, Movers DEF Gone
  <2>2. deleted' = deleted \cup {On(c)}
    BY <1>9 DEF Forget
  <2>3. PlacedAt(c)'
    BY <2>1, <2>2 DEF PlacedAt, Opens, Steps
  <2> QED
    BY <2>1, <2>2, <2>3, PlacedFrame
<1>10. ASSUME NEW c \in Cmds, Erase(c) PROVE Placed'
  <2>1. PlacedAt(c)'
    BY <1>10, Movers DEF PlacedAt, Opens, Steps, Erase
  <2> QED
    BY <1>10, <2>1, Movers, PlacedFrame DEF Erase
<1>11. ASSUME NEW c \in Cmds, RemoveDir(c) PROVE Placed'
  <2>1. PlacedAt(c)'
    BY <1>11, Movers DEF PlacedAt, Acting, Opens, Gone
  <2> QED
    BY <1>11, <2>1, Movers, PlacedFrame DEF RemoveDir
<1>12. ASSUME NEW c \in Cmds, ReadOnlyHost(c) PROVE Placed'
  <2>1. hosts[On(c)] # 0 => hosts[On(c)] \in Hids
    BY <1>12, ReadOnlyHostIs, ThreadsAssumption DEF Typed, Hids
  <2>2. PlacedAt(c)'
    BY <1>12, <2>1, ReadOnlyHostIs DEF PlacedAt, Placed, Acting, Opens, Steps
  <2> QED
    BY <1>12, <2>2, ReadOnlyHostIs, PlacedFrame DEF ReadOnlyHost
<1>13. ASSUME NEW c \in Cmds, SessionStarted(c) PROVE Placed'
  <2>1. PlacedAt(c)'
    BY <1>13, Movers DEF PlacedAt, Placed, Acting, Opens, Steps
  <2> QED
    BY <1>13, <2>1, Movers, PlacedFrame DEF SessionStarted
<1>14. ASSUME NEW c \in Cmds, HostFor(c) PROVE Placed'
  <2>1. hosts[On(c)] # 0 => hosts[On(c)] \in Hids
    BY <1>14, HostForIs, ThreadsAssumption DEF Typed, Hids
  <2>2. PlacedAt(c)'
    BY <1>14, <2>1, HostForIs DEF PlacedAt, Placed, Acting, Opens, Steps
  <2> QED
    BY <1>14, <2>2, HostForIs, PlacedFrame DEF HostFor
<1>15. ASSUME NEW c \in Cmds, Rebuild(c) PROVE Placed'
  <2>1. PlacedAt(c)'
    BY <1>15, RebuildIs DEF PlacedAt, Placed, Acting, Opens, Steps
  <2> QED
    BY <1>15, <2>1, RebuildIs, PlacedFrame DEF Rebuild
<1>16. ASSUME NEW c \in Cmds, OpenSession(c) PROVE Placed'
  <2>1. PlacedAt(c)'
    BY <1>16, OpenSessionIs DEF PlacedAt, Placed, Acting, Opens, Steps
  <2> QED
    BY <1>16, <2>1, OpenSessionIs, PlacedFrame DEF OpenSession
<1>17. ASSUME NEW c \in Cmds, Build(c) PROVE Placed'
  <2>1. PlacedAt(c)'
    BY <1>17, BuildIs DEF PlacedAt, Placed, Acting, Opens, Steps
  <2> QED
    BY <1>17, <2>1, BuildIs, PlacedFrame DEF Build
<1>18. ASSUME NEW c \in Cmds, Run(c) PROVE Placed'
  <2>1. PlacedAt(c)'
    BY <1>18, RunIs DEF PlacedAt, Placed, Acting, Opens, Steps
  <2> QED
    BY <1>18, <2>1, RunIs, PlacedFrame DEF Run
<1>19. ASSUME NEW c \in Cmds, ImportPiSession(c) PROVE Placed'
  <2>1. PlacedAt(c)'
    BY <1>19, Movers DEF PlacedAt, Placed, Acting, Opens, Steps
  <2> QED
    BY <1>19, <2>1, Movers, PlacedFrame DEF ImportPiSession
<1>20. ASSUME NEW c \in Cmds, Parse(c) PROVE Placed'
  <2>1. PlacedAt(c)'
    BY <1>20, ParseIs DEF PlacedAt, Placed, Acting, Opens, Steps
  <2> QED
    BY <1>20, <2>1, ParseIs, PlacedFrame DEF Parse
<1>21. ASSUME NEW c \in Cmds, ImportMeta(c) PROVE Placed'
  <2>1. PlacedAt(c)'
    BY <1>21, ImportMetaIs DEF PlacedAt, Placed, Acting, Opens, Steps
  <2> QED
    BY <1>21, <2>1, ImportMetaIs, PlacedFrame DEF ImportMeta
<1>22. ASSUME NEW c \in Cmds, ReplayOne(c) PROVE Placed'
  <2>1. PlacedAt(c)'
    BY <1>22, ReplayOneIs DEF PlacedAt, Placed, Acting, Opens, Steps
  <2> QED
    BY <1>22, <2>1, ReplayOneIs, PlacedFrame DEF ReplayOne
<1>23. ASSUME NEW c \in Cmds, WriteFails(c) \/ LoadBack(c) PROVE Placed'
  <2>1. PlacedAt(c)'
    BY <1>23, Movers DEF PlacedAt, Placed, Acting, Opens, Steps
  <2> QED
    BY <1>23, <2>1, Movers, PlacedFrame DEF WriteFails, LoadBack
<1>24. ASSUME NEW h \in Hids, HostCrashes(h) PROVE Placed'
  BY <1>24 DEF HostCrashes, Placed, PlacedAt
<1>25. CASE Restart
  <2>1. ASSUME NEW c \in Cmds PROVE PlacedAt(c)'
    <3>1. \/ cmds'[c] = cmds[c]
          \/ cmds'[c].pc = "lost"
      BY <1>25 DEF Restart, Typed, Commands
    <3>2. deleted' = deleted
      BY <1>25 DEF Restart
    <3> QED
      BY <3>1, <3>2 DEF Placed, PlacedAt, Acting, Opens
  <2> QED
    BY <2>1 DEF Placed
<1> QED
  BY <1>1, <1>2, <1>3, <1>4, <1>5, <1>6, <1>7, <1>8, <1>9, <1>10, <1>11, <1>12, <1>13, <1>14,
     <1>15, <1>16, <1>17, <1>18, <1>19, <1>20, <1>21, <1>22, <1>23, <1>24, <1>25 DEF Next

-----------------------------------------------------------------------------
(* One host is kept.                                                       *)

LEMMA MappedFrame ==
    ASSUME Mapped, deleted \subseteq deleted', UNCHANGED <<hosts, host>>
    PROVE  Mapped'
BY DEF Mapped

\* A step of one command keeps what the others hold, if it takes the permit only
\* when it is free, gives up only its own, and fills no entry while another builds.
LEMMA PermittedFrame ==
    ASSUME Typed, Placed, Permitted, NEW c \in Cmds, Steps(c), PermittedAt(c)',
           \/ permit' = permit
           \/ permit = "none"
           \/ permit = c,
           \A t \in Tids : \/ hosts'[t] = hosts[t]
                           \/ hosts'[t] = 0
                           \/ permit = c /\ \A d \in Cmds \ {c} : ~Building(d),
           \A h \in Hids : host[h].of # 0 => host'[h].of = host[h].of
    PROVE  Permitted'
<1> SUFFICES ASSUME NEW d \in Cmds \ {c} PROVE PermittedAt(d)'
  BY DEF Permitted
<1>1. cmds'[d] = cmds[d] /\ PermittedAt(d) /\ PlacedAt(d) /\ d # "none"
  BY ThreadsAssumption DEF Steps, Permitted, Placed
<1>2. Building(d)' <=> Building(d)
  BY <1>1 DEF Building, Opening
<1>3. Building(d) => permit' = permit /\ permit = d
  BY <1>1 DEF PermittedAt
<1>4. Building(d) => On(d) \in Tids
  BY <1>1 DEF Building, PlacedAt, Acting, Opens
<1>5. Building(d) => hosts'[On(d)] = hosts[On(d)] \/ hosts'[On(d)] = 0
  BY <1>4
<1>6. ASSUME cmds[d].pc \in {"rebuild", "run"} PROVE host'[cmds[d].host].of = On(d)
  BY <1>1, <1>6 DEF PermittedAt, PlacedAt, Acting, Opens, Tids
<1>7. (On(d))' = On(d)
  BY <1>1 DEF On
<1> QED
  BY <1>1, <1>2, <1>3, <1>5, <1>6, <1>7 DEF PermittedAt, Building

\* Steps that read the cache at most, of a command that builds already, or does not.
LEMMA PermittedStays ==
    ASSUME Typed, Placed, Permitted, NEW c \in Cmds, Steps(c),
           UNCHANGED <<hosts, host, permit>>,
           Building(c)' => Building(c) /\ cmds[c].pc # "rebuild" /\ (On(c))' = On(c),
           cmds'[c].pc # "rebuild",
           cmds'[c].pc = "run" => host[cmds'[c].host].of = (On(c))'
    PROVE  Permitted'
<1>1. PermittedAt(c)'
  BY DEF PermittedAt, Permitted, On
<1> QED
  BY <1>1, PermittedFrame

\* A host is disposed and its thread's entry dropped, when no other answers there.
LEMMA DisposedMapped ==
    ASSUME Typed, Mapped, NEW t \in Tids, NEW h \in Hids,
           t \in deleted \/ hosts[t] \in {0, h},
           host' = [host EXCEPT ![h].is = "disposed"], hosts' = [hosts EXCEPT ![t] = 0],
           deleted' = deleted
    PROVE  Mapped'
<1>1. \A g \in Hids : host'[g].of = host[g].of
  BY DEF Typed, Hosts
<1>2. host'[h].is = "disposed" /\ \A g \in Hids \ {h} : host'[g].is = host[g].is
  BY DEF Typed, Hosts
<1>3. hosts'[t] = 0 /\ \A u \in Tids \ {t} : hosts'[u] = hosts[u]
  BY DEF Typed
<1>4. \A u \in Tids : hosts[u] # 0 => hosts[u] \in Hids
  BY ThreadsAssumption DEF Typed, Hids
<1>5. 0 \notin Hids
  BY DEF Hids
<1> QED
  BY <1>1, <1>2, <1>3, <1>4, <1>5 DEF Mapped

LEMMA RunTails ==
    ASSUME Typed, Placed, NEW c \in Cmds, Run(c)
    PROVE  \A g \in Hids : /\ host'[g].of = host[g].of /\ host'[g].is = host[g].is
                           /\ host'[g].tail >= host[g].tail
<1> DEFINE h == cmds[c].host
<1>1. host' = host \/ host' = [host EXCEPT ![h].tail = @ + 1]
  BY RunIs
<1>2. h \in Hids
  BY RunIs DEF Placed, PlacedAt, At
<1>3. host \in [Hids -> Hosts] /\ \A g \in Hids : host[g] \in Hosts /\ host[g].tail \in Nat
  BY DEF Typed, Hosts
<1> HIDE DEF h
<1>4. CASE host' = host
  BY <1>3, <1>4
<1>5. CASE host' = [host EXCEPT ![h].tail = @ + 1]
  <2>1. \A g \in Hids \ {h} : host'[g] = host[g]
    BY <1>3, <1>5
  <2>2. host'[h] = [host[h] EXCEPT !.tail = @ + 1] /\ host[h] \in Hosts
    BY <1>2, <1>3, <1>5
  <2>3. host'[h].of = host[h].of /\ host'[h].is = host[h].is /\ host'[h].tail = host[h].tail + 1
    BY <2>2 DEF Hosts
  <2> QED
    BY <1>3, <2>1, <2>3
<1> QED
  BY <1>1, <1>4, <1>5

LEMMA OneHostKept == ASSUME Typed, Placed, Mapped, Permitted, [Next]_vars
                     PROVE  Mapped' /\ Permitted'
<1> USE DEF disk, cache, history, bounds, At
<1>1. CASE UNCHANGED vars
  BY <1>1 DEF vars, Mapped, Permitted, PermittedAt, Building, Opening, On
<1>2. ASSUME NEW c \in Cmds, CreateThread(c) PROVE Mapped' /\ Permitted'
  <2>1. Steps(c) /\ cmds'[c].pc = "put" /\ cmds'[c].kind = "create"
    BY <1>2, CreateThreadIs DEF Steps
  <2>2. ~Building(c)'
    BY <2>1 DEF Building, Opening
  <2> QED
    BY <1>2, <2>1, <2>2, MappedFrame, PermittedStays DEF CreateThread, Create
<1>3. ASSUME NEW c \in Cmds, Resolve(c) PROVE Mapped' /\ Permitted'
  <2>1. /\ Steps(c) /\ cmds'[c].pc \in {"patch", "delete", "host", "look"}
        /\ cmds'[c].pc \in {"host", "look"} <=> cmds[c].kind \in {"prompt", "read"}
    BY <1>3, ResolveIs
  <2>2. ~Building(c)'
    BY <2>1 DEF Building, Opening, Steps
  <2> QED
    BY <1>3, <2>1, <2>2, MappedFrame, PermittedStays DEF Resolve
<1>4. ASSUME NEW c \in Cmds, Patch(c) \/ Put(c) \/ Publish(c) PROVE Mapped' /\ Permitted'
  <2>1. /\ Steps(c) /\ cmds[c].pc \in {"patch", "put", "publish"}
        /\ UNCHANGED <<hosts, host, permit, deleted>>
    BY <1>4, PatchIs, PublishIs, Movers DEF Patch, Put, Publish
  <2>2. /\ cmds'[c].pc \in {"put", "publish", "build", "failed", "meta", "done"}
        /\ cmds'[c].pc = "build" => Opening(c)
    BY <1>4, PatchIs, PublishIs, Movers DEF AfterPatch
  <2>3. Building(c)' => Building(c) /\ (On(c))' = On(c)
    BY <2>1, <2>2 DEF Building, Opening, Steps, On
  <2> QED
    BY <2>1, <2>2, <2>3, MappedFrame, PermittedStays
<1>5. ASSUME NEW c \in Cmds,
             Delete(c) \/ Forget(c) \/ Erase(c) \/ RemoveDir(c) \/ SessionStarted(c)
      PROVE  Mapped' /\ Permitted'
  <2>1. /\ Steps(c)
        /\ cmds'[c].pc \in {"failed", "forget", "dispose", "erase", "remove", "done", "host"}
    BY <1>5, DeleteIs, Movers DEF Gone
  <2>2. UNCHANGED <<hosts, host, permit>> /\ deleted \subseteq deleted'
    BY <1>5 DEF Delete, Forget, Erase, RemoveDir, SessionStarted
  <2>3. ~Building(c)'
    BY <2>1 DEF Building
  <2> QED
    BY <2>1, <2>2, <2>3, MappedFrame, PermittedStays
<1>6. ASSUME NEW c \in Cmds, ReadOnlyHost(c) PROVE Mapped' /\ Permitted'
  <2>1. host[hosts[On(c)]].of = On(c) \/ hosts[On(c)] = 0
    BY <1>6, ReadOnlyHostIs DEF Mapped
  <2>2. ~Building(c)'
    BY <1>6, ReadOnlyHostIs DEF Building
  <2> QED
    BY <1>6, <2>1, <2>2, ReadOnlyHostIs, MappedFrame, PermittedStays DEF ReadOnlyHost, On
<1>7. ASSUME NEW c \in Cmds,
             \/ ImportPiSession(c) \/ Parse(c) \/ ImportMeta(c) \/ ReplayOne(c)
             \/ WriteFails(c) \/ LoadBack(c)
      PROVE  Mapped' /\ Permitted'
  <2>1. /\ Steps(c) /\ cmds[c].kind = "import"
        /\ cmds'[c].pc \in {"refused", "parse", "invalid", "put", "forget", "replay", "patch"}
    BY <1>7, ParseIs, ImportMetaIs, ReplayOneIs, Movers
  <2>2. UNCHANGED <<hosts, host, permit, deleted>>
    BY <1>7 DEF ImportPiSession, Parse, ImportMeta, ReplayOne, WriteFails, LoadBack
  <2>3. ~Building(c)'
    BY <2>1 DEF Building, Opening, Steps
  <2> QED
    BY <2>1, <2>2, <2>3, MappedFrame, PermittedStays
<1>8. ASSUME NEW c \in Cmds, HostFor(c) PROVE Mapped' /\ Permitted'
  <2>1. UNCHANGED <<hosts, host, deleted>>
    BY <1>8 DEF HostFor
  <2>2. hosts[On(c)] # 0 => host[hosts[On(c)]].of = On(c)
    BY <1>8, HostForIs DEF Mapped
  <2>3. PermittedAt(c)'
    BY <1>8, <2>1, <2>2, HostForIs DEF PermittedAt, Building, On
  <2> QED
    BY <1>8, <2>1, <2>3, HostForIs, MappedFrame, PermittedFrame
<1>9. ASSUME NEW c \in Cmds, DisposeHost(c) PROVE Mapped' /\ Permitted'
  <2>1. /\ Steps(c) /\ On(c) \in deleted /\ On(c) \in Tids /\ cmds[c].host \in Hids
        /\ cmds'[c].pc = "forget"
    BY <1>9, Movers
  <2>2. /\ host' = [host EXCEPT ![cmds[c].host].is = "disposed"]
        /\ hosts' = [hosts EXCEPT ![On(c)] = 0] /\ UNCHANGED <<permit, deleted>>
    BY <1>9 DEF DisposeHost
  <2>3. Mapped'
    BY <2>1, <2>2, DisposedMapped
  <2>4. PermittedAt(c)'
    BY <2>1 DEF PermittedAt, Building
  <2>5. \A g \in Hids : host'[g].of = host[g].of
    BY <2>2 DEF Typed, Hosts
  <2> QED
    BY <2>1, <2>2, <2>3, <2>4, <2>5, PermittedFrame DEF Typed
<1>10. ASSUME NEW c \in Cmds, Rebuild(c) PROVE Mapped' /\ Permitted'
  <2>1. /\ Steps(c) /\ On(c) \in Tids /\ cmds[c].host \in Hids /\ cmds'[c].pc \in {"open", "failed"}
        /\ (On(c))' = On(c)
    BY <1>10, RebuildIs DEF Placed, PlacedAt, On
  <2>2. /\ host' = [host EXCEPT ![cmds[c].host].is = "disposed"]
        /\ hosts' = [hosts EXCEPT ![On(c)] = 0] /\ UNCHANGED deleted
    BY <1>10 DEF Rebuild
  <2>3. permit = c /\ hosts[On(c)] \in {0, cmds[c].host}
    BY <1>10, RebuildIs DEF Permitted, PermittedAt, Building
  <2>4. Mapped'
    BY <2>1, <2>2, <2>3, DisposedMapped
  <2>5. PermittedAt(c)'
    BY <1>10, <2>1, <2>2, <2>3, RebuildIs DEF PermittedAt, Building, Typed, Opening, Placed, PlacedAt
  <2>6. \A g \in Hids : host'[g].of = host[g].of
    BY <2>2 DEF Typed, Hosts
  <2> QED
    BY <2>1, <2>2, <2>3, <2>4, <2>5, <2>6, PermittedFrame DEF Typed
<1>11. ASSUME NEW c \in Cmds, OpenSession(c) PROVE Mapped' /\ Permitted'
  <2>1. UNCHANGED <<hosts, host, deleted>> /\ (On(c))' = On(c) /\ Steps(c)
    BY <1>11, OpenSessionIs DEF OpenSession, On
  <2>2. permit = c /\ hosts[On(c)] = 0
    BY <1>11, OpenSessionIs DEF Permitted, PermittedAt, Building
  <2>3. PermittedAt(c)'
    BY <1>11, <2>1, <2>2, OpenSessionIs DEF PermittedAt, Building
  <2> QED
    BY <2>1, <2>2, <2>3, MappedFrame, PermittedFrame
<1>12. ASSUME NEW c \in Cmds, Build(c) PROVE Mapped' /\ Permitted'
  <2> DEFINE h == cmds'[c].host
  <2>1. /\ Steps(c) /\ On(c) \in Tids /\ (On(c))' = On(c) /\ h \in Hids /\ cmds'[c].pc = "run"
        /\ host[h].is = "none" /\ hosts' = [hosts EXCEPT ![On(c)] = h]
        /\ \A g \in Hids \ {h} : host'[g] = host[g]
        /\ host'[h].of = On(c) /\ host'[h].is = "live"
    <3> DEFINE new == [of |-> On(c), is |-> "live",
                       tail |-> IF cmds[c].at = 0 THEN 1 ELSE cmds[c].at]
    <3>1. /\ Steps(c) /\ On(c) \in Tids /\ cmds'[c].on = cmds[c].on /\ h \in Hids
          /\ cmds'[c].pc = "run" /\ host[h].is = "none"
          /\ hosts' = [hosts EXCEPT ![On(c)] = h] /\ host' = [host EXCEPT ![h] = new]
      BY <1>12, BuildIs
    <3>2. new.of = On(c) /\ new.is = "live"
      OBVIOUS
    <3> HIDE DEF new
    <3>3. host'[h] = new /\ \A g \in Hids \ {h} : host'[g] = host[g]
      BY <3>1 DEF Typed
    <3> QED
      BY <3>1, <3>2, <3>3 DEF On
  <2>2. /\ permit = c /\ permit' = "none" /\ hosts[On(c)] = 0 /\ deleted' = deleted
        /\ \A d \in Cmds \ {c} : ~Building(d)
    BY <1>12, BuildIs DEF Build, Release, Permitted, PermittedAt, Building
  <2>3. \A t \in Tids \ {On(c)} : hosts'[t] = hosts[t]
    BY <2>1 DEF Typed
  <2>4. hosts'[On(c)] = h
    BY <2>1 DEF Typed
  <2>5. \A t \in Tids : hosts[t] # h
    BY <2>1 DEF Mapped, Tids, Hids
  <2> HIDE DEF h
  <2>6. Mapped'
    <3>1. ASSUME NEW g \in Hids, host'[g].is = "none" PROVE host'[g].of = 0
      BY <2>1, <3>1 DEF Mapped
    <3>2. ASSUME NEW t \in Tids, hosts'[t] # 0 PROVE host'[hosts'[t]].of = t
      <4>1. CASE t = On(c)
        BY <2>1, <2>4, <4>1
      <4>2. CASE t # On(c)
        <5>1. hosts[t] \in Hids \ {h}
          BY <2>3, <2>5, <3>2, <4>2, ThreadsAssumption DEF Typed, Hids
        <5> QED
          BY <2>1, <2>3, <3>2, <4>2, <5>1 DEF Mapped
      <4> QED
        BY <4>1, <4>2
    <3>3. ASSUME NEW g \in Hids, host'[g].is \in {"live", "crashed"}
          PROVE  host'[g].of \in Tids /\ (hosts'[host'[g].of] = g \/ host'[g].of \in deleted')
      <4>1. CASE g = h
        BY <2>1, <2>4, <4>1
      <4>2. CASE g # h
        BY <2>1, <2>2, <2>3, <3>3, <4>2 DEF Mapped, Hids
      <4> QED
        BY <4>1, <4>2
    <3> QED
      BY <3>1, <3>2, <3>3 DEF Mapped
  <2>7. PermittedAt(c)'
    BY <2>1 DEF PermittedAt, Building, h
  <2>8. \A g \in Hids : host[g].of # 0 => host'[g].of = host[g].of
    BY <2>1 DEF Mapped
  <2> QED
    BY <2>1, <2>2, <2>3, <2>6, <2>7, <2>8, PermittedFrame
<1>13. ASSUME NEW c \in Cmds, Run(c) PROVE Mapped' /\ Permitted'
  <2>1. Steps(c) /\ cmds'[c].pc \in {"failed", "done"} /\ UNCHANGED <<hosts, permit, deleted>>
    BY <1>13, RunIs DEF Run
  <2>2. \A h \in Hids : host'[h].of = host[h].of /\ host'[h].is = host[h].is
    BY <1>13, RunTails
  <2>3. Mapped'
    <3>1. \A t \in Tids : hosts[t] # 0 => hosts[t] \in Hids
      BY ThreadsAssumption DEF Typed, Hids
    <3> QED
      BY <2>1, <2>2, <3>1 DEF Mapped
  <2>4. PermittedAt(c)'
    BY <2>1 DEF PermittedAt, Building
  <2> QED
    BY <2>1, <2>2, <2>3, <2>4, PermittedFrame
<1>14. ASSUME NEW h \in Hids, HostCrashes(h) PROVE Mapped' /\ Permitted'
  <2>1. /\ UNCHANGED <<hosts, permit, deleted, cmds>> /\ host[h].is = "live"
        /\ host' = [host EXCEPT ![h].is = "crashed"]
    BY <1>14 DEF HostCrashes
  <2>2. \A g \in Hids : host'[g].of = host[g].of
    BY <2>1 DEF Typed, Hosts
  <2>3. \A g \in Hids : host'[g].is = host[g].is \/ (host[g].is = "live" /\ host'[g].is = "crashed")
    BY <2>1 DEF Typed, Hosts
  <2>4. Mapped'
    BY <2>1, <2>2, <2>3, ThreadsAssumption DEF Mapped, Typed, Hids
  <2>5. Permitted'
    BY <2>1, <2>2 DEF Permitted, PermittedAt, Placed, PlacedAt, Building, Opening, On
  <2> QED
    BY <2>4, <2>5
<1>15. CASE Restart
  <2>1. /\ \A t \in Tids : hosts'[t] = 0
        /\ \A g \in Hids : /\ host'[g].of = host[g].of /\ host'[g].is \in {"none", "disposed"}
                           /\ host'[g].is = "none" => host[g].is = "none"
    BY <1>15 DEF Restart, Typed, Hosts
  <2>2. Mapped'
    BY <2>1 DEF Mapped
  <2>3. \A c \in Cmds : cmds'[c].pc \in Ended \cup {"new"}
    BY <1>15 DEF Restart, Typed, Commands, Ended
  <2>4. Permitted'
    BY <2>3 DEF Permitted, PermittedAt, Building, Ended
  <2> QED
    BY <2>2, <2>4
<1> QED
  BY <1>1, <1>2, <1>3, <1>4, <1>5, <1>6, <1>7, <1>8, <1>9, <1>10, <1>11, <1>12, <1>13, <1>14,
     <1>15 DEF Next

-----------------------------------------------------------------------------
(* What is acknowledged is kept.                                           *)

\* A step that takes no record away but a deleted thread's.
LEMMA KeptFrame ==
    ASSUME Placed, Kept, NEW c \in Cmds, Steps(c), KeptAt(c)', deleted \subseteq deleted',
           \A t \in Tids \ deleted' :
              /\ records[t].there => records'[t].there
              /\ stored[t].there => stored'[t].there
              /\ records'[t].there => stored'[t].there
    PROVE  Kept'
<1>1. ASSUME NEW d \in Cmds \ {c} PROVE KeptAt(d)'
  <2>1. cmds'[d] = cmds[d] /\ KeptAt(d) /\ PlacedAt(d)
    BY DEF Steps, Kept, Placed
  <2> QED
    BY <2>1 DEF KeptAt, PlacedAt, Acting, On, At
<1> QED
  BY <1>1 DEF Kept

\* A step of a command that says nothing new, away from the records.
LEMMA KeptStays ==
    ASSUME Placed, Kept, NEW c \in Cmds, Steps(c), deleted \subseteq deleted',
           UNCHANGED <<records, stored>>,
           cmds'[c].pc \in {"put", "publish"} => cmds'[c].pc = "put" /\ cmds'[c].read.there,
           cmds'[c].pc = "done" => cmds[c].kind \notin {"create", "import"}
    PROVE  Kept'
<1>1. KeptAt(c)'
  BY DEF KeptAt, Steps, At
<1>2. \A t \in Tids \ deleted' : records'[t].there => stored'[t].there
  BY DEF Kept
<1> QED
  BY <1>1, <1>2, KeptFrame

LEMMA KeptKept == ASSUME Typed, Placed, Kept, [Next]_vars PROVE Kept'
<1> USE DEF disk, cache, history, bounds, At
<1>1. CASE UNCHANGED vars
  BY <1>1 DEF vars, Kept, KeptAt, On
<1>2. ASSUME NEW c \in Cmds, CreateThread(c) PROVE Kept'
  BY <1>2, CreateThreadIs, KeptStays DEF CreateThread, Create
<1>3. ASSUME NEW c \in Cmds, Resolve(c) PROVE Kept'
  BY <1>3, ResolveIs, KeptStays DEF Resolve
<1>4. ASSUME NEW c \in Cmds, Patch(c) PROVE Kept'
  BY <1>4, PatchIs, KeptStays DEF Patch
<1>5. ASSUME NEW c \in Cmds, Put(c) PROVE Kept'
  <2>1. /\ Steps(c) /\ cmds[c].pc = "put" /\ On(c) \in Tids /\ cmds'[c].pc = "publish"
        /\ cmds'[c].read = cmds[c].read /\ (On(c))' = On(c)
        /\ stored' = [stored EXCEPT ![On(c)] = cmds[c].read] /\ UNCHANGED <<records, deleted>>
    BY <1>5, Movers DEF Put, On
  <2>2. cmds[c].read.there
    BY <2>1 DEF Kept, KeptAt
  <2>3. stored'[On(c)].there /\ \A t \in Tids \ {On(c)} : stored'[t] = stored[t]
    BY <2>1, <2>2 DEF Typed
  <2>4. KeptAt(c)'
    BY <2>1, <2>2, <2>3 DEF KeptAt
  <2> QED
    BY <2>1, <2>3, <2>4, KeptFrame DEF Kept
<1>6. ASSUME NEW c \in Cmds, Publish(c) PROVE Kept'
  <2>1. /\ Steps(c) /\ cmds[c].pc = "publish" /\ (On(c))' = On(c)
        /\ cmds'[c].pc \notin {"put", "publish"}
        /\ records' = [records EXCEPT ![On(c)] = cmds[c].read] /\ UNCHANGED <<stored, deleted>>
    BY <1>6, PublishIs DEF Publish, AfterPatch, On
  <2>2. cmds[c].read.there /\ On(c) \in Tids /\ (On(c) \notin deleted => stored[On(c)].there)
    BY <2>1 DEF Kept, KeptAt, Placed, PlacedAt, Acting
  <2>3. records'[On(c)].there /\ \A t \in Tids \ {On(c)} : records'[t] = records[t]
    BY <2>1, <2>2 DEF Typed
  <2>4. KeptAt(c)'
    BY <2>1, <2>2, <2>3 DEF KeptAt
  <2> QED
    BY <2>1, <2>2, <2>3, <2>4, KeptFrame DEF Kept
<1>7. ASSUME NEW c \in Cmds, Delete(c) PROVE Kept'
  BY <1>7, DeleteIs, KeptStays DEF Delete
<1>8. ASSUME NEW c \in Cmds,
             DisposeHost(c) \/ RemoveDir(c) \/ SessionStarted(c) \/ ImportPiSession(c)
      PROVE  Kept'
  <2>1. /\ Steps(c) /\ cmds'[c].pc \notin {"put", "publish"}
        /\ cmds'[c].pc = "done" => cmds[c].kind \notin {"create", "import"}
    BY <1>8, Movers DEF Gone, Placed, PlacedAt, Opens
  <2>2. UNCHANGED <<records, stored, deleted>>
    BY <1>8 DEF DisposeHost, RemoveDir, SessionStarted, ImportPiSession
  <2> QED
    BY <2>1, <2>2, KeptStays
<1>9. ASSUME NEW c \in Cmds, Forget(c) PROVE Kept'
  <2>1. /\ Steps(c) /\ On(c) \in Tids /\ cmds'[c].pc \notin {"put", "publish"}
        /\ cmds'[c].pc = "done" => cmds[c].kind \notin {"create", "import"}
    BY <1>9, Movers DEF Gone
  <2>2. /\ records' = [records EXCEPT ![On(c)] = NoRecord] /\ UNCHANGED stored
        /\ deleted' = deleted \cup {On(c)}
    BY <1>9 DEF Forget
  <2>3. KeptAt(c)'
    BY <2>1 DEF KeptAt, Steps
  <2>4. \A t \in Tids \ deleted' : records'[t] = records[t]
    BY <2>1, <2>2 DEF Typed
  <2> QED
    BY <2>1, <2>2, <2>3, <2>4, KeptFrame DEF Kept
<1>10. ASSUME NEW c \in Cmds, Erase(c) PROVE Kept'
  <2>1. Steps(c) /\ On(c) \in Tids /\ On(c) \in deleted /\ cmds'[c].pc = "remove"
    BY <1>10, Movers
  <2>2. stored' = [stored EXCEPT ![On(c)] = NoRecord] /\ UNCHANGED <<records, deleted>>
    BY <1>10 DEF Erase
  <2>3. KeptAt(c)'
    BY <2>1 DEF KeptAt
  <2>4. \A t \in Tids \ deleted : stored'[t] = stored[t]
    BY <2>1, <2>2 DEF Typed
  <2> QED
    BY <2>1, <2>2, <2>3, <2>4, KeptFrame DEF Kept
<1>11. ASSUME NEW c \in Cmds,
              ReadOnlyHost(c) \/ HostFor(c) \/ Rebuild(c) \/ OpenSession(c) \/ Build(c) \/ Run(c)
       PROVE  Kept'
  <2>1. /\ Steps(c) /\ cmds[c].pc \in Opens /\ cmds'[c].pc \notin {"put", "publish"}
    BY <1>11, ReadOnlyHostIs, HostForIs, RebuildIs, OpenSessionIs, BuildIs, RunIs DEF Opens
  <2>2. UNCHANGED <<records, stored, deleted>>
    BY <1>11 DEF ReadOnlyHost, HostFor, Rebuild, OpenSession, Build, Run
  <2>3. cmds[c].kind \notin {"create", "import"}
    BY <2>1 DEF Placed, PlacedAt
  <2> QED
    BY <2>1, <2>2, <2>3, KeptStays
<1>12. ASSUME NEW c \in Cmds, Parse(c) PROVE Kept'
  BY <1>12, ParseIs, KeptStays DEF Parse
<1>13. ASSUME NEW c \in Cmds, ImportMeta(c) \/ ReplayOne(c) \/ WriteFails(c) \/ LoadBack(c)
       PROVE  Kept'
  <2>1. Steps(c) /\ cmds'[c].pc \in {"forget", "replay", "patch"}
    BY <1>13, ImportMetaIs, ReplayOneIs, Movers
  <2>2. UNCHANGED <<records, stored, deleted>>
    BY <1>13 DEF ImportMeta, ReplayOne, WriteFails, LoadBack
  <2> QED
    BY <2>1, <2>2, KeptStays
<1>14. ASSUME NEW h \in Hids, HostCrashes(h) PROVE Kept'
  BY <1>14 DEF HostCrashes, Kept, KeptAt, On
<1>15. CASE Restart
  <2>1. records' = stored /\ stored' = stored /\ deleted' = deleted
    BY <1>15 DEF Restart
  <2>2. ASSUME NEW c \in Cmds PROVE KeptAt(c)'
    <3>1. cmds'[c].pc \in Ended \cup {"new"} /\ (cmds'[c].pc = "done" => cmds'[c] = cmds[c])
      BY <1>15 DEF Restart, Typed, Commands, Ended
    <3> QED
      BY <2>1, <3>1 DEF Kept, KeptAt, Ended, On
  <2> QED
    BY <2>1, <2>2 DEF Kept
<1> QED
  BY <1>1, <1>2, <1>3, <1>4, <1>5, <1>6, <1>7, <1>8, <1>9, <1>10, <1>11, <1>12, <1>13, <1>14,
     <1>15 DEF Next

-----------------------------------------------------------------------------
(* Threads are numbered as they come.                                      *)

LEMMA NumberedFrame ==
    ASSUME Typed, Numbered, NEW c \in Cmds, Steps(c), fresh' \in Nat, fresh <= fresh',
           (On(c))' <= fresh',
           \A h \in Hids : host'[h].of = host[h].of \/ host'[h].of <= fresh',
           \A t \in Tids : t > fresh' =>
              /\ records'[t].there => records[t].there
              /\ stored'[t].there => stored[t].there,
           \A t \in Tids : trail'[t] = trail[t] \/ trail'[t].there \/ trail'[t].log = <<>>
    PROVE  Numbered'
<1>1. fresh \in Nat /\ \A d \in Cmds : On(d) \in Nat
  BY ThreadsAssumption DEF Typed, Commands, On
<1>2. \A h \in Hids : host[h].of \in Nat
  BY DEF Typed, Hosts
<1>3. \A d \in Cmds : (On(d))' <= fresh'
  BY <1>1 DEF Steps, On, Numbered
<1>4. \A h \in Hids : host'[h].of <= fresh'
  BY <1>1, <1>2 DEF Numbered
<1>5. \A t \in Tids : t > fresh' => t > fresh
  BY <1>1 DEF Tids
<1> QED
  BY <1>3, <1>4, <1>5 DEF Numbered

LEMMA NumberedStays ==
    ASSUME Typed, Numbered, NEW c \in Cmds, Steps(c), fresh' = fresh,
           (On(c))' <= fresh, UNCHANGED <<records, stored, trail, host>>
    PROVE  Numbered'
<1>1. fresh \in Nat /\ fresh <= fresh
  BY DEF Typed
<1> QED
  BY <1>1, NumberedFrame

LEMMA NumberedKept == ASSUME Typed, Placed, Numbered, [Next]_vars PROVE Numbered'
<1> USE DEF disk, cache, history, bounds, At
<1>0. fresh \in Nat /\ fresh <= fresh /\ fresh <= fresh + 1
  BY DEF Typed
<1>1. CASE UNCHANGED vars
  BY <1>1 DEF vars, Numbered, On
<1>2. ASSUME NEW c \in Cmds, CreateThread(c) \/ Parse(c) PROVE Numbered'
  <2>1. Steps(c) /\ UNCHANGED <<records, stored, trail, host>>
    BY <1>2, CreateThreadIs, ParseIs DEF CreateThread, Parse
  <2>2. \/ fresh' = fresh + 1 /\ (On(c))' = fresh + 1
        \/ fresh' = fresh /\ (On(c))' = On(c)
    BY <1>2, CreateThreadIs, ParseIs DEF On
  <2>3. fresh' \in Nat /\ fresh <= fresh' /\ (On(c))' <= fresh'
    BY <1>0, <2>2 DEF Numbered
  <2> QED
    BY <2>1, <2>3, NumberedFrame
<1>3. ASSUME NEW c \in Cmds, Resolve(c) PROVE Numbered'
  <2>1. PICK t \in Tids : Steps(c) /\ records[t].there /\ cmds'[c].on = t
    BY <1>3, ResolveIs
  <2>2. t <= fresh
    BY <1>0, <2>1 DEF Numbered, Tids
  <2> QED
    BY <1>3, <2>1, <2>2, NumberedStays DEF Resolve, On
<1>4. ASSUME NEW c \in Cmds, Steps(c), UNCHANGED <<records, stored, trail, host, fresh>>,
             (On(c))' = On(c)
      PROVE  Numbered'
  BY <1>4, NumberedStays DEF Numbered
<1>5. ASSUME NEW c \in Cmds, Patch(c) \/ Delete(c) \/ SessionStarted(c) \/ ImportPiSession(c)
      PROVE  Numbered'
  <2>1. Steps(c) /\ (On(c))' = On(c)
    BY <1>5, PatchIs, DeleteIs, Movers DEF On, Steps
  <2> QED
    BY <1>4, <1>5, <2>1 DEF Patch, Delete, SessionStarted, ImportPiSession
<1>6. ASSUME NEW c \in Cmds, ReadOnlyHost(c) \/ HostFor(c) \/ WriteFails(c) \/ LoadBack(c)
      PROVE  Numbered'
  <2>1. Steps(c) /\ (On(c))' = On(c)
    BY <1>6, ReadOnlyHostIs, HostForIs, Movers DEF On
  <2> QED
    BY <1>4, <1>6, <2>1 DEF ReadOnlyHost, HostFor, WriteFails, LoadBack
<1>7. ASSUME NEW c \in Cmds, Put(c) \/ Publish(c) \/ Forget(c) \/ Erase(c) PROVE Numbered'
  <2>1. Steps(c) /\ On(c) \in Tids /\ (On(c))' = On(c)
    BY <1>7, PublishIs, Movers DEF On, Placed, PlacedAt, Acting
  <2>2. UNCHANGED <<trail, host, fresh>>
    BY <1>7 DEF Put, Publish, Forget, Erase
  <2>3. \A t \in Tids \ {On(c)} : records'[t] = records[t] /\ stored'[t] = stored[t]
    BY <1>7, <2>1 DEF Put, Publish, Forget, Erase, Typed
  <2>4. On(c) <= fresh
    BY DEF Numbered
  <2>5. \A t \in Tids : t > fresh => t # On(c)
    BY <1>0, <2>1, <2>4 DEF Tids
  <2> QED
    BY <1>0, <2>1, <2>2, <2>3, <2>4, <2>5, NumberedFrame
<1>8. ASSUME NEW c \in Cmds, Steps(c), UNCHANGED <<records, stored, fresh>>, (On(c))' = On(c),
             \A h \in Hids : host'[h].of = host[h].of,
             \A t \in Tids : trail'[t] = trail[t] \/ trail'[t].there \/ trail'[t].log = <<>>
      PROVE  Numbered'
  BY <1>0, <1>8, NumberedFrame DEF Numbered
<1>9. ASSUME NEW c \in Cmds, DisposeHost(c) \/ Rebuild(c) PROVE Numbered'
  <2>1. Steps(c) /\ (On(c))' = On(c)
    BY <1>9, RebuildIs, Movers DEF On
  <2>2. host' = [host EXCEPT ![cmds[c].host].is = "disposed"]
    BY <1>9 DEF DisposeHost, Rebuild
  <2>3. \A h \in Hids : host'[h].of = host[h].of
    BY <2>2 DEF Typed, Hosts
  <2> QED
    BY <1>8, <1>9, <2>1, <2>3 DEF DisposeHost, Rebuild
<1>10. ASSUME NEW c \in Cmds, RemoveDir(c) \/ OpenSession(c) \/ ImportMeta(c) \/ ReplayOne(c)
       PROVE  Numbered'
  <2>1. Steps(c) /\ (On(c))' = On(c) /\ On(c) \in Tids
    BY <1>10, Movers, OpenSessionIs, ImportMetaIs, ReplayOneIs DEF On
  <2>2. UNCHANGED <<records, stored, host, fresh>>
    BY <1>10 DEF RemoveDir, OpenSession, ImportMeta, ReplayOne
  <2>3. \/ trail' = trail
        \/ trail' = [trail EXCEPT ![On(c)] = NoTrail]
        \/ trail' = [trail EXCEPT ![On(c)].there = TRUE]
        \/ \E log : trail' = [trail EXCEPT ![On(c)] = [there |-> TRUE, log |-> log]]
    BY <1>10, ImportMetaIs, ReplayOneIs DEF RemoveDir, OpenSession
  <2>4. \A t \in Tids : trail'[t] = trail[t] \/ trail'[t].there \/ trail'[t].log = <<>>
    BY <2>1, <2>3 DEF Typed, Trails, NoTrail
  <2> QED
    BY <1>8, <2>1, <2>2, <2>4
<1>11. ASSUME NEW c \in Cmds, Build(c) PROVE Numbered'
  <2> DEFINE h == cmds'[c].host
             new == [of |-> On(c), is |-> "live", tail |-> IF cmds[c].at = 0 THEN 1 ELSE cmds[c].at]
             after == [there |-> TRUE, log |-> PutLog(trail[On(c)].log, 1, Own)]
  <2>1. /\ Steps(c) /\ (On(c))' = On(c) /\ h \in Hids /\ host' = [host EXCEPT ![h] = new]
        /\ trail' = trail \/ trail' = [trail EXCEPT ![On(c)] = after]
    BY <1>11, BuildIs DEF On
  <2>2. UNCHANGED <<records, stored, fresh>> /\ new.of = On(c) /\ after.there /\ On(c) <= fresh
    BY <1>11 DEF Build, Numbered
  <2> HIDE DEF h, new, after
  <2>3. \A g \in Hids : host'[g].of = host[g].of \/ host'[g].of <= fresh
    BY <2>1, <2>2 DEF Typed
  <2>4. \A t \in Tids : trail'[t] = trail[t] \/ trail'[t].there
    BY <2>1, <2>2 DEF Typed
  <2> QED
    BY <1>0, <2>1, <2>2, <2>3, <2>4, NumberedFrame
<1>12. ASSUME NEW c \in Cmds, Run(c) PROVE Numbered'
  <2> DEFINE after == [there |-> TRUE,
                       log |-> PutLog(trail[On(c)].log, host[cmds[c].host].tail + 1, Own)]
  <2>1. /\ Steps(c) /\ (On(c))' = On(c)
        /\ trail' = trail \/ trail' = [trail EXCEPT ![On(c)] = after]
    BY <1>12, RunIs DEF On
  <2>2. UNCHANGED <<records, stored, fresh>> /\ after.there
    BY <1>12 DEF Run
  <2> HIDE DEF after
  <2>3. \A t \in Tids : trail'[t] = trail[t] \/ trail'[t].there
    BY <2>1, <2>2 DEF Typed
  <2> QED
    BY <1>8, <1>12, <2>1, <2>2, <2>3, RunTails
<1>13. ASSUME NEW h \in Hids, HostCrashes(h) PROVE Numbered'
  <2>1. \A g \in Hids : host'[g].of = host[g].of
    BY <1>13 DEF HostCrashes, Typed, Hosts
  <2> QED
    BY <1>13, <2>1 DEF HostCrashes, Numbered, On
<1>14. CASE Restart
  <2>1. /\ \A c \in Cmds : cmds'[c].on = cmds[c].on
        /\ \A g \in Hids : host'[g].of = host[g].of
    BY <1>14 DEF Restart, Typed, Commands, Hosts
  <2> QED
    BY <1>14, <2>1 DEF Restart, Numbered, On
<1> QED
  BY <1>1, <1>2, <1>3, <1>5, <1>6, <1>7, <1>9, <1>10, <1>11, <1>12, <1>13, <1>14 DEF Next

-----------------------------------------------------------------------------
(* An import is alone with its thread until somebody else commands it.     *)

\* A step on the thread the command has.
LEMMA SoloStays ==
    ASSUME Solo, NEW c \in Cmds, Steps(c), (On(c))' = On(c), cmds[c].pc \notin {"done", "lost"},
           early' = early, \A h \in Hids : host'[h].of = host[h].of
    PROVE  Solo'
<1>1. \A d \in Cmds : (On(d))' = On(d)
  BY DEF Steps, On
<1>2. ASSUME NEW d \in Cmds, (Alone(d))', cmds'[d].pc \notin {"done", "lost"}
      PROVE  Alone(d) /\ cmds[d].pc \notin {"done", "lost"}
  BY <1>1, <1>2 DEF Alone, Steps
<1>3. ASSUME NEW d \in Cmds, Untouched(d) PROVE (Untouched(d))'
  BY <1>1, <1>3 DEF Untouched
<1> QED
  BY <1>2, <1>3 DEF Solo

\* A thread nobody had.
LEMMA SoloNew ==
    ASSUME Typed, Numbered, Solo, NEW c \in Cmds, Steps(c), (On(c))' = fresh + 1,
           UNCHANGED <<early, host>>
    PROVE  Solo'
<1>1. fresh \in Nat /\ \A d \in Cmds : On(d) \in Nat /\ On(d) # fresh + 1
  <2>1. fresh \in Nat /\ \A d \in Cmds : On(d) \in Nat /\ On(d) <= fresh
    BY ThreadsAssumption DEF Typed, Commands, On, Numbered
  <2> QED
    BY <2>1
<1>2. \A h \in Hids : host[h].of # fresh + 1
  <2>1. \A h \in Hids : host[h].of \in Nat /\ host[h].of <= fresh
    BY DEF Typed, Hosts, Numbered
  <2> QED
    BY <1>1, <2>1
<1>3. \A d \in Cmds \ {c} : cmds'[d] = cmds[d] /\ (On(d))' = On(d)
  BY DEF Steps, On
<1>4. (Untouched(c))'
  BY <1>1, <1>2, <1>3 DEF Untouched
<1>5. ASSUME NEW d \in Cmds \ {c}, (Alone(d))', cmds'[d].pc \notin {"done", "lost"}
      PROVE  (Untouched(d))'
  <2>1. Untouched(d)
    BY <1>3, <1>5 DEF Alone, Solo
  <2> QED
    BY <1>1, <1>3, <2>1 DEF Untouched
<1> QED
  BY <1>4, <1>5 DEF Solo

LEMMA SoloKept ==
    ASSUME Typed, Placed, Numbered, Solo, Adopting, [Next]_vars
    PROVE  Solo'
<1> USE DEF disk, cache, history, bounds, At
<1>1. CASE UNCHANGED vars
  BY <1>1 DEF vars, Solo, Untouched, Alone, On
<1>2. ASSUME NEW c \in Cmds, CreateThread(c) PROVE Solo'
  <2>1. Steps(c) /\ (On(c))' = fresh + 1
    BY <1>2, CreateThreadIs DEF On
  <2> QED
    BY <1>2, <2>1, SoloNew DEF CreateThread, Create
<1>3. ASSUME NEW c \in Cmds, Parse(c) PROVE Solo'
  <2>1. Steps(c) /\ cmds[c].pc = "parse" /\ UNCHANGED <<early, host>>
    BY <1>3, ParseIs DEF Parse
  <2>2. (On(c))' = On(c) \/ (On(c))' = fresh + 1
    BY <1>3, ParseIs DEF On
  <2> QED
    BY <2>1, <2>2, SoloStays, SoloNew
<1>4. ASSUME NEW c \in Cmds, Resolve(c) PROVE Solo'
  <2>1. PICK t \in Tids :
          /\ Steps(c) /\ cmds[c].kind # "import" /\ records[t].there /\ cmds'[c].on = t
          /\ early' = IF Importing(t) THEN early \cup {t} ELSE early
    BY <1>4, ResolveIs
  <2>2. ~(Alone(c))'
    BY <2>1 DEF Alone, Steps
  <2>3. ASSUME NEW d \in Cmds \ {c}, (Alone(d))', cmds'[d].pc \notin {"done", "lost"}
        PROVE  (Untouched(d))'
    <3>1. cmds'[d] = cmds[d] /\ Alone(d) /\ (On(d))' = On(d) /\ On(d) \notin early'
      BY <2>1, <2>3 DEF Steps, Alone, On
    <3>2. Untouched(d)
      BY <2>3, <3>1 DEF Solo
    <3>3. On(d) # t
      <4> SUFFICES ASSUME On(d) = t PROVE FALSE
        OBVIOUS
      <4>1. cmds[d].pc \in Ended /\ On(d) # 0
        BY <2>1, <3>1 DEF Importing, Alone
      <4>2. cmds[d].pc \notin {"refused", "invalid"}
        BY <4>1 DEF Placed, PlacedAt
      <4>3. cmds[d].pc = "failed"
        BY <2>3, <3>1, <4>1, <4>2 DEF Ended
      <4> QED
        BY <2>1, <3>1, <4>3 DEF Adopting, AdoptingAt
    <3>4. \A e \in Cmds \ {c} : (On(e))' = On(e)
      BY <2>1 DEF Steps, On
    <3>5. (On(c))' = t /\ host' = host
      BY <1>4, <2>1 DEF On, Resolve
    <3> QED
      BY <3>1, <3>2, <3>3, <3>4, <3>5 DEF Untouched
  <2> QED
    BY <2>2, <2>3 DEF Solo
<1>5. ASSUME NEW c \in Cmds, Patch(c) \/ Put(c) \/ Publish(c) \/ Delete(c) PROVE Solo'
  <2>1. Steps(c) /\ (On(c))' = On(c) /\ cmds[c].pc \in {"patch", "put", "publish", "delete"}
    BY <1>5, PatchIs, PublishIs, DeleteIs, Movers DEF On, Steps
  <2>2. UNCHANGED <<early, host>>
    BY <1>5 DEF Patch, Put, Publish, Delete
  <2> QED
    BY <2>1, <2>2, SoloStays
<1>6. ASSUME NEW c \in Cmds, Forget(c) \/ Erase(c) \/ RemoveDir(c) PROVE Solo'
  <2>1. Steps(c) /\ (On(c))' = On(c) /\ cmds[c].pc \in {"forget", "erase", "remove"}
    BY <1>6, Movers DEF On
  <2>2. UNCHANGED <<early, host>>
    BY <1>6 DEF Forget, Erase, RemoveDir
  <2> QED
    BY <2>1, <2>2, SoloStays
<1>7. ASSUME NEW c \in Cmds, ReadOnlyHost(c) \/ SessionStarted(c) \/ HostFor(c) \/ OpenSession(c)
      PROVE  Solo'
  <2>1. Steps(c) /\ (On(c))' = On(c) /\ cmds[c].pc \in {"look", "exists", "host", "open"}
    BY <1>7, ReadOnlyHostIs, HostForIs, OpenSessionIs, Movers DEF On
  <2>2. UNCHANGED <<early, host>>
    BY <1>7 DEF ReadOnlyHost, SessionStarted, HostFor, OpenSession
  <2> QED
    BY <2>1, <2>2, SoloStays
<1>8. ASSUME NEW c \in Cmds, DisposeHost(c) \/ Rebuild(c) PROVE Solo'
  <2>1. Steps(c) /\ (On(c))' = On(c) /\ cmds[c].pc \in {"dispose", "rebuild"}
    BY <1>8, RebuildIs, Movers DEF On
  <2>2. host' = [host EXCEPT ![cmds[c].host].is = "disposed"] /\ early' = early
    BY <1>8 DEF DisposeHost, Rebuild
  <2>3. \A h \in Hids : host'[h].of = host[h].of
    BY <2>2 DEF Typed, Hosts
  <2> QED
    BY <2>1, <2>2, <2>3, SoloStays
<1>9. ASSUME NEW c \in Cmds, Build(c) PROVE Solo'
  <2> DEFINE h == cmds'[c].host
             new == [of |-> On(c), is |-> "live", tail |-> IF cmds[c].at = 0 THEN 1 ELSE cmds[c].at]
  <2>1. /\ Steps(c) /\ (On(c))' = On(c) /\ h \in Hids /\ host' = [host EXCEPT ![h] = new]
        /\ early' = early /\ cmds[c].pc = "build" /\ cmds[c].kind # "import"
    BY <1>9, BuildIs DEF On, Build, Placed, PlacedAt, Opens
  <2>2. new.of = On(c)
    OBVIOUS
  <2> HIDE DEF h, new
  <2>3. \A g \in Hids : host'[g].of \in {host[g].of, On(c)}
    BY <2>1, <2>2 DEF Typed
  <2>4. \A d \in Cmds : (On(d))' = On(d)
    BY <2>1 DEF Steps, On
  <2>5. ASSUME NEW d \in Cmds, (Alone(d))', cmds'[d].pc \notin {"done", "lost"}
        PROVE  (Untouched(d))'
    <3>1. d # c /\ Alone(d) /\ cmds[d].pc \notin {"done", "lost"}
      BY <2>1, <2>4, <2>5 DEF Alone, Steps
    <3>2. Untouched(d) /\ On(c) # On(d)
      BY <3>1 DEF Solo, Untouched
    <3> QED
      BY <2>3, <2>4, <3>2 DEF Untouched
  <2> QED
    BY <2>5 DEF Solo
<1>10. ASSUME NEW c \in Cmds, Run(c) PROVE Solo'
  <2>1. Steps(c) /\ (On(c))' = On(c) /\ cmds[c].pc = "run" /\ early' = early
    BY <1>10, RunIs DEF On, Run
  <2> QED
    BY <1>10, <2>1, RunTails, SoloStays
<1>11. ASSUME NEW c \in Cmds, ImportPiSession(c) \/ WriteFails(c) \/ LoadBack(c) PROVE Solo'
  <2>1. Steps(c) /\ (On(c))' = On(c) /\ cmds[c].pc \in {"new", "replay"}
    BY <1>11, Movers DEF On
  <2>2. UNCHANGED <<early, host>>
    BY <1>11 DEF ImportPiSession, WriteFails, LoadBack
  <2> QED
    BY <2>1, <2>2, SoloStays
<1>12. ASSUME NEW c \in Cmds, ImportMeta(c) \/ ReplayOne(c) PROVE Solo'
  <2>1. Steps(c) /\ (On(c))' = On(c) /\ cmds[c].pc \in {"meta", "replay"}
    BY <1>12, ImportMetaIs, ReplayOneIs DEF On
  <2>2. UNCHANGED <<early, host>>
    BY <1>12 DEF ImportMeta, ReplayOne
  <2> QED
    BY <2>1, <2>2, SoloStays
<1>13. ASSUME NEW h \in Hids, HostCrashes(h) PROVE Solo'
  <2>1. \A g \in Hids : host'[g].of = host[g].of
    BY <1>13 DEF HostCrashes, Typed, Hosts
  <2>2. \A c \in Cmds : Untouched(c) => (Untouched(c))'
    BY <1>13, <2>1 DEF HostCrashes, Untouched, On
  <2> QED
    BY <1>13, <2>2 DEF HostCrashes, Solo, Alone, On
<1>14. CASE Restart
  <2>1. /\ \A c \in Cmds : cmds'[c].on = cmds[c].on /\ cmds'[c].kind = cmds[c].kind
                           /\ cmds'[c].pc \in {cmds[c].pc, "lost"}
        /\ \A g \in Hids : host'[g].of = host[g].of
        /\ early' = early
    BY <1>14 DEF Restart, Typed, Commands, Hosts
  <2>2. \A c \in Cmds : Untouched(c) => (Untouched(c))'
    BY <2>1 DEF Untouched, On
  <2> QED
    BY <2>1, <2>2 DEF Solo, Alone, On
<1> QED
  BY <1>1, <1>2, <1>3, <1>4, <1>5, <1>6, <1>7, <1>8, <1>9, <1>10, <1>11, <1>12, <1>13,
     <1>14 DEF Next

-----------------------------------------------------------------------------
(* How far an import has got.                                              *)

\* A step of a command touches at most its own thread.
LEMMA AdoptingFrame ==
    ASSUME Typed, Solo, Adopting, NEW c \in Cmds, Steps(c), early \subseteq early',
           \A t \in Tids \ {On(c)} :
              records'[t] = records[t] /\ stored'[t] = stored[t] /\ trail'[t] = trail[t],
           (Alone(c))' => (AdoptingAt(c))'
    PROVE  Adopting'
<1> SUFFICES ASSUME NEW d \in Cmds \ {c}, (Alone(d))' PROVE (AdoptingAt(d))'
  BY DEF Adopting
<1>1. cmds'[d] = cmds[d] /\ (On(d))' = On(d) /\ Alone(d) /\ AdoptingAt(d)
  BY DEF Steps, On, Alone, Adopting
<1>2. CASE cmds[d].pc \in {"done", "lost"}
  BY <1>1, <1>2 DEF AdoptingAt
<1>3. CASE cmds[d].pc \notin {"done", "lost"}
  <2>1. On(c) # On(d)
    BY <1>1, <1>3 DEF Solo, Untouched
  <2>2. On(d) \in Tids
    BY <1>1, ThreadsAssumption DEF Typed, Commands, On, Alone, Tids
  <2>3. records'[On(d)] = records[On(d)] /\ stored'[On(d)] = stored[On(d)] /\ trail'[On(d)] = trail[On(d)]
    BY <2>1, <2>2
  <2> QED
    BY <1>1, <2>3 DEF AdoptingAt
<1> QED
  BY <1>2, <1>3

\* What is not an import is none of these.
LEMMA AdoptingOthers ==
    ASSUME Typed, Solo, Adopting, NEW c \in Cmds, Steps(c), early \subseteq early',
           cmds[c].kind # "import",
           \A t \in Tids \ {On(c)} :
              records'[t] = records[t] /\ stored'[t] = stored[t] /\ trail'[t] = trail[t]
    PROVE  Adopting'
<1>1. ~(Alone(c))'
  BY DEF Alone, Steps
<1> QED
  BY <1>1, AdoptingFrame

LEMMA AdoptingKept ==
    ASSUME Typed, Placed, Kept, Numbered, Solo, Adopting, [Next]_vars
    PROVE  Adopting'
<1> USE DEF disk, cache, history, bounds, At
<1>1. CASE UNCHANGED vars
  BY <1>1 DEF vars, Adopting, AdoptingAt, Alone, On
<1>2. ASSUME NEW c \in Cmds, CreateThread(c) \/ Resolve(c) \/ Delete(c) \/ DisposeHost(c)
      PROVE  Adopting'
  <2>1. Steps(c) /\ cmds[c].kind # "import"
    BY <1>2, CreateThreadIs, ResolveIs, DeleteIs, Movers
  <2>2. UNCHANGED <<records, stored, trail>> /\ early \subseteq early'
    BY <1>2 DEF CreateThread, Create, Resolve, Delete, DisposeHost
  <2> QED
    BY <2>1, <2>2, AdoptingOthers
<1>3. ASSUME NEW c \in Cmds, ReadOnlyHost(c) \/ SessionStarted(c) \/ HostFor(c) \/ Rebuild(c)
      PROVE  Adopting'
  <2>1. Steps(c) /\ cmds[c].kind # "import"
    BY <1>3, ReadOnlyHostIs, HostForIs, RebuildIs, Movers DEF Placed, PlacedAt, Opens
  <2>2. UNCHANGED <<records, stored, trail, early>>
    BY <1>3 DEF ReadOnlyHost, SessionStarted, HostFor, Rebuild
  <2> QED
    BY <2>1, <2>2, AdoptingOthers
<1>4. ASSUME NEW c \in Cmds, OpenSession(c) \/ Build(c) \/ Run(c) PROVE Adopting'
  <2>1. Steps(c) /\ cmds[c].kind # "import" /\ On(c) \in Tids
    BY <1>4, OpenSessionIs, BuildIs, RunIs DEF Placed, PlacedAt, Opens
  <2>2. UNCHANGED <<records, stored, early>>
    BY <1>4 DEF OpenSession, Build, Run
  <2>3. \A t \in Tids \ {On(c)} : trail'[t] = trail[t]
    <3>1. CASE OpenSession(c)
      BY <2>1, <3>1 DEF OpenSession, Typed
    <3>2. CASE Build(c)
      <4>1. trail' = trail \/ \E x : trail' = [trail EXCEPT ![On(c)] = x]
        BY <3>2, BuildIs
      <4> QED
        BY <4>1 DEF Typed
    <3>3. CASE Run(c)
      <4>1. trail' = trail \/ \E x : trail' = [trail EXCEPT ![On(c)] = x]
        BY <3>3, RunIs
      <4> QED
        BY <4>1 DEF Typed
    <3> QED
      BY <1>4, <3>1, <3>2, <3>3
  <2> QED
    BY <2>1, <2>2, <2>3, AdoptingOthers
<1>5. ASSUME NEW c \in Cmds, ImportPiSession(c) \/ Parse(c) PROVE Adopting'
  <2>1. /\ Steps(c) /\ cmds'[c].pc \in {"refused", "parse", "invalid", "put"}
        /\ cmds'[c].pc = "put" => ~cmds'[c].read.session
    BY <1>5, ParseIs, Movers
  <2>2. UNCHANGED <<records, stored, trail, early>>
    BY <1>5 DEF ImportPiSession, Parse
  <2>3. (AdoptingAt(c))'
    BY <2>1 DEF AdoptingAt
  <2> QED
    BY <2>1, <2>2, <2>3, AdoptingFrame
\* From here the command keeps its thread, and what it imports.
<1>6. ASSUME NEW c \in Cmds, Steps(c), early' = early, cmds[c].pc \notin {"new", "parse"},
             \A t \in Tids \ {On(c)} :
                records'[t] = records[t] /\ stored'[t] = stored[t] /\ trail'[t] = trail[t],
             Alone(c) /\ AdoptingAt(c) /\ On(c) \in Tids /\ (On(c))' = On(c)
                /\ cmds'[c].muts = cmds[c].muts => (AdoptingAt(c))'
      PROVE  Adopting'
  <2>1. (On(c))' = On(c) /\ cmds'[c].muts = cmds[c].muts
    BY <1>6 DEF Steps, On
  <2>2. (Alone(c))' => Alone(c)
    BY <1>6, <2>1 DEF Alone, Steps
  <2>3. Alone(c) => On(c) \in Tids
    BY ThreadsAssumption DEF Typed, Commands, On, Alone, Tids
  <2> QED
    BY <1>6, <2>1, <2>2, <2>3, AdoptingFrame DEF Adopting
<1>7. ASSUME NEW c \in Cmds, Patch(c) PROVE Adopting'
  <2>1. /\ Steps(c) /\ cmds[c].pc = "patch" /\ UNCHANGED <<records, stored, trail, early>>
        /\ records[On(c)].there => cmds'[c].pc = "put"
    BY <1>7, PatchIs DEF Patch
  <2> QED
    BY <1>6, <2>1 DEF AdoptingAt
<1>8. ASSUME NEW c \in Cmds, Put(c) PROVE Adopting'
  <2>1. /\ Steps(c) /\ cmds[c].pc = "put" /\ UNCHANGED <<records, trail, early>>
        /\ cmds'[c].pc = "publish" /\ cmds'[c].read = cmds[c].read
        /\ \A t \in Tids \ {On(c)} : stored'[t] = stored[t]
    BY <1>8, Movers DEF Put, Typed
  <2> QED
    BY <1>6, <2>1 DEF AdoptingAt
<1>9. ASSUME NEW c \in Cmds, Publish(c) PROVE Adopting'
  <2>1. /\ Steps(c) /\ cmds[c].pc = "publish" /\ UNCHANGED <<stored, trail, early>>
        /\ cmds'[c].pc = AfterPatch(c) /\ cmds[c].read.there
        /\ records' = [records EXCEPT ![On(c)] = cmds[c].read]
    BY <1>9, PublishIs DEF Publish, Kept, KeptAt
  <2>2. \A t \in Tids \ {On(c)} : records'[t] = records[t]
    BY <2>1 DEF Typed
  <2>3. Alone(c) /\ On(c) \in Tids =>
           cmds'[c].pc \in {"meta", "done"} /\ records'[On(c)].there
    BY <2>1 DEF AfterPatch, Opening, Alone, Typed
  <2> QED
    BY <1>6, <2>1, <2>2, <2>3 DEF AdoptingAt
<1>10. ASSUME NEW c \in Cmds, Forget(c) PROVE Adopting'
  <2>1. /\ Steps(c) /\ cmds[c].pc = "forget" /\ UNCHANGED <<stored, trail, early>>
        /\ records[On(c)].there => cmds'[c].pc = "erase"
        /\ records' = [records EXCEPT ![On(c)] = NoRecord]
    BY <1>10, Movers DEF Forget
  <2>2. \A t \in Tids \ {On(c)} : records'[t] = records[t]
    BY <2>1 DEF Typed
  <2>3. On(c) \in Tids => ~records'[On(c)].there
    BY <2>1 DEF Typed, NoRecord
  <2> QED
    BY <1>6, <2>1, <2>2, <2>3 DEF AdoptingAt
<1>11. ASSUME NEW c \in Cmds, Erase(c) PROVE Adopting'
  <2>1. /\ Steps(c) /\ cmds[c].pc = "erase" /\ UNCHANGED <<records, trail, early>>
        /\ cmds'[c].pc = "remove" /\ stored' = [stored EXCEPT ![On(c)] = NoRecord]
    BY <1>11, Movers DEF Erase
  <2>2. \A t \in Tids \ {On(c)} : stored'[t] = stored[t]
    BY <2>1 DEF Typed
  <2>3. On(c) \in Tids => ~stored'[On(c)].there
    BY <2>1 DEF Typed, NoRecord
  <2> QED
    BY <1>6, <2>1, <2>2, <2>3 DEF AdoptingAt
<1>12. ASSUME NEW c \in Cmds, RemoveDir(c) PROVE Adopting'
  <2>1. /\ Steps(c) /\ cmds[c].pc = "remove" /\ UNCHANGED <<records, stored, early>>
        /\ cmds'[c].pc \in {"failed", "done"} /\ trail' = [trail EXCEPT ![On(c)] = NoTrail]
    BY <1>12, Movers DEF RemoveDir, Gone
  <2>2. \A t \in Tids \ {On(c)} : trail'[t] = trail[t]
    BY <2>1 DEF Typed
  <2> QED
    BY <1>6, <2>1, <2>2 DEF AdoptingAt
<1>13. ASSUME NEW c \in Cmds, ImportMeta(c) PROVE Adopting'
  <2>1. /\ Steps(c) /\ cmds[c].pc = "meta" /\ UNCHANGED <<records, stored, early>> /\ On(c) \in Tids
        /\ \/ cmds'[c].pc = "forget" /\ UNCHANGED trail
           \/ /\ ~trail[On(c)].there /\ cmds'[c].pc = "replay" /\ cmds'[c].at = 0
              /\ trail' = [trail EXCEPT ![On(c)].there = TRUE]
    BY <1>13, ImportMetaIs DEF ImportMeta
  <2>2. \A t \in Tids \ {On(c)} : trail'[t] = trail[t]
    BY <2>1 DEF Typed
  <2>3. cmds'[c].pc = "replay" => trail'[On(c)].there /\ trail'[On(c)].log = <<>>
    BY <2>1 DEF Typed, Trails, Numbered
  <2>4. cmds'[c].pc = "replay" => cmds'[c].at = 0 /\ Len(cmds[c].muts) >= 0
    BY <2>1 DEF Typed, Commands
  <2>5. /\ Len(<<>>) = 0 /\ cmds'[c].pc \in {"forget", "replay"}
    BY <2>1
  <2> QED
    BY <1>6, <2>1, <2>2, <2>3, <2>4, <2>5 DEF AdoptingAt
<1>14. ASSUME NEW c \in Cmds, ReplayOne(c) PROVE Adopting'
  <2> DEFINE k == cmds[c].at + 1
             log == PutLog(trail[On(c)].log, k, cmds[c].muts[k])
  <2>1. /\ Steps(c) /\ cmds[c].pc = "replay" /\ UNCHANGED <<records, stored, early>> /\ On(c) \in Tids
        /\ cmds[c].at < Len(cmds[c].muts) /\ cmds'[c].at = k /\ cmds'[c].pc = "replay"
        /\ cmds[c].muts[k] \in Muts
        /\ trail' = [trail EXCEPT ![On(c)] = [there |-> TRUE, log |-> log]]
    BY <1>14, ReplayOneIs DEF ReplayOne
  <2>2. /\ trail[On(c)].log \in Seq(Muts) /\ cmds[c].at \in Nat /\ k \in Nat \ {0}
        /\ Len(cmds[c].muts) \in Nat
    BY <2>1 DEF Typed, Trails, Commands
  <2>3. /\ \A i \in 1 .. Len(trail[On(c)].log) : i # k => log[i] = trail[On(c)].log[i]
        /\ k = Len(trail[On(c)].log) + 1 => Len(log) = k /\ log[k] = cmds[c].muts[k]
    BY <2>1, <2>2, PutLogIs
  <2>4. trail'[On(c)].there /\ trail'[On(c)].log = log
        /\ \A t \in Tids \ {On(c)} : trail'[t] = trail[t]
    BY <2>1 DEF Typed
  <2>5. ASSUME AdoptingAt(c), (On(c))' = On(c), cmds'[c].muts = cmds[c].muts
        PROVE  (AdoptingAt(c))'
    <3>1. /\ Len(trail[On(c)].log) = cmds[c].at
          /\ \A i \in 1 .. cmds[c].at : trail[On(c)].log[i] = cmds[c].muts[i]
          /\ records[On(c)].there
      BY <2>1, <2>5 DEF AdoptingAt
    <3>2. Len(log) = k /\ \A i \in 1 .. k : log[i] = cmds[c].muts[i]
      BY <2>2, <2>3, <3>1
    <3>3. k <= Len(cmds[c].muts)
      BY <2>1, <2>2
    <3> HIDE DEF log, k
    <3> QED
      BY <2>1, <2>4, <2>5, <3>1, <3>2, <3>3 DEF AdoptingAt
  <2> QED
    BY <1>6, <2>1, <2>4, <2>5
<1>15. ASSUME NEW c \in Cmds, WriteFails(c) \/ LoadBack(c) PROVE Adopting'
  <2>1. /\ Steps(c) /\ cmds[c].pc = "replay" /\ UNCHANGED <<records, stored, trail, early>>
        /\ \/ cmds'[c].pc = "forget"
           \/ cmds'[c].pc = "patch" /\ cmds[c].at = Len(cmds[c].muts)
    BY <1>15, Movers DEF WriteFails, LoadBack
  <2>2. ASSUME AdoptingAt(c), (On(c))' = On(c), cmds'[c].muts = cmds[c].muts
        PROVE  (AdoptingAt(c))'
    <3>1. /\ Len(trail[On(c)].log) = cmds[c].at /\ records[On(c)].there
          /\ \A i \in 1 .. cmds[c].at : trail[On(c)].log[i] = cmds[c].muts[i]
      BY <2>1, <2>2 DEF AdoptingAt
    <3>2. cmds[c].at \in Nat
      BY DEF Typed, Commands
    <3>3. cmds'[c].pc = "patch" => Begins(cmds[c].muts, trail[On(c)].log)
      BY <2>1, <3>1, <3>2 DEF Begins
    <3> QED
      BY <2>1, <2>2, <3>1, <3>3 DEF AdoptingAt
  <2> QED
    BY <1>6, <2>1, <2>2
<1>16. ASSUME NEW h \in Hids, HostCrashes(h) PROVE Adopting'
  BY <1>16 DEF HostCrashes, Adopting, AdoptingAt, Alone, On
<1>17. CASE Restart
  <2> SUFFICES ASSUME NEW c \in Cmds, (Alone(c))' PROVE (AdoptingAt(c))'
    BY DEF Adopting
  <2>1. /\ cmds'[c].on = cmds[c].on /\ cmds'[c].kind = cmds[c].kind
        /\ cmds'[c].pc = "lost" \/ cmds'[c].pc = cmds[c].pc
        /\ cmds'[c].pc \in Ended \cup {"new"}
    BY <1>17 DEF Restart, Typed, Commands, Ended
  <2>2. records' = stored /\ stored' = stored /\ early' = early
    BY <1>17 DEF Restart
  <2>3. AdoptingAt(c)
    BY <2>1, <2>2 DEF Adopting, Alone, On
  <2> QED
    BY <2>1, <2>2, <2>3 DEF AdoptingAt, Ended, On
<1> QED
  BY <1>1, <1>2, <1>3, <1>4, <1>5, <1>7, <1>8, <1>9, <1>10, <1>11, <1>12, <1>13, <1>14, <1>15,
     <1>16, <1>17 DEF Next

-----------------------------------------------------------------------------
(* What was adopted is kept.                                               *)

Sessions == {"build", "patch", "put", "publish"}
Done(a) == Alone(a) /\ At(a, "done") /\ On(a) \notin deleted

LEMMA DoneOn == ASSUME Typed, NEW a \in Cmds, Done(a) PROVE On(a) \in Tids
BY ThreadsAssumption DEF Typed, Commands, On, Done, Alone, Tids

\* A step that leaves every adopted thread its beginning.
LEMMA AdoptedFrame ==
    ASSUME Typed, Adopted, NEW c \in Cmds, Steps(c), deleted \subseteq deleted', early \subseteq early',
           (Done(c))' => (AdoptedAt(c))',
           \A a \in Cmds \ {c} : Done(a) /\ On(a) \notin deleted' /\ AdoptedAt(a) =>
              /\ Begins(cmds[a].muts, trail'[On(a)].log)
              /\ (On(c))' = On(a) /\ Opening(c) /\ cmds'[c].pc \in Sessions =>
                    cmds'[c].at >= Len(cmds[a].muts)
              /\ \A h \in Hids : host'[h].of = On(a) => host'[h].tail >= Len(cmds[a].muts)
    PROVE  Adopted'
<1> SUFFICES ASSUME NEW a \in Cmds, (Done(a))' PROVE (AdoptedAt(a))'
  BY DEF Adopted, Done
<1>1. CASE a = c
  BY <1>1
<1> SUFFICES ASSUME a # c PROVE (AdoptedAt(a))'
  BY <1>1
<1>2. cmds'[a] = cmds[a] /\ (On(a))' = On(a) /\ Done(a) /\ On(a) \notin deleted'
  BY DEF Steps, On, Done, Alone, At
<1>3. AdoptedAt(a)
  BY <1>2 DEF Adopted, Done
<1>4. \A d \in Cmds : (Opening(d))' <=> Opening(d)
  BY DEF Steps, Opening
<1>5. \A d \in Cmds : (On(d))' = On(a) /\ Opening(d) /\ cmds'[d].pc \in Sessions =>
         cmds'[d].at >= Len(cmds[a].muts)
  <2> SUFFICES ASSUME NEW d \in Cmds \ {c}, On(d) = On(a), Opening(d), cmds[d].pc \in Sessions
               PROVE  cmds[d].at >= Len(cmds[a].muts)
    BY <1>2, <1>3 DEF Steps, On
  <2> QED
    BY <1>3 DEF AdoptedAt, Sessions
<1> QED
  BY <1>2, <1>3, <1>4, <1>5 DEF AdoptedAt, Sessions

\* A step that writes no mutation of a thread there is, and opens no session.
LEMMA AdoptedStays ==
    ASSUME Typed, Adopted, NEW c \in Cmds, Steps(c), deleted \subseteq deleted', early \subseteq early',
           cmds'[c].pc = "done" => cmds[c].kind # "import",
           \A t \in Tids \ deleted' : trail'[t].log = trail[t].log,
           \A h \in Hids : host'[h].of = host[h].of /\ host'[h].tail \in Nat
                            /\ host'[h].tail >= host[h].tail,
           Opening(c) /\ cmds'[c].pc \in Sessions =>
              cmds[c].pc \in Sessions /\ cmds'[c].at = cmds[c].at /\ (On(c))' = On(c)
    PROVE  Adopted'
<1> SUFFICES ASSUME NEW a \in Cmds \ {c}, Done(a), On(a) \notin deleted', AdoptedAt(a)
             PROVE  /\ Begins(cmds[a].muts, trail'[On(a)].log)
                    /\ (On(c))' = On(a) /\ Opening(c) /\ cmds'[c].pc \in Sessions =>
                          cmds'[c].at >= Len(cmds[a].muts)
                    /\ \A h \in Hids : host'[h].of = On(a) => host'[h].tail >= Len(cmds[a].muts)
  <2>1. ~(Done(c))'
    BY DEF Done, Alone, At, Steps
  <2> QED
    BY <2>1, AdoptedFrame
<1>1. On(a) \in Tids
  BY DoneOn
<1>2. Begins(cmds[a].muts, trail'[On(a)].log)
  BY <1>1 DEF AdoptedAt
<1>3. (On(c))' = On(a) /\ Opening(c) /\ cmds'[c].pc \in Sessions =>
         cmds'[c].at >= Len(cmds[a].muts)
  BY DEF AdoptedAt, Sessions
<1>4. \A h \in Hids : host'[h].of = On(a) => host'[h].tail >= Len(cmds[a].muts)
  <2> SUFFICES ASSUME NEW h \in Hids, host'[h].of = On(a)
               PROVE  host'[h].tail >= Len(cmds[a].muts)
    OBVIOUS
  <2>1. host[h].tail >= Len(cmds[a].muts) /\ host'[h].tail >= host[h].tail
    BY DEF AdoptedAt
  <2>2. host'[h].tail \in Nat /\ host[h].tail \in Nat /\ Len(cmds[a].muts) \in Nat
    BY DEF Typed, Hosts, Commands
  <2> QED
    BY <2>1, <2>2
<1> QED
  BY <1>2, <1>3, <1>4

LEMMA AdoptedKept ==
    ASSUME Typed, Placed, Mapped, Permitted, Solo, Adopting, Adopted, [Next]_vars
    PROVE  Adopted'
<1> USE DEF disk, cache, history, bounds, At
<1>0. \A h \in Hids : host[h].tail \in Nat /\ host'[h].tail \in Nat
  BY TypedKept DEF Typed, Hosts
<1>1. CASE UNCHANGED vars
  BY <1>1 DEF vars, Adopted, AdoptedAt, Alone, Opening, On
<1>2. ASSUME NEW c \in Cmds, Steps(c), deleted \subseteq deleted', early \subseteq early',
             cmds'[c].pc = "done" => cmds[c].kind # "import",
             UNCHANGED <<trail, host>>,
             Opening(c) /\ cmds'[c].pc \in Sessions =>
                cmds[c].pc \in Sessions /\ cmds'[c].at = cmds[c].at /\ (On(c))' = On(c)
      PROVE  Adopted'
  BY <1>0, <1>2, AdoptedStays
<1>3. ASSUME NEW c \in Cmds, CreateThread(c) \/ Resolve(c) PROVE Adopted'
  <2>1. Steps(c) /\ cmds'[c].pc # "done" /\ (Opening(c) => cmds'[c].pc \notin Sessions)
    BY <1>3, CreateThreadIs, ResolveIs DEF Opening, Sessions
  <2> QED
    BY <1>2, <1>3, <2>1 DEF CreateThread, Create, Resolve
<1>4. ASSUME NEW c \in Cmds, Patch(c) \/ Put(c) PROVE Adopted'
  <2>1. /\ Steps(c) /\ cmds'[c].pc # "done" /\ cmds[c].pc \in Sessions
        /\ cmds'[c].at = cmds[c].at /\ (On(c))' = On(c)
    BY <1>4, PatchIs, Movers DEF Sessions, On, Steps
  <2> QED
    BY <1>2, <1>4, <2>1 DEF Patch, Put
<1>5. ASSUME NEW c \in Cmds, Publish(c) PROVE Adopted'
  <2>1. /\ Steps(c) /\ cmds[c].pc = "publish" /\ cmds'[c].at = cmds[c].at /\ (On(c))' = On(c)
        /\ cmds'[c].muts = cmds[c].muts /\ cmds'[c].pc = AfterPatch(c)
        /\ UNCHANGED <<trail, host, deleted, early>>
    BY <1>5, PublishIs DEF Publish, On, Steps
  <2>2. CASE cmds[c].kind # "import"
    BY <1>2, <2>1, <2>2 DEF Sessions
  <2>3. CASE cmds[c].kind = "import" /\ cmds'[c].pc # "done"
    BY <1>2, <2>1, <2>3 DEF Opening
  <2>4. CASE cmds[c].kind = "import" /\ cmds'[c].pc = "done"
    <3>1. cmds[c].read.session /\ ~Opening(c)
      BY <2>1, <2>4 DEF AfterPatch, Opening
    <3>2. ASSUME (Done(c))' PROVE (AdoptedAt(c))'
      <4>1. Alone(c)
        BY <2>1, <3>2 DEF Done, Alone, Steps
      <4>2. Begins(cmds[c].muts, trail[On(c)].log)
        BY <2>1, <3>1, <4>1 DEF Adopting, AdoptingAt
      <4>3. Untouched(c)
        BY <2>1, <4>1 DEF Solo
      <4>4. \A d \in Cmds \ {c} : (On(d))' # On(c)
        BY <2>1, <4>3 DEF Untouched, Steps, On
      <4>5. ~(Opening(c))'
        BY <2>1, <3>1 DEF Opening, Steps
      <4> QED
        BY <2>1, <4>2, <4>3, <4>4, <4>5 DEF AdoptedAt, Untouched
    <3>3. \A a \in Cmds \ {c} : Done(a) /\ On(a) \notin deleted' /\ AdoptedAt(a) =>
             /\ Begins(cmds[a].muts, trail'[On(a)].log)
             /\ \A h \in Hids : host'[h].of = On(a) => host'[h].tail >= Len(cmds[a].muts)
      BY <2>1 DEF AdoptedAt
    <3> QED
      BY <2>1, <3>1, <3>2, <3>3, AdoptedFrame
  <2> QED
    BY <2>2, <2>3, <2>4
<1>6. ASSUME NEW c \in Cmds, Delete(c) \/ Forget(c) \/ Erase(c) \/ ImportPiSession(c) \/ Parse(c)
      PROVE  Adopted'
  <2>1. /\ Steps(c)
        /\ cmds'[c].pc = "done" => cmds[c].kind # "import"
        /\ Opening(c) => cmds'[c].pc \notin Sessions
    BY <1>6, DeleteIs, ParseIs, Movers DEF Gone, Opening, Sessions
  <2>2. UNCHANGED <<trail, host, early>> /\ deleted \subseteq deleted'
    BY <1>6 DEF Delete, Forget, Erase, ImportPiSession, Parse
  <2> QED
    BY <1>2, <2>1, <2>2
<1>7. ASSUME NEW c \in Cmds,
             ReadOnlyHost(c) \/ SessionStarted(c) \/ HostFor(c) \/ WriteFails(c) \/ LoadBack(c)
      PROVE  Adopted'
  <2>1. /\ Steps(c)
        /\ cmds'[c].pc = "done" => cmds[c].kind # "import"
        /\ Opening(c) => cmds'[c].pc \notin Sessions
    BY <1>7, ReadOnlyHostIs, HostForIs, Movers DEF Placed, PlacedAt, Opens, Opening, Sessions
  <2>2. UNCHANGED <<trail, host, early, deleted>>
    BY <1>7 DEF ReadOnlyHost, SessionStarted, HostFor, WriteFails, LoadBack
  <2> QED
    BY <1>2, <2>1, <2>2
<1>8. ASSUME NEW c \in Cmds, DisposeHost(c) \/ Rebuild(c) PROVE Adopted'
  <2>1. Steps(c) /\ cmds'[c].pc \in {"forget", "open", "failed"}
    BY <1>8, RebuildIs, Movers
  <2>2. /\ host' = [host EXCEPT ![cmds[c].host].is = "disposed"]
        /\ UNCHANGED <<trail, deleted, early>>
    BY <1>8 DEF DisposeHost, Rebuild
  <2>3. \A h \in Hids : host'[h].of = host[h].of /\ host'[h].tail = host[h].tail
    BY <2>2 DEF Typed, Hosts
  <2> QED
    BY <1>0, <2>1, <2>2, <2>3, AdoptedStays DEF Sessions
<1>9. ASSUME NEW c \in Cmds, RemoveDir(c) PROVE Adopted'
  <2>1. /\ Steps(c) /\ cmds'[c].pc \in {"failed", "done"} /\ On(c) \in Tids /\ On(c) \in deleted
        /\ cmds'[c].pc = "done" => cmds[c].kind # "import"
    BY <1>9, Movers DEF Gone
  <2>2. trail' = [trail EXCEPT ![On(c)] = NoTrail] /\ UNCHANGED <<host, deleted, early>>
    BY <1>9 DEF RemoveDir
  <2>3. \A t \in Tids \ deleted' : trail'[t].log = trail[t].log
    BY <2>1, <2>2 DEF Typed
  <2> QED
    BY <1>0, <2>1, <2>2, <2>3, AdoptedStays DEF Sessions
<1>10. ASSUME NEW c \in Cmds, ImportMeta(c) PROVE Adopted'
  <2>1. /\ Steps(c) /\ cmds'[c].pc \in {"forget", "replay"} /\ On(c) \in Tids
        /\ trail' = trail \/ trail' = [trail EXCEPT ![On(c)].there = TRUE]
    BY <1>10, ImportMetaIs
  <2>2. \A t \in Tids : trail'[t].log = trail[t].log
    <3>1. trail \in [Tids -> Trails]
      BY DEF Typed
    <3>2. [trail[On(c)] EXCEPT !.there = TRUE].log = trail[On(c)].log
      BY <2>1, <3>1 DEF Trails
    <3> QED
      BY <2>1, <3>1, <3>2
  <2> QED
    BY <1>0, <1>10, <2>1, <2>2, AdoptedStays DEF ImportMeta, Sessions
<1>11. ASSUME NEW c \in Cmds, OpenSession(c) PROVE Adopted'
  <2>1. /\ Steps(c) /\ cmds'[c].pc \in {"build", "patch", "failed"} /\ On(c) \in Tids
        /\ (On(c))' = On(c) /\ (cmds'[c].pc # "failed" => cmds'[c].at = Len(trail[On(c)].log))
    BY <1>11, OpenSessionIs DEF On
  <2>2. trail' = [trail EXCEPT ![On(c)].there = TRUE] /\ UNCHANGED <<host, deleted, early>>
    BY <1>11 DEF OpenSession
  <2>3. \A t \in Tids : trail'[t].log = trail[t].log
    BY <2>1, <2>2 DEF Typed, Trails
  <2>4. \A a \in Cmds : Done(a) => On(a) \in Tids
    BY DoneOn
  <2>5. ASSUME NEW a \in Cmds \ {c}, Done(a), AdoptedAt(a)
        PROVE  /\ Begins(cmds[a].muts, trail'[On(a)].log)
               /\ (On(c))' = On(a) /\ Opening(c) /\ cmds'[c].pc \in Sessions =>
                     cmds'[c].at >= Len(cmds[a].muts)
               /\ \A h \in Hids : host'[h].of = On(a) => host'[h].tail >= Len(cmds[a].muts)
    <3>1. Begins(cmds[a].muts, trail[On(a)].log)
      BY <2>5 DEF AdoptedAt
    <3>2. Len(trail[On(a)].log) >= Len(cmds[a].muts)
      <4>1. Len(cmds[a].muts) \in Nat /\ Len(trail[On(a)].log) \in Nat
        BY <2>4, <2>5 DEF Typed, Commands, Trails
      <4> QED
        BY <3>1, <4>1 DEF Begins
    <3> QED
      BY <2>1, <2>2, <2>3, <2>4, <2>5, <3>1, <3>2 DEF AdoptedAt, Sessions
  <2>6. ~(Done(c))'
    BY <2>1 DEF Done
  <2> QED
    BY <2>1, <2>2, <2>5, <2>6, AdoptedFrame
<1>12. ASSUME NEW c \in Cmds, NEW k \in Nat \ {0}, NEW m \in Muts, NEW a \in Cmds, Done(a),
              On(c) \in Tids, AdoptedAt(a), k > Len(cmds[a].muts) \/ Len(cmds[a].muts) = 0,
              trail'[On(c)].log = PutLog(trail[On(c)].log, k, m), On(a) = On(c)
       PROVE  Begins(cmds[a].muts, trail'[On(a)].log)
  <2>1. trail[On(c)].log \in Seq(Muts) /\ Len(cmds[a].muts) \in Nat
    BY <1>12 DEF Typed, Trails, Commands
  <2>2. Begins(cmds[a].muts, trail[On(c)].log)
    BY <1>12 DEF AdoptedAt
  <2> DEFINE log == PutLog(trail[On(c)].log, k, m)
  <2>3. /\ log \in Seq(Muts) /\ Len(log) >= Len(trail[On(c)].log)
        /\ \A i \in 1 .. Len(trail[On(c)].log) : i # k => log[i] = trail[On(c)].log[i]
    BY <1>12, <2>1, PutLogIs
  <2> HIDE DEF log
  <2>4. Len(log) \in Nat /\ Len(trail[On(c)].log) \in Nat
    BY <2>1, <2>3
  <2>5. Begins(cmds[a].muts, log)
    BY <1>12, <2>1, <2>2, <2>3, <2>4 DEF Begins
  <2> QED
    BY <1>12, <2>5 DEF log
<1>13. ASSUME NEW c \in Cmds, Build(c) PROVE Adopted'
  <2> DEFINE h == cmds'[c].host
             new == [of |-> On(c), is |-> "live", tail |-> IF cmds[c].at = 0 THEN 1 ELSE cmds[c].at]
             after == [there |-> TRUE, log |-> PutLog(trail[On(c)].log, 1, Own)]
  <2>1. /\ Steps(c) /\ On(c) \in Tids /\ (On(c))' = On(c) /\ cmds'[c].pc = "run" /\ h \in Hids
        /\ cmds[c].pc = "build" /\ host' = [host EXCEPT ![h] = new]
        /\ trail' = IF cmds[c].at = 0 THEN [trail EXCEPT ![On(c)] = after] ELSE trail
    BY <1>13, BuildIs DEF On
  <2>2. UNCHANGED <<deleted, early>> /\ Opening(c)
    BY <1>13, <2>1 DEF Build, Opening, Placed, PlacedAt, Opens
  <2>3. /\ new.of = On(c) /\ new.tail >= cmds[c].at
        /\ after.log = PutLog(trail[On(c)].log, 1, Own)
    BY DEF Typed, Commands
  <2> HIDE DEF h, new, after
  <2>4. host'[h] = new /\ \A g \in Hids \ {h} : host'[g] = host[g]
    BY <2>1 DEF Typed
  <2>5. \/ trail' = trail
        \/ /\ cmds[c].at = 0 /\ trail'[On(c)].log = PutLog(trail[On(c)].log, 1, Own)
           /\ \A t \in Tids \ {On(c)} : trail'[t] = trail[t]
    BY <2>1, <2>3 DEF Typed
  <2>6. ASSUME NEW a \in Cmds \ {c}, Done(a), AdoptedAt(a)
        PROVE  /\ Begins(cmds[a].muts, trail'[On(a)].log)
               /\ \A g \in Hids : host'[g].of = On(a) => host'[g].tail >= Len(cmds[a].muts)
    <3>1. On(c) = On(a) => cmds[c].at >= Len(cmds[a].muts)
      BY <2>1, <2>2, <2>6 DEF AdoptedAt
    <3>2. Len(cmds[a].muts) \in Nat /\ cmds[c].at \in Nat /\ On(a) \in Tids
      BY <2>6, DoneOn DEF Typed, Commands
    <3>3. new.tail \in Nat
      BY <1>0, <2>1, <2>4
    <3>4. Begins(cmds[a].muts, trail'[On(a)].log)
      <4>1. CASE trail'[On(a)] = trail[On(a)]
        BY <2>6, <4>1 DEF AdoptedAt
      <4>2. CASE trail'[On(a)] # trail[On(a)]
        <5>1. On(a) = On(c) /\ cmds[c].at = 0 /\ trail'[On(c)].log = PutLog(trail[On(c)].log, 1, Own)
          BY <2>5, <3>2, <4>2
        <5>2. Len(cmds[a].muts) = 0
          BY <3>1, <3>2, <5>1
        <5> QED
          BY <1>12, <2>1, <2>6, <5>1, <5>2, Defaults
      <4> QED
        BY <4>1, <4>2
    <3>5. ASSUME NEW g \in Hids, host'[g].of = On(a) PROVE host'[g].tail >= Len(cmds[a].muts)
      <4>1. CASE g = h
        BY <2>3, <2>4, <3>1, <3>2, <3>3, <3>5, <4>1
      <4>2. CASE g # h
        BY <2>4, <2>6, <3>5, <4>2 DEF AdoptedAt
      <4> QED
        BY <4>1, <4>2
    <3> QED
      BY <3>4, <3>5
  <2>7. ~(Done(c))' /\ cmds'[c].pc \notin Sessions
    BY <2>1 DEF Done, Sessions
  <2> QED
    BY <2>1, <2>2, <2>6, <2>7, AdoptedFrame
<1>14. ASSUME NEW c \in Cmds, Run(c) PROVE Adopted'
  <2> DEFINE h == cmds[c].host
             after == [there |-> TRUE, log |-> PutLog(trail[On(c)].log, host[h].tail + 1, Own)]
  <2>1. /\ Steps(c) /\ On(c) \in Tids /\ cmds[c].pc = "run" /\ cmds'[c].pc \in {"failed", "done"}
        /\ trail' = trail \/ trail' = [trail EXCEPT ![On(c)] = after]
    BY <1>14, RunIs
  <2>2. /\ UNCHANGED <<deleted, early>> /\ cmds[c].kind # "import"
        /\ h \in Hids /\ host[h].of = On(c)
    BY <1>14, <2>1 DEF Run, Placed, PlacedAt, Opens, Permitted, PermittedAt
  <2>3. after.log = PutLog(trail[On(c)].log, host[h].tail + 1, Own)
    OBVIOUS
  <2> HIDE DEF h, after
  <2>4. \/ trail' = trail
        \/ /\ trail'[On(c)].log = PutLog(trail[On(c)].log, host[h].tail + 1, Own)
           /\ \A t \in Tids \ {On(c)} : trail'[t] = trail[t]
    BY <2>1, <2>3 DEF Typed
  <2>5. ASSUME NEW a \in Cmds \ {c}, Done(a), AdoptedAt(a)
        PROVE  /\ Begins(cmds[a].muts, trail'[On(a)].log)
               /\ \A g \in Hids : host'[g].of = On(a) => host'[g].tail >= Len(cmds[a].muts)
    <3>1. Len(cmds[a].muts) \in Nat /\ On(a) \in Tids
      <4>1. cmds[a] \in Commands
        BY DEF Typed
      <4>2. On(a) \in Tids
        BY <2>5, DoneOn
      <4>3. cmds[a].muts \in Seq(Muts)
        BY <4>1 DEF Commands
      <4> QED
        BY <4>2, <4>3
    <3>2. On(c) = On(a) => host[h].tail >= Len(cmds[a].muts)
      BY <2>2, <2>5 DEF AdoptedAt
    <3>3. Begins(cmds[a].muts, trail'[On(a)].log)
      <4>1. CASE trail'[On(a)] = trail[On(a)]
        BY <2>5, <4>1 DEF AdoptedAt
      <4>2. CASE trail'[On(a)] # trail[On(a)]
        <5>1. On(a) = On(c)
              /\ trail'[On(c)].log = PutLog(trail[On(c)].log, host[h].tail + 1, Own)
          BY <2>4, <3>1, <4>2
        <5>2. host[h].tail + 1 \in Nat \ {0} /\ host[h].tail + 1 > Len(cmds[a].muts)
          BY <1>0, <2>2, <3>1, <3>2, <5>1
        <5> QED
          BY <1>12, <2>1, <2>5, <5>1, <5>2, Defaults
      <4> QED
        BY <4>1, <4>2
    <3>4. ASSUME NEW g \in Hids, host'[g].of = On(a) PROVE host'[g].tail >= Len(cmds[a].muts)
      <4>1. host[g].of = On(a) /\ host'[g].tail >= host[g].tail
        BY <1>14, <3>4, RunTails
      <4>2. host[g].tail >= Len(cmds[a].muts)
        BY <2>5, <4>1 DEF AdoptedAt
      <4> QED
        BY <1>0, <3>1, <4>1, <4>2
    <3> QED
      BY <3>3, <3>4
  <2>6. ~(Done(c))' /\ cmds'[c].pc \notin Sessions
    BY <2>1, <2>2 DEF Done, Alone, Sessions, Steps
  <2> QED
    BY <2>1, <2>2, <2>5, <2>6, AdoptedFrame
<1>15. ASSUME NEW c \in Cmds, ReplayOne(c) PROVE Adopted'
  <2>1. /\ Steps(c) /\ On(c) \in Tids /\ cmds[c].pc = "replay" /\ cmds'[c].pc = "replay"
        /\ cmds[c].kind = "import" /\ UNCHANGED <<host, deleted, early>>
    BY <1>15, ReplayOneIs DEF ReplayOne
  <2>2. \A t \in Tids \ {On(c)} : trail'[t] = trail[t]
    BY <1>15, <2>1, ReplayOneIs DEF Typed
  <2>3. ASSUME NEW a \in Cmds \ {c}, Done(a), AdoptedAt(a)
        PROVE  /\ Begins(cmds[a].muts, trail'[On(a)].log)
               /\ \A g \in Hids : host'[g].of = On(a) => host'[g].tail >= Len(cmds[a].muts)
    <3>1. On(a) # On(c)
      <4> SUFFICES ASSUME On(a) = On(c) PROVE FALSE
        OBVIOUS
      <4>1. Alone(c)
        BY <2>1, <2>3 DEF Done, Alone
      <4> QED
        BY <2>1, <2>3, <4>1 DEF Solo, Untouched
    <3>2. On(a) \in Tids
      BY <2>3, DoneOn
    <3> QED
      BY <2>1, <2>2, <2>3, <3>1, <3>2 DEF AdoptedAt
  <2>4. ~(Done(c))' /\ ~Opening(c)
    BY <2>1 DEF Done, Opening
  <2> QED
    BY <2>1, <2>3, <2>4, AdoptedFrame
<1>16. ASSUME NEW h \in Hids, HostCrashes(h) PROVE Adopted'
  <2>1. /\ \A g \in Hids : host'[g].of = host[g].of /\ host'[g].tail = host[g].tail
        /\ UNCHANGED <<trail, cmds, deleted, early>>
    BY <1>16 DEF HostCrashes, Typed, Hosts
  <2> QED
    BY <2>1 DEF Adopted, AdoptedAt, Alone, Opening, On
<1>17. CASE Restart
  <2>1. /\ \A c \in Cmds : /\ cmds'[c].pc \in Ended \cup {"new"}
                           /\ cmds'[c].pc = "done" => cmds'[c] = cmds[c]
        /\ \A g \in Hids : host'[g].of = host[g].of /\ host'[g].tail = host[g].tail
        /\ UNCHANGED <<trail, deleted, early>>
    BY <1>17 DEF Restart, Typed, Commands, Hosts, Ended
  <2> QED
    BY <2>1 DEF Adopted, AdoptedAt, Alone, Opening, On, Ended
<1> QED
  BY <1>1, <1>3, <1>4, <1>5, <1>6, <1>7, <1>8, <1>9, <1>10, <1>11, <1>13, <1>14, <1>15,
     <1>16, <1>17 DEF Next

-----------------------------------------------------------------------------
(* The invariant, and the theorems.                                        *)

LEMMA Starts == Init => IInv
<1> SUFFICES ASSUME Init PROVE IInv
  OBVIOUS
<1>1. PICK s \in Scenes :
        /\ file = s.file
        /\ cmds = [c \in Cmds |-> [kind |-> s.kinds[c], pc |-> "new", on |-> 0,
                                   read |-> NoRecord, host |-> 0, muts |-> <<>>, at |-> 0]]
  BY DEF Init
<1>2. PICK touched \in BOOLEAN :
        /\ stored = [t \in Tids |-> [NoRecord EXCEPT !.there = (t = 1),
                                                     !.session = touched /\ t = 1]]
        /\ trail = [t \in Tids |-> IF t = 1 /\ touched THEN [there |-> TRUE, log |-> <<Own>>]
                                   ELSE NoTrail]
  BY DEF Init
<1>3. /\ records = stored /\ hosts = [t \in Tids |-> 0] /\ host = [h \in Hids |-> NoHost]
      /\ permit = "none" /\ fresh = 1 /\ deleted = {} /\ early = {}
  BY DEF Init
<1>4. \A c \in Cmds : cmds[c].pc = "new" /\ cmds[c].on = 0
  BY <1>1
<1>5. Typed
  <2>1. \A t \in Tids : [NoRecord EXCEPT !.there = (t = 1), !.session = touched /\ t = 1] \in Recs
    BY DEF NoRecord, Recs
  <2>2. stored \in [Tids -> Recs]
    BY <1>2, <2>1
  <2>3. <<Own>> \in Seq(Muts) /\ <<>> \in Seq(Muts)
    BY Defaults
  <2>4. trail \in [Tids -> Trails]
    BY <1>2, <2>3, Defaults DEF Trails
  <2>5. cmds \in [Cmds -> Commands]
    <3>1. \A c \in Cmds : s.kinds[c] \in Kinds
      BY ThreadsAssumption
    <3>2. "new" \in Pcs /\ 0 \in 0 .. MaxThreads /\ 0 \in 0 .. MaxHosts /\ 0 \in Nat
      BY ThreadsAssumption DEF Pcs
    <3> QED
      BY <1>1, <2>3, <3>1, <3>2, Defaults DEF Commands
  <2>6. hosts \in [Tids -> 0 .. MaxHosts] /\ host \in [Hids -> Hosts] /\ fresh \in 1 .. MaxThreads
    BY <1>3, Defaults, ThreadsAssumption
  <2> QED
    BY <1>1, <1>3, <2>2, <2>4, <2>5, <2>6 DEF Typed
<1>6. Placed
  BY <1>4 DEF Placed, PlacedAt, Acting, Opens, On
<1>7. Mapped
  BY <1>3 DEF Mapped, NoHost
<1>8. Permitted
  BY <1>4 DEF Permitted, PermittedAt, Building
<1>9. Kept
  BY <1>3, <1>4 DEF Kept, KeptAt, At
<1>10. Numbered
  <2>1. \A t \in Tids : t > 1 => ~stored[t].there
    <3>1. \A t \in Tids : stored[t] = [NoRecord EXCEPT !.there = (t = 1), !.session = touched /\ t = 1]
      BY <1>2
    <3>2. \A t \in Tids : stored[t].there => t = 1
      BY <3>1 DEF NoRecord
    <3>3. ~(1 > 1)
      OBVIOUS
    <3> QED
      BY <3>2, <3>3
  <2>2. \A t \in Tids : ~trail[t].there => trail[t].log = <<>>
    BY <1>2 DEF NoTrail
  <2> QED
    BY <1>3, <1>4, <2>1, <2>2 DEF Numbered, NoHost, On
<1>11. Solo /\ Adopting /\ Adopted
  BY <1>4 DEF Solo, Adopting, Adopted, Alone, On
<1> QED
  BY <1>5, <1>6, <1>7, <1>8, <1>9, <1>10, <1>11 DEF IInv

LEMMA PrefixIs ==
    ASSUME NEW s \in Seq(Muts), NEW t \in Seq(Muts), Begins(s, t)
    PROVE  IsPrefix(s, t)
<1>1. Len(s) \in Nat /\ Len(t) \in Nat /\ Len(s) <= Len(t)
  BY DEF Begins
<1>2. SubSeq(t, 1, Len(s)) \in Seq(Muts) /\ Len(SubSeq(t, 1, Len(s))) = Len(s)
  BY <1>1
<1>3. \A i \in 1 .. Len(s) : SubSeq(t, 1, Len(s))[i] = s[i]
  BY <1>1 DEF Begins
<1>4. s = SubSeq(t, 1, Len(s))
  BY <1>2, <1>3, SeqEqual
<1> QED
  BY <1>1, <1>4 DEF IsPrefix

LEMMA Inductive == IInv /\ [Next]_vars => IInv'
BY TypedKept, PlacedKept, OneHostKept, KeptKept, NumberedKept, SoloKept, AdoptingKept, AdoptedKept
   DEF IInv

\* What is so in every state there is.
THEOREM Invariant == Spec => []IInv
BY Starts, Inductive, PTL DEF Spec

\* A thread is served by one host at a time, however its commands, the crashes of
\* hosts and the kills of the daemon fall (host-cache.ts, hostFor).
THEOREM ServedOnce == Spec => []OneHost
<1>1. IInv => OneHost
  BY DEF IInv, Mapped, OneHost
<1> QED
  BY <1>1, Invariant, PTL

\* A thread a console was told of is listed, and on the disk, until it is deleted
\* (registry.ts, create and put).
THEOREM Survives == Spec => []AcknowledgedSurvives
<1>1. IInv => AcknowledgedSurvives
  BY DEF IInv, Kept, KeptAt, AcknowledgedSurvives
<1> QED
  BY <1>1, Invariant, PTL

\* An import is all or nothing, whatever the other commands do meanwhile, and
\* whatever is done with the thread later (hub-commands.ts, import_pi_session).
THEOREM ImportsWhole == Spec => []AllOrNothing
<1>1. ASSUME IInv PROVE AllOrNothing
  <2> SUFFICES ASSUME NEW c \in Cmds, cmds[c].kind = "import", On(c) \notin early
               PROVE  /\ At(c, "done") /\ On(c) \notin deleted =>
                            IsPrefix(cmds[c].muts, trail[On(c)].log)
                      /\ At(c, "failed") /\ On(c) # 0 =>
                            ~records[On(c)].there /\ ~stored[On(c)].there
    BY DEF AllOrNothing
  <2>1. ASSUME At(c, "done"), On(c) \notin deleted
        PROVE  IsPrefix(cmds[c].muts, trail[On(c)].log)
    <3>1. On(c) \in Tids /\ On(c) # 0
      BY <1>1, <2>1 DEF IInv, Kept, KeptAt, Tids
    <3>2. Begins(cmds[c].muts, trail[On(c)].log)
      BY <1>1, <2>1, <3>1 DEF IInv, Adopted, AdoptedAt, Alone
    <3>3. cmds[c].muts \in Seq(Muts) /\ trail[On(c)].log \in Seq(Muts)
      BY <1>1, <3>1 DEF IInv, Typed, Commands, Trails
    <3> QED
      BY <3>2, <3>3, PrefixIs
  <2>2. ASSUME At(c, "failed"), On(c) # 0
        PROVE  ~records[On(c)].there /\ ~stored[On(c)].there
    BY <1>1, <2>2 DEF IInv, Adopting, AdoptingAt, Alone, At
  <2> QED
    BY <2>1, <2>2
<1> QED
  BY <1>1, Invariant, PTL
=============================================================================
