------------------------------- MODULE Threads -------------------------------
(***************************************************************************)
(* The threads of the local daemon: the commands of its consoles           *)
(* (worker/hub-commands.ts, session-commands.ts) over the registry of      *)
(* records (registry.ts), the cache of session hosts (host-cache.ts), and  *)
(* the adoption of a pi session file (do-session-repo.ts, PiSessions).     *)
(*                                                                         *)
(* Commands run at once, each up to its next await; a step below ends at   *)
(* one.  The daemon may be killed between any two.  A thread's trail is    *)
(* the mutations under its keys; its host is the object that serves it.    *)
(***************************************************************************)
EXTENDS PiSessions, FiniteSets

CONSTANTS
    Cmds,         \* the commands, each issued once
    Scenes,       \* what they are, and the pi file there is
    MaxThreads,   \* bound: threads there ever are
    MaxHosts,     \* bound: hosts built
    MaxRestarts,  \* bound: times the daemon is killed
    MaxFaults     \* bound: crashes of a host, and failed writes of an import

Kinds == {"create", "rename", "archive", "unarchive", "delete", "prompt", "read", "import",
          "none"}

\* What is read of a file is a sequence of mutations.
ASSUME ThreadsAssumption ==
    /\ \A s \in Scenes : s.kinds \in [Cmds -> Kinds]
    /\ \A s \in Scenes : LET muts == ReadPiSession(s.file).muts IN muts \in Seq(ToSet(muts))
    /\ "none" \notin Cmds
    /\ {MaxThreads, MaxHosts} \subseteq Nat \ {0}
    /\ {MaxRestarts, MaxFaults} \subseteq Nat

Tids == 1 .. MaxThreads
Hids == 1 .. MaxHosts

\* A record: adopted from the file; its session has been started; the two
\* fields the patches write.
NoRecord == [there |-> FALSE, source |-> FALSE, session |-> FALSE,
             name |-> "first", archived |-> FALSE]
NoTrail == [there |-> FALSE, log |-> <<>>]
NoHost == [of |-> 0, is |-> "none", tail |-> 0]
\* What a host itself appends.
Own == Mutation("name", Root, Root)

VARIABLES
    file,      \* the pi session file
    records,   \* the registry's memory
    stored,    \* its keys on the disk
    trail,     \* each thread's trail, on the disk
    hosts,     \* the cache's map: thread to host, or 0
    host,      \* the hosts
    permit,    \* the command that holds hostSemaphore, or "none"
    cmds,      \* the commands
    fresh,     \* history: threads created so far
    deleted,   \* history: threads a deletion or a rollback has begun of
    early,     \* history: threads commanded while they were being imported
    restarts, faults

disk == <<stored, trail>>
cache == <<hosts, host, permit>>
history == <<fresh, deleted, early>>
bounds == <<restarts, faults>>
vars == <<file, records, disk, cache, cmds, history, bounds>>

Init ==
    /\ \E s \in Scenes :
        /\ file = s.file
        /\ cmds = [c \in Cmds |-> [kind |-> s.kinds[c], pc |-> "new", on |-> 0,
                                   read |-> NoRecord, host |-> 0, muts |-> <<>>, at |-> 0]]
    \* one thread there is, touched before or not
    /\ \E touched \in BOOLEAN :
        /\ stored = [t \in Tids |-> [NoRecord EXCEPT !.there = (t = 1),
                                                     !.session = touched /\ t = 1]]
        /\ trail = [t \in Tids |-> IF t = 1 /\ touched THEN [there |-> TRUE, log |-> <<Own>>]
                                   ELSE NoTrail]
    /\ records = stored
    /\ hosts = [t \in Tids |-> 0]
    /\ host = [h \in Hids |-> NoHost]
    /\ permit = "none"
    /\ fresh = 1 /\ deleted = {} /\ early = {}
    /\ restarts = 0 /\ faults = 0

Is(c, kind, pc) == cmds[c].kind = kind /\ cmds[c].pc = pc
At(c, pc) == cmds[c].pc = pc
On(c) == cmds[c].on
Go(c, pc) == cmds' = [cmds EXCEPT ![c].pc = pc]
GoWith(c, pc, rec) == cmds' = [cmds EXCEPT ![c].pc = pc, ![c].read = rec]

Fault == faults < MaxFaults /\ faults' = faults + 1 /\ UNCHANGED restarts

Ended == {"done", "failed", "refused", "invalid", "lost"}
Importing(t) == \E d \in Cmds : cmds[d].kind = "import" /\ On(d) = t
                                /\ cmds[d].pc \notin Ended

----------------------------------------------------------------------------
(* Records: create; and patch, which reads the memory, writes the key, and *)
(* then publishes.                                                         *)

Create(c, source) ==
    /\ fresh < MaxThreads
    /\ fresh' = fresh + 1
    /\ cmds' = [cmds EXCEPT ![c].pc = "put", ![c].on = fresh + 1,
                            ![c].read = [NoRecord EXCEPT !.there = TRUE, !.source = source]]
    /\ UNCHANGED <<deleted, early>>

CreateThread(c) ==
    /\ Is(c, "create", "new")
    /\ Create(c, FALSE)
    /\ UNCHANGED <<file, records, disk, cache, bounds>>

FirstStep == [rename |-> "patch", archive |-> "patch", unarchive |-> "patch",
              delete |-> "delete", prompt |-> "host", read |-> "look"]

\* resolveThreadId: a command is for a thread of the registry's memory.
Resolve(c) ==
    /\ cmds[c].kind \in DOMAIN FirstStep /\ At(c, "new")
    /\ \E t \in Tids :
        /\ records[t].there
        /\ early' = IF Importing(t) THEN early \cup {t} ELSE early
        /\ cmds' = [cmds EXCEPT ![c].on = t,
                                ![c].pc = FirstStep[cmds[c].kind]]
    /\ UNCHANGED <<file, records, disk, cache, fresh, deleted, bounds>>

Patched(c, rec) ==
    CASE cmds[c].kind = "rename" -> [rec EXCEPT !.name = "user"]
      [] cmds[c].kind = "archive" -> [rec EXCEPT !.archived = TRUE]
      [] cmds[c].kind = "unarchive" -> [rec EXCEPT !.archived = FALSE]
      [] OTHER -> [rec EXCEPT !.session = TRUE]

\* Where a command goes once its record is published, or when there is none.
Opening(c) == cmds[c].kind \in {"prompt", "read"}
AfterPatch(c) ==
    IF Opening(c) THEN "build"
    ELSE IF cmds[c].kind = "import" /\ ~cmds[c].read.session THEN "meta"
    ELSE "done"

Patch(c) ==
    /\ At(c, "patch")
    /\ IF records[On(c)].there THEN GoWith(c, "put", Patched(c, records[On(c)]))
       ELSE Go(c, IF Opening(c) THEN "build" ELSE "failed")
    /\ UNCHANGED <<file, records, disk, cache, history, bounds>>

\* Mutant: the memory is written first, and the key after the answer.
Put_Late(c) ==
    /\ At(c, "put")
    /\ records' = [records EXCEPT ![On(c)] = cmds[c].read]
    /\ Go(c, "publish")
    /\ UNCHANGED <<file, disk, cache, history, bounds>>
Put(c) ==
    /\ At(c, "put")
    /\ stored' = [stored EXCEPT ![On(c)] = cmds[c].read]
    /\ Go(c, "publish")
    /\ UNCHANGED <<file, records, trail, cache, history, bounds>>

Publish(c) ==
    /\ At(c, "publish")
    /\ records' = [records EXCEPT ![On(c)] = cmds[c].read]
    /\ Go(c, AfterPatch(c))
    /\ UNCHANGED <<file, disk, cache, history, bounds>>

----------------------------------------------------------------------------
(* Deletion: dispose the host the map has, drop its entry, then the memory, *)
(* the key and the directory.                                              *)

Delete(c) ==
    /\ At(c, "delete")
    /\ IF ~records[On(c)].there THEN Go(c, "failed")
       ELSE cmds' = [cmds EXCEPT ![c].host = hosts[On(c)],
                                 ![c].pc = IF hosts[On(c)] = 0 THEN "forget" ELSE "dispose"]
    /\ deleted' = IF records[On(c)].there THEN deleted \cup {On(c)} ELSE deleted
    /\ UNCHANGED <<file, records, disk, cache, fresh, early, bounds>>

DisposeHost(c) ==
    /\ At(c, "dispose")
    /\ host' = [host EXCEPT ![cmds[c].host].is = "disposed"]
    /\ hosts' = [hosts EXCEPT ![On(c)] = 0]
    /\ Go(c, "forget")
    /\ UNCHANGED <<file, records, disk, permit, history, bounds>>

\* registry.delete, of a deletion or of an import that failed.
Gone(c) == IF cmds[c].kind = "import" THEN "failed" ELSE "done"
Forget(c) ==
    /\ At(c, "forget")
    /\ records' = [records EXCEPT ![On(c)] = NoRecord]
    /\ Go(c, IF records[On(c)].there THEN "erase" ELSE Gone(c))
    /\ deleted' = deleted \cup {On(c)}
    /\ UNCHANGED <<file, disk, cache, fresh, early, bounds>>

Erase(c) ==
    /\ At(c, "erase")
    /\ stored' = [stored EXCEPT ![On(c)] = NoRecord]
    /\ Go(c, "remove")
    /\ UNCHANGED <<file, records, trail, cache, history, bounds>>

RemoveDir(c) ==
    /\ At(c, "remove")
    /\ trail' = [trail EXCEPT ![On(c)] = NoTrail]
    /\ Go(c, Gone(c))
    /\ UNCHANGED <<file, records, stored, cache, history, bounds>>

----------------------------------------------------------------------------
(* The cache of hosts.                                                     *)

Cached(t) == hosts[t] # 0
Crashed(t) == Cached(t) /\ host[hosts[t]].is = "crashed"

\* readOnlyHost: a host there is, or one for a session that has started.
ReadOnlyHost(c) ==
    /\ At(c, "look")
    /\ cmds' = [cmds EXCEPT ![c].host = hosts[On(c)],
                            ![c].pc = IF Cached(On(c)) THEN "run"
                                      ELSE IF ~records[On(c)].there THEN "done"
                                      ELSE IF records[On(c)].session THEN "host"
                                      ELSE "exists"]
    /\ UNCHANGED <<file, records, disk, cache, history, bounds>>

SessionStarted(c) ==
    /\ At(c, "exists")
    /\ Go(c, IF trail[On(c)].there THEN "host" ELSE "done")
    /\ UNCHANGED <<file, records, disk, cache, history, bounds>>

\* hostFor under its permit: the host there is; a crashed one is disposed
\* first; a thread without a record has none.  Mutant: no semaphore.
HostFor_NoPermit(c) ==
    /\ At(c, "host")
    /\ cmds' = [cmds EXCEPT ![c].host = hosts[On(c)],
                            ![c].pc = IF Crashed(On(c)) THEN "rebuild"
                                      ELSE IF Cached(On(c)) THEN "run"
                                      ELSE IF ~records[On(c)].there THEN "failed"
                                      ELSE "open",
                            ![c].read = records[On(c)]]
    /\ UNCHANGED <<file, records, disk, cache, history, bounds>>
HostFor(c) ==
    /\ At(c, "host") /\ permit = "none"
    /\ LET next == IF Crashed(On(c)) THEN "rebuild"
                   ELSE IF Cached(On(c)) THEN "run"
                   ELSE IF ~records[On(c)].there THEN "failed"
                   ELSE "open"
       IN /\ cmds' = [cmds EXCEPT ![c].host = hosts[On(c)], ![c].pc = next,
                                  ![c].read = records[On(c)]]
          /\ permit' = IF next \in {"rebuild", "open"} THEN c ELSE "none"
    /\ UNCHANGED <<file, records, disk, hosts, host, history, bounds>>

Release(c) == permit' = IF permit = c THEN "none" ELSE permit

Rebuild(c) ==
    /\ At(c, "rebuild")
    /\ host' = [host EXCEPT ![cmds[c].host].is = "disposed"]
    /\ hosts' = [hosts EXCEPT ![On(c)] = 0]
    /\ IF records[On(c)].there
       THEN GoWith(c, "open", records[On(c)]) /\ UNCHANGED permit
       ELSE Go(c, "failed") /\ Release(c)
    /\ UNCHANGED <<file, records, disk, history, bounds>>

\* SessionHost.create: the session is created, or loaded, which fails on a
\* log that does not replay; then the record is told, once.
OpenSession(c) ==
    /\ At(c, "open")
    /\ trail' = [trail EXCEPT ![On(c)].there = TRUE]
    /\ IF Load(trail[On(c)].log).failed THEN Go(c, "failed") /\ Release(c)
       ELSE /\ cmds' = [cmds EXCEPT ![c].at = Len(trail[On(c)].log),
                                    ![c].pc = IF cmds[c].read.session THEN "build" ELSE "patch"]
            /\ UNCHANGED permit
    /\ UNCHANGED <<file, records, stored, hosts, host, history, bounds>>

\* The key of a sequence number is overwritten, whoever wrote it.
PutLog(log, k, m) == IF k <= Len(log) THEN [log EXCEPT ![k] = m] ELSE Append(log, m)
PutMutation(t, k, m) ==
    trail' = [trail EXCEPT ![t] = [there |-> TRUE, log |-> PutLog(@.log, k, m)]]

\* A new session gets its first entries; the host is in the map from here.
Build(c) ==
    /\ At(c, "build")
    /\ \E h \in Hids :
        /\ host[h].is = "none" /\ \A g \in 1 .. h - 1 : host[g].is # "none"
        /\ hosts' = [hosts EXCEPT ![On(c)] = h]
        /\ IF cmds[c].at = 0
           THEN /\ PutMutation(On(c), 1, Own)
                /\ host' = [host EXCEPT ![h] = [of |-> On(c), is |-> "live", tail |-> 1]]
           ELSE /\ host' = [host EXCEPT ![h] = [of |-> On(c), is |-> "live", tail |-> cmds[c].at]]
                /\ UNCHANGED trail
        /\ cmds' = [cmds EXCEPT ![c].pc = "run", ![c].host = h]
    /\ Release(c)
    /\ UNCHANGED <<file, records, stored, history, bounds>>

\* The command itself: a host that has been disposed answers none.
Run(c) ==
    /\ At(c, "run")
    /\ LET h == cmds[c].host IN
       IF host[h].is # "live" THEN Go(c, "failed") /\ UNCHANGED <<trail, host>>
       ELSE /\ Go(c, "done")
            /\ IF cmds[c].kind = "prompt"
               THEN /\ PutMutation(On(c), host[h].tail + 1, Own)
                    /\ host' = [host EXCEPT ![h].tail = @ + 1]
               ELSE UNCHANGED <<trail, host>>
    /\ UNCHANGED <<file, records, stored, hosts, permit, history, bounds>>

HostCrashes(h) ==
    /\ host[h].is = "live" /\ Fault
    /\ host' = [host EXCEPT ![h].is = "crashed"]
    /\ UNCHANGED <<file, records, disk, hosts, permit, cmds, history>>

----------------------------------------------------------------------------
(* import_pi_session.                                                      *)

\* No thread of this file is known; the file is read next.
ImportPiSession(c) ==
    /\ Is(c, "import", "new")
    /\ Go(c, IF \E t \in Tids : records[t].there /\ records[t].source THEN "refused" ELSE "parse")
    /\ UNCHANGED <<file, records, disk, cache, history, bounds>>

Parse(c) ==
    /\ At(c, "parse")
    /\ LET data == ReadPiSession(file) IN
       IF ~data.ok THEN Go(c, "invalid") /\ UNCHANGED history
       ELSE /\ fresh < MaxThreads
            /\ fresh' = fresh + 1
            /\ cmds' = [cmds EXCEPT ![c].pc = "put", ![c].on = fresh + 1,
                        ![c].read = [NoRecord EXCEPT !.there = TRUE, !.source = TRUE],
                        ![c].muts = data.muts]
            /\ UNCHANGED <<deleted, early>>
    /\ UNCHANGED <<file, records, disk, cache, bounds>>

\* A thread that has a session is not imported into.
ImportMeta(c) ==
    /\ At(c, "meta")
    /\ IF trail[On(c)].there THEN Go(c, "forget") /\ UNCHANGED trail
       ELSE /\ trail' = [trail EXCEPT ![On(c)].there = TRUE]
            /\ cmds' = [cmds EXCEPT ![c].pc = "replay", ![c].at = 0]
    /\ UNCHANGED <<file, records, stored, cache, history, bounds>>

\* The mutations, one key at a time; then all of them are loaded back.
ReplayOne(c) ==
    /\ At(c, "replay") /\ cmds[c].at < Len(cmds[c].muts)
    /\ PutMutation(On(c), cmds[c].at + 1, cmds[c].muts[cmds[c].at + 1])
    /\ cmds' = [cmds EXCEPT ![c].at = @ + 1]
    /\ UNCHANGED <<file, records, stored, cache, history, bounds>>

WriteFails(c) ==
    /\ At(c, "replay") /\ Fault
    /\ Go(c, "forget")
    /\ UNCHANGED <<file, records, disk, cache, history>>

\* Mutant: a failure leaves the record.
LoadBack_NoRollback(c) ==
    /\ At(c, "replay") /\ cmds[c].at = Len(cmds[c].muts)
    /\ IF Load(trail[On(c)].log).failed THEN Go(c, "failed") ELSE Go(c, "patch")
    /\ UNCHANGED <<file, records, disk, cache, history, bounds>>
LoadBack(c) ==
    /\ At(c, "replay") /\ cmds[c].at = Len(cmds[c].muts)
    /\ IF Load(trail[On(c)].log).failed THEN Go(c, "forget") ELSE Go(c, "patch")
    /\ UNCHANGED <<file, records, disk, cache, history, bounds>>

----------------------------------------------------------------------------
\* The daemon is killed and started again: it has what is on the disk.
Restart ==
    /\ restarts < MaxRestarts
    /\ restarts' = restarts + 1
    /\ records' = stored
    /\ hosts' = [t \in Tids |-> 0]
    /\ host' = [h \in Hids |-> IF host[h].is \in {"live", "crashed"}
                               THEN [host[h] EXCEPT !.is = "disposed"] ELSE host[h]]
    /\ permit' = "none"
    /\ cmds' = [c \in Cmds |-> IF cmds[c].pc \in Ended \cup {"new"}
                               THEN cmds[c] ELSE [cmds[c] EXCEPT !.pc = "lost"]]
    /\ UNCHANGED <<file, disk, history, faults>>

Next ==
    \/ \E c \in Cmds :
        \/ CreateThread(c) \/ Resolve(c) \/ Patch(c) \/ Put(c) \/ Publish(c)
        \/ Delete(c) \/ DisposeHost(c) \/ Forget(c) \/ Erase(c) \/ RemoveDir(c)
        \/ ReadOnlyHost(c) \/ SessionStarted(c) \/ HostFor(c) \/ Rebuild(c)
        \/ OpenSession(c) \/ Build(c) \/ Run(c)
        \/ ImportPiSession(c) \/ Parse(c) \/ ImportMeta(c) \/ ReplayOne(c)
        \/ WriteFails(c) \/ LoadBack(c)
    \/ \E h \in Hids : HostCrashes(h)
    \/ Restart

Spec == Init /\ [][Next]_vars

----------------------------------------------------------------------------
(* Properties.                                                             *)

\* A thread is served by one host at a time: two would each number its
\* mutations and overwrite the other's keys (host-cache.ts).  A deleted
\* thread is left out: a deletion drops the map's entry, and a host that
\* was built meanwhile lives on.
OneHost ==
    \A g, h \in Hids :
        host[g].is = "live" /\ host[h].is = "live" /\ host[g].of = host[h].of => 
            g = h \/ host[g].of \in deleted

\* A thread a console was told of is listed, and is on the disk for the next
\* start of the daemon, until it is deleted (registry.ts, create).
AcknowledgedSurvives ==
    \A c \in Cmds :
        cmds[c].kind \in {"create", "import"} /\ At(c, "done") /\ On(c) \notin deleted =>
            records[On(c)].there /\ stored[On(c)].there

\* An import is all or nothing: answered with the thread, its trail begins
\* with every mutation of the file; answered with an error, no record of it
\* is left, in memory or on the disk (hub-commands.ts, import_pi_session).
\* Left out: a thread that was commanded while it was being imported.
AllOrNothing ==
    \A c \in Cmds : cmds[c].kind = "import" /\ On(c) \notin early =>
        /\ At(c, "done") /\ On(c) \notin deleted => IsPrefix(cmds[c].muts, trail[On(c)].log)
        /\ At(c, "failed") /\ On(c) # 0 => ~records[On(c)].there /\ ~stored[On(c)].there

\* The lines of a file by what they say, whatever their order.
LineOf(i) == CHOOSE l \in ToSet(file.lines) : l.id = i
EntryLines == SelectSeq(file.lines, LAMBDA l : l.type \in EntryTypes)
Origin ==
    LET up[i \in {l.id : l \in ToSet(file.lines)}] ==
            LET p == LineOf(i).parent IN
            IF p = Root \/ LineOf(p).type \in EntryTypes THEN p ELSE up[p]
    IN up
UniqueIds == \A j, k \in DOMAIN file.lines : file.lines[j].id = file.lines[k].id => j = k

\* Every line has its fields, and hangs on an earlier one, or an entry on nothing.
Chained ==
    /\ UniqueIds
    /\ \A l \in ToSet(file.lines) : Bad \notin {l.id, l.target}
    /\ \A k \in DOMAIN file.lines :
        LET p == file.lines[k].parent IN
        \/ p \in {file.lines[j].id : j \in 1 .. k - 1}
        \/ p = Root /\ file.lines[k].type \in EntryTypes

\* A pi file that is chained is not refused; and an adopted thread has its
\* conversation: every entry, each under the nearest ancestor that is one,
\* and the next prompt continues the last (pi-sessions/v3.ts).
AdoptedTree ==
    \A c \in Cmds : cmds[c].kind = "import" /\ file.format = "v3" =>
        /\ At(c, "invalid") => ~Chained
        /\ At(c, "done") /\ UniqueIds =>
            LET entries == SelectSeq(cmds[c].muts, LAMBDA m : m.kind \in EntryTypes) IN
            /\ [k \in DOMAIN entries |-> entries[k].id]
                 = [k \in DOMAIN EntryLines |-> EntryLines[k].id]
            /\ \A k \in DOMAIN entries : entries[k].ref = Origin[entries[k].id]
            /\ entries # <<>> => Load(cmds[c].muts).leaf = Last(entries).id

=============================================================================
