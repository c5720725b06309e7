-------------------------------- MODULE Live --------------------------------
(***************************************************************************)
(* A console's view of the thread it has open: the trail it loaded, the    *)
(* events that stream in, and the reads a route change or a reconnect      *)
(* starts (frontend thread/live.ts, thread/update.ts, root/update.ts),     *)
(* against a server that appends entries and streams them.                 *)
(*                                                                         *)
(* Events arrive in order.  An answer may overtake them or be overtaken:   *)
(* it reaches the view by a path of its own.  Entries are messages, named  *)
(* by thread and sequence; tools and notices of the live region are left   *)
(* out.                                                                    *)
(***************************************************************************)
EXTENDS Naturals, SequencesExt

CONSTANTS
    Threads,
    NoThread,    \* the welcome page
    Running,     \* bound: the threads whose run streams
    MaxSeq,      \* bound: entries of a thread
    MaxCloses,   \* bound: lost connections
    MaxRoutes    \* bound: route changes

ASSUME LiveAssumption ==
    /\ NoThread \notin Threads /\ Running \subseteq Threads
    /\ MaxSeq \in Nat /\ MaxCloses \in Nat /\ MaxRoutes \in Nat

VARIABLES
    \* the server: each thread's log, and where its run is with the next message
    length, stage,
    \* on the wire: events in order, reads and their answers
    incoming, reads, answers,
    \* the console
    online, route,
    trail,     \* [tag, entries, tail]
    pending,   \* entries that arrived while no trail was loaded
    message,   \* the streaming copy of a message, or NoEntry
    \* bounds and history
    closes, routes,
    reloaded,  \* a read landed on a trail that was already loaded
    foreign,   \* a read of an earlier page landed
    cut        \* the connection was lost since the thread was opened

server == <<length, stage>>
wire == <<incoming, reads, answers>>
pane == <<trail, pending, message>>
bounds == <<closes, routes>>
history == <<reloaded, foreign, cut>>
liveVars == <<server, wire, online, route, pane, bounds, history>>

Stages == {"settled", "ready", "streaming", "appended", "announced"}
Entries == [thread : Threads, seq : 1 .. MaxSeq]
NoEntry == [thread |-> NoThread, seq |-> 0]
Events == [type : {"message_start", "entry_appended", "message_end", "settled"},
           entry : [thread : Threads, seq : 0 .. MaxSeq]]
Reads == [thread : Threads, since : 0 .. MaxSeq, page : 0 .. MaxRoutes]
Answers == [thread : Threads, page : 0 .. MaxRoutes, entries : Seq(Entries), tail : 0 .. MaxSeq]
Trails == [tag : {"Idle", "Success", "Failure"}, entries : Seq(Entries), tail : 0 .. MaxSeq]

Unloaded(tag) == [tag |-> tag, entries |-> <<>>, tail |-> 0]

LiveInit ==
    /\ length = [t \in Threads |-> 0] /\ stage = [t \in Threads |-> "settled"]
    /\ incoming = <<>> /\ reads = <<>> /\ answers = <<>>
    /\ online = FALSE /\ route = NoThread
    /\ trail = Unloaded("Idle") /\ pending = <<>> /\ message = NoEntry
    /\ closes = 0 /\ routes = 0
    /\ reloaded = FALSE /\ foreign = FALSE /\ cut = FALSE

----------------------------------------------------------------------------
(* The server.                                                             *)

\* A console that is not connected misses the event.
Emit(type, t, seq) ==
    incoming' = IF online
                THEN Append(incoming, [type |-> type, entry |-> [thread |-> t, seq |-> seq]])
                ELSE incoming

Advance(t, from, to) ==
    /\ stage[t] = from /\ stage' = [stage EXCEPT ![t] = to]
    /\ UNCHANGED <<reads, answers, online, route, pane, bounds, history>>

\* A run's messages, one after the other.
Stream(t) ==
    /\ t \in Running /\ length[t] < MaxSeq
    /\ Advance(t, "settled", "streaming") \/ Advance(t, "ready", "streaming")
    /\ Emit("message_start", t, length[t] + 1)
    /\ UNCHANGED length

\* message_end: the append is awaited, then announced, then the event goes out.
AppendMessage(t) ==
    /\ Advance(t, "streaming", "appended")
    /\ length' = [length EXCEPT ![t] = @ + 1]
    /\ UNCHANGED incoming

Announce(t) ==
    /\ Advance(t, "appended", "announced")
    /\ Emit("entry_appended", t, length[t])
    /\ UNCHANGED length

\* Mutant: the last message's events overtake the end of the run.
EndMessage_AfterSettled(t) ==
    /\ Advance(t, "announced", "settled")
    /\ incoming' = IF online
                 THEN incoming \o <<[type |-> "settled", entry |-> [thread |-> t, seq |-> 0]],
                                  [type |-> "message_end",
                                   entry |-> [thread |-> t, seq |-> length[t]]]>>
                 ELSE incoming
    /\ UNCHANGED length

EndMessage(t) ==
    /\ Advance(t, "announced", "ready")
    /\ Emit("message_end", t, length[t])
    /\ UNCHANGED length

RunSettles(t) ==
    /\ Advance(t, "ready", "settled")
    /\ Emit("settled", t, 0)
    /\ UNCHANGED length

\* getEntries: the entries after a sequence, and the log's tail.
Answer(r) ==
    [thread |-> r.thread, page |-> r.page,
     entries |-> [i \in 1 .. length[r.thread] - r.since |->
                     [thread |-> r.thread, seq |-> r.since + i]],
     tail |-> length[r.thread]]

Serve ==
    /\ \E i \in 1 .. Len(reads) :
          /\ reads' = RemoveAt(reads, i)
          /\ answers' = Append(answers, Answer(reads[i]))
    /\ UNCHANGED <<server, incoming, online, route, pane, bounds, history>>

----------------------------------------------------------------------------
(* The folds (live.ts).                                                    *)

\* Mutant: what was buffered is put behind what was read.
Merged_Appended(a, b) == a \o b

\* Both sides without repetition, in the order of their sequences.
Merged(a, b) ==
    CHOOSE s \in SetToSeqs(ToSet(a) \cup ToSet(b)) :
        \A i, j \in 1 .. Len(s) : i < j => s[i].seq <= s[j].seq

Larger(a, b) == IF a > b THEN a ELSE b

\* Mutant: what arrives before the trail is loaded is dropped.
FoldEntryAppended_Drops(e) ==
    IF trail.tag # "Success" \/ e.seq <= trail.tail
    THEN UNCHANGED pane
    ELSE /\ trail' = [trail EXCEPT !.entries = Append(@, e), !.tail = e.seq]
         /\ message' = NoEntry
         /\ UNCHANGED pending

FoldEntryAppended(e) ==
    IF trail.tag # "Success"
    THEN /\ pending' = Append(pending, e)
         /\ UNCHANGED <<trail, message>>
    ELSE IF e.seq <= trail.tail
    THEN UNCHANGED pane
    ELSE /\ trail' = [trail EXCEPT !.entries = Append(@, e), !.tail = e.seq]
         /\ message' = NoEntry
         /\ UNCHANGED pending

FoldLive(e) ==
    \/ e.type = "entry_appended" /\ FoldEntryAppended(e.entry)
    \/ /\ e.type \in {"message_start", "message_end"}
       /\ message' = e.entry
       /\ UNCHANGED <<trail, pending>>
    \/ /\ e.type = "settled"
       /\ message' = NoEntry
       /\ UNCHANGED <<trail, pending>>

\* What was read and what was buffered become the trail, whatever it was.
FoldTrailLoaded(a) ==
    LET merged == Merged(a.entries, pending) IN
    /\ trail' = [tag |-> "Success", entries |-> merged,
                 tail |-> IF merged = <<>> THEN a.tail ELSE Larger(a.tail, Last(merged).seq)]
    /\ pending' = <<>>
    /\ message' = IF merged = <<>> THEN message ELSE NoEntry

----------------------------------------------------------------------------
(* The console.                                                            *)

\* The root routes an event to the pane when the route pins its thread.
ReceiveEvent ==
    /\ incoming # <<>> /\ incoming' = Tail(incoming)
    /\ LET e == Head(incoming) IN
       IF e.entry.thread = route THEN FoldLive(e) ELSE UNCHANGED pane
    /\ UNCHANGED <<server, reads, answers, online, route, bounds, history>>

\* TrailLoaded carries no thread and no page: it is folded into the open pane.
TrailLoaded ==
    /\ \E i \in 1 .. Len(answers) :
          /\ answers' = RemoveAt(answers, i)
          /\ FoldTrailLoaded(answers[i])
          /\ foreign' = (foreign \/ answers[i].page # routes)
    /\ reloaded' = (reloaded \/ trail.tag = "Success")
    /\ UNCHANGED <<server, incoming, reads, online, route, bounds, cut>>

\* A read that is refused or times out.
TrailFailed ==
    /\ \E i \in 1 .. Len(reads) : reads' = RemoveAt(reads, i)
    /\ trail' = Unloaded("Failure")
    /\ UNCHANGED <<server, incoming, answers, online, route, pending, message, bounds, history>>

\* The page, counted by route changes, is not part of the code's read.
Read(t, since) == Append(reads, [thread |-> t, since |-> since, page |-> routes'])

\* informRouteChanged: the pane is reset; the read waits for a connection.
ChangedRoute(t) ==
    /\ routes < MaxRoutes /\ routes' = routes + 1
    /\ t # route /\ route' = t
    /\ trail' = Unloaded("Idle") /\ pending' = <<>> /\ message' = NoEntry
    /\ reads' = IF t # NoThread /\ online THEN Read(t, 0) ELSE reads
    /\ reloaded' = FALSE /\ foreign' = FALSE /\ cut' = FALSE
    /\ UNCHANGED <<server, incoming, answers, online, closes>>

\* Mutant: only a reconnect reads again; a thread opened offline is forgotten.
Connected_ReloadsLoaded ==
    /\ ~online /\ online' = TRUE /\ UNCHANGED bounds
    /\ reads' = IF route # NoThread /\ trail.tag = "Success" THEN Read(route, trail.tail) ELSE reads
    /\ UNCHANGED <<server, incoming, answers, route, pane, history>>

\* The Online transition: the open thread is read, from its tail when a trail
\* is loaded.
Connected ==
    /\ ~online /\ online' = TRUE /\ UNCHANGED bounds
    /\ reads' = IF route = NoThread THEN reads
                ELSE Read(route, IF trail.tag = "Success" THEN trail.tail ELSE 0)
    /\ UNCHANGED <<server, incoming, answers, route, pane, history>>

\* Events under way are lost, and the reads in flight fail.
ConnectionClosed ==
    /\ closes < MaxCloses /\ closes' = closes + 1
    /\ online /\ online' = FALSE
    /\ incoming' = <<>> /\ reads' = <<>> /\ answers' = <<>>
    /\ trail' = IF reads = <<>> /\ answers = <<>> THEN trail ELSE Unloaded("Failure")
    /\ cut' = TRUE
    /\ UNCHANGED <<server, route, pending, message, routes, reloaded, foreign>>

----------------------------------------------------------------------------
LiveNext ==
    \/ \E t \in Threads : Stream(t) \/ AppendMessage(t) \/ Announce(t) \/ EndMessage(t) \/ RunSettles(t)
    \/ Serve \/ ReceiveEvent \/ TrailLoaded \/ TrailFailed
    \/ \E t \in Threads \cup {NoThread} : ChangedRoute(t)
    \/ Connected \/ ConnectionClosed

LiveSpec == LiveInit /\ [][LiveNext]_liveVars

\* The retry loop redials until it is answered, the server answers reads, and
\* the view takes what arrives.
LiveFairSpec == LiveSpec /\ WF_liveVars(Connected) /\ WF_liveVars(Serve) /\ WF_liveVars(TrailLoaded)

----------------------------------------------------------------------------
(* Properties.                                                             *)

LiveTypeOK ==
    /\ length \in [Threads -> 0 .. MaxSeq] /\ stage \in [Threads -> Stages]
    /\ incoming \in Seq(Events) /\ reads \in Seq(Reads) /\ answers \in Seq(Answers)
    /\ online \in BOOLEAN /\ route \in Threads \cup {NoThread}
    /\ trail \in Trails /\ pending \in Seq(Entries)
    /\ message \in Entries \cup {NoEntry}
    /\ closes \in 0 .. MaxCloses /\ routes \in 0 .. MaxRoutes
    /\ reloaded \in BOOLEAN /\ foreign \in BOOLEAN /\ cut \in BOOLEAN

Quiet == online /\ incoming = <<>> /\ reads = <<>> /\ answers = <<>>

\* "The losslessness guarantee" (live.ts): when nothing is under way, a trail
\* that was loaded once for its thread holds the whole log of the thread.
Complete ==
    Quiet /\ trail.tag = "Success" /\ ~reloaded /\ ~foreign /\ stage[route] # "appended" =>
        trail.entries = [i \in 1 .. length[route] |-> [thread |-> route, seq |-> i]]

\* The trail is shown in the order of the log, each entry once, whatever events
\* were replayed, buffered or overtaken.
Ordered ==
    ~foreign => \A i, j \in 1 .. Len(trail.entries) :
        i < j => trail.entries[i].seq < trail.entries[j].seq

\* When the run has settled no streaming copy is left beside the trail, as long
\* as the connection held.
SettledIsBlank ==
    Quiet /\ ~cut /\ route # NoThread /\ stage[route] = "settled" => message = NoEntry

\* A thread that was opened, even offline, is loaded or shows its failure.
OpenedIsLoaded ==
    route # NoThread /\ trail.tag = "Idle" ~> route = NoThread \/ trail.tag # "Idle"

\* "This is the reconnect catch-up: sinceSeq fetched the gap, buffering covered
\* the race, and this fold reconciles both into one trail" (live.ts): what the
\* pane shows of its thread stays.
HistoryStays ==
    [][trail.tag = "Success" /\ trail'.tag = "Success" /\ route' = route =>
           ToSet(trail.entries) \subseteq ToSet(trail'.entries)]_liveVars
=============================================================================
