------------------------------ MODULE Console ------------------------------
(***************************************************************************)
(* The web console: its rail of threads and projects, the pane of the open *)
(* thread with its composer, and the root that routes between them         *)
(* (frontend rail/, thread/, root/, conn/, wire.ts), against the server    *)
(* that answers its calls and tells it of changed threads.                 *)
(*                                                                         *)
(* The update loop takes one message at a time, and what a message changes *)
(* is one step: the model, the mounted editor, the calls it starts.  An    *)
(* answer is a message as it arrives; an event goes through the bridge and *)
(* may be applied later.  Notices, previews, filters and the entries of a  *)
(* trail are left out.                                                     *)
(***************************************************************************)
EXTENDS Naturals, SequencesExt

CONSTANTS
    Threads,    \* threads there ever are
    Projects,   \* directories; each holds one pi session
    Root,       \* the route of the welcome, and no thread
    Words,      \* what a user types
    Scenes,     \* bound: the page, the threads and the projects there are at the start,
                \* whether the console has booted, how often each gesture and fault happens
    Prompt      \* bound: reads of the server that are answered at once

ASSUME ConsoleAssumption ==
    /\ Root \notin Threads \cup Projects
    /\ "" \notin Words
    /\ \A s \in Scenes : /\ s.threads \subseteq Threads /\ s.added \subseteq Projects
                          /\ s.route \in s.threads \cup {Root}
                          /\ s.booted \in BOOLEAN
                          /\ \A g \in DOMAIN s.budget : s.budget[g] \in Nat
    /\ Prompt \subseteq {"projects", "sessions", "browse", "models"}

VARIABLES
    \* the server
    threads,  \* the registry
    given,    \* threads there were
    added,    \* the added projects
    \* the connection
    conn,     \* the console's machine: Connecting, Online, Offline
    link,     \* the client is connected
    dialing,  \* WireConnect is under way
    calls,    \* calls at the server; heard: somebody waits for the answer
    wire,     \* what arrives at the client, in order
    bridge,   \* events between the client and the update loop
    \* the console
    route, rail, pane,
    editor,   \* the mounted Lexical editor
    \* bound and history
    budget,
    raced,    \* threads that changed while a listing was being answered
    unread,   \* a read of this connection was refused or timed out
    foreign   \* the answer of a page that was left has landed in this one

server == <<threads, given, added>>
connection == <<conn, link, dialing>>
page == <<route, pane, editor, foreign>>
uiVars == <<server, connection, calls, wire, bridge, page, rail, budget, raced, unread>>

\* A thread as consoles know it; source: the project whose session it adopted.
Infos == [name : {"given", "renamed", "titled"}, archived : BOOLEAN,
          state : {"idle", "working"}, source : Projects \cup {Root}]
Unnamed == [name |-> "given", archived |-> FALSE, state |-> "idle", source |-> Root]
NoInfo == [Unnamed EXCEPT !.name = "none"]
NoRows == [t \in Threads |-> NoInfo]
There == {t \in Threads : threads[t] # NoInfo}

Call(kind, on) == [kind |-> kind, on |-> on, heard |-> TRUE, read |-> FALSE,
                   rows |-> NoRows, paths |-> {}]
Answer(c, ok, of, value) ==
    [frame |-> "answer", kind |-> c.kind, on |-> c.on, ok |-> ok, of |-> of, value |-> value]
Failed(c) == Answer(c, FALSE, Root, NoInfo)
Changed(t, info) ==
    [frame |-> "changed", kind |-> "none", on |-> t, ok |-> TRUE, of |-> t, value |-> info]
Close == [frame |-> "close", kind |-> "none", on |-> Root, ok |-> TRUE, of |-> Root,
          value |-> NoInfo]

Spend(gesture) == budget[gesture] > 0 /\ budget' = [budget EXCEPT ![gesture] = @ - 1]

FreshRail ==
    [list |-> [tag |-> "Idle", rows |-> NoRows], projects |-> [tag |-> "Idle", paths |-> {}],
     expanded |-> {}, sessions |-> [p \in Projects |-> "none"],
     adopting |-> Root, renaming |-> Root, dialog |-> FALSE, picker |-> "Idle"]
FreshPane(to) ==
    [id |-> to, info |-> NoInfo, trail |-> "Idle", composer |-> "", starting |-> FALSE,
     models |-> "Idle", modelBusy |-> FALSE, menu |-> "none"]

\* The boot URL opens the welcome or a thread; nothing is read before the
\* connection is there.
Opening(s) ==
    /\ threads = [t \in Threads |-> IF t \in s.threads THEN Unnamed ELSE NoInfo]
    /\ given = s.threads /\ added = s.added
    /\ budget = s.budget /\ route = s.route
    /\ calls = <<>> /\ wire = <<>> /\ bridge = <<>>
    /\ editor = [kind |-> IF route = Root THEN "welcome" ELSE "thread",
                 editable |-> TRUE, text |-> ""]
Boot ==
    /\ conn = "Connecting" /\ link = "down" /\ dialing = TRUE
    /\ rail = FreshRail /\ pane = FreshPane(route)

\* Or all of it has been read, and the console is at rest.
Booted ==
    /\ conn = "Online" /\ link = "up" /\ dialing = FALSE
    /\ rail = [FreshRail EXCEPT !.list = [tag |-> "Success", rows |-> threads],
                                !.projects = [tag |-> "Success", paths |-> added]]
    /\ pane = IF route = Root THEN FreshPane(Root)
              ELSE [FreshPane(route) EXCEPT !.info = Unnamed, !.trail = "Success"]

UiInit ==
    /\ \E s \in Scenes : Opening(s) /\ IF s.booted THEN Booted ELSE Boot
    /\ raced = {} /\ unread = FALSE /\ foreign = FALSE

----------------------------------------------------------------------------
(* The server.                                                             *)

\* A connected console hears of every change; who still waits is answered.
Reply(i, ok, of, value, events) ==
    LET answer == IF calls[i].heard THEN <<Answer(calls[i], ok, of, value)>> ELSE <<>> IN
    /\ calls' = RemoveAt(calls, i)
    /\ wire' = IF link = "up" THEN wire \o events \o answer ELSE wire
    /\ UNCHANGED <<connection, bridge, page, rail, budget>>

\* History: a listing has read the records and not answered yet.
Race(t) ==
    raced' = IF \E j \in DOMAIN calls : calls[j].kind = "list" /\ calls[j].read
             THEN raced \cup {t} ELSE raced

Write(t, info) ==
    /\ threads' = [threads EXCEPT ![t] = info]
    /\ given' = given \cup {t}
    /\ Race(t)

Refuse(i) ==
    /\ Reply(i, FALSE, Root, NoInfo, <<>>)
    /\ UNCHANGED <<server, raced>>
    /\ unread' = (unread \/ calls[i].kind = "list")

Patched(kind, info) ==
    CASE kind = "rename" -> [info EXCEPT !.name = "renamed"]
      [] kind = "archive" -> [info EXCEPT !.archived = TRUE]
      [] kind = "unarchive" -> [info EXCEPT !.archived = FALSE]
      [] kind \in {"prompt", "start"} -> [info EXCEPT !.state = "working"]
      [] kind = "abort" -> [info EXCEPT !.state = "idle"]

\* A change of a thread is broadcast and answered; a thread that works takes
\* no prompt.
ServePatch(i) ==
    LET c == calls[i] info == Patched(c.kind, threads[c.on]) IN
    /\ c.kind \in {"rename", "archive", "unarchive", "prompt", "start", "abort"}
    /\ IF c.on \notin There \/ (c.kind \in {"prompt", "start"} /\ threads[c.on].state = "working")
       THEN Refuse(i)
       ELSE /\ Write(c.on, info)
            /\ Reply(i, TRUE, c.on, info, <<Changed(c.on, info)>>)
            /\ UNCHANGED <<added, unread>>

\* The broadcast of a deletion carries the thread as it was.
ServeDelete(i) ==
    LET c == calls[i] IN
    /\ c.kind = "delete"
    /\ IF c.on \notin There THEN Refuse(i)
       ELSE /\ Write(c.on, NoInfo)
            /\ Reply(i, TRUE, c.on, NoInfo, <<Changed(c.on, threads[c.on])>>)
            /\ UNCHANGED <<added, unread>>

\* create_thread, import_pi_session: one thread of a session.
ServeBirth(i) ==
    LET c == calls[i] IN
    /\ c.kind \in {"create", "adopt"}
    /\ IF \E t \in There : c.kind = "adopt" /\ threads[t].source = c.on THEN Refuse(i)
       ELSE /\ Threads # given
            /\ LET t == CHOOSE u \in Threads \ given : TRUE
                   info == [Unnamed EXCEPT !.source = c.on] IN
               /\ Write(t, info)
               /\ Reply(i, TRUE, t, info, <<Changed(t, info)>>)
            /\ UNCHANGED <<added, unread>>

\* A listing reads the records and awaits; so do the changes of the project
\* document.
Read(i) ==
    /\ calls[i].kind \in {"list", "add", "remove"} /\ ~calls[i].read
    /\ calls' = [calls EXCEPT ![i].read = TRUE, ![i].rows = threads, ![i].paths = added]
    /\ UNCHANGED <<server, connection, wire, bridge, page, rail, budget, raced, unread>>

\* A thread that is gone by then refuses the whole listing.
ServeList(i) ==
    LET c == calls[i] IN
    /\ c.kind = "list" /\ c.read
    /\ \/ /\ \A t \in Threads : c.rows[t] # NoInfo => t \in There
          /\ Reply(i, TRUE, Root, c.rows, <<>>)
          /\ UNCHANGED <<server, raced, unread>>
       \/ /\ \E t \in Threads : c.rows[t] # NoInfo /\ t \notin There
          /\ Refuse(i)

\* addProject, removeProject: the document is written as it was read.
ServeProject(i) ==
    LET c == calls[i] IN
    /\ c.kind \in {"add", "remove"} /\ c.read
    /\ added' = IF c.kind = "add" THEN c.paths \cup {c.on} ELSE c.paths \ {c.on}
    /\ Reply(i, TRUE, Root, NoInfo, <<>>)
    /\ UNCHANGED <<threads, given, raced, unread>>

\* What reads and changes nothing.
ServeRead(i) ==
    LET c == calls[i] IN
    \/ /\ c.kind = "projects" /\ Reply(i, TRUE, Root, added, <<>>)
       /\ UNCHANGED <<server, raced, unread>>
    \/ /\ c.kind \in {"sessions", "browse", "models", "model"}
       /\ \/ Reply(i, TRUE, Root, NoInfo, <<>>) /\ UNCHANGED <<server, raced, unread>>
          \/ c.kind \in {"browse", "model"} /\ Refuse(i)
    \/ /\ c.kind \in {"trail", "state", "born"}
       /\ IF c.on \notin There THEN Refuse(i)
          ELSE /\ Reply(i, TRUE, c.on, threads[c.on], <<>>)
               /\ UNCHANGED <<server, raced, unread>>

\* Another console, an auto-title, or the end of a run.
Elsewhere(t) ==
    /\ Spend("elsewhere") /\ t \in There
    /\ \E info \in {[threads[t] EXCEPT !.name = "titled"], NoInfo}
                   \cup {[threads[t] EXCEPT !.state = s] : s \in {"idle", "working"}} :
        /\ info # threads[t]
        /\ Write(t, info)
        /\ wire' = IF link = "down" THEN wire
                   ELSE Append(wire, Changed(t, IF info = NoInfo THEN threads[t] ELSE info))
    /\ UNCHANGED <<added, connection, calls, bridge, page, rail, unread>>

\* The answer comes too late, or not at all.
TimeOut(i) ==
    /\ Spend("timeout") /\ calls[i].heard
    /\ calls' = [calls EXCEPT ![i].heard = FALSE]
    /\ wire' = <<Failed(calls[i])>> \o wire
    /\ unread' = (unread \/ calls[i].kind \in {"list", "projects", "trail", "state"})
    /\ UNCHANGED <<server, connection, bridge, page, rail, raced>>

\* A call that nobody waits for may never have reached the server.
LoseCall(i) ==
    /\ ~calls[i].heard /\ calls' = RemoveAt(calls, i)
    /\ UNCHANGED <<server, connection, wire, bridge, page, rail, budget, raced, unread>>

----------------------------------------------------------------------------
(* The connection (wire.ts, conn/machine.ts, root/update.ts).              *)

Reads(t) == IF t = Root THEN <<>> ELSE <<Call("trail", t), Call("state", t)>>
ReloadExpanded ==
    SetToSeq({Call("sessions", p) : p \in rail.expanded})

\* Calls of a client that is not connected fail at once.
Start(cs, frames) ==
    IF link = "up" THEN calls' = calls \o cs /\ wire' = frames
    ELSE /\ wire' = frames \o [i \in DOMAIN cs |-> Failed(cs[i])]
         /\ UNCHANGED calls

\* Mutant: a connection that comes back lists nothing.
Connect_BootOnly ==
    /\ dialing /\ dialing' = FALSE
    /\ link' = "up" /\ conn' = "Online"
    /\ \E moved \in BOOLEAN : bridge' = IF moved THEN <<>> ELSE bridge
    /\ calls' = calls \o Reads(route)
                \o (IF rail.list.tag = "Idle" THEN <<Call("list", Root), Call("projects", Root)>>
                    ELSE <<>>)
                \o ReloadExpanded
    /\ unread' = FALSE /\ raced' = {}
    /\ UNCHANGED <<server, wire, page, rail, budget>>

\* connect(): a daemon that moved gets a fresh client, and the bridge of the
\* old one ends.  Online reads the open thread and the rail again.
Connect ==
    /\ dialing /\ dialing' = FALSE
    /\ link' = "up" /\ conn' = "Online"
    /\ \E moved \in BOOLEAN : bridge' = IF moved THEN <<>> ELSE bridge
    /\ calls' = calls \o Reads(route)
                \o <<Call("list", Root), Call("projects", Root)>> \o ReloadExpanded
    /\ unread' = FALSE /\ raced' = {}
    /\ UNCHANGED <<server, wire, page, rail, budget>>

\* No daemon, or one that does not take the handshake.
ConnectFailed ==
    /\ dialing /\ dialing' = FALSE /\ conn' = "Offline"
    /\ UNCHANGED <<server, link, calls, wire, bridge, page, rail, budget, raced, unread>>

\* The tick comes seconds later: the calls of the lost connection have failed.
Retry ==
    /\ conn = "Offline" /\ ~dialing /\ wire = <<>>
    /\ conn' = "Connecting" /\ dialing' = TRUE
    /\ UNCHANGED <<server, link, calls, wire, bridge, page, rail, budget, raced, unread>>

\* The elements of s at the places in I, in their order.
Kept(s, I) ==
    [k \in 1 .. Cardinality(I) |->
        s[CHOOSE i \in I : Cardinality({j \in I : j <= i}) = k]]

\* What was on its way is lost, who waits fails, and the close is an event.
Disconnect ==
    /\ Spend("close") /\ link = "up" /\ link' = "down"
    /\ LET lost == Kept(wire, {i \in DOMAIN wire : wire[i].frame = "answer"})
           waiting == Kept(calls, {i \in DOMAIN calls : calls[i].heard}) IN
       wire' = [k \in DOMAIN lost |-> [lost[k] EXCEPT !.ok = FALSE]]
               \o [k \in DOMAIN waiting |-> Failed(waiting[k])]
    /\ calls' = [i \in DOMAIN calls |-> [calls[i] EXCEPT !.heard = FALSE]]
    /\ bridge' = Append(bridge, Close)
    /\ UNCHANGED <<server, conn, dialing, page, rail, raced, unread>>

\* An event frame is offered to the bridge.
Offer ==
    /\ wire # <<>> /\ Head(wire).frame = "changed"
    /\ wire' = Tail(wire) /\ bridge' = Append(bridge, Head(wire))
    /\ UNCHANGED <<server, connection, calls, page, rail, budget, raced, unread>>

ConnectionClosed ==
    /\ bridge # <<>> /\ Head(bridge).frame = "close" /\ bridge' = Tail(bridge)
    /\ conn' = IF conn = "Connecting" THEN conn ELSE "Offline"
    /\ UNCHANGED <<server, link, dialing, calls, wire, page, rail, budget, raced, unread>>

----------------------------------------------------------------------------
(* The composer's editor, and the pane of a route.                         *)

Kind(to) == IF to = Root THEN "welcome" ELSE "thread"
Busy(info) == info.state = "working"

\* Commands reach the editor of their kind, if it is the one mounted.
SetEditable(e, kind, yes) == IF e.kind = kind THEN [e EXCEPT !.editable = yes] ELSE e
ClearEditor(e, kind) == IF e.kind = kind THEN [e EXCEPT !.text = ""] ELSE e

\* Another thread keeps the editor; the other surface mounts a fresh one, from
\* the draft.
Mounted(e, p, to) ==
    IF e.kind = Kind(to) THEN e
    ELSE [kind |-> Kind(to), text |-> p.composer, editable |-> to # Root \/ ~p.starting]

\* What another page does not take over: the draft and a quick start stay.
Reset(p) ==
    [p EXCEPT !.trail = "Idle", !.models = "Idle", !.modelBusy = FALSE, !.menu = "none"]

\* Mutant: the pane's reset takes the guard of a quick start with it.
InformRouteChanged_Releases(p, to) ==
    [Reset(p) EXCEPT !.id = to, !.info = NoInfo, !.starting = FALSE]

InformRouteChanged(p, to) == [Reset(p) EXCEPT !.id = to, !.info = NoInfo]

\* A route change reads the thread if the connection is known to be there.
ApplyRoute(to, p, e, cs, frames) ==
    /\ route' = to
    /\ pane' = InformRouteChanged(p, to)
    /\ editor' = Mounted(e, p, to)
    /\ foreign' = FALSE
    /\ Start(cs \o (IF conn = "Online" THEN Reads(to) ELSE <<>>), frames)

Here(p, e, cs, frames) ==
    /\ pane' = p /\ editor' = e /\ UNCHANGED <<route, foreign>>
    /\ Start(cs, frames)

----------------------------------------------------------------------------
(* Events.                                                                 *)

\* Rows are kept once there is a list.
UpsertThread(list, t, info) ==
    IF list.tag = "Success" THEN [list EXCEPT !.rows[t] = info] ELSE list

\* Mutant: only the rail hears of a changed thread.
ThreadChanged_RailOnly ==
    /\ bridge # <<>> /\ Head(bridge).frame = "changed" /\ bridge' = Tail(bridge)
    /\ LET f == Head(bridge) IN
       rail' = [rail EXCEPT !.list = UpsertThread(@, f.on, f.value)]
    /\ UNCHANGED <<server, connection, calls, wire, page, budget, raced, unread>>

\* The rail always, and the pane when it is its thread.
ThreadChanged ==
    /\ bridge # <<>> /\ Head(bridge).frame = "changed" /\ bridge' = Tail(bridge)
    /\ LET f == Head(bridge) IN
       /\ rail' = [rail EXCEPT !.list = UpsertThread(@, f.on, f.value)]
       /\ IF pane.id = f.on
          THEN /\ pane' = [pane EXCEPT !.info = f.value]
               /\ editor' = SetEditable(editor, "thread", ~Busy(f.value))
          ELSE UNCHANGED <<pane, editor>>
    /\ UNCHANGED <<server, connection, calls, wire, route, foreign, budget, raced, unread>>

----------------------------------------------------------------------------
(* Answers that land on the rail.                                          *)

Landed(kind, ok) ==
    wire # <<>> /\ LET f == Head(wire) IN f.frame = "answer" /\ f.kind = kind /\ f.ok = ok
On == Head(wire).on
Of == Head(wire).of
Value == Head(wire).value

ThreadsListed ==
    \/ /\ Landed("list", TRUE)
       /\ rail' = [rail EXCEPT !.list = [tag |-> "Success", rows |-> Value]]
       /\ Here(pane, editor, <<>>, Tail(wire))
    \/ /\ Landed("list", FALSE)
       /\ rail' = [rail EXCEPT !.list = [tag |-> "Failure", rows |-> NoRows]]
       /\ Here(pane, editor, <<>>, Tail(wire))

ProjectsListed ==
    \/ /\ Landed("projects", TRUE)
       /\ rail' = [rail EXCEPT !.projects = [tag |-> "Success", paths |-> Value]]
       /\ Here(pane, editor, ReloadExpanded, Tail(wire))
    \/ /\ Landed("projects", FALSE)
       /\ rail' = [rail EXCEPT !.projects = [tag |-> "Failure", paths |-> {}]]
       /\ Here(pane, editor, <<>>, Tail(wire))

ProjectSessionsListed ==
    \E ok \in BOOLEAN :
        /\ Landed("sessions", ok)
        /\ rail' = [rail EXCEPT !.sessions[On] = IF ok THEN "Success" ELSE "Failure"]
        /\ Here(pane, editor, <<>>, Tail(wire))

\* A gesture that failed leaves a notice, a failed rename also ends the draft.
ThreadLanded ==
    \E kind \in {"rename", "archive", "unarchive"} :
        \/ /\ Landed(kind, TRUE)
           /\ rail' = [rail EXCEPT !.list = UpsertThread(@, Of, Value)]
           /\ Here(pane, editor, <<>>, Tail(wire))
        \/ /\ Landed(kind, FALSE)
           /\ rail' = [rail EXCEPT !.renaming = IF kind = "rename" THEN Root ELSE @]
           /\ Here(pane, editor, <<>>, Tail(wire))

\* Deleting the pinned thread leaves its route.
ThreadDeleted ==
    \/ /\ Landed("delete", TRUE)
       /\ rail' = [rail EXCEPT !.list = UpsertThread(@, On, NoInfo)]
       /\ IF route = On THEN ApplyRoute(Root, pane, editor, <<>>, Tail(wire))
          ELSE Here(pane, editor, <<>>, Tail(wire))
    \/ /\ Landed("delete", FALSE)
       /\ UNCHANGED rail
       /\ Here(pane, editor, <<>>, Tail(wire))

\* The born thread opens like a row; a failure re-lists the truth.
PiSessionAdopted ==
    \/ /\ Landed("adopt", TRUE)
       /\ rail' = [rail EXCEPT !.adopting = Root, !.list = UpsertThread(@, Of, Value)]
       /\ ApplyRoute(Of, pane, editor, <<>>, Tail(wire))
    \/ /\ Landed("adopt", FALSE)
       /\ rail' = [rail EXCEPT !.adopting = Root]
       /\ Here(pane, editor,
               <<Call("list", Root), Call("projects", Root)>>
               \o (IF rail.adopting \in rail.projects.paths
                   THEN <<Call("sessions", rail.adopting)>> ELSE <<>>),
               Tail(wire))

\* The dialog closes and the project opens with its sessions; after a failure
\* it stays open.
ProjectAdded ==
    \/ /\ Landed("add", TRUE)
       /\ rail' = [rail EXCEPT
              !.dialog = FALSE, !.expanded = @ \cup {On},
              !.picker = IF rail.dialog THEN "Idle" ELSE @,
              !.projects.paths = IF rail.projects.tag = "Success" THEN @ \cup {On} ELSE @]
       /\ Here(pane, editor, <<Call("sessions", On)>>, Tail(wire))
    \/ /\ Landed("add", FALSE)
       /\ UNCHANGED rail
       /\ Here(pane, editor, <<>>, Tail(wire))

ProjectRemoved ==
    \/ /\ Landed("remove", TRUE)
       /\ rail' = [rail EXCEPT !.expanded = @ \ {On}, !.sessions[On] = "none",
                               !.projects.paths = @ \ {On}]
       /\ Here(pane, editor, <<>>, Tail(wire))
    \/ /\ Landed("remove", FALSE)
       /\ UNCHANGED rail
       /\ Here(pane, editor, <<>>, Tail(wire))

\* A level lands in the picker, open or not.
PickerBrowseListed ==
    \E ok \in BOOLEAN :
        /\ Landed("browse", ok)
        /\ rail' = [rail EXCEPT !.picker = IF ok THEN "Success" ELSE "Failure"]
        /\ Here(pane, editor, <<>>, Tail(wire))

RailLands ==
    /\ \/ ThreadsListed \/ ProjectsListed \/ ProjectSessionsListed \/ ThreadLanded
       \/ ThreadDeleted \/ PiSessionAdopted \/ ProjectAdded \/ ProjectRemoved
       \/ PickerBrowseListed
    /\ UNCHANGED <<server, connection, bridge, budget, raced, unread>>

----------------------------------------------------------------------------
(* Answers that land in the pane; they name no thread.                     *)

TrailLanded ==
    \E ok \in BOOLEAN :
        /\ Landed("trail", ok)
        /\ pane' = [pane EXCEPT !.trail = IF ok THEN "Success" ELSE "Failure"]
        /\ foreign' = (foreign \/ On # route)
        /\ Start(<<>>, Tail(wire)) /\ UNCHANGED <<route, editor>>

StateLanded ==
    \/ /\ Landed("state", TRUE)
       /\ pane' = [pane EXCEPT !.info = Value]
       /\ editor' = SetEditable(editor, "thread", ~Busy(Value))
       /\ foreign' = (foreign \/ On # route)
       /\ Start(<<>>, Tail(wire)) /\ UNCHANGED route
    \/ /\ Landed("state", FALSE)
       /\ Here(pane, editor, <<>>, Tail(wire))

ModelsLanded ==
    \E ok \in BOOLEAN :
        /\ Landed("models", ok)
        /\ Here([pane EXCEPT !.models = IF ok THEN "Success" ELSE "Failure"], editor,
                <<>>, Tail(wire))

ModelSet ==
    \E ok \in BOOLEAN :
        /\ Landed("model", ok)
        /\ Here([pane EXCEPT !.modelBusy = FALSE, !.models = IF ok THEN "Idle" ELSE @],
                editor, <<>>, Tail(wire))

\* The draft is cleared when its prompt was taken.
PromptLanded ==
    \/ /\ Landed("prompt", TRUE)
       /\ Here([pane EXCEPT !.composer = "", !.menu = "none"], ClearEditor(editor, "thread"),
               <<>>, Tail(wire))
    \/ /\ Landed("prompt", FALSE)
       /\ Here(pane,
               IF pane.id = Root THEN editor ELSE SetEditable(editor, "thread", ~Busy(pane.info)),
               <<>>, Tail(wire))

\* A failed abort, or one that was done, is a notice.
AbortLanded ==
    \E ok \in BOOLEAN : Landed("abort", ok) /\ Here(pane, editor, <<>>, Tail(wire))

\* QuickStartCmd: create, prompt, read the thread.
QuickStart ==
    \/ /\ Landed("create", TRUE)
       /\ Here(pane, editor, <<Call("start", Of)>>, Tail(wire))
    \/ /\ Landed("start", TRUE)
       /\ Here(pane, editor, <<Call("born", Of)>>, Tail(wire))

ThreadCreated ==
    /\ Landed("born", TRUE)
    /\ ApplyRoute(Of, [pane EXCEPT !.composer = "", !.menu = "none", !.starting = FALSE],
                  ClearEditor(editor, "welcome"), <<>>, Tail(wire))

\* Mutant: the welcome's editor is left locked.
CreateFailed_Locked ==
    \E kind \in {"create", "start", "born"} :
        /\ Landed(kind, FALSE)
        /\ Here([pane EXCEPT !.starting = FALSE], editor, <<>>, Tail(wire))

CreateFailed ==
    \E kind \in {"create", "start", "born"} :
        /\ Landed(kind, FALSE)
        /\ Here([pane EXCEPT !.starting = FALSE], SetEditable(editor, "welcome", TRUE),
                <<>>, Tail(wire))

PaneLands ==
    /\ \/ TrailLanded \/ StateLanded \/ ModelsLanded \/ ModelSet \/ PromptLanded
       \/ AbortLanded \/ QuickStart \/ ThreadCreated \/ CreateFailed
    /\ UNCHANGED <<server, connection, bridge, rail, budget, raced, unread>>

----------------------------------------------------------------------------
(* The user.                                                               *)

Still == UNCHANGED <<server, connection, bridge, raced, unread>>
OnRail(r, cs) == rail' = r /\ Here(pane, editor, cs, wire)
InPane(p, e, cs) == UNCHANGED rail /\ Here(p, e, cs, wire)

\* What the row of a thread offers, besides opening it.
Rows == {t \in Threads : rail.list.rows[t] # NoInfo}
Offers(t) ==
    {"rename", "delete", IF rail.list.rows[t].archived THEN "unarchive" ELSE "archive"}

\* The projects are shown below the threads, each with its sessions that no
\* listed thread has adopted.
ProjectRows == IF rail.list.tag = "Success" THEN rail.projects.paths ELSE {}
PiSessionRows ==
    {p \in ProjectRows \cap rail.expanded :
        rail.sessions[p] = "Success" /\ \A t \in Rows : rail.list.rows[t].source # p}

\* A row of the rail, the new-thread button, or the browser's history.
OpenedThread ==
    /\ Spend("open") /\ Still /\ UNCHANGED rail
    /\ \E to \in Rows \cup {Root, route} : ApplyRoute(to, pane, editor, <<>>, wire)

\* A row's rename is drafted, then committed or cancelled.
ThreadRename ==
    /\ Spend("rename") /\ Still
    /\ \/ \E t \in Rows : OnRail([rail EXCEPT !.renaming = t], <<>>)
       \/ /\ rail.renaming # Root
          /\ \/ OnRail([rail EXCEPT !.renaming = Root], <<Call("rename", rail.renaming)>>)
             \/ OnRail([rail EXCEPT !.renaming = Root], <<>>)

\* Archive, unarchive and delete carry the row's id and change nothing yet.
RowGesture(kind) ==
    /\ Spend(kind) /\ Still
    /\ \E t \in Rows : kind \in Offers(t) /\ OnRail(rail, <<Call(kind, t)>>)

RefreshRequested ==
    /\ Spend("refresh") /\ Still
    /\ OnRail(rail, <<Call("list", Root), Call("projects", Root)>> \o ReloadExpanded)

\* One adoption at a time.
PiSessionClicked ==
    /\ Spend("adopt") /\ Still /\ rail.adopting = Root
    /\ \E p \in PiSessionRows : OnRail([rail EXCEPT !.adopting = p], <<Call("adopt", p)>>)

\* Sessions load on the first expand and are cached.
ProjectToggled ==
    /\ Spend("expand") /\ Still
    /\ \E p \in ProjectRows :
        IF p \in rail.expanded THEN OnRail([rail EXCEPT !.expanded = @ \ {p}], <<>>)
        ELSE OnRail([rail EXCEPT !.expanded = @ \cup {p}],
                    IF rail.sessions[p] = "none" THEN <<Call("sessions", p)>> ELSE <<>>)

\* The picker of a folder: opened at its root once, walked a level at a time,
\* committed when a level has landed, or closed and forgotten.
AddProjectRequested ==
    /\ ~rail.dialog /\ rail.list.tag = "Success" /\ rail.projects.tag = "Success"
    /\ OnRail([rail EXCEPT !.dialog = TRUE], <<Call("browse", Root)>>)

PickerDirChosen ==
    /\ rail.dialog /\ rail.picker # "Idle"
    /\ OnRail(rail, <<Call("browse", Root)>>)

PickerAddRequested ==
    /\ rail.dialog /\ rail.picker = "Success"
    /\ \E p \in Projects : OnRail(rail, <<Call("add", p)>>)

PickerClosed ==
    /\ rail.dialog
    /\ OnRail([rail EXCEPT !.dialog = FALSE, !.picker = "Idle"], <<>>)

AddProject ==
    /\ Spend("dialog") /\ Still
    /\ AddProjectRequested \/ PickerDirChosen \/ PickerAddRequested \/ PickerClosed

RemoveProject ==
    /\ Spend("remove") /\ Still
    /\ \E p \in ProjectRows : OnRail(rail, <<Call("remove", p)>>)

\* The editor reports what is typed.
ComposerChanged ==
    /\ Spend("type") /\ Still /\ editor.editable
    /\ \E w \in Words \cup {""} :
        InPane([pane EXCEPT !.composer = w], [editor EXCEPT !.text = w], <<>>)

\* Enter or the button: a quick start on the welcome, one at a time; a prompt
\* of a thread that does not work.
SendRequested ==
    /\ Spend("send") /\ Still /\ pane.composer # ""
    /\ \/ /\ pane.id = Root /\ ~pane.starting
          /\ InPane([pane EXCEPT !.starting = TRUE, !.menu = "none"],
                    SetEditable(editor, "welcome", FALSE), <<Call("create", Root)>>)
       \/ /\ pane.id # Root /\ ~Busy(pane.info)
          /\ InPane(pane, editor, <<Call("prompt", pane.id)>>)

\* The stop control of a thread that works.
AbortRequested ==
    /\ Spend("abort") /\ Still /\ pane.id # Root /\ Busy(pane.info)
    /\ InPane(pane, editor, <<Call("abort", pane.id)>>)

\* The model badge: opened when closed and the thread does not work, one switch
\* at a time.
ModelPickerRequested ==
    /\ pane.id # Root /\ ~Busy(pane.info) /\ pane.models = "Idle"
    /\ InPane([pane EXCEPT !.models = "Loading", !.menu = "none"], editor,
              <<Call("models", pane.id)>>)

ModelPicked ==
    /\ pane.id # Root /\ ~pane.modelBusy /\ pane.models = "Success"
    /\ InPane([pane EXCEPT !.modelBusy = TRUE], editor, <<Call("model", pane.id)>>)

ModelPickerClosed == pane.models # "Idle" /\ InPane([pane EXCEPT !.models = "Idle"], editor, <<>>)

ModelPicker ==
    /\ Spend("model") /\ Still
    /\ ModelPickerRequested \/ ModelPicked \/ ModelPickerClosed

\* The palette, opened by a trigger before the caret.
ComposerTriggerChanged ==
    /\ editor.editable
    /\ \E trigger \in {"file", "command"} :
          InPane([pane EXCEPT !.menu = trigger], editor, <<>>)

ComposerMenuClosed == pane.menu # "none" /\ InPane([pane EXCEPT !.menu = "none"], editor, <<>>)

\* What a command leaves of the draft is the draft without its trigger.  The
\* model command asks nobody whether the thread works.
ApplySuggestion ==
    LET closed == [pane EXCEPT !.menu = "none"] IN
    /\ pane.menu = "command"
    /\ \/ InPane([closed EXCEPT !.composer = ""], ClearEditor(editor, Kind(pane.id)), <<>>)
       \/ /\ pane.id # Root
          /\ \/ InPane([closed EXCEPT !.models = "Loading"], editor, <<Call("models", pane.id)>>)
             \/ InPane(closed, editor, <<Call("abort", pane.id)>>)

Palette ==
    /\ Spend("menu") /\ Still
    /\ ComposerTriggerChanged \/ ComposerMenuClosed \/ ApplySuggestion

Gesture ==
    \/ OpenedThread \/ ThreadRename
    \/ \E kind \in {"archive", "unarchive", "delete"} : RowGesture(kind)
    \/ RefreshRequested \/ PiSessionClicked \/ ProjectToggled \/ AddProject \/ RemoveProject
    \/ ComposerChanged \/ SendRequested \/ AbortRequested \/ ModelPicker \/ Palette

Prompts == {i \in DOMAIN calls : calls[i].kind \in Prompt}

Server ==
    \/ \E i \in DOMAIN calls :
          \/ ServePatch(i) \/ ServeDelete(i) \/ ServeBirth(i) \/ Read(i) \/ ServeList(i)
          \/ ServeProject(i) \/ ServeRead(i) \/ TimeOut(i) \/ LoseCall(i)
    \/ \E t \in Threads : Elsewhere(t)

UiNext ==
    \/ \E i \in Prompts : i = Min(Prompts) /\ (ServeRead(i) \/ TimeOut(i))
    \/ /\ Prompts = {}
       /\ \/ Server
          \/ Connect \/ ConnectFailed \/ Retry \/ Disconnect \/ Offer
          \/ ConnectionClosed \/ ThreadChanged
          \/ RailLands \/ PaneLands \/ Gesture

UiSpec == UiInit /\ [][UiNext]_uiVars

----------------------------------------------------------------------------
(* Properties.                                                             *)

\* Nothing is under way.
AtRest == calls = <<>> /\ wire = <<>> /\ bridge = <<>> /\ ~dialing

\* "The registry broadcast: keep the list current" (rail/update.ts): at rest a
\* connected console shows every thread as the registry has it, whatever answers
\* and events crossed and whatever changed while it was away.  A thread that
\* changed while a listing was being answered is excepted.
RowsAreCurrent ==
    AtRest /\ conn = "Online" /\ ~unread =>
        /\ rail.list.tag = "Success"
        /\ \A t \in There \ raced : rail.list.rows[t] = threads[t]

\* "A thread opened mid-run must show its state and the stop control
\* immediately" (thread/command.ts), and keeps showing it: at rest the header of
\* the open thread is the registry's word and its trail is loaded, if no read
\* was refused and no answer of another page landed here.
PinnedIsCurrent ==
    AtRest /\ conn = "Online" /\ ~unread /\ ~foreign /\ route \in There =>
        pane.info = threads[route] /\ pane.trail = "Success"

\* The imperative editor takes keys exactly when the view says it does: it is
\* locked while its thread works or a quick start is under way, and is never left
\* locked, on line or off, once the pane knows its thread.
EditorAgrees ==
    route = Root \/ pane.info # NoInfo =>
        editor.editable = IF route = Root THEN ~pane.starting ELSE ~Busy(pane.info)

\* The calls somebody waits for, and the answers that have not landed.
InFlight(kinds) ==
    {<<"call", i>> : i \in {j \in DOMAIN calls : calls[j].heard /\ calls[j].kind \in kinds}}
    \cup {<<"answer", i>> : i \in {j \in DOMAIN wire : wire[j].frame = "answer"
                                                      /\ wire[j].kind \in kinds}}
OneAtATime(kinds, guard) ==
    /\ guard <=> InFlight(kinds) # {}
    /\ \A x, y \in InFlight(kinds) : x = y

\* "No double threads", "no double adoptions" (thread/update.ts,
\* rail/update.ts): there is one quick start and one adoption at a time, and its
\* guard is up until it ends, wherever the user goes and whatever fails.
OneBirth ==
    /\ OneAtATime({"create", "start", "born"}, pane.starting)
    /\ OneAtATime({"adopt"}, rail.adopting # Root)

\* "Missing editors are harmless during route swaps: the next Mount initializes
\* from the Model's draft" (thread/composer.ts): at rest the editor shows the
\* draft that a send would take.
DraftIsShown == AtRest => editor.text = pane.composer
=============================================================================
