-------------------------------- MODULE Wire --------------------------------
(***************************************************************************)
(* A console's connection to the hub: the client actor (wire/client.ts),   *)
(* the calls it correlates, the console's own connection machine and retry *)
(* (frontend conn/machine.ts, subscriptions.ts), and the server's side of  *)
(* every socket (wire/server-core.ts).                                     *)
(*                                                                         *)
(* The actor's mailbox is what its sockets still have to say, one sequence *)
(* each, and what its callers sent.  The actor does not know which socket  *)
(* an event came from.  A call is used once; event frames are left out.    *)
(***************************************************************************)
EXTENDS Naturals, Sequences, FiniteSets

CONSTANTS
    Calls,        \* command requests
    MaxSockets,   \* bound: sockets opened
    Faults        \* which happen: reject, silence

ASSUME WireAssumption ==
    MaxSockets \in Nat \ {0} /\ Faults \subseteq {"reject", "silence"}

VARIABLES
    \* the client
    state,      \* [tag, socket]
    connectRequested, \* ConnectRequested is in the mailbox
    outbox,     \* calls whose CommandSent is in the mailbox
    pending,    \* calls with a deferred
    calls,      \* where each call is
    dial,       \* where connect() is: idle, awaiting, landing
    \* the sockets and the server
    sockets,    \* the client's end of each
    frames,     \* what each has to report: frames of the server, errored, close
    server,     \* the server's end of each
    work,       \* commands on their way to the server or running there
    \* the console
    conn,       \* its connection machine
    outcome,    \* connect()'s result, under way
    closes,     \* close events, under way
    \* history
    sentOn,     \* the socket a call was sent on
    rejected,   \* a handshake was rejected
    early       \* a connection closed before the console took it for online

client == <<state, connectRequested, outbox, pending, calls, dial>>
wire == <<sockets, frames, server, work>>
console == <<conn, outcome, closes>>
history == <<sentOn, rejected, early>>
vars == <<client, wire, console, history>>

Sockets == 1 .. MaxSockets
Tags == {"Disconnected", "Connecting", "Handshaking", "Connected"}
States == [tag : Tags, socket : 0 .. MaxSockets]
Frames == [type : {"hello_ok", "error", "errored", "close"}, call : {"none"}]
          \cup [type : {"response"}, call : Calls]
Frame(type) == [type |-> type, call |-> "none"]
Used == {s \in Sockets : sockets[s] # "none"}
Disconnected == [tag |-> "Disconnected", socket |-> 0]

Init ==
    /\ state = Disconnected
    /\ connectRequested = TRUE /\ dial = "awaiting"
    /\ outbox = {} /\ pending = {} /\ calls = [r \in Calls |-> "idle"]
    /\ sockets = [s \in Sockets |-> "none"]
    /\ frames = [s \in Sockets |-> <<>>]
    /\ server = [s \in Sockets |-> "none"]
    /\ work = {}
    /\ conn = "Connecting" /\ outcome = "none" /\ closes = 0
    /\ sentOn = [r \in Calls |-> 0] /\ rejected = FALSE /\ early = FALSE

----------------------------------------------------------------------------
(* connect() and the console's machine.                                    *)

\* settleConnect: a connect that awaits nothing is left alone.
Settle(result) ==
    IF dial # "awaiting" THEN UNCHANGED <<dial, outcome>>
    ELSE IF result = "hello" THEN dial' = "landing" /\ UNCHANGED outcome
    ELSE dial' = "idle" /\ outcome' = "failed"

\* Mutant: the connect overtakes the commands queued ahead of it.
ConnectRequested_Overtakes ==
    /\ connectRequested
    /\ connectRequested' = FALSE
    /\ IF state.tag = "Disconnected"
       THEN LET s == Cardinality(Used) + 1 IN
            /\ state' = [tag |-> "Connecting", socket |-> s]
            /\ sockets' = [sockets EXCEPT ![s] = "dialing"]
       ELSE UNCHANGED <<state, sockets>>
    /\ UNCHANGED <<outbox, pending, calls, dial, frames, server, work, console, history>>

\* The socket is created on entry to Connecting.  The mailbox is in order:
\* commands sent to the connection before were taken.
ConnectRequested ==
    /\ connectRequested /\ outbox = {}
    /\ connectRequested' = FALSE
    /\ IF state.tag = "Disconnected"
       THEN LET s == Cardinality(Used) + 1 IN
            /\ state' = [tag |-> "Connecting", socket |-> s]
            /\ sockets' = [sockets EXCEPT ![s] = "dialing"]
       ELSE UNCHANGED <<state, sockets>>
    /\ UNCHANGED <<outbox, pending, calls, dial, frames, server, work, console, history>>

\* waitFor(Connected), after the deferred.
Land ==
    /\ dial = "landing" /\ state.tag = "Connected"
    /\ dial' = "idle" /\ outcome' = "connected"
    /\ UNCHANGED <<state, connectRequested, outbox, pending, calls, wire, conn, closes, history>>

TakeOutcome ==
    /\ outcome # "none" /\ outcome' = "none"
    /\ conn' = IF outcome = "connected" THEN "Online"
               ELSE IF conn = "Online" THEN conn ELSE "Offline"
    /\ UNCHANGED <<client, wire, closes, history>>

\* Connecting does not take a close.
TakeClose ==
    /\ closes > 0 /\ closes' = closes - 1
    /\ conn' = IF conn = "Connecting" THEN conn ELSE "Offline"
    /\ UNCHANGED <<client, wire, outcome, history>>

\* The tick comes seconds later: a dial that failed has closed by then.
Retry ==
    /\ conn = "Offline" /\ conn' = "Connecting"
    /\ dial' = "awaiting" /\ connectRequested' = TRUE
    /\ \A s \in Sockets : sockets[s] # "failing"
    /\ Cardinality(Used) < MaxSockets
    /\ UNCHANGED <<state, outbox, pending, calls, wire, outcome, closes, history>>

----------------------------------------------------------------------------
(* The sockets.                                                            *)

\* An open sends hello on the socket that opened, if the machine awaits one.
Open(s) ==
    /\ sockets[s] = "dialing"
    /\ sockets' = [sockets EXCEPT ![s] = "open"]
    /\ IF state.tag = "Connecting"
       THEN /\ state' = [tag |-> "Handshaking", socket |-> s]
            /\ server' = [server EXCEPT ![s] = "greeting"]
       ELSE /\ server' = [server EXCEPT ![s] = "accepted"]
            /\ UNCHANGED state
    /\ UNCHANGED <<connectRequested, outbox, pending, calls, dial, frames, work,
                   console, history>>

DialFails(s) ==
    /\ sockets[s] = "dialing"
    /\ sockets' = [sockets EXCEPT ![s] = "failing"]
    /\ frames' = [frames EXCEPT ![s] = <<Frame("errored"), Frame("close")>>]
    /\ UNCHANGED <<client, server, work, console, history>>

\* Half-open: nothing arrives any more, not even a close.
GoSilent(s) ==
    /\ "silence" \in Faults /\ sockets[s] = "open"
    /\ sockets' = [sockets EXCEPT ![s] = "silent"]
    /\ frames' = [frames EXCEPT ![s] = <<>>]
    /\ server' = [server EXCEPT ![s] = "gone"]
    /\ UNCHANGED <<client, work, console, history>>

\* Mutant: the heartbeat pings and never looks at the pongs.
Heartbeat_NeverCloses ==
    /\ state.tag = "Connected" /\ sockets[state.socket] = "silent"
    /\ UNCHANGED vars

\* No pong for too long: the socket is closed; its close event follows.
Heartbeat ==
    /\ state.tag = "Connected" /\ sockets[state.socket] = "silent"
    /\ sockets' = [sockets EXCEPT ![state.socket] = "closing"]
    /\ frames' = [frames EXCEPT ![state.socket] = <<Frame("close")>>]
    /\ UNCHANGED <<client, server, work, console, history>>

----------------------------------------------------------------------------
(* The actor's handlers of what a socket reports.                          *)

Take(s, type) ==
    /\ frames[s] # <<>> /\ Head(frames[s]).type = type
    /\ frames' = [frames EXCEPT ![s] = Tail(@)]

\* Mutant: an error leaves Connecting, ahead of the close that follows it.
Errored_Leaves(s) ==
    /\ Take(s, "errored")
    /\ IF state.tag = "Connecting" THEN Settle("failed") /\ state' = Disconnected
       ELSE UNCHANGED <<dial, outcome, state>>
    /\ sockets' = [sockets EXCEPT ![s] = "closing"]
    /\ UNCHANGED <<connectRequested, outbox, pending, calls, server, work,
                   conn, closes, history>>

\* The connect fails; the close follows and moves the machine.
Errored(s) ==
    /\ Take(s, "errored")
    /\ IF state.tag = "Connecting" THEN Settle("failed") ELSE UNCHANGED <<dial, outcome>>
    /\ UNCHANGED <<state, connectRequested, outbox, pending, calls, sockets, server, work,
                   conn, closes, history>>

HelloOk(s) ==
    /\ Take(s, "hello_ok")
    /\ IF state.tag = "Handshaking"
       THEN Settle("hello") /\ state' = [state EXCEPT !.tag = "Connected"]
       ELSE UNCHANGED <<state, dial, outcome>>
    /\ UNCHANGED <<connectRequested, outbox, pending, calls, sockets, server, work,
                   conn, closes, history>>

\* The handshake was rejected: the socket is left for the server to close.
ErrorFrame(s) ==
    /\ Take(s, "error")
    /\ IF state.tag = "Handshaking"
       THEN Settle("failed") /\ state' = Disconnected
       ELSE UNCHANGED <<state, dial, outcome>>
    /\ UNCHANGED <<connectRequested, outbox, pending, calls, sockets, server, work,
                   conn, closes, history>>

\* resolveResponse: an id nobody waits for is ignored.
Response(s) ==
    /\ Take(s, "response")
    /\ LET r == Head(frames[s]).call IN
       IF state.tag = "Connected" /\ r \in pending
       THEN /\ pending' = pending \ {r}
            /\ calls' = [calls EXCEPT ![r] = "answered"]
       ELSE UNCHANGED <<pending, calls>>
    /\ UNCHANGED <<state, connectRequested, outbox, dial, sockets, server, work,
                   console, history>>

FailAllPending ==
    /\ pending' = {}
    /\ calls' = [r \in Calls |-> IF r \in pending THEN "failed" ELSE calls[r]]

\* Mutant: the end of a connection is not announced.
Closed_Unannounced(s) ==
    /\ Take(s, "close")
    /\ sockets' = [sockets EXCEPT ![s] = "closed"]
    /\ state' = Disconnected
    /\ IF state.tag = "Connected"
       THEN FailAllPending /\ early' = (early \/ conn # "Online")
       ELSE UNCHANGED <<pending, calls, early>>
    /\ IF state.tag \in {"Connecting", "Handshaking"} THEN Settle("failed")
       ELSE UNCHANGED <<dial, outcome>>
    /\ UNCHANGED <<connectRequested, outbox, server, work, conn, closes, sentOn, rejected>>

\* Any close ends whatever the machine is in.
Closed(s) ==
    /\ Take(s, "close")
    /\ sockets' = [sockets EXCEPT ![s] = "closed"]
    /\ state' = Disconnected
    /\ IF state.tag = "Connected"
       THEN /\ FailAllPending
            /\ closes' = closes + 1
            /\ early' = (early \/ conn # "Online")
       ELSE UNCHANGED <<pending, calls, closes, early>>
    /\ IF state.tag \in {"Connecting", "Handshaking"} THEN Settle("failed")
       ELSE UNCHANGED <<dial, outcome>>
    /\ UNCHANGED <<connectRequested, outbox, server, work, conn, sentOn, rejected>>

----------------------------------------------------------------------------
(* request(): snapshot, registration, wait.                                *)

Call(r, from, to) ==
    /\ calls[r] = from /\ calls' = [calls EXCEPT ![r] = to]
    /\ UNCHANGED <<state, connectRequested, dial, sockets, frames, server, console,
                   rejected, early>>

\* A client that is not connected refuses at once.
Ask(r) ==
    /\ state.tag = "Connected"
    /\ Call(r, "idle", "asked")
    /\ UNCHANGED <<outbox, pending, work, sentOn>>

Register(r) ==
    /\ Call(r, "asked", "waiting")
    /\ pending' = pending \cup {r}
    /\ outbox' = outbox \cup {r}
    /\ UNCHANGED <<work, sentOn>>

\* Only Connected takes it; a socket that is not open swallows it.
CommandSent(r) ==
    /\ r \in outbox /\ outbox' = outbox \ {r}
    /\ IF state.tag = "Connected"
       THEN /\ sentOn' = [sentOn EXCEPT ![r] = state.socket]
            /\ work' = IF sockets[state.socket] = "open" THEN work \cup {<<state.socket, r>>}
                       ELSE work
       ELSE UNCHANGED <<sentOn, work>>
    /\ UNCHANGED <<state, connectRequested, pending, calls, dial, sockets, frames, server,
                   console, rejected, early>>

Timeout(r) ==
    /\ Call(r, "waiting", "timedOut")
    /\ pending' = pending \ {r}
    /\ UNCHANGED <<outbox, work, sentOn>>

----------------------------------------------------------------------------
(* The server.                                                             *)

ToClient(s, fs) ==
    frames' = IF sockets[s] = "open" THEN [frames EXCEPT ![s] = @ \o fs] ELSE frames

Greet(s) ==
    /\ server[s] = "greeting"
    /\ server' = [server EXCEPT ![s] = "authed"]
    /\ ToClient(s, <<Frame("hello_ok")>>)
    /\ UNCHANGED <<client, sockets, work, console, history>>

Reject(s) ==
    /\ "reject" \in Faults /\ server[s] = "greeting"
    /\ server' = [server EXCEPT ![s] = "gone"]
    /\ ToClient(s, <<Frame("error"), Frame("close")>>)
    /\ rejected' = TRUE
    /\ UNCHANGED <<client, sockets, work, console, sentOn, early>>

\* Every command runs in a fiber of its own.
Respond ==
    \E w \in work :
        /\ work' = work \ {w}
        /\ IF server[w[1]] = "authed"
           THEN ToClient(w[1], <<[type |-> "response", call |-> w[2]]>>)
           ELSE UNCHANGED frames
        /\ UNCHANGED <<client, sockets, server, console, history>>

\* close(), or the connection breaks.
ServerCloses(s) ==
    /\ server[s] \in {"accepted", "greeting", "authed"}
    /\ server' = [server EXCEPT ![s] = "gone"]
    /\ ToClient(s, <<Frame("close")>>)
    /\ UNCHANGED <<client, sockets, work, console, history>>

----------------------------------------------------------------------------
Actor == \E s \in Sockets :
    Errored(s) \/ HelloOk(s) \/ ErrorFrame(s) \/ Response(s) \/ Closed(s)

Next ==
    \/ ConnectRequested \/ Land \/ TakeOutcome \/ TakeClose \/ Retry
    \/ Actor
    \/ \E s \in Sockets : Open(s) \/ DialFails(s) \/ GoSilent(s)
    \/ Heartbeat
    \/ \E r \in Calls : Ask(r) \/ Register(r) \/ CommandSent(r) \/ Timeout(r)
    \/ \E s \in Sockets : Greet(s) \/ Reject(s) \/ ServerCloses(s)
    \/ Respond

Spec == Init /\ [][Next]_vars

\* The actor takes what is reported, the heartbeat beats.
FairSpec == Spec /\ WF_vars(Actor) /\ WF_vars(Heartbeat)

----------------------------------------------------------------------------
(* Properties.                                                             *)

TypeOK ==
    /\ state \in States
    /\ connectRequested \in BOOLEAN /\ dial \in {"idle", "awaiting", "landing"}
    /\ outbox \subseteq Calls /\ pending \subseteq Calls
    /\ calls \in [Calls -> {"idle", "asked", "waiting", "answered", "failed", "timedOut"}]
    /\ sockets \in [Sockets -> {"none", "dialing", "failing", "open", "silent",
                                "closing", "closed"}]
    /\ frames \in [Sockets -> Seq(Frames)]
    /\ server \in [Sockets -> {"none", "accepted", "greeting", "authed", "gone"}]
    /\ work \subseteq Sockets \X Calls
    /\ conn \in {"Connecting", "Offline", "Online"}
    /\ outcome \in {"none", "connected", "failed"} /\ closes \in Nat
    /\ sentOn \in [Calls -> 0 .. MaxSockets]
    /\ rejected \in BOOLEAN /\ early \in BOOLEAN

\* At most one socket lives, and it is the machine's own, as long as no
\* handshake was rejected: events of a socket can then only meet the state
\* they belong to.
OneSocket ==
    ~rejected => \A s \in Sockets : sockets[s] \notin {"none", "closed"} =>
        state.tag # "Disconnected" /\ state.socket = s

\* A command reaches the wire only while its caller waits or has given up
\* waiting, never after the caller was told that the connection closed.
NoGhosts ==
    [][\A r \in Calls : sentOn'[r] # sentOn[r] => calls[r] \in {"waiting", "timedOut"}]_vars

\* The console shows "online" exactly while the client is connected, when no
\* message is under way, unless the connection closed before the console took
\* its hello, or a handshake was rejected.
ConsoleAgrees ==
    ~early /\ ~rejected /\ outcome = "none" /\ closes = 0 /\ dial = "idle" =>
        (conn = "Online" <=> state.tag = "Connected")

\* A half-open connection is noticed.
SilenceIsNoticed ==
    state.tag = "Connected" /\ sockets[state.socket] = "silent" ~> state.tag # "Connected"
=============================================================================
