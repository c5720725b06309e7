----------------------------- MODULE RemoteEnv ------------------------------
(***************************************************************************)
(* A worker's tools on another machine: the client (env/remote.ts), the    *)
(* env daemon's side of every connection (env/daemon.ts) and the commands  *)
(* and file operations it runs there (env/local-env.ts).                   *)
(*                                                                         *)
(* A request is used once; its payload and what a file operation does to   *)
(* the files are left out.  "connected" stands for connected and hello,    *)
(* which the code sets and clears together.  When a handshake settles, the *)
(* calls that awaited it go on before the next event of a socket.          *)
(***************************************************************************)
EXTENDS Naturals, FiniteSets, SequencesExt

CONSTANTS
    Execs,        \* requests that run a command
    Files,        \* requests for a file operation
    Timed,        \* those with a deadline of their own
    MaxSockets,   \* bound: sockets dialled
    Faults        \* which happen: refuse, reject, slow, drop, close

Requests == Execs \cup Files

ASSUME RemoteEnvAssumption ==
    /\ Execs \cap Files = {} /\ Timed \subseteq Requests /\ IsFiniteSet(Requests)
    /\ MaxSockets \in Nat \ {0}
    /\ Faults \subseteq {"refuse", "reject", "slow", "drop", "close"}

VARIABLES
    \* the client
    socket,     \* the socket requests are sent on, or 0
    connected,
    attempt,    \* the socket of the handshake that has not settled, or 0
    calls,      \* where each request is
    sentOn,     \* the socket a request was sent on, or 0
    heard,      \* requests whose output reached the caller
    aborted,    \* requests whose caller gave its abort signal while they waited
    disposed,   \* close() was called
    stray,      \* an attempt was given up while its socket lived
    \* the sockets and the daemon
    sockets,    \* the client's end of each
    up,         \* frames to the daemon
    down,       \* what the client's end has to report
    conn,       \* the daemon's end of each
    proc,       \* the operation of each request
    said        \* requests whose command has written output

client == <<socket, connected, attempt, calls, sentOn, heard, aborted, disposed, stray>>
vars == <<client, sockets, up, down, conn, proc, said>>

Sockets == 1 .. MaxSockets
Outcomes == {"ok", "error", "timeout", "aborted", "lost"}
Frame(type, r) == [type |-> type, call |-> r]
Hello == Frame("hello", "none")
HelloOk == Frame("hello_ok", "none")
Rejection == Frame("rejection", "none")
Failure == Frame("failure", "none")
Gone == Frame("close", "none")
Used == {s \in Sockets : sockets[s] # "none"}
In(phase) == {r \in Requests : calls[r] = phase}

Init ==
    /\ socket = 0 /\ connected = FALSE /\ attempt = 0
    /\ calls = [r \in Requests |-> "idle"]
    /\ sentOn = [r \in Requests |-> 0]
    /\ heard = {} /\ aborted = {} /\ disposed = FALSE /\ stray = FALSE
    /\ sockets = [s \in Sockets |-> "none"]
    /\ up = [s \in Sockets |-> <<>>] /\ down = [s \in Sockets |-> <<>>]
    /\ conn = [s \in Sockets |-> "none"]
    /\ proc = [r \in Requests |-> "none"] /\ said = {}

----------------------------------------------------------------------------
(* connect() and request().                                                *)

\* What the caller of a request gets: a value, or one of pi's errors.
Answered(r, outcome) == [calls EXCEPT ![r] = outcome]

\* Send the requests of a set, in any order: one that finds no socket is
\* registered and not sent, one that finds a socket that still dials throws.
Send(rs) ==
    IF socket # 0 /\ sockets[socket] = "dialing"
    THEN /\ calls' = [r \in Requests |-> IF r \in rs THEN "lost" ELSE calls[r]]
         /\ UNCHANGED <<sentOn, up>>
    ELSE /\ calls' = [r \in Requests |-> IF r \in rs THEN "waiting" ELSE calls[r]]
         /\ IF socket = 0 THEN UNCHANGED <<sentOn, up>>
            ELSE /\ sentOn' = [r \in Requests |-> IF r \in rs THEN socket ELSE sentOn[r]]
                 /\ \E order \in [1 .. Cardinality(rs) -> rs] :
                        /\ \A r \in rs : \E i \in DOMAIN order : order[i] = r
                        /\ up' = IF sockets[socket] # "open" THEN up
                                 ELSE [up EXCEPT ![socket] = @ \o
                                       [i \in DOMAIN order |-> Frame("request", order[i])]]

\* Mutant: a new attempt is begun although one is under way.
Request_DialsAgain(r) ==
    /\ IF connected THEN Send({r}) /\ UNCHANGED <<socket, attempt, sockets>>
       ELSE LET s == Cardinality(Used) + 1 IN
            /\ s \in Sockets
            /\ attempt' = s /\ socket' = s
            /\ sockets' = [sockets EXCEPT ![s] = "dialing"]
            /\ calls' = [calls EXCEPT ![r] = "connecting"]
            /\ UNCHANGED <<sentOn, up>>
    /\ UNCHANGED <<connected, heard, aborted, disposed, stray, down, conn, proc, said>>

\* One handshake serves everybody who asks during it.
Request(r) ==
    /\ IF connected THEN Send({r}) /\ UNCHANGED <<socket, attempt, sockets>>
       ELSE /\ calls' = [calls EXCEPT ![r] = "connecting"]
            /\ UNCHANGED <<sentOn, up>>
            /\ IF attempt # 0 THEN UNCHANGED <<socket, attempt, sockets>>
               ELSE LET s == Cardinality(Used) + 1 IN
                    /\ s \in Sockets
                    /\ attempt' = s /\ socket' = s
                    /\ sockets' = [sockets EXCEPT ![s] = "dialing"]
    /\ UNCHANGED <<connected, heard, aborted, disposed, stray, down, conn, proc, said>>

\* Every method of the environment makes one request.
Ask(r) == calls[r] = "idle" /\ ~disposed /\ Request(r)

\* fail: the attempt is given up, and so are the calls that awaited it.
GiveUp ==
    /\ attempt' = 0 /\ socket' = 0
    /\ calls' = [r \in Requests |-> IF calls[r] = "connecting" THEN "lost" ELSE calls[r]]

\* fail() has cleared the socket by the time it would be closed.
HelloTimeout ==
    /\ "slow" \in Faults /\ attempt # 0
    /\ GiveUp /\ stray' = TRUE
    /\ UNCHANGED <<connected, sentOn, heard, aborted, disposed,
                   sockets, up, down, conn, proc, said>>

ToDaemon(s, f) ==
    up' = IF s # 0 /\ sockets[s] = "open" THEN [up EXCEPT ![s] = Append(@, f)] ELSE up

\* The deadline of a request: the daemon is asked to stop it.
Timeout(r) ==
    /\ r \in Timed \cap In("waiting")
    /\ calls' = Answered(r, "timeout")
    /\ ToDaemon(socket, Frame("abort", r))
    /\ UNCHANGED <<socket, connected, attempt, sentOn, heard, aborted, disposed, stray,
                   sockets, down, conn, proc, said>>

\* The caller's signal.  The listener is added when the request is sent.
Abort(r) ==
    /\ r \in Execs \cap In("waiting") /\ r \notin aborted
    /\ aborted' = aborted \cup {r}
    /\ ToDaemon(socket, Frame("abort", r))
    /\ UNCHANGED <<socket, connected, attempt, calls, sentOn, heard, disposed, stray,
                   sockets, down, conn, proc, said>>

\* close(): the owner drops this instance.  What is pending fails when the
\* socket reports its end.
Close ==
    /\ "close" \in Faults /\ ~disposed /\ disposed' = TRUE
    /\ IF socket = 0 THEN UNCHANGED <<sockets, up, down>>
       ELSE IF sockets[socket] = "dialing"
       THEN /\ sockets' = [sockets EXCEPT ![socket] = "failing"]
            /\ down' = [down EXCEPT ![socket] = <<Failure, Gone>>]
            /\ UNCHANGED up
       ELSE /\ ToDaemon(socket, Gone)
            /\ sockets' = [sockets EXCEPT ![socket] = IF @ = "open" THEN "closing" ELSE @]
            /\ UNCHANGED down
    /\ socket' = 0 /\ connected' = FALSE
    /\ UNCHANGED <<attempt, calls, sentOn, heard, aborted, stray, conn, proc, said>>

----------------------------------------------------------------------------
(* What a socket reports to the client.                                    *)

\* The daemon's server takes a connection and waits for its hello.
Accepted(s) == conn' = [conn EXCEPT ![s] = "greeting"]

Open(s) ==
    /\ sockets[s] = "dialing"
    /\ sockets' = [sockets EXCEPT ![s] = "open"]
    /\ Accepted(s)
    /\ up' = [up EXCEPT ![s] = <<Hello>>]
    /\ UNCHANGED <<client, down, proc, said>>

DialFails(s) ==
    /\ "refuse" \in Faults /\ sockets[s] = "dialing"
    /\ sockets' = [sockets EXCEPT ![s] = "failing"]
    /\ down' = [down EXCEPT ![s] = <<Failure, Gone>>]
    /\ UNCHANGED <<client, up, conn, proc, said>>

Take(s, type) ==
    /\ down[s] # <<>> /\ Head(down[s]).type = type
    /\ down' = [down EXCEPT ![s] = Tail(@)]
    /\ UNCHANGED <<aborted, disposed, conn, proc, said>>

\* The error listener of the socket's own attempt.
TakeFailure(s) ==
    /\ Take(s, "failure")
    /\ IF attempt = s THEN GiveUp /\ stray' = TRUE
       ELSE UNCHANGED <<attempt, socket, calls, stray>>
    /\ UNCHANGED <<connected, sentOn, heard, sockets, up>>

\* onceHello is the present attempt's, whichever socket the frame is from.
TakeHelloOk(s) ==
    /\ Take(s, "hello_ok")
    /\ IF attempt # 0
       THEN attempt' = 0 /\ connected' = TRUE /\ Send(In("connecting"))
       ELSE UNCHANGED <<attempt, connected, calls, sentOn, up>>
    /\ UNCHANGED <<socket, heard, stray, sockets>>

TakeRejection(s) ==
    /\ Take(s, "rejection")
    /\ IF attempt # 0 THEN GiveUp /\ stray' = TRUE
       ELSE UNCHANGED <<attempt, socket, calls, stray>>
    /\ UNCHANGED <<connected, sentOn, heard, sockets, up>>

TakeStream(s) ==
    /\ Take(s, "stream")
    /\ heard' = heard \cup ({Head(down[s]).call} \cap In("waiting"))
    /\ UNCHANGED <<socket, connected, attempt, calls, sentOn, stray, sockets, up>>

\* A response nobody waits for any more is ignored.
TakeResponse(s) ==
    /\ \E outcome \in Outcomes : Take(s, outcome)
    /\ LET f == Head(down[s]) IN
       calls' = IF calls[f.call] = "waiting" THEN Answered(f.call, f.type) ELSE calls
    /\ UNCHANGED <<socket, connected, attempt, sentOn, heard, stray, sockets, up>>

\* The close listener does not ask whether its socket is the present one.
TakeClose(s) ==
    /\ Take(s, "close")
    /\ sockets' = [sockets EXCEPT ![s] = "closed"]
    /\ socket' = 0 /\ connected' = FALSE
    /\ attempt' = IF ~connected /\ attempt = s THEN 0 ELSE attempt
    /\ calls' = [r \in Requests |->
                    IF \/ calls[r] = "waiting"
                       \/ calls[r] = "connecting" /\ ~connected /\ attempt = s
                    THEN "lost" ELSE calls[r]]
    /\ UNCHANGED <<sentOn, heard, stray, up>>

\* The connection breaks: what is under way is lost.
Drop(s) ==
    /\ "drop" \in Faults /\ sockets[s] = "open" /\ conn[s] # "gone"
    /\ sockets' = [sockets EXCEPT ![s] = "closing"]
    /\ up' = [up EXCEPT ![s] = <<Gone>>] /\ down' = [down EXCEPT ![s] = <<Gone>>]
    /\ UNCHANGED <<client, conn, proc, said>>

----------------------------------------------------------------------------
(* The daemon: handleEnvConnection, and LocalEnv.                          *)

ToClient(s, f) ==
    down' = IF conn[s] = "gone" \/ sockets[s] = "closed" \/ Gone \in Range(down[s]) THEN down
            ELSE [down EXCEPT ![s] = Append(@, f)]

Receive(s, type) ==
    /\ up[s] # <<>> /\ Head(up[s]).type = type
    /\ up' = [up EXCEPT ![s] = Tail(@)]
    /\ UNCHANGED <<client, said>>

Greet(s) ==
    /\ Receive(s, "hello") /\ conn[s] = "greeting"
    /\ conn' = [conn EXCEPT ![s] = "serving"]
    /\ ToClient(s, HelloOk)
    /\ UNCHANGED <<sockets, proc>>

\* drop: a wrong token or version.
Reject(s) ==
    /\ "reject" \in Faults
    /\ Receive(s, "hello") /\ conn[s] = "greeting"
    /\ conn' = [conn EXCEPT ![s] = "gone"]
    /\ down' = [down EXCEPT ![s] = @ \o <<Rejection, Gone>>]
    /\ sockets' = [sockets EXCEPT ![s] = "closing"]
    /\ UNCHANGED proc

\* Every operation runs in a fiber of its own.
RunOp(s) ==
    /\ Receive(s, "request")
    /\ proc' = IF conn[s] = "serving" THEN [proc EXCEPT ![Head(up[s]).call] = "running"] ELSE proc
    /\ UNCHANGED <<sockets, down, conn>>

\* An aborter signals the process group of a command.
Signalled(rs) ==
    [r \in Requests |-> IF r \in rs \cap Execs /\ proc[r] = "running" THEN "aborted" ELSE proc[r]]

ReceiveAbort(s) ==
    /\ Receive(s, "abort")
    /\ proc' = IF conn[s] = "serving" THEN Signalled({Head(up[s]).call}) ELSE proc
    /\ UNCHANGED <<sockets, down, conn>>

\* Mutant: the commands of a connection that ended run on.
ReceiveClose_LetsRun(s) ==
    /\ Receive(s, "close")
    /\ conn' = [conn EXCEPT ![s] = "gone"]
    /\ ToClient(s, Gone)
    /\ UNCHANGED <<sockets, proc>>

\* Whatever still runs on the connection is aborted.
ReceiveClose(s) ==
    /\ Receive(s, "close")
    /\ conn' = [conn EXCEPT ![s] = "gone"]
    /\ proc' = Signalled({r \in Requests : sentOn[r] = s})
    /\ ToClient(s, Gone)
    /\ UNCHANGED sockets

\* The timer of an exec; it also overrides an abort that has not ended yet.
ExecTimer(r) ==
    /\ r \in Execs \cap Timed /\ proc[r] \in {"running", "aborted"}
    /\ proc' = [proc EXCEPT ![r] = "timedOut"]
    /\ UNCHANGED <<client, sockets, up, down, conn, said>>

\* Mutant: the process is reported as ended before its pipes have closed.
Output_AfterEnd(r) ==
    /\ r \in Execs /\ proc[r] # "none" /\ r \notin said
    /\ said' = said \cup {r}
    /\ ToClient(sentOn[r], Frame("stream", r))
    /\ UNCHANGED <<client, sockets, up, conn, proc>>

Output(r) ==
    /\ r \in Execs /\ proc[r] \in {"running", "aborted", "timedOut"} /\ r \notin said
    /\ said' = said \cup {r}
    /\ ToClient(sentOn[r], Frame("stream", r))
    /\ UNCHANGED <<client, sockets, up, conn, proc>>

Ends(r, outcome) ==
    /\ proc' = [proc EXCEPT ![r] = "ended"]
    /\ ToClient(sentOn[r], Frame(outcome, r))
    /\ UNCHANGED <<client, sockets, up, conn, said>>

\* The process and its pipes have closed; "ok" carries any exit code.
ExecEnds(r) ==
    /\ r \in Execs
    /\ \/ proc[r] = "running" /\ \E outcome \in {"ok", "error"} : Ends(r, outcome)
       \/ proc[r] = "timedOut" /\ Ends(r, "timeout")
       \/ proc[r] = "aborted" /\ Ends(r, "aborted")

FileOp(r) ==
    /\ r \in Files /\ proc[r] = "running"
    /\ \E outcome \in {"ok", "error"} : Ends(r, outcome)

----------------------------------------------------------------------------
FromSocket(s) ==
    TakeFailure(s) \/ TakeHelloOk(s) \/ TakeRejection(s) \/ TakeStream(s) \/ TakeResponse(s)
    \/ TakeClose(s)

Daemon(s) == Greet(s) \/ Reject(s) \/ RunOp(s) \/ ReceiveAbort(s) \/ ReceiveClose(s)

Next ==
    \/ \E r \in Requests : Ask(r) \/ Timeout(r) \/ Abort(r)
    \/ HelloTimeout \/ Close
    \/ \E s \in Sockets : Open(s) \/ DialFails(s) \/ FromSocket(s) \/ Drop(s)
    \/ \E s \in Sockets : Daemon(s)
    \/ \E r \in Requests : ExecTimer(r) \/ Output(r) \/ ExecEnds(r) \/ FileOp(r)

Spec == Init /\ [][Next]_vars

\* Frames are delivered, a dial answers, a file operation ends and so does a
\* command that was signalled.
FairSpec ==
    /\ Spec
    /\ \A s \in Sockets : WF_vars(FromSocket(s)) /\ WF_vars(Daemon(s))
                          /\ WF_vars(Open(s) \/ DialFails(s))
    /\ \A r \in Requests : /\ WF_vars(FileOp(r))
                           /\ WF_vars(ExecEnds(r) /\ proc[r] # "running")

----------------------------------------------------------------------------
(* Properties.                                                             *)

FrameTypes == {"hello", "hello_ok", "rejection", "failure", "close", "request", "abort", "stream"}
              \cup Outcomes

TypeOK ==
    /\ socket \in 0 .. MaxSockets /\ attempt \in 0 .. MaxSockets
    /\ connected \in BOOLEAN /\ disposed \in BOOLEAN /\ stray \in BOOLEAN
    /\ calls \in [Requests -> {"idle", "connecting", "waiting"} \cup Outcomes]
    /\ sentOn \in [Requests -> 0 .. MaxSockets]
    /\ heard \subseteq said /\ said \subseteq Execs /\ aborted \subseteq Execs
    /\ sockets \in [Sockets -> {"none", "dialing", "failing", "open", "closing", "closed"}]
    /\ \A q \in {up, down} :
          q \in [Sockets -> Seq([type : FrameTypes, call : Requests \cup {"none"}])]
    /\ conn \in [Sockets -> {"none", "greeting", "serving", "gone"}]
    /\ proc \in [Requests -> {"none", "running", "aborted", "timedOut", "ended"}]

\* A call that waits was sent, on a socket that has still to report its end:
\* it gets its answer, or the failure of its connection.  A handshake that
\* close() overtook leaves it unsent, and the failure is all it gets.  Unless
\* a handshake was given up while its socket lived.
Answerable ==
    ~stray => \A r \in In("waiting") : \E s \in Sockets :
        /\ sockets[s] \in {"open", "closing"}
        /\ sentOn[r] = s \/ (sentOn[r] = 0 /\ disposed)

\* "ok" means that the operation is over at the daemon, and that the caller has
\* heard all the output of a command.
OkIsWhole ==
    \A r \in In("ok") : proc[r] = "ended" /\ (r \in said => r \in heard)

\* A command whose caller aborted it, or ran out of time, or lost the
\* connection, does not run on.  (Not claimed of an abort before the request
\* was sent: the listener is added too late.)
NoOrphans ==
    \A r \in Execs :
        /\ proc[r] = "running"
        /\ \/ r \in aborted \/ calls[r] = "timeout"
           \/ calls[r] = "lost"
        /\ ~stray
        ~> proc[r] # "running"

=============================================================================
