--------------------------- MODULE RemoteEnvProofs ---------------------------
(***************************************************************************)
(* Theorems of RemoteEnv, for any finite set of requests, any number of    *)
(* sockets dialled and whichever faults happen.                            *)
(***************************************************************************)
EXTENDS RemoteEnv, SequenceTheorems, FiniteSetTheorems, TLAPS

Phases == {"idle", "connecting", "waiting"} \cup Outcomes
States == {"none", "dialing", "failing", "open", "closing", "closed"}
Frames == [type : FrameTypes, call : Requests \cup {"none"}]

Typed ==
    /\ socket \in 0 .. MaxSockets /\ attempt \in 0 .. MaxSockets
    /\ connected \in BOOLEAN /\ disposed \in BOOLEAN /\ stray \in BOOLEAN
    /\ calls \in [Requests -> Phases] /\ sentOn \in [Requests -> 0 .. MaxSockets]
    /\ heard \subseteq Requests /\ said \subseteq Execs /\ aborted \subseteq Execs
    /\ sockets \in [Sockets -> States]
    /\ up \in [Sockets -> Seq(Frames)] /\ down \in [Sockets -> Seq(Frames)]
    /\ conn \in [Sockets -> {"none", "greeting", "serving", "gone"}]
    /\ proc \in [Requests -> {"none", "running", "aborted", "timedOut", "ended"}]

Has(q, f) == \E i \in 1 .. Len(q) : q[i] = f
Once(q, f) == \A i, j \in 1 .. Len(q) : q[i] = f /\ q[j] = f => i = j
Req(r) == Frame("request", r)
Stream(r) == Frame("stream", r)
IsAnswer(f, r) == f.type \in Outcomes /\ f.call = r

-----------------------------------------------------------------------------
(* Sockets and the frames on them.                                         *)

\* Sockets are numbered as they are dialled.
Dialled == \E n \in 0 .. MaxSockets : \A s \in Sockets : sockets[s] # "none" <=> s <= n

Alive(s) == sockets[s] \in {"dialing", "failing", "open", "closing"}
Speaks(s) == sockets[s] \in {"open", "closing"}

\* A socket that is not open yet has carried nothing.  Its end is the last thing it
\* reports, the client's hello the first the daemon reads, and both are said once.
SocketAt(s) ==
    /\ sockets[s] \in {"none", "dialing", "failing"} => up[s] = <<>> /\ conn[s] = "none"
    /\ sockets[s] \in {"none", "dialing", "closed"} => down[s] = <<>>
    /\ \A i \in 1 .. Len(down[s]) : down[s][i].type = "close" => down[s][i] = Gone /\ i = Len(down[s])
    /\ \A i \in 1 .. Len(up[s]) : up[s][i].type = "hello" => up[s][i] = Hello /\ i = 1
    /\ Has(up[s], Hello) => /\ Speaks(s) /\ conn[s] = "greeting"
                            /\ ~Has(down[s], Gone) /\ ~Has(down[s], HelloOk)
    /\ \A i, j \in 1 .. Len(down[s]) :
          down[s][i].type = "hello_ok" /\ down[s][j].type = "hello_ok" => i = j
    /\ \A i \in 1 .. Len(down[s]) :
          down[s][i].type = "hello_ok" => down[s][i] = HelloOk /\ Speaks(s)

-----------------------------------------------------------------------------
(* A request goes up once, and its operation runs once.                    *)

AskedAt(r) ==
    /\ calls[r] \in {"idle", "connecting"} => sentOn[r] = 0
    /\ proc[r] # "none" => sentOn[r] # 0 /\ conn[sentOn[r]] \in {"serving", "gone"}
    /\ r \in said => proc[r] # "none"
    /\ \A s \in Sockets : Has(up[s], Req(r)) =>
          sentOn[r] = s /\ proc[r] = "none" /\ Once(up[s], Req(r))

Asked == \A r \in Requests : AskedAt(r)

\* Its answer comes when the operation has ended.
Replied == \A s \in Sockets : \A i \in 1 .. Len(down[s]) : \A r \in Requests :
    /\ IsAnswer(down[s][i], r) => sentOn[r] = s /\ proc[r] = "ended"
    /\ down[s][i] = Stream(r) => r \in said

Heard == heard \subseteq said

\* Nothing the daemon says on a socket reaches the client any more.
Shut(s) == conn[s] = "gone" \/ sockets[s] = "closed" \/ Has(down[s], Gone)

\* Output the caller has not heard is on its way, before the answer, or is lost and
\* so is the answer.
ToldOn(r, s) ==
    /\ Has(down[s], Stream(r)) \/ Shut(s)
    /\ \A j \in 1 .. Len(down[s]) : IsAnswer(down[s][j], r) =>
          \E i \in 1 .. j - 1 : down[s][i] = Stream(r)

Told == \A r \in Requests :
    calls[r] = "waiting" /\ r \in said \ heard => ToldOn(r, sentOn[r])

-----------------------------------------------------------------------------
(* Until a handshake is given up while its socket lives, there is one       *)
(* socket at a time.                                                       *)

Greets(s) == sockets[s] = "dialing" \/ Has(up[s], Hello) \/ Has(down[s], HelloOk)

One ==
    /\ \A s, t \in Sockets : Alive(s) /\ Alive(t) => s = t
    /\ \A s \in Sockets : Greets(s) => attempt = s
    /\ ~disposed => \A s \in Sockets : Alive(s) => attempt = s \/ (connected /\ socket = s)
    /\ attempt # 0 => Alive(attempt) /\ (disposed \/ socket = attempt)
    /\ connected /\ ~disposed => socket # 0 /\ Speaks(socket)
Settled ==
    /\ attempt # 0 => ~connected
    /\ disposed => socket = 0

IInv ==
    /\ Typed
    /\ Dialled /\ \A s \in Sockets : SocketAt(s)
    /\ Asked /\ Replied /\ Heard /\ Told /\ OkIsWhole
    /\ Settled /\ (~stray => One) /\ Answerable

-----------------------------------------------------------------------------
(* Queues of frames.                                                       *)

LEMMA FramesAre ==
    /\ \A t \in FrameTypes : \A r \in Requests \cup {"none"} :
          Frame(t, r) \in Frames /\ Frame(t, r).type = t /\ Frame(t, r).call = r
    /\ {Hello, HelloOk, Rejection, Failure, Gone} \subseteq Frames
    /\ Hello.type = "hello" /\ HelloOk.type = "hello_ok" /\ Gone.type = "close"
    /\ Rejection.type = "rejection" /\ Failure.type = "failure"
BY DEF Frames, Frame, FrameTypes, Hello, HelloOk, Rejection, Failure, Gone

LEMMA Appends ==
    ASSUME NEW q \in Seq(Frames), NEW f \in Frames
    PROVE  LET a == Append(q, f) IN
           /\ a \in Seq(Frames) /\ Len(a) = Len(q) + 1 /\ Len(q) \in Nat
           /\ a[Len(q) + 1] = f /\ \A i \in 1 .. Len(q) : a[i] = q[i]
OBVIOUS

LEMMA Tails ==
    ASSUME NEW q \in Seq(Frames), q # <<>>
    PROVE  LET t == Tail(q) IN
           /\ t \in Seq(Frames) /\ Len(t) = Len(q) - 1 /\ Len(q) \in Nat \ {0} /\ Head(q) = q[1]
           /\ \A i \in 1 .. Len(t) : t[i] = q[i + 1]
OBVIOUS

LEMMA Joins ==
    ASSUME NEW q \in Seq(Frames), NEW e \in Seq(Frames)
    PROVE  LET j == q \o e IN
           /\ j \in Seq(Frames) /\ Len(j) = Len(q) + Len(e) /\ Len(q) \in Nat /\ Len(e) \in Nat
           /\ \A i \in 1 .. Len(q) : j[i] = q[i]
           /\ \A i \in Len(q) + 1 .. Len(q) + Len(e) : j[i] = e[i - Len(q)]
OBVIOUS

LEMMA Few ==
    ASSUME NEW f \in Frames, NEW g \in Frames
    PROVE  /\ <<f>> \in Seq(Frames) /\ Len(<<f>>) = 1 /\ <<f>>[1] = f
           /\ <<f, g>> \in Seq(Frames) /\ Len(<<f, g>>) = 2 /\ <<f, g>>[1] = f /\ <<f, g>>[2] = g
           /\ <<>> \in Seq(Frames) /\ Len(<<>>) = 0
OBVIOUS

LEMMA RangeHas == ASSUME NEW q \in Seq(Frames), NEW f PROVE f \in Range(q) <=> Has(q, f)
BY DEF Range, Has

-----------------------------------------------------------------------------
(* What the actions do to the queues.                                      *)

LEMMA TakeIs ==
    ASSUME Typed, NEW s \in Sockets, NEW type, Take(s, type)
    PROVE  /\ down[s] \in Seq(Frames) /\ down[s] # <<>> /\ down[s][1].type = type
           /\ Head(down[s]) = down[s][1]
           /\ down'[s] = Tail(down[s]) /\ down'[s] \in Seq(Frames)
           /\ \A t \in Sockets \ {s} : down'[t] = down[t]
           /\ down' \in [Sockets -> Seq(Frames)]
<1>1. down \in [Sockets -> Seq(Frames)] /\ down[s] # <<>> /\ Head(down[s]).type = type
      /\ down' = [down EXCEPT ![s] = Tail(@)]
  BY DEF Take, Typed
<1>2. down[s] \in Seq(Frames)
  BY <1>1
<1>3. Tail(down[s]) \in Seq(Frames) /\ Head(down[s]) = down[s][1]
  BY <1>1, <1>2, Tails
<1> QED
  BY <1>1, <1>2, <1>3

LEMMA ReceiveIs ==
    ASSUME Typed, NEW s \in Sockets, NEW type, Receive(s, type)
    PROVE  /\ up[s] \in Seq(Frames) /\ up[s] # <<>> /\ up[s][1].type = type
           /\ Head(up[s]) = up[s][1]
           /\ up'[s] = Tail(up[s]) /\ up'[s] \in Seq(Frames)
           /\ \A t \in Sockets \ {s} : up'[t] = up[t]
           /\ up' \in [Sockets -> Seq(Frames)]
<1>1. up \in [Sockets -> Seq(Frames)] /\ up[s] # <<>> /\ Head(up[s]).type = type
      /\ up' = [up EXCEPT ![s] = Tail(@)]
  BY DEF Receive, Typed
<1>2. up[s] \in Seq(Frames)
  BY <1>1
<1>3. Tail(up[s]) \in Seq(Frames) /\ Head(up[s]) = up[s][1]
  BY <1>1, <1>2, Tails
<1> QED
  BY <1>1, <1>2, <1>3

LEMMA ToClientIs ==
    ASSUME Typed, NEW s \in Sockets, NEW f \in Frames, ToClient(s, f)
    PROVE  /\ down' \in [Sockets -> Seq(Frames)]
           /\ \A t \in Sockets \ {s} : down'[t] = down[t]
           /\ IF Shut(s) THEN down'[s] = down[s] ELSE down'[s] = Append(down[s], f)
<1>1. down \in [Sockets -> Seq(Frames)] /\ down[s] \in Seq(Frames)
  BY DEF Typed
<1>2. Shut(s) <=> conn[s] = "gone" \/ sockets[s] = "closed" \/ Gone \in Range(down[s])
  BY <1>1, RangeHas DEF Shut
<1>3. down' = IF Shut(s) THEN down ELSE [down EXCEPT ![s] = Append(@, f)]
  BY <1>2 DEF ToClient
<1>4. Append(down[s], f) \in Seq(Frames)
  BY <1>1
<1> QED
  BY <1>1, <1>3, <1>4

LEMMA ToDaemonIs ==
    ASSUME Typed, NEW s \in 0 .. MaxSockets, NEW f \in Frames, ToDaemon(s, f)
    PROVE  /\ up' \in [Sockets -> Seq(Frames)]
           /\ \A t \in Sockets \ {s} : up'[t] = up[t]
           /\ s # 0 => s \in Sockets
           /\ s # 0 => IF sockets[s] = "open" THEN up'[s] = Append(up[s], f) ELSE up'[s] = up[s]
<1>1. up \in [Sockets -> Seq(Frames)] /\ (s # 0 => s \in Sockets)
  BY RemoteEnvAssumption DEF Typed, Sockets
<1>2. CASE s = 0
  BY <1>1, <1>2 DEF ToDaemon
<1>3. CASE s # 0
  <2>1. Append(up[s], f) \in Seq(Frames)
    BY <1>1, <1>3
  <2> QED
    BY <1>1, <1>3, <2>1 DEF ToDaemon
<1> QED
  BY <1>2, <1>3

LEMMA ToDaemonUp ==
    ASSUME Typed, NEW f \in Frames, ToDaemon(socket, f), NEW s \in Sockets
    PROVE  up'[s] = up[s] \/ (sockets[s] = "open" /\ up'[s] = Append(up[s], f))
<1>1. socket \in 0 .. MaxSockets
  BY DEF Typed
<1>2. \A t \in Sockets \ {socket} : up'[t] = up[t]
  BY <1>1, ToDaemonIs
<1>3. socket = s => IF sockets[s] = "open" THEN up'[s] = Append(up[s], f) ELSE up'[s] = up[s]
  BY <1>1, ToDaemonIs DEF Sockets
<1> QED
  BY <1>2, <1>3

LEMMA SendUnsent ==
    ASSUME Typed, NEW rs, rs \subseteq Requests, Send(rs), socket = 0 \/ sockets[socket] = "dialing"
    PROVE  /\ calls' \in [Requests -> Phases] /\ up' = up /\ sentOn' = sentOn
           /\ \A r \in Requests \ rs : calls'[r] = calls[r]
           /\ \A r \in rs : calls'[r] = IF socket = 0 THEN "waiting" ELSE "lost"
<1>1. calls \in [Requests -> Phases] /\ {"lost", "waiting"} \subseteq Phases
  BY DEF Typed, Phases, Outcomes
<1>2. /\ calls' = [r \in Requests |->
                       IF r \in rs THEN (IF socket = 0 THEN "waiting" ELSE "lost") ELSE calls[r]]
      /\ UNCHANGED <<sentOn, up>>
  BY DEF Send
<1> QED
  BY <1>1, <1>2

OneEach(e, rs) ==
    /\ \A i \in 1 .. Len(e) : \E r \in rs : e[i] = Req(r)
    /\ \A i, j \in 1 .. Len(e) : e[i] = e[j] => i = j

\* The requests that are sent are new frames behind the others, one each.
LEMMA SendSent ==
    ASSUME Typed, NEW rs, rs \subseteq Requests, Send(rs), socket # 0, sockets[socket] # "dialing"
    PROVE  /\ socket \in Sockets
           /\ calls' \in [Requests -> Phases] /\ sentOn' \in [Requests -> 0 .. MaxSockets]
           /\ up' \in [Sockets -> Seq(Frames)]
           /\ \A r \in Requests \ rs : calls'[r] = calls[r] /\ sentOn'[r] = sentOn[r]
           /\ \A r \in rs : calls'[r] = "waiting" /\ sentOn'[r] = socket
           /\ \A t \in Sockets \ {socket} : up'[t] = up[t]
           /\ sockets[socket] # "open" => up' = up
           /\ \E e \in Seq(Frames) : up'[socket] = up[socket] \o e /\ OneEach(e, rs)
<1>1. /\ calls \in [Requests -> Phases] /\ sentOn \in [Requests -> 0 .. MaxSockets]
      /\ up \in [Sockets -> Seq(Frames)] /\ socket \in Sockets /\ socket \in 0 .. MaxSockets
  BY RemoteEnvAssumption DEF Typed, Sockets
<1>2. {"lost", "waiting"} \subseteq Phases
  BY DEF Phases, Outcomes
<1>a. PICK order \in [1 .. Cardinality(rs) -> rs] :
          /\ \A r \in rs : \E i \in DOMAIN order : order[i] = r
          /\ up' = IF sockets[socket] # "open" THEN up
                   ELSE [up EXCEPT ![socket] = @ \o
                           [i \in DOMAIN order |-> Frame("request", order[i])]]
  BY DEF Send
<1>b. /\ calls' = [r \in Requests |-> IF r \in rs THEN "waiting" ELSE calls[r]]
      /\ sentOn' = [r \in Requests |-> IF r \in rs THEN socket ELSE sentOn[r]]
  BY DEF Send
<1> DEFINE n == Cardinality(rs)
           e == [i \in 1 .. n |-> Req(order[i])]
<1>3. IsFiniteSet(rs)
  BY RemoteEnvAssumption, FS_Subset
<1>4. n \in Nat
  BY <1>3, FS_CardinalityType
<1>5. IsFiniteSet(1 .. n) /\ Cardinality(1 .. n) = n
  BY <1>4, FS_Interval
<1>6. order \in Surjection(1 .. n, rs)
  BY <1>a DEF Surjection
<1>7. order \in Injection(1 .. n, rs)
  BY <1>5, <1>6, FS_Surjection
<1>8. \A i, j \in 1 .. n : order[i] = order[j] => i = j
  BY <1>7 DEF Injection, IsInjective
<1>9. \A i \in 1 .. n : Req(order[i]) \in Frames /\ Req(order[i]).call = order[i] /\ order[i] \in rs
  BY <1>a, FramesAre DEF Req, FrameTypes
<1> HIDE DEF n
<1>10. e \in Seq(Frames) /\ Len(e) = n
  BY <1>4, <1>9
<1>11. \A i \in 1 .. Len(e) : \E r \in rs : e[i] = Req(r)
  BY <1>9, <1>10
<1>12. \A i, j \in 1 .. Len(e) : e[i] = e[j] => i = j
  <2> SUFFICES ASSUME NEW i \in 1 .. n, NEW j \in 1 .. n, e[i] = e[j] PROVE i = j
    BY <1>10
  <2>1. Req(order[i]).call = Req(order[j]).call
    OBVIOUS
  <2> QED
    BY <1>8, <1>9, <2>1
<1>13. up' = IF sockets[socket] # "open" THEN up ELSE [up EXCEPT ![socket] = @ \o e]
  BY <1>a DEF n, Req
<1> HIDE DEF e
<1>14. up[socket] \in Seq(Frames) /\ up[socket] \o e \in Seq(Frames)
  BY <1>1, <1>10
<1>15. /\ up' \in [Sockets -> Seq(Frames)] /\ \A t \in Sockets \ {socket} : up'[t] = up[t]
       /\ sockets[socket] # "open" => up' = up
       /\ sockets[socket] = "open" => up'[socket] = up[socket] \o e
  BY <1>1, <1>13, <1>14
<1>16. \E x \in Seq(Frames) : up'[socket] = up[socket] \o x /\ OneEach(x, rs)
  <2>1. CASE sockets[socket] = "open"
    <3>1. OneEach(e, rs)
      BY <1>11, <1>12 DEF OneEach
    <3> QED
      BY <1>10, <1>15, <2>1, <3>1
  <2>2. CASE sockets[socket] # "open"
    <3>1. <<>> \in Seq(Frames) /\ Len(<<>>) = 0
      BY FramesAre, Few
    <3>2. up'[socket] = up[socket] \o <<>>
      BY <1>14, <1>15, <2>2
    <3>3. OneEach(<<>>, rs)
      BY <3>1 DEF OneEach
    <3> QED
      BY <3>1, <3>2, <3>3
  <2> QED
    BY <2>1, <2>2
<1>17. /\ calls' \in [Requests -> Phases] /\ sentOn' \in [Requests -> 0 .. MaxSockets]
       /\ \A r \in Requests \ rs : calls'[r] = calls[r] /\ sentOn'[r] = sentOn[r]
       /\ \A r \in rs : calls'[r] = "waiting" /\ sentOn'[r] = socket
  BY <1>1, <1>2, <1>b
<1> QED
  BY <1>1, <1>15, <1>16, <1>17

LEMMA SendIs ==
    ASSUME Typed, NEW rs, rs \subseteq Requests, Send(rs)
    PROVE  /\ calls' \in [Requests -> Phases] /\ sentOn' \in [Requests -> 0 .. MaxSockets]
           /\ up' \in [Sockets -> Seq(Frames)]
           /\ \A r \in Requests \ rs : calls'[r] = calls[r] /\ sentOn'[r] = sentOn[r]
           /\ \A r \in rs : calls'[r] \in {"lost", "waiting"}
<1>1. CASE socket = 0 \/ sockets[socket] = "dialing"
  <2>1. sentOn \in [Requests -> 0 .. MaxSockets] /\ up \in [Sockets -> Seq(Frames)]
    BY DEF Typed
  <2> QED
    BY <1>1, <2>1, SendUnsent
<1>2. CASE ~(socket = 0 \/ sockets[socket] = "dialing")
  <2>1. socket # 0 /\ sockets[socket] # "dialing"
    BY <1>2
  <2> QED
    BY <2>1, SendSent
<1> QED
  BY <1>1, <1>2

-----------------------------------------------------------------------------
(* Types.                                                                  *)

LEMMA TypedKept == ASSUME Typed, Asked, Next PROVE Typed'
<1>0. 0 \in 0 .. MaxSockets /\ Sockets \subseteq 0 .. MaxSockets
  BY RemoteEnvAssumption DEF Sockets
<1>1. /\ socket \in 0 .. MaxSockets /\ attempt \in 0 .. MaxSockets
      /\ 0 \in 0 .. MaxSockets /\ Sockets \subseteq 0 .. MaxSockets
      /\ connected \in BOOLEAN /\ disposed \in BOOLEAN /\ stray \in BOOLEAN
      /\ calls \in [Requests -> Phases] /\ sentOn \in [Requests -> 0 .. MaxSockets]
      /\ heard \subseteq Requests /\ said \subseteq Execs /\ aborted \subseteq Execs
      /\ sockets \in [Sockets -> States]
      /\ up \in [Sockets -> Seq(Frames)] /\ down \in [Sockets -> Seq(Frames)]
      /\ conn \in [Sockets -> {"none", "greeting", "serving", "gone"}]
      /\ proc \in [Requests -> {"none", "running", "aborted", "timedOut", "ended"}]
  BY <1>0 DEF Typed
<1>2. \A s \in Sockets : down[s] \in Seq(Frames) /\ up[s] \in Seq(Frames)
  BY <1>1
<1>3. Phases = {"idle", "connecting", "waiting", "ok", "error", "timeout", "aborted", "lost"}
  BY DEF Phases, Outcomes
<1>4. \A r \in Requests : Frame("abort", r) \in Frames /\ Frame("stream", r) \in Frames
      /\ \A o \in Outcomes : Frame(o, r) \in Frames
  BY FramesAre DEF FrameTypes
<1>5. ASSUME NEW r \in Requests, Ask(r) PROVE Typed'
  <2>1. CASE connected
    <3>1. Send({r}) /\ UNCHANGED <<socket, attempt, sockets>>
          /\ UNCHANGED <<connected, heard, aborted, disposed, stray, down, conn, proc, said>>
      BY <1>5, <2>1 DEF Ask, Request
    <3>2. calls' \in [Requests -> Phases] /\ sentOn' \in [Requests -> 0 .. MaxSockets]
          /\ up' \in [Sockets -> Seq(Frames)]
      BY <3>1, SendIs
    <3> QED
      BY <1>1, <3>1, <3>2 DEF Typed
  <2>2. CASE ~connected
    <3> DEFINE s == Cardinality(Used) + 1
    <3>1. /\ calls' = [calls EXCEPT ![r] = "connecting"]
          /\ UNCHANGED <<sentOn, up, connected, heard, aborted, disposed, stray, down, conn, proc, said>>
          /\ \/ UNCHANGED <<socket, attempt, sockets>>
             \/ /\ s \in Sockets /\ attempt' = s /\ socket' = s
                /\ sockets' = [sockets EXCEPT ![s] = "dialing"]
      BY <1>5, <2>2 DEF Ask, Request
    <3> HIDE DEF s
    <3>2. calls' \in [Requests -> Phases] /\ sockets' \in [Sockets -> States]
          /\ socket' \in 0 .. MaxSockets /\ attempt' \in 0 .. MaxSockets
      BY <1>1, <1>3, <3>1 DEF States
    <3> QED
      BY <1>1, <3>1, <3>2 DEF Typed
  <2> QED
    BY <2>1, <2>2
<1>6. ASSUME NEW r \in Requests, Timeout(r) \/ Abort(r) PROVE Typed'
  <2>1. /\ calls' = [calls EXCEPT ![r] = "timeout"] \/ calls' = calls
        /\ aborted' = aborted \/ (aborted' = aborted \cup {r} /\ r \in Execs)
        /\ ToDaemon(socket, Frame("abort", r))
        /\ UNCHANGED <<socket, connected, attempt, sentOn, heard, disposed, stray,
                       sockets, down, conn, proc, said>>
    BY <1>6 DEF Timeout, Abort, Answered
  <2>2. up' \in [Sockets -> Seq(Frames)]
    BY <1>1, <1>4, <2>1, ToDaemonIs
  <2>3. calls' \in [Requests -> Phases] /\ aborted' \subseteq Execs
    BY <1>1, <1>3, <2>1
  <2> QED
    BY <1>1, <2>1, <2>2, <2>3 DEF Typed
<1>7. ASSUME GiveUp PROVE calls' \in [Requests -> Phases] /\ attempt' = 0 /\ socket' = 0
  BY <1>1, <1>3, <1>7 DEF GiveUp
<1>8. CASE HelloTimeout
  BY <1>1, <1>7, <1>8 DEF HelloTimeout, Typed
<1>9. CASE Close
  <2>1. /\ disposed' = TRUE /\ socket' = 0 /\ connected' = FALSE
        /\ UNCHANGED <<attempt, calls, sentOn, heard, aborted, stray, conn, proc, said>>
    BY <1>9 DEF Close
  <2>2. CASE socket = 0
    BY <1>1, <1>9, <2>1, <2>2 DEF Close, Typed
  <2>3. CASE socket # 0 /\ sockets[socket] = "dialing"
    <3>1. /\ sockets' = [sockets EXCEPT ![socket] = "failing"]
          /\ down' = [down EXCEPT ![socket] = <<Failure, Gone>>] /\ UNCHANGED up
      BY <1>9, <2>3 DEF Close
    <3>2. <<Failure, Gone>> \in Seq(Frames)
      BY FramesAre, Few
    <3>3. sockets' \in [Sockets -> States] /\ down' \in [Sockets -> Seq(Frames)]
      BY <1>1, <3>1, <3>2 DEF States
    <3> QED
      BY <1>1, <2>1, <3>1, <3>3 DEF Typed
  <2>4. CASE socket # 0 /\ sockets[socket] # "dialing"
    <3>1. /\ ToDaemon(socket, Gone) /\ UNCHANGED down
          /\ sockets' = [sockets EXCEPT ![socket] = IF @ = "open" THEN "closing" ELSE @]
      BY <1>9, <2>4 DEF Close
    <3>2. up' \in [Sockets -> Seq(Frames)]
      BY <1>1, <3>1, FramesAre, ToDaemonIs
    <3>3. sockets' \in [Sockets -> States]
      BY <1>1, <3>1 DEF States
    <3> QED
      BY <1>1, <2>1, <3>1, <3>2, <3>3 DEF Typed
  <2> QED
    BY <2>2, <2>3, <2>4

<1>10. ASSUME NEW s \in Sockets, Open(s) \/ DialFails(s) \/ Drop(s) PROVE Typed'
  <2>1. /\ sockets' = [sockets EXCEPT ![s] = "open"] \/ sockets' = [sockets EXCEPT ![s] = "failing"]
           \/ sockets' = [sockets EXCEPT ![s] = "closing"]
        /\ conn' = conn \/ conn' = [conn EXCEPT ![s] = "greeting"]
        /\ up' = up \/ up' = [up EXCEPT ![s] = <<Hello>>] \/ up' = [up EXCEPT ![s] = <<Gone>>]
        /\ \/ down' = down
           \/ down' = [down EXCEPT ![s] = <<Failure, Gone>>] \/ down' = [down EXCEPT ![s] = <<Gone>>]
        /\ UNCHANGED <<client, proc, said>>
    BY <1>10 DEF Open, DialFails, Drop, Accepted
  <2>2. <<Failure, Gone>> \in Seq(Frames) /\ <<Hello>> \in Seq(Frames) /\ <<Gone>> \in Seq(Frames)
    BY FramesAre, Few
  <2>3. /\ up' = up \/ \E q \in Seq(Frames) : up' = [up EXCEPT ![s] = q]
        /\ down' = down \/ \E q \in Seq(Frames) : down' = [down EXCEPT ![s] = q]
    BY <2>1, <2>2, Zenon
  <2>5. down' \in [Sockets -> Seq(Frames)] /\ up' \in [Sockets -> Seq(Frames)]
    BY <1>1, <2>3
  <2>4. /\ sockets' \in [Sockets -> States]
        /\ conn' \in [Sockets -> {"none", "greeting", "serving", "gone"}]
    BY <1>1, <2>1 DEF States
  <2> QED
    BY <1>1, <2>1, <2>5, <2>4 DEF Typed, client
<1>11. ASSUME NEW s \in Sockets, TakeFailure(s) \/ TakeRejection(s) PROVE Typed'
  <2>1. /\ \E type \in FrameTypes : Take(s, type)
        /\ (GiveUp /\ stray' = TRUE) \/ UNCHANGED <<attempt, socket, calls, stray>>
        /\ UNCHANGED <<connected, sentOn, heard, sockets, up>>
    BY <1>11 DEF TakeFailure, TakeRejection, FrameTypes
  <2>2. down' \in [Sockets -> Seq(Frames)] /\ UNCHANGED <<aborted, disposed, conn, proc, said>>
    BY <2>1, TakeIs DEF Take
  <2> QED
    BY <1>1, <1>7, <2>1, <2>2 DEF Typed
<1>12. ASSUME NEW s \in Sockets, TakeHelloOk(s) PROVE Typed'
  <2>1. down' \in [Sockets -> Seq(Frames)] /\ UNCHANGED <<aborted, disposed, conn, proc, said>>
        /\ UNCHANGED <<socket, heard, stray, sockets>>
    BY <1>12, TakeIs DEF TakeHelloOk, Take
  <2>2. CASE attempt # 0
    <3>1. attempt' = 0 /\ connected' = TRUE /\ Send(In("connecting"))
      BY <1>12, <2>2 DEF TakeHelloOk
    <3>2. In("connecting") \subseteq Requests
      BY DEF In
    <3>3. calls' \in [Requests -> Phases] /\ sentOn' \in [Requests -> 0 .. MaxSockets]
          /\ up' \in [Sockets -> Seq(Frames)]
      BY <3>1, <3>2, SendIs
    <3> QED
      BY <1>1, <2>1, <3>1, <3>3 DEF Typed
  <2>3. CASE attempt = 0
    BY <1>1, <1>12, <2>1, <2>3 DEF TakeHelloOk, Typed
  <2> QED
    BY <1>1, <2>2, <2>3
<1>13. ASSUME NEW s \in Sockets, TakeStream(s) \/ TakeResponse(s) \/ TakeClose(s) PROVE Typed'
  <2>1. \E type \in FrameTypes : Take(s, type)
    BY <1>13 DEF TakeStream, TakeResponse, TakeClose, FrameTypes
  <2>2. /\ down' \in [Sockets -> Seq(Frames)] /\ UNCHANGED <<aborted, disposed, conn, proc, said>>
        /\ Head(down[s]) = down[s][1] /\ down[s] # <<>>
    BY <2>1, TakeIs DEF Take
  <2>3. UNCHANGED <<sentOn, stray, up>>
    BY <1>13 DEF TakeStream, TakeResponse, TakeClose
  <2>4. CASE TakeStream(s)
    BY <1>1, <2>2, <2>3, <2>4 DEF TakeStream, Typed, In
  <2>5. CASE TakeResponse(s)
    <3> DEFINE f == Head(down[s])
    <3>1. f.type \in Outcomes
      BY <2>5 DEF TakeResponse, Take
    <3>2. calls' = calls \/ calls' = [calls EXCEPT ![f.call] = f.type]
      BY <2>5 DEF TakeResponse, Answered
    <3>3. calls' \in [Requests -> Phases]
      BY <1>1, <3>1, <3>2 DEF Phases
    <3> QED
      BY <1>1, <2>2, <2>3, <2>5, <3>3 DEF TakeResponse, Typed
  <2>6. CASE TakeClose(s)
    <3>1. calls' \in [Requests -> Phases] /\ sockets' \in [Sockets -> States]
      BY <1>1, <1>3, <2>6 DEF TakeClose, States
    <3>2. attempt' \in 0 .. MaxSockets
      BY <1>1, <2>6 DEF TakeClose
    <3> QED
      BY <1>1, <2>2, <2>3, <2>6, <3>1, <3>2 DEF TakeClose, Typed
  <2> QED
    BY <1>13, <2>4, <2>5, <2>6
<1>14. ASSUME NEW s \in Sockets, Daemon(s) PROVE Typed'
  <2>1. \E type \in FrameTypes : Receive(s, type)
    BY <1>14 DEF Daemon, Greet, Reject, RunOp, ReceiveAbort, ReceiveClose, FrameTypes
  <2>2. up' \in [Sockets -> Seq(Frames)] /\ UNCHANGED <<client, said>>
    BY <2>1, ReceiveIs DEF Receive
  <2>3. /\ sockets' = sockets \/ sockets' = [sockets EXCEPT ![s] = "closing"]
        /\ \/ conn' = conn
           \/ conn' = [conn EXCEPT ![s] = "serving"] \/ conn' = [conn EXCEPT ![s] = "gone"]
        /\ \/ proc' = proc \/ proc' = [proc EXCEPT ![Head(up[s]).call] = "running"]
           \/ \E rs : proc' = Signalled(rs)
        /\ \/ down' = down \/ ToClient(s, HelloOk) \/ ToClient(s, Gone)
           \/ down' = [down EXCEPT ![s] = @ \o <<Rejection, Gone>>]
    BY <1>14 DEF Daemon, Greet, Reject, RunOp, ReceiveAbort, ReceiveClose
  <2>4. /\ sockets' \in [Sockets -> States]
        /\ conn' \in [Sockets -> {"none", "greeting", "serving", "gone"}]
    BY <1>1, <2>3 DEF States
  <2>5. proc' \in [Requests -> {"none", "running", "aborted", "timedOut", "ended"}]
    BY <1>1, <2>3 DEF Signalled
  <2>6. down[s] \o <<Rejection, Gone>> \in Seq(Frames)
    BY <1>2, FramesAre, Few
  <2>7. down' \in [Sockets -> Seq(Frames)]
    BY <1>1, <2>3, <2>6, FramesAre, ToClientIs
  <2> QED
    BY <1>1, <2>2, <2>4, <2>5, <2>7 DEF Typed, client
<1>15. ASSUME NEW r \in Requests, ExecTimer(r) \/ Output(r) \/ ExecEnds(r) \/ FileOp(r) PROVE Typed'
  <2>1. /\ UNCHANGED <<client, sockets, up, conn>>
        /\ said' = said \/ (said' = said \cup {r} /\ r \in Execs)
        /\ proc' = proc \/ (\E p \in {"timedOut", "ended"} : proc' = [proc EXCEPT ![r] = p])
        /\ down' = down \/ \E f \in Frames : ToClient(sentOn[r], f)
        /\ proc[r] # "none"
    <3>1. ASSUME NEW o \in Outcomes, proc[r] # "none", Ends(r, o)
          PROVE  /\ UNCHANGED <<client, sockets, up, conn>> /\ said' = said
                 /\ \E p \in {"timedOut", "ended"} : proc' = [proc EXCEPT ![r] = p]
                 /\ \E f \in Frames : ToClient(sentOn[r], f)
      BY <1>4, <3>1 DEF Ends
    <3>2. CASE ExecTimer(r)
      BY <3>2 DEF ExecTimer
    <3>3. CASE Output(r)
      BY <1>4, <3>3 DEF Output
    <3>4. CASE ExecEnds(r) \/ FileOp(r)
      <4>1. proc[r] # "none" /\ \E o \in Outcomes : Ends(r, o)
        BY <3>4 DEF ExecEnds, FileOp, Outcomes
      <4> QED
        BY <3>1, <4>1
    <3> QED
      BY <1>15, <3>2, <3>3, <3>4
  <2>2. sentOn[r] \in Sockets
    BY <1>1, <2>1 DEF Asked, AskedAt, Sockets
  <2>3. down' \in [Sockets -> Seq(Frames)]
    BY <1>1, <2>1, <2>2, ToClientIs
  <2>4. proc' \in [Requests -> {"none", "running", "aborted", "timedOut", "ended"}]
    BY <1>1, <2>1
  <2> QED
    BY <1>1, <2>1, <2>3, <2>4 DEF Typed, client
<1> QED
  BY <1>5, <1>6, <1>8, <1>9, <1>10, <1>11, <1>12, <1>13, <1>14, <1>15 DEF Next, FromSocket

-----------------------------------------------------------------------------
(* The protocol of a socket.                                               *)

LEMMA SocketSame ==
    ASSUME NEW s \in Sockets, SocketAt(s), up'[s] = up[s], down'[s] = down[s],
           conn'[s] = conn[s], sockets'[s] = sockets[s]
    PROVE  SocketAt(s)'
BY DEF SocketAt, Has, Speaks

\* What a step that says neither hello, nor hello_ok, nor the end, does to a socket.
UpQuiet(s) ==
    \/ up'[s] = up[s]
    \/ sockets[s] = "open" /\ \E e \in Seq(Frames) :
          up'[s] = up[s] \o e /\ \A i \in 1 .. Len(e) : e[i].type # "hello"
    \/ up[s] # <<>> /\ up[s][1].type # "hello" /\ up'[s] = Tail(up[s])

DownQuiet(s) ==
    \/ down'[s] = down[s]
    \/ down[s] # <<>> /\ down[s][1].type # "close" /\ down'[s] = Tail(down[s])
    \/ conn[s] # "none" /\ ~Shut(s) /\ \E f \in Frames :
          f.type \notin {"close", "hello_ok"} /\ down'[s] = Append(down[s], f)

LEMMA SocketQuiet ==
    ASSUME Typed, NEW s \in Sockets, SocketAt(s), UpQuiet(s), DownQuiet(s),
           conn'[s] = conn[s],
           sockets'[s] = sockets[s] \/ (sockets[s] = "open" /\ sockets'[s] = "closing")
    PROVE  SocketAt(s)'
<1>1. up[s] \in Seq(Frames) /\ down[s] \in Seq(Frames) /\ Len(up[s]) \in Nat /\ Len(down[s]) \in Nat
  BY DEF Typed
<1>2. /\ \A i \in 1 .. Len(up'[s]) : up'[s][i].type = "hello" =>
             i \in 1 .. Len(up[s]) /\ up'[s][i] = up[s][i] /\ i = 1
      /\ sockets[s] # "open" => up'[s] = up[s] \/ up[s] # <<>>
  <2>1. CASE up'[s] = up[s]
    BY <1>1, <2>1 DEF SocketAt
  <2>2. CASE sockets[s] = "open" /\ \E e \in Seq(Frames) :
                up'[s] = up[s] \o e /\ \A i \in 1 .. Len(e) : e[i].type # "hello"
    <3>1. PICK e \in Seq(Frames) : up'[s] = up[s] \o e /\ \A i \in 1 .. Len(e) : e[i].type # "hello"
      BY <2>2
    <3>2. /\ Len(up'[s]) = Len(up[s]) + Len(e) /\ Len(e) \in Nat
          /\ \A i \in 1 .. Len(up[s]) : up'[s][i] = up[s][i]
          /\ \A i \in Len(up[s]) + 1 .. Len(up[s]) + Len(e) : up'[s][i] = e[i - Len(up[s])]
      BY <1>1, <3>1, Joins
    <3>3. \A i \in 1 .. Len(up'[s]) : i \in 1 .. Len(up[s]) \/ (i - Len(up[s]) \in 1 .. Len(e)
             /\ i \in Len(up[s]) + 1 .. Len(up[s]) + Len(e))
      BY <1>1, <3>2
    <3>4. ASSUME NEW i \in 1 .. Len(up'[s]), up'[s][i].type = "hello" PROVE i \in 1 .. Len(up[s])
      BY <3>1, <3>2, <3>3, <3>4
    <3> QED
      BY <2>2, <3>2, <3>4 DEF SocketAt
  <2>3. CASE up[s] # <<>> /\ up[s][1].type # "hello" /\ up'[s] = Tail(up[s])
    <3>1. /\ Len(up'[s]) = Len(up[s]) - 1 /\ \A i \in 1 .. Len(up'[s]) : up'[s][i] = up[s][i + 1]
      BY <1>1, <2>3, Tails
    <3>2. \A i \in 1 .. Len(up'[s]) : up'[s][i].type # "hello"
      BY <1>1, <3>1 DEF SocketAt
    <3> QED
      BY <2>3, <3>2
  <2> QED
    BY <2>1, <2>2, <2>3 DEF UpQuiet
<1>3. \E k \in {0, 1} : \A i \in 1 .. Len(down'[s]) : down'[s][i].type \in {"close", "hello_ok"} =>
             /\ i + k \in 1 .. Len(down[s]) /\ down'[s][i] = down[s][i + k]
             /\ i + k = Len(down[s]) /\ down'[s][i].type = "close" => i = Len(down'[s])
  <2>1. CASE down'[s] = down[s]
    <3>1. \A i \in 1 .. Len(down'[s]) : i + 0 = i
      BY <1>1, <2>1
    <3> QED
      BY <2>1, <3>1
  <2>2. CASE down[s] # <<>> /\ down[s][1].type # "close" /\ down'[s] = Tail(down[s])
    <3>1. /\ Len(down'[s]) = Len(down[s]) - 1
          /\ \A i \in 1 .. Len(down'[s]) : down'[s][i] = down[s][i + 1]
      BY <1>1, <2>2, Tails
    <3>2. \A i \in 1 .. Len(down'[s]) : i + 1 \in 1 .. Len(down[s])
             /\ (i + 1 = Len(down[s]) => i = Len(down'[s]))
      BY <1>1, <3>1
    <3> QED
      BY <3>1, <3>2
  <2>3. CASE conn[s] # "none" /\ ~Shut(s) /\ \E f \in Frames :
                f.type \notin {"close", "hello_ok"} /\ down'[s] = Append(down[s], f)
    <3>1. PICK f \in Frames : f.type \notin {"close", "hello_ok"} /\ down'[s] = Append(down[s], f)
      BY <2>3
    <3>2. /\ Len(down'[s]) = Len(down[s]) + 1 /\ down'[s][Len(down[s]) + 1] = f
          /\ \A i \in 1 .. Len(down[s]) : down'[s][i] = down[s][i]
      BY <1>1, <3>1, Appends
    <3>3. \A i \in 1 .. Len(down[s]) : down[s][i].type # "close"
      BY <2>3 DEF SocketAt, Shut, Has
    <3>4. \A i \in 1 .. Len(down'[s]) : i + 0 = i /\ (i \in 1 .. Len(down[s]) \/ i = Len(down[s]) + 1)
      BY <1>1, <3>2
    <3> QED
      BY <3>1, <3>2, <3>3, <3>4
  <2> QED
    BY <2>1, <2>2, <2>3 DEF DownQuiet
<1>4. Hello.type = "hello" /\ HelloOk.type = "hello_ok" /\ Gone.type = "close"
  BY FramesAre
<1>5. /\ Has(up'[s], Hello) => Has(up[s], Hello)
      /\ Has(down'[s], Gone) => Has(down[s], Gone)
      /\ Has(down'[s], HelloOk) => Has(down[s], HelloOk)
  BY <1>2, <1>3, <1>4 DEF Has
<1>6. sockets[s] \in {"none", "dialing", "failing"} => up'[s] = <<>> /\ conn'[s] = "none"
  BY <1>2 DEF SocketAt
<1>7. sockets[s] \in {"none", "dialing", "closed"} => down'[s] = <<>>
  BY DEF SocketAt, DownQuiet, Shut
<1>8. \A i \in 1 .. Len(down'[s]) : down'[s][i].type = "close" => down'[s][i] = Gone /\ i = Len(down'[s])
  BY <1>3 DEF SocketAt
<1>9. \A i \in 1 .. Len(up'[s]) : up'[s][i].type = "hello" => up'[s][i] = Hello /\ i = 1
  BY <1>2 DEF SocketAt
<1>10. \A i \in 1 .. Len(down'[s]) :
          down'[s][i].type = "hello_ok" => down'[s][i] = HelloOk /\ Speaks(s)
  BY <1>3 DEF SocketAt
<1>11. \A i, j \in 1 .. Len(down'[s]) :
          down'[s][i].type = "hello_ok" /\ down'[s][j].type = "hello_ok" => i = j
  <2>1. PICK k \in {0, 1} : \A i \in 1 .. Len(down'[s]) : down'[s][i].type = "hello_ok" =>
             i + k \in 1 .. Len(down[s]) /\ down'[s][i] = down[s][i + k]
    BY <1>3
  <2>2. \A i, j \in 1 .. Len(down'[s]) : i + k = j + k => i = j
    OBVIOUS
  <2> QED
    BY <2>1, <2>2 DEF SocketAt
<1>12. Has(up'[s], Hello) => /\ Speaks(s) /\ conn[s] = "greeting"
                            /\ ~Has(down'[s], Gone) /\ ~Has(down'[s], HelloOk)
  BY <1>3, <1>4, <1>5 DEF SocketAt, Has
<1>13. Speaks(s)' <=> Speaks(s)
  BY DEF Speaks
<1>14. /\ sockets'[s] \in {"none", "dialing", "failing"} => up'[s] = <<>> /\ conn'[s] = "none"
       /\ sockets'[s] \in {"none", "dialing", "closed"} => down'[s] = <<>>
       /\ \A i \in 1 .. Len(down'[s]) : down'[s][i].type = "close" => down'[s][i] = Gone /\ i = Len(down'[s])
       /\ \A i \in 1 .. Len(up'[s]) : up'[s][i].type = "hello" => up'[s][i] = Hello /\ i = 1
       /\ Has(up'[s], Hello) => /\ Speaks(s)' /\ conn'[s] = "greeting"
                                /\ ~Has(down'[s], Gone) /\ ~Has(down'[s], HelloOk)
       /\ \A i, j \in 1 .. Len(down'[s]) :
             down'[s][i].type = "hello_ok" /\ down'[s][j].type = "hello_ok" => i = j
       /\ \A i \in 1 .. Len(down'[s]) :
             down'[s][i].type = "hello_ok" => down'[s][i] = HelloOk /\ Speaks(s)'
  BY <1>6, <1>7, <1>8, <1>9, <1>10, <1>11, <1>12, <1>13
<1> QED
  BY <1>14 DEF SocketAt, Has, Hello, HelloOk, Gone, Frame

\* The end of the list of sockets.
LEMMA NextSocket ==
    ASSUME Dialled, Cardinality(Used) + 1 \in Sockets
    PROVE  LET s == Cardinality(Used) + 1 IN
           /\ s \in 1 .. MaxSockets /\ sockets[s] = "none"
           /\ \A t \in Sockets : sockets[t] # "none" <=> t <= s - 1
<1>1. PICK n \in 0 .. MaxSockets : \A s \in Sockets : sockets[s] # "none" <=> s <= n
  BY DEF Dialled
<1>2. Used = 1 .. n
  BY <1>1, RemoteEnvAssumption DEF Used, Sockets
<1>3. Cardinality(1 .. n) = n
  BY <1>1, RemoteEnvAssumption, FS_Interval
<1>4. Cardinality(Used) = n /\ n \in Nat /\ n + 1 \in Sockets
  BY <1>1, <1>2, <1>3, RemoteEnvAssumption
<1> QED
  BY <1>1, <1>4 DEF Sockets

LEMMA ReceiveSpeaks ==
    ASSUME Typed, NEW s \in Sockets, SocketAt(s), NEW type, Receive(s, type)
    PROVE  /\ sockets[s] \notin {"none", "dialing", "failing"}
           /\ \A i \in 1 .. Len(up'[s]) : up'[s][i].type # "hello"
           /\ \A i \in 1 .. Len(up'[s]) : i + 1 \in 1 .. Len(up[s]) /\ up'[s][i] = up[s][i + 1]
<1>1. up[s] \in Seq(Frames) /\ up[s] # <<>> /\ up'[s] = Tail(up[s])
  BY ReceiveIs
<1>2. /\ Len(up'[s]) = Len(up[s]) - 1 /\ Len(up[s]) \in Nat
      /\ \A i \in 1 .. Len(up'[s]) : up'[s][i] = up[s][i + 1]
  BY <1>1, Tails
<1>3. \A i \in 1 .. Len(up'[s]) : i + 1 \in 1 .. Len(up[s]) /\ i + 1 # 1
  BY <1>2
<1> QED
  BY <1>1, <1>2, <1>3 DEF SocketAt

\* A socket that carries nothing yet may be dialled, opened or refused.
LEMMA SocketFails ==
    ASSUME NEW s \in Sockets, SocketAt(s), sockets[s] = "dialing", sockets'[s] = "failing",
           up'[s] = up[s], conn'[s] = conn[s], down'[s] = <<Failure, Gone>>
    PROVE  SocketAt(s)'
<1>1. up'[s] = <<>> /\ conn'[s] = "none"
  BY DEF SocketAt
<1>2. /\ Len(<<Failure, Gone>>) = 2 /\ <<Failure, Gone>>[1] = Failure /\ <<Failure, Gone>>[2] = Gone
  OBVIOUS
<1>3. Len(<<>>) = 0
  OBVIOUS
<1>4. \A i \in 1 .. 2 : i = 1 \/ i = 2
  OBVIOUS
<1>5. Failure.type = "failure" /\ Gone.type = "close"
  BY FramesAre
<1>6. \A i \in 1 .. Len(down'[s]) : /\ down'[s][i].type # "hello_ok"
                                    /\ down'[s][i].type = "close" => down'[s][i] = Gone /\ i = Len(down'[s])
  BY <1>2, <1>4, <1>5
<1>7. \A i \in 1 .. Len(up'[s]) : FALSE
  BY <1>1, <1>3
<1> QED
  BY <1>1, <1>6, <1>7 DEF SocketAt, Has, Gone, Hello, HelloOk, Frame

LEMMA SendQuiet ==
    ASSUME Typed, NEW rs, rs \subseteq Requests, Send(rs), NEW t \in Sockets
    PROVE  UpQuiet(t)
<1>1. CASE socket = 0 \/ sockets[socket] = "dialing"
  <2>1. up' = up
    BY <1>1, SendUnsent
  <2> QED
    BY <2>1 DEF UpQuiet
<1>2. ASSUME socket # 0, sockets[socket] # "dialing" PROVE UpQuiet(t)
  <2>1. /\ \A x \in Sockets \ {socket} : up'[x] = up[x]
        /\ sockets[socket] # "open" => up' = up
    BY <1>2, SendSent
  <2>2. PICK e \in Seq(Frames) : up'[socket] = up[socket] \o e /\ OneEach(e, rs)
    BY <1>2, SendSent
  <2>3. \A r \in Requests : Req(r).type # "hello"
    BY FramesAre DEF Req, FrameTypes
  <2>4. \A i \in 1 .. Len(e) : e[i].type # "hello"
    BY <2>2, <2>3 DEF OneEach
  <2> QED
    BY <2>1, <2>2, <2>4 DEF UpQuiet
<1> QED
  BY <1>1, <1>2

LEMMA SocketKept ==
    ASSUME Typed, Dialled, \A s \in Sockets : SocketAt(s), Asked, Next, NEW t \in Sockets
    PROVE  SocketAt(t)'
<1> SocketAt(t) /\ t \in 1 .. MaxSockets
  BY DEF Sockets
<1>1. up[t] \in Seq(Frames) /\ down[t] \in Seq(Frames) /\ Len(up[t]) \in Nat /\ Len(down[t]) \in Nat
  BY DEF Typed
<1>2. ASSUME NEW rs, rs \subseteq Requests, Send(rs) PROVE UpQuiet(t)
  BY <1>2, SendQuiet
<1>3. ASSUME NEW f \in Frames, f.type # "hello", ToDaemon(socket, f) PROVE UpQuiet(t)
  <2>1. socket \in 0 .. MaxSockets
    BY DEF Typed
  <2>2. up'[t] = up[t] \/ (sockets[t] = "open" /\ up'[t] = Append(up[t], f))
    BY <1>3, <2>1, ToDaemonIs DEF Sockets
  <2>3. /\ Append(up[t], f) = up[t] \o <<f>> /\ <<f>> \in Seq(Frames)
        /\ Len(<<f>>) = 1 /\ <<f>>[1] = f
    BY <1>1, <1>3
  <2>4. \A i \in 1 .. Len(<<f>>) : <<f>>[i].type # "hello"
    BY <1>3, <2>3
  <2> QED
    BY <2>2, <2>3, <2>4 DEF UpQuiet
<1>4. ASSUME NEW s \in Sockets, NEW type, type # "close", Take(s, type) PROVE DownQuiet(t)
  BY <1>4, TakeIs DEF DownQuiet
<1>5. ASSUME NEW r \in Requests, Ask(r) PROVE SocketAt(t)'
  <2>1. UNCHANGED <<down, conn>>
    BY <1>5 DEF Ask, Request
  <2>2. CASE connected
    <3>1. Send({r}) /\ UNCHANGED sockets
      BY <1>5, <2>2 DEF Ask, Request
    <3> QED
      BY <1>2, <2>1, <3>1, SocketQuiet DEF DownQuiet
  <2>3. CASE ~connected
    <3> DEFINE s == Cardinality(Used) + 1
    <3>1. /\ UNCHANGED up
          /\ \/ UNCHANGED sockets
             \/ s \in Sockets /\ sockets' = [sockets EXCEPT ![s] = "dialing"]
      BY <1>5, <2>3 DEF Ask, Request
    <3>2. s \in Sockets => sockets[s] = "none"
      BY NextSocket
    <3> HIDE DEF s
    <3>3. CASE sockets'[t] = sockets[t]
      BY <2>1, <3>1, <3>3, SocketSame
    <3>4. CASE sockets'[t] # sockets[t]
      <4>1. t = s /\ sockets[t] = "none" /\ sockets'[t] = "dialing"
        BY <3>1, <3>2, <3>4 DEF Typed
      <4>2. up'[t] = <<>> /\ conn'[t] = "none" /\ down'[t] = <<>>
        BY <2>1, <3>1, <4>1 DEF SocketAt
      <4> QED
        BY <4>1, <4>2 DEF SocketAt, Has
    <3> QED
      BY <3>3, <3>4
  <2> QED
    BY <2>2, <2>3
<1>6. ASSUME NEW r \in Requests, Timeout(r) \/ Abort(r) PROVE SocketAt(t)'
  <2>1. ToDaemon(socket, Frame("abort", r)) /\ UNCHANGED <<sockets, down, conn>>
    BY <1>6 DEF Timeout, Abort
  <2>2. Frame("abort", r) \in Frames /\ Frame("abort", r).type = "abort"
    BY FramesAre DEF FrameTypes
  <2>3. UpQuiet(t)
    BY <1>3, <2>1, <2>2
  <2> QED
    BY <2>1, <2>3, SocketQuiet DEF DownQuiet
<1>7. CASE HelloTimeout
  BY <1>7, SocketSame DEF HelloTimeout
<1>8. CASE Close
  <2>1. UNCHANGED conn
    BY <1>8 DEF Close
  <2>2. CASE socket = 0
    BY <1>8, <2>1, <2>2, SocketSame DEF Close
  <2>3. CASE socket # 0 /\ sockets[socket] = "dialing"
    <3>1. /\ sockets' = [sockets EXCEPT ![socket] = "failing"]
          /\ down' = [down EXCEPT ![socket] = <<Failure, Gone>>] /\ UNCHANGED up
      BY <1>8, <2>3 DEF Close
    <3>2. CASE t = socket
      BY <2>1, <2>3, <3>1, <3>2, SocketFails DEF Typed
    <3>3. CASE t # socket
      BY <2>1, <3>1, <3>3, SocketSame DEF Typed
    <3> QED
      BY <3>2, <3>3
  <2>4. CASE socket # 0 /\ sockets[socket] # "dialing"
    <3>1. /\ ToDaemon(socket, Gone) /\ UNCHANGED down
          /\ sockets' = [sockets EXCEPT ![socket] = IF @ = "open" THEN "closing" ELSE @]
      BY <1>8, <2>4 DEF Close
    <3>2. UpQuiet(t)
      BY <1>3, <3>1, FramesAre
    <3>3. sockets'[t] = sockets[t] \/ (sockets[t] = "open" /\ sockets'[t] = "closing")
      BY <3>1 DEF Typed
    <3> QED
      BY <2>1, <3>1, <3>2, <3>3, SocketQuiet DEF DownQuiet
  <2> QED
    BY <2>2, <2>3, <2>4

<1>9. ASSUME NEW s \in Sockets, Open(s) PROVE SocketAt(t)'
  <2>1. /\ sockets[s] = "dialing" /\ sockets' = [sockets EXCEPT ![s] = "open"]
        /\ conn' = [conn EXCEPT ![s] = "greeting"] /\ up' = [up EXCEPT ![s] = <<Hello>>]
        /\ UNCHANGED down
    BY <1>9 DEF Open, Accepted
  <2>2. CASE t = s
    <3>1. /\ sockets'[t] = "open" /\ conn'[t] = "greeting" /\ up'[t] = <<Hello>> /\ down'[t] = <<>>
      BY <2>1, <2>2 DEF Typed, SocketAt
    <3>2. \A i \in 1 .. Len(up'[t]) : up'[t][i] = Hello /\ i = 1
      BY <3>1
    <3>3. \A i \in 1 .. Len(down'[t]) : FALSE
      BY <3>1
    <3> QED
      BY <3>1, <3>2, <3>3 DEF SocketAt, Has, Speaks, Hello, Frame
  <2>3. CASE t # s
    BY <2>1, <2>3, SocketSame DEF Typed
  <2> QED
    BY <2>2, <2>3
<1>10. ASSUME NEW s \in Sockets, DialFails(s) PROVE SocketAt(t)'
  <2>1. /\ sockets[s] = "dialing" /\ sockets' = [sockets EXCEPT ![s] = "failing"]
        /\ down' = [down EXCEPT ![s] = <<Failure, Gone>>] /\ UNCHANGED <<up, conn>>
    BY <1>10 DEF DialFails
  <2>2. CASE t = s
    BY <2>1, <2>2, SocketFails DEF Typed
  <2>3. CASE t # s
    BY <2>1, <2>3, SocketSame DEF Typed
  <2> QED
    BY <2>2, <2>3
<1>11. ASSUME NEW s \in Sockets, Drop(s) PROVE SocketAt(t)'
  <2>1. /\ sockets[s] = "open" /\ sockets' = [sockets EXCEPT ![s] = "closing"]
        /\ up' = [up EXCEPT ![s] = <<Gone>>] /\ down' = [down EXCEPT ![s] = <<Gone>>]
        /\ UNCHANGED conn
    BY <1>11 DEF Drop
  <2>2. CASE t = s
    <3>1. sockets'[t] = "closing" /\ up'[t] = <<Gone>> /\ down'[t] = <<Gone>>
      BY <2>1, <2>2 DEF Typed
    <3>2. /\ \A i \in 1 .. Len(up'[t]) : up'[t][i] = Gone
          /\ \A i \in 1 .. Len(down'[t]) : down'[t][i] = Gone /\ i = Len(down'[t])
      BY <3>1
    <3>3. Gone.type = "close" /\ Hello.type = "hello"
      BY FramesAre
    <3> QED
      BY <3>1, <3>2, <3>3 DEF SocketAt, Has, Gone, Hello, Frame
  <2>3. CASE t # s
    BY <2>1, <2>3, SocketSame DEF Typed
  <2> QED
    BY <2>2, <2>3
<1>12. ASSUME NEW s \in Sockets,
              TakeFailure(s) \/ TakeRejection(s) \/ TakeStream(s) \/ TakeResponse(s)
       PROVE  SocketAt(t)'
  <2>1. /\ \E type : type # "close" /\ Take(s, type)
        /\ UNCHANGED <<sockets, up, conn>>
    BY <1>12 DEF TakeFailure, TakeRejection, TakeStream, TakeResponse, Take, Outcomes
  <2>2. DownQuiet(t)
    BY <1>4, <2>1
  <2> QED
    BY <2>1, <2>2, SocketQuiet DEF UpQuiet
<1>13. ASSUME NEW s \in Sockets, TakeHelloOk(s) PROVE SocketAt(t)'
  <2>1. Take(s, "hello_ok") /\ UNCHANGED <<sockets, conn>>
        /\ (Send(In("connecting")) \/ UNCHANGED up)
    BY <1>13 DEF TakeHelloOk, Take
  <2>2. In("connecting") \subseteq Requests
    BY DEF In
  <2>3. DownQuiet(t) /\ UpQuiet(t)
    BY <1>2, <1>4, <2>1, <2>2 DEF UpQuiet
  <2> QED
    BY <2>1, <2>3, SocketQuiet
<1>14. ASSUME NEW s \in Sockets, TakeClose(s) PROVE SocketAt(t)'
  <2>1. Take(s, "close") /\ sockets' = [sockets EXCEPT ![s] = "closed"] /\ UNCHANGED <<up, conn>>
    BY <1>14 DEF TakeClose, Take
  <2>2. CASE t = s
    <3>1. /\ down[t] # <<>> /\ down[t][1].type = "close" /\ down'[t] = Tail(down[t])
      BY <2>1, <2>2, TakeIs
    <3>2. 1 \in 1 .. Len(down[t])
      BY <1>1, <3>1
    <3>3. down[t][1] = Gone /\ 1 = Len(down[t])
      BY <3>1, <3>2 DEF SocketAt
    <3>4. down'[t] = <<>>
      <4>1. down'[t] \in Seq(Frames) /\ Len(down'[t]) = 0
        BY <1>1, <3>1, <3>3, Tails
      <4> QED
        BY <4>1
    <3>5. sockets'[t] = "closed"
      BY <2>1, <2>2 DEF Typed
    <3>6. Has(down[t], Gone)
      BY <3>2, <3>3 DEF Has
    <3>7. ~Has(up'[t], Hello)
      BY <2>1, <3>6 DEF SocketAt
    <3>8. \A i \in 1 .. Len(down'[t]) : FALSE
      BY <3>4
    <3> QED
      BY <2>1, <3>4, <3>5, <3>7, <3>8 DEF SocketAt, Has, Hello, Frame
  <2>3. CASE t # s
    <3>1. up'[t] = up[t] /\ down'[t] = down[t]
      BY <2>1, <2>3, TakeIs DEF Typed
    <3>2. conn'[t] = conn[t] /\ sockets'[t] = sockets[t]
      BY <2>1, <2>3 DEF Typed
    <3> QED
      BY <3>1, <3>2, SocketSame
  <2> QED
    BY <2>2, <2>3
<1>15. ASSUME NEW s \in Sockets, Greet(s) PROVE SocketAt(t)'
  <2>1. /\ Receive(s, "hello") /\ conn[s] = "greeting" /\ ToClient(s, HelloOk)
        /\ conn' = [conn EXCEPT ![s] = "serving"] /\ UNCHANGED sockets
    BY <1>15 DEF Greet
  <2>2. CASE t = s
    <3>1. /\ up[t] # <<>> /\ up[t][1].type = "hello"
      BY <2>1, <2>2, ReceiveIs
    <3>2. up[t][1] = Hello /\ 1 \in 1 .. Len(up[t])
      BY <1>1, <3>1 DEF SocketAt
    <3>3. Has(up[t], Hello)
      BY <3>2 DEF Has
    <3>4. Speaks(t) /\ ~Has(down[t], Gone) /\ ~Has(down[t], HelloOk)
      BY <3>3 DEF SocketAt
    <3>5. ~Shut(t)
      BY <2>1, <2>2, <3>4 DEF Shut, Speaks
    <3>6. down'[t] = Append(down[t], HelloOk) /\ HelloOk \in Frames
      BY <2>1, <2>2, <3>5, ToClientIs, FramesAre
    <3>7. /\ Len(down'[t]) = Len(down[t]) + 1 /\ down'[t][Len(down[t]) + 1] = HelloOk
          /\ \A i \in 1 .. Len(down[t]) : down'[t][i] = down[t][i]
      BY <1>1, <3>6, Appends
    <3>8. \A i \in 1 .. Len(down'[t]) : i \in 1 .. Len(down[t]) \/ i = Len(down[t]) + 1
      BY <1>1, <3>7
    <3>9. \A i \in 1 .. Len(down[t]) : down[t][i].type # "close" /\ down[t][i].type # "hello_ok"
      BY <3>4 DEF SocketAt, Has
    <3>10. \A i \in 1 .. Len(down'[t]) : /\ down'[t][i].type # "close"
                                         /\ down'[t][i].type = "hello_ok" =>
                                               down'[t][i] = HelloOk /\ i = Len(down[t]) + 1
      BY <3>7, <3>8, <3>9, FramesAre
    <3>11. \A i \in 1 .. Len(up'[t]) : up'[t][i].type # "hello"
      BY <2>1, <2>2, ReceiveSpeaks
    <3>12. ~Has(up'[t], Hello)
      BY <3>11, FramesAre DEF Has
    <3>13. sockets'[t] \in {"open", "closing"}
      BY <2>1, <3>4 DEF Speaks
    <3> QED
      BY <3>10, <3>11, <3>12, <3>13 DEF SocketAt, Has, Speaks, Hello, HelloOk, Frame
  <2>3. CASE t # s
    <3>a. HelloOk \in Frames /\ Gone \in Frames
      BY FramesAre
    <3>b. down'[t] = down[t]
      BY <2>1, <2>3, <3>a, ToClientIs
    <3>1. up'[t] = up[t] /\ down'[t] = down[t]
      BY <2>1, <2>3, <3>b, ReceiveIs
    <3>2. conn'[t] = conn[t] /\ sockets'[t] = sockets[t]
      BY <2>1, <2>3 DEF Typed
    <3> QED
      BY <3>1, <3>2, SocketSame
  <2> QED
    BY <2>2, <2>3
<1>16. ASSUME NEW s \in Sockets, Reject(s) PROVE SocketAt(t)'
  <2>1. /\ Receive(s, "hello") /\ conn[s] = "greeting"
        /\ conn' = [conn EXCEPT ![s] = "gone"]
        /\ down' = [down EXCEPT ![s] = @ \o <<Rejection, Gone>>]
        /\ sockets' = [sockets EXCEPT ![s] = "closing"]
    BY <1>16 DEF Reject
  <2>2. CASE t = s
    <3>1. /\ up[t] # <<>> /\ up[t][1].type = "hello"
      BY <2>1, <2>2, ReceiveIs
    <3>2. up[t][1] = Hello /\ 1 \in 1 .. Len(up[t])
      BY <1>1, <3>1 DEF SocketAt
    <3>3. Has(up[t], Hello)
      BY <3>2 DEF Has
    <3>4. ~Has(down[t], Gone) /\ ~Has(down[t], HelloOk)
      BY <3>3 DEF SocketAt
    <3> DEFINE e == <<Rejection, Gone>>
    <3>5. down'[t] = down[t] \o e /\ sockets'[t] = "closing"
      BY <2>1, <2>2 DEF Typed
    <3>6. e \in Seq(Frames) /\ Len(e) = 2 /\ e[1] = Rejection /\ e[2] = Gone
      BY FramesAre, Few
    <3> HIDE DEF e
    <3> DEFINE j == down[t] \o e
    <3>d. /\ Len(j) = Len(down[t]) + Len(e)
          /\ \A i \in 1 .. Len(down[t]) : j[i] = down[t][i]
          /\ \A i \in Len(down[t]) + 1 .. Len(down[t]) + Len(e) : j[i] = e[i - Len(down[t])]
      BY <1>1, <3>6, Joins
    <3>a. /\ Len(down'[t]) = Len(down[t]) + Len(e)
          /\ \A i \in 1 .. Len(down[t]) : down'[t][i] = down[t][i]
          /\ \A i \in Len(down[t]) + 1 .. Len(down[t]) + Len(e) : down'[t][i] = e[i - Len(down[t])]
      BY <3>5, <3>d
    <3> HIDE DEF j
    <3>7. /\ Len(down'[t]) = Len(down[t]) + 2
          /\ \A i \in 1 .. Len(down[t]) : down'[t][i] = down[t][i]
          /\ \A i \in Len(down[t]) + 1 .. Len(down[t]) + 2 : down'[t][i] = e[i - Len(down[t])]
      BY <3>6, <3>a
    <3>b. /\ Len(down[t]) + 1 \in Len(down[t]) + 1 .. Len(down[t]) + 2
          /\ Len(down[t]) + 2 \in Len(down[t]) + 1 .. Len(down[t]) + 2
          /\ (Len(down[t]) + 1) - Len(down[t]) = 1 /\ (Len(down[t]) + 2) - Len(down[t]) = 2
      BY <1>1
    <3>c. /\ down'[t][Len(down[t]) + 1] = Rejection /\ down'[t][Len(down[t]) + 2] = Gone
      BY <3>6, <3>7, <3>b
    <3>8. /\ down'[t][Len(down[t]) + 1] = Rejection /\ down'[t][Len(down[t]) + 2] = Gone
          /\ \A i \in 1 .. Len(down'[t]) :
                i \in 1 .. Len(down[t]) \/ i = Len(down[t]) + 1 \/ i = Len(down[t]) + 2
      BY <1>1, <3>7, <3>c
    <3>9. \A i \in 1 .. Len(down[t]) : down[t][i].type # "close" /\ down[t][i].type # "hello_ok"
      BY <3>4 DEF SocketAt, Has
    <3>10. \A i \in 1 .. Len(down'[t]) : /\ down'[t][i].type # "hello_ok"
                                         /\ down'[t][i].type = "close" =>
                                               down'[t][i] = Gone /\ i = Len(down'[t])
      BY <3>7, <3>8, <3>9, FramesAre
    <3>11. \A i \in 1 .. Len(up'[t]) : up'[t][i].type # "hello"
      BY <2>1, <2>2, ReceiveSpeaks
    <3>12. ~Has(up'[t], Hello)
      BY <3>11, FramesAre DEF Has
    <3> QED
      BY <3>5, <3>10, <3>11, <3>12 DEF SocketAt, Has, Gone, Hello, Frame
  <2>3. CASE t # s
    <3>1. up'[t] = up[t] /\ down'[t] = down[t]
      BY <2>1, <2>3, ReceiveIs DEF Typed
    <3>2. conn'[t] = conn[t] /\ sockets'[t] = sockets[t]
      BY <2>1, <2>3 DEF Typed
    <3> QED
      BY <3>1, <3>2, SocketSame
  <2> QED
    BY <2>2, <2>3
<1>17. ASSUME NEW s \in Sockets, RunOp(s) \/ ReceiveAbort(s) PROVE SocketAt(t)'
  <2>1. (\E type : type # "hello" /\ Receive(s, type)) /\ UNCHANGED <<sockets, down, conn>>
    BY <1>17 DEF RunOp, ReceiveAbort
  <2>2. UpQuiet(t)
    BY <2>1, ReceiveIs DEF UpQuiet
  <2> QED
    BY <2>1, <2>2, SocketQuiet DEF DownQuiet
<1>18. ASSUME NEW s \in Sockets, ReceiveClose(s) PROVE SocketAt(t)'
  <2>1. /\ Receive(s, "close") /\ ToClient(s, Gone)
        /\ conn' = [conn EXCEPT ![s] = "gone"] /\ UNCHANGED sockets
    BY <1>18 DEF ReceiveClose
  <2>2. CASE t = s
    <3>1. sockets[t] \notin {"none", "dialing", "failing"}
          /\ \A i \in 1 .. Len(up'[t]) : up'[t][i].type # "hello"
      BY <2>1, <2>2, ReceiveSpeaks
    <3>2. ~Has(up'[t], Hello)
      BY <3>1, FramesAre DEF Has
    <3>3. CASE Shut(t)
      <4>1. down'[t] = down[t]
        BY <2>1, <2>2, <3>3, FramesAre, ToClientIs
      <4> QED
        BY <2>1, <3>1, <3>2, <4>1 DEF SocketAt, Has, Speaks, Gone, Hello, HelloOk, Frame
    <3>4. CASE ~Shut(t)
      <4>1. down'[t] = Append(down[t], Gone) /\ Gone \in Frames /\ Gone.type = "close"
        BY <2>1, <2>2, <3>4, FramesAre, ToClientIs
      <4>2. /\ Len(down'[t]) = Len(down[t]) + 1 /\ down'[t][Len(down[t]) + 1] = Gone
            /\ \A i \in 1 .. Len(down[t]) : down'[t][i] = down[t][i]
        BY <1>1, <4>1, Appends
      <4>3. \A i \in 1 .. Len(down'[t]) : i \in 1 .. Len(down[t]) \/ i = Len(down[t]) + 1
        BY <1>1, <4>2
      <4>4. \A i \in 1 .. Len(down[t]) : down[t][i].type # "close"
        BY <3>4 DEF SocketAt, Has, Shut
      <4>5. sockets'[t] \notin {"none", "dialing", "failing", "closed"}
        BY <2>1, <3>1, <3>4 DEF Shut
      <4>6. \A i \in 1 .. Len(down'[t]) :
               /\ down'[t][i].type = "close" => down'[t][i] = Gone /\ i = Len(down'[t])
               /\ down'[t][i].type = "hello_ok" => i \in 1 .. Len(down[t]) /\ down'[t][i] = down[t][i]
        BY <4>1, <4>2, <4>3, <4>4
      <4>7. Speaks(t)' <=> Speaks(t)
        BY <2>1 DEF Speaks
      <4>8. \A i \in 1 .. Len(down'[t]) :
               down'[t][i].type = "hello_ok" => down'[t][i] = HelloOk /\ Speaks(t)'
        BY <4>6, <4>7 DEF SocketAt
      <4>9. \A i, j \in 1 .. Len(down'[t]) :
               down'[t][i].type = "hello_ok" /\ down'[t][j].type = "hello_ok" => i = j
        <5>1. \A i, j \in 1 .. Len(down[t]) :
                 down[t][i].type = "hello_ok" /\ down[t][j].type = "hello_ok" => i = j
          BY DEF SocketAt
        <5> QED
          BY <4>6, <5>1
      <4> QED
        BY <3>1, <3>2, <4>5, <4>6, <4>8, <4>9 DEF SocketAt, Has, Gone, Hello, HelloOk, Frame
    <3> QED
      BY <3>3, <3>4
  <2>3. CASE t # s
    <3>a. HelloOk \in Frames /\ Gone \in Frames
      BY FramesAre
    <3>b. down'[t] = down[t]
      BY <2>1, <2>3, <3>a, ToClientIs
    <3>1. up'[t] = up[t] /\ down'[t] = down[t]
      BY <2>1, <2>3, <3>b, ReceiveIs
    <3>2. conn'[t] = conn[t] /\ sockets'[t] = sockets[t]
      BY <2>1, <2>3 DEF Typed
    <3> QED
      BY <3>1, <3>2, SocketSame
  <2> QED
    BY <2>2, <2>3
<1>19. ASSUME NEW r \in Requests, ExecTimer(r) PROVE SocketAt(t)'
  BY <1>19, SocketSame DEF ExecTimer
<1>20. ASSUME NEW r \in Requests, Output(r) \/ ExecEnds(r) \/ FileOp(r) PROVE SocketAt(t)'
  <2>1. /\ proc[r] # "none" /\ UNCHANGED <<sockets, up, conn>>
        /\ \E ty \in Outcomes \cup {"stream"} : ToClient(sentOn[r], Frame(ty, r))
    BY <1>20 DEF Output, ExecEnds, FileOp, Ends, Outcomes
  <2>2. sentOn[r] \in Sockets /\ conn[sentOn[r]] # "none"
    <3>1. sentOn[r] # 0 /\ conn[sentOn[r]] # "none"
      BY <2>1 DEF Asked, AskedAt
    <3>2. sentOn[r] \in 0 .. MaxSockets
      BY DEF Typed
    <3> QED
      BY <3>1, <3>2, RemoteEnvAssumption DEF Sockets
  <2>3. PICK f \in Frames : f.type \in Outcomes \cup {"stream"} /\ ToClient(sentOn[r], f)
    BY <2>1, FramesAre DEF FrameTypes
  <2>4. f.type \notin {"close", "hello_ok"}
    BY <2>3 DEF Outcomes
  <2>5. DownQuiet(t)
    BY <2>2, <2>3, <2>4, ToClientIs DEF DownQuiet
  <2> QED
    BY <2>1, <2>5, SocketQuiet DEF UpQuiet
<1> QED
  BY <1>5, <1>6, <1>7, <1>8, <1>9, <1>10, <1>11, <1>12, <1>13, <1>14, <1>15, <1>16, <1>17,
     <1>18, <1>19, <1>20 DEF Next, FromSocket, Daemon

-----------------------------------------------------------------------------
(* Sockets are dialled in turn, and the daemon's end of one only moves on. *)

LEMMA DialledKept ==
    ASSUME Typed, Dialled, \A s \in Sockets : SocketAt(s), Next
    PROVE  Dialled'
<1>1. ASSUME \A s \in Sockets : sockets'[s] # "none" <=> sockets[s] # "none" PROVE Dialled'
  BY <1>1 DEF Dialled
<1>2. ASSUME NEW s \in Sockets, NEW v, v # "none", sockets[s] # "none",
             sockets' = [sockets EXCEPT ![s] = v]
      PROVE  Dialled'
  BY <1>1, <1>2 DEF Typed
<1>3. CASE UNCHANGED sockets
  BY <1>1, <1>3
<1>4. ASSUME NEW r \in Requests, Ask(r) PROVE Dialled'
  <2> DEFINE s == Cardinality(Used) + 1
  <2>1. CASE s \in Sockets /\ sockets' = [sockets EXCEPT ![s] = "dialing"]
    <3>1. /\ s \in 1 .. MaxSockets /\ sockets[s] = "none"
          /\ \A t \in Sockets : sockets[t] # "none" <=> t <= s - 1
      BY <2>1, NextSocket
    <3> HIDE DEF s
    <3>2. \A t \in Sockets : t <= s <=> t <= s - 1 \/ t = s
      BY <3>1, RemoteEnvAssumption DEF Sockets
    <3>3. \A t \in Sockets : sockets'[t] # "none" <=> t <= s
      BY <2>1, <3>1, <3>2 DEF Typed
    <3> QED
      BY <3>1, <3>3, RemoteEnvAssumption DEF Dialled
  <2>2. CASE UNCHANGED sockets
    BY <1>3, <2>2
  <2> QED
    BY <1>4, <2>1, <2>2 DEF Ask, Request
<1>5. CASE Close
  <2>1. CASE socket = 0
    BY <1>3, <1>5, <2>1 DEF Close
  <2>2. CASE socket # 0
    <3>1. socket \in Sockets
      BY <2>2, RemoteEnvAssumption DEF Typed, Sockets
    <3>2. \/ sockets' = [sockets EXCEPT ![socket] = "failing"] /\ sockets[socket] = "dialing"
          \/ sockets' = [sockets EXCEPT ![socket] = IF @ = "open" THEN "closing" ELSE @]
      BY <1>5, <2>2 DEF Close
    <3>3. \A s \in Sockets : sockets'[s] # "none" <=> sockets[s] # "none"
      BY <3>1, <3>2 DEF Typed
    <3> QED
      BY <1>1, <3>3
  <2> QED
    BY <2>1, <2>2
<1>6. ASSUME NEW s \in Sockets, Open(s) \/ DialFails(s) \/ Drop(s) PROVE Dialled'
  BY <1>2, <1>6 DEF Open, DialFails, Drop
<1>7. ASSUME NEW s \in Sockets, FromSocket(s) PROVE Dialled'
  <2>1. CASE TakeClose(s)
    <3>1. down[s] # <<>> /\ sockets' = [sockets EXCEPT ![s] = "closed"]
      BY <2>1 DEF TakeClose, Take
    <3>2. sockets[s] # "none"
      BY <3>1 DEF SocketAt
    <3> QED
      BY <1>2, <3>1, <3>2
  <2>2. CASE ~TakeClose(s)
    BY <1>3, <1>7, <2>2
       DEF FromSocket, TakeFailure, TakeHelloOk, TakeRejection, TakeStream, TakeResponse
  <2> QED
    BY <2>1, <2>2
<1>8. ASSUME NEW s \in Sockets, Daemon(s) PROVE Dialled'
  <2>1. CASE Reject(s)
    <3>1. Receive(s, "hello") /\ sockets' = [sockets EXCEPT ![s] = "closing"]
      BY <2>1 DEF Reject
    <3>2. sockets[s] # "none"
      BY <3>1, ReceiveSpeaks
    <3> QED
      BY <1>2, <3>1, <3>2
  <2>2. CASE ~Reject(s)
    BY <1>3, <1>8, <2>2 DEF Daemon, Greet, RunOp, ReceiveAbort, ReceiveClose
  <2> QED
    BY <2>1, <2>2
<1>9. ASSUME NEW r \in Requests,
             \/ Timeout(r) \/ Abort(r) \/ ExecTimer(r) \/ Output(r) \/ ExecEnds(r) \/ FileOp(r)
      PROVE  Dialled'
  BY <1>3, <1>9 DEF Timeout, Abort, ExecTimer, Output, ExecEnds, FileOp, Ends
<1>10. CASE HelloTimeout
  BY <1>3, <1>10 DEF HelloTimeout
<1> QED
  BY <1>4, <1>5, <1>6, <1>7, <1>8, <1>9, <1>10 DEF Next

LEMMA ConnOnward ==
    ASSUME Typed, \A s \in Sockets : SocketAt(s), Next, NEW s \in Sockets
    PROVE  /\ conn[s] = "gone" => conn'[s] = "gone"
           /\ conn[s] \in {"serving", "gone"} => conn'[s] \in {"serving", "gone"}
<1>1. CASE UNCHANGED conn
  BY <1>1
<1>2. ASSUME NEW t \in Sockets, Open(t) PROVE conn[s] \in {"serving", "gone"} => conn'[s] = conn[s]
  <2>1. sockets[t] = "dialing" /\ conn' = [conn EXCEPT ![t] = "greeting"]
    BY <1>2 DEF Open, Accepted
  <2>2. conn[t] = "none"
    BY <2>1 DEF SocketAt
  <2> QED
    BY <2>1, <2>2 DEF Typed
<1>3. ASSUME NEW t \in Sockets, Greet(t) \/ Reject(t) \/ ReceiveClose(t)
      PROVE  /\ conn[s] = "gone" => conn'[s] = "gone"
             /\ conn[s] \in {"serving", "gone"} => conn'[s] \in {"serving", "gone"}
  BY <1>3 DEF Greet, Reject, ReceiveClose, Typed
<1>4. ASSUME NEW t \in Sockets,
             DialFails(t) \/ FromSocket(t) \/ Drop(t) \/ RunOp(t) \/ ReceiveAbort(t)
      PROVE  UNCHANGED conn
  BY <1>4 DEF DialFails, Drop, RunOp, ReceiveAbort, FromSocket, TakeFailure, TakeHelloOk,
              TakeRejection, TakeStream, TakeResponse, TakeClose, Take
<1>5. ASSUME NEW r \in Requests,
             \/ Ask(r) \/ Timeout(r) \/ Abort(r) \/ ExecTimer(r) \/ Output(r) \/ ExecEnds(r)
             \/ FileOp(r)
      PROVE  UNCHANGED conn
  BY <1>5 DEF Ask, Request, Timeout, Abort, ExecTimer, Output, ExecEnds, FileOp, Ends
<1>6. CASE HelloTimeout \/ Close
  BY <1>1, <1>6 DEF HelloTimeout, Close
<1> QED
  BY <1>1, <1>2, <1>3, <1>4, <1>5, <1>6 DEF Next, Daemon

-----------------------------------------------------------------------------
(* Requests.                                                               *)

\* No further f on the socket s.
NoMore(s, f) ==
    /\ Has(up'[s], f) => Has(up[s], f)
    /\ Once(up[s], f) => Once(up'[s], f)

LEMMA NoMoreIs ==
    ASSUME Typed, NEW s \in Sockets, NEW f \in Frames, NEW g \in Frames, g # f,
           \/ up'[s] = up[s] \/ (up[s] # <<>> /\ up'[s] = Tail(up[s]))
           \/ up'[s] = Append(up[s], g) \/ up'[s] = <<g>>
    PROVE  NoMore(s, f)
<1>1. up[s] \in Seq(Frames)
  BY DEF Typed
<1>2. CASE up'[s] = up[s]
  BY <1>2 DEF NoMore
<1>3. CASE up[s] # <<>> /\ up'[s] = Tail(up[s])
  <2>1. /\ Len(up'[s]) = Len(up[s]) - 1 /\ Len(up[s]) \in Nat
        /\ \A i \in 1 .. Len(up'[s]) : up'[s][i] = up[s][i + 1]
    BY <1>1, <1>3, Tails
  <2>2. \A i, j \in 1 .. Len(up'[s]) : i + 1 \in 1 .. Len(up[s]) /\ (i + 1 = j + 1 => i = j)
    BY <2>1
  <2>3. \A i \in 1 .. Len(up'[s]) : up'[s][i] = f =>
           i + 1 \in 1 .. Len(up[s]) /\ up[s][i + 1] = f
    BY <2>1, <2>2
  <2>4. Has(up'[s], f) => Has(up[s], f)
    BY <2>3 DEF Has
  <2>5. Once(up[s], f) => Once(up'[s], f)
    BY <2>2, <2>3 DEF Once
  <2> QED
    BY <2>4, <2>5 DEF NoMore
<1>4. CASE up'[s] = Append(up[s], g)
  <2>1. /\ Len(up'[s]) = Len(up[s]) + 1 /\ Len(up[s]) \in Nat /\ up'[s][Len(up[s]) + 1] = g
        /\ \A i \in 1 .. Len(up[s]) : up'[s][i] = up[s][i]
    BY <1>1, <1>4, Appends
  <2>2. \A i \in 1 .. Len(up'[s]) : i \in 1 .. Len(up[s]) \/ up'[s][i] = g
    BY <2>1
  <2>3. \A i \in 1 .. Len(up'[s]) : up'[s][i] = f => i \in 1 .. Len(up[s]) /\ up[s][i] = f
    BY <2>1, <2>2
  <2> QED
    BY <2>3 DEF NoMore, Has, Once
<1>5. CASE up'[s] = <<g>>
  <2>1. \A i \in 1 .. Len(up'[s]) : up'[s][i] = g
    BY <1>5
  <2> QED
    BY <2>1 DEF NoMore, Has, Once
<1> QED
  BY <1>2, <1>3, <1>4, <1>5

LEMMA AskedSame ==
    ASSUME NEW r \in Requests, AskedAt(r), sentOn'[r] = sentOn[r], sentOn[r] \in 0 .. MaxSockets,
           calls'[r] \in {"idle", "connecting"} => calls[r] \in {"idle", "connecting"},
           proc'[r] = "none" <=> proc[r] = "none",
           r \in said' => r \in said \/ proc[r] # "none",
           \A s \in Sockets : conn[s] \in {"serving", "gone"} => conn'[s] \in {"serving", "gone"},
           \A s \in Sockets : NoMore(s, Req(r))
    PROVE  AskedAt(r)'
<1>1. sentOn[r] # 0 => sentOn[r] \in Sockets
  BY RemoteEnvAssumption DEF Sockets
<1>2. /\ calls'[r] \in {"idle", "connecting"} => sentOn'[r] = 0
      /\ proc'[r] # "none" => sentOn'[r] # 0 /\ conn'[sentOn'[r]] \in {"serving", "gone"}
      /\ r \in said' => proc'[r] # "none"
  BY <1>1 DEF AskedAt
<1>3. \A s \in Sockets : Has(up'[s], Req(r)) =>
          sentOn'[r] = s /\ proc'[r] = "none" /\ Once(up'[s], Req(r))
  BY DEF AskedAt, NoMore
<1> QED
  BY <1>2, <1>3 DEF AskedAt, Has, Once, Req, Frame

\* Only requests that have not been sent are sent.
LEMMA AskedSend ==
    ASSUME Typed, Asked, NEW rs, rs \subseteq Requests, Send(rs), NEW r \in Requests,
           \A q \in rs : calls[q] \in {"idle", "connecting"}, UNCHANGED <<proc, said, conn>>
    PROVE  AskedAt(r)'
<1>1. AskedAt(r) /\ sentOn[r] \in 0 .. MaxSockets
  BY DEF Asked, Typed
<1>2. \A q \in Requests : Req(q) \in Frames /\ Req(q).call = q
  BY FramesAre DEF Req, FrameTypes
<1>3. Gone \in Frames /\ \A q \in Requests : Req(q) # Gone
  BY FramesAre DEF Req, FrameTypes
<1>4. \A q \in Requests \ rs : calls'[q] = calls[q] /\ sentOn'[q] = sentOn[q]
  BY SendIs
<1>5. ASSUME up' = up, sentOn' = sentOn, \A q \in rs : calls'[q] \in {"lost", "waiting"}
      PROVE  AskedAt(r)'
  <2>1. \A s \in Sockets : NoMore(s, Req(r))
    BY <1>5 DEF NoMore
  <2>2. calls'[r] \in {"idle", "connecting"} => calls[r] \in {"idle", "connecting"}
    BY <1>4, <1>5
  <2> QED
    BY <1>1, <1>5, <2>1, <2>2, AskedSame
<1>6. ASSUME socket # 0, sockets[socket] # "dialing" PROVE AskedAt(r)'
  <2>a. /\ socket \in Sockets /\ \A q \in rs : calls'[q] = "waiting" /\ sentOn'[q] = socket
        /\ \A t \in Sockets \ {socket} : up'[t] = up[t]
    BY <1>6, SendSent
  <2>b. PICK e \in Seq(Frames) : up'[socket] = up[socket] \o e /\ OneEach(e, rs)
    BY <1>6, SendSent
  <2>1. /\ up'[socket] = up[socket] \o e
        /\ \A i \in 1 .. Len(e) : \E q \in rs : e[i] = Req(q)
        /\ \A i, j \in 1 .. Len(e) : e[i] = e[j] => i = j
    BY <2>b DEF OneEach
  <2>2. up[socket] \in Seq(Frames)
    BY <2>a DEF Typed
  <2> DEFINE n == Len(up[socket])
  <2>3. /\ Len(up'[socket]) = n + Len(e) /\ n \in Nat /\ Len(e) \in Nat
        /\ \A i \in 1 .. n : up'[socket][i] = up[socket][i]
        /\ \A i \in n + 1 .. n + Len(e) : up'[socket][i] = e[i - n]
    BY <2>1, <2>2, Joins
  <2>4. \A i \in 1 .. Len(up'[socket]) : \/ i \in 1 .. n
                                         \/ i \in n + 1 .. n + Len(e) /\ i - n \in 1 .. Len(e)
    BY <2>3
  <2>5. CASE r \notin rs
    <3>1. \A i \in 1 .. Len(e) : e[i] # Req(r)
      BY <1>2, <2>1, <2>5
    <3>2. \A i \in 1 .. Len(up'[socket]) : up'[socket][i] = Req(r) =>
             i \in 1 .. n /\ up[socket][i] = Req(r)
      BY <2>3, <2>4, <3>1
    <3>3. \A s \in Sockets : NoMore(s, Req(r))
      <4>1. NoMore(socket, Req(r))
        BY <3>2 DEF NoMore, Has, Once
      <4>2. \A s \in Sockets \ {socket} : NoMore(s, Req(r))
        BY <2>a DEF NoMore
      <4> QED
        BY <4>1, <4>2
    <3> QED
      BY <1>1, <1>4, <2>5, <3>3, AskedSame
  <2>6. CASE r \in rs
    <3>1. sentOn[r] = 0 /\ proc[r] = "none" /\ r \notin said
      BY <1>1, <2>6 DEF AskedAt
    <3>2. \A s \in Sockets : ~Has(up[s], Req(r))
      BY <1>1, <3>1, RemoteEnvAssumption DEF AskedAt, Sockets
    <3>3. \A i \in 1 .. Len(up'[socket]) : up'[socket][i] = Req(r) =>
             i \in n + 1 .. n + Len(e) /\ i - n \in 1 .. Len(e) /\ e[i - n] = Req(r)
      BY <2>a, <2>3, <2>4, <3>2 DEF Has
    <3>4. Once(up'[socket], Req(r))
      <4> SUFFICES ASSUME NEW i \in 1 .. Len(up'[socket]), NEW j \in 1 .. Len(up'[socket]),
                          up'[socket][i] = Req(r), up'[socket][j] = Req(r)
                   PROVE  i = j
        BY DEF Once
      <4>1. i - n = j - n
        BY <2>1, <3>3
      <4> QED
        BY <2>3, <4>1
    <3>5. \A s \in Sockets : Has(up'[s], Req(r)) => s = socket
      BY <2>a, <3>2
    <3>6. calls'[r] = "waiting" /\ sentOn'[r] = socket
      BY <2>a, <2>6
    <3> QED
      BY <3>1, <3>4, <3>5, <3>6 DEF AskedAt, Has, Once, Req, Frame
  <2> QED
    BY <2>5, <2>6
<1>7. CASE socket = 0 \/ sockets[socket] = "dialing"
  <2>1. up' = up /\ sentOn' = sentOn /\ \A q \in rs : calls'[q] \in {"lost", "waiting"}
    BY <1>7, SendUnsent
  <2> QED
    BY <1>5, <2>1
<1> QED
  BY <1>6, <1>7

LEMMA AskedKept ==
    ASSUME Typed, \A s \in Sockets : SocketAt(s), Asked, Next
    PROVE  Asked'
<1> SUFFICES ASSUME NEW q \in Requests PROVE AskedAt(q)'
  BY DEF Asked
<1>1. AskedAt(q) /\ sentOn[q] \in 0 .. MaxSockets /\ calls \in [Requests -> Phases]
      /\ proc \in [Requests -> {"none", "running", "aborted", "timedOut", "ended"}]
      /\ up \in [Sockets -> Seq(Frames)]
  BY DEF Asked, Typed
<1>2. \A s \in Sockets : conn[s] \in {"serving", "gone"} => conn'[s] \in {"serving", "gone"}
  BY ConnOnward
<1>3. /\ Req(q) \in Frames /\ Req(q).type = "request" /\ Req(q).call = q
      /\ Gone \in Frames /\ Gone # Req(q) /\ Hello \in Frames /\ Hello # Req(q)
      /\ \A r \in Requests : Frame("abort", r) \in Frames /\ Frame("abort", r) # Req(q)
  BY FramesAre DEF Req, FrameTypes
<1>4. ASSUME NEW g \in Frames, g # Req(q),
             \A s \in Sockets : \/ up'[s] = up[s] \/ (up[s] # <<>> /\ up'[s] = Tail(up[s]))
                                \/ up'[s] = Append(up[s], g) \/ up'[s] = <<g>>
      PROVE  \A s \in Sockets : NoMore(s, Req(q))
  BY <1>3, <1>4, NoMoreIs
<1>5. ASSUME sentOn' = sentOn,
             calls'[q] \in {"idle", "connecting"} => calls[q] \in {"idle", "connecting"},
             proc'[q] = "none" <=> proc[q] = "none",
             q \in said' => q \in said \/ proc[q] # "none",
             \A s \in Sockets : NoMore(s, Req(q))
      PROVE  AskedAt(q)'
  BY <1>1, <1>2, <1>5, AskedSame
<1>6. ASSUME UNCHANGED up PROVE \A s \in Sockets : NoMore(s, Req(q))
  BY <1>6 DEF NoMore
<1>7. ASSUME NEW r \in Requests, Ask(r) PROVE AskedAt(q)'
  <2>1. calls[r] = "idle" /\ UNCHANGED <<proc, said, conn>>
    BY <1>7 DEF Ask, Request
  <2>2. CASE connected
    <3>1. Send({r}) /\ {r} \subseteq Requests
      BY <1>7, <2>2 DEF Ask, Request
    <3>2. \A x \in {r} : calls[x] \in {"idle", "connecting"}
      BY <2>1
    <3> QED
      BY <2>1, <3>1, <3>2, AskedSend
  <2>3. CASE ~connected
    <3>1. calls' = [calls EXCEPT ![r] = "connecting"] /\ UNCHANGED <<sentOn, up>>
      BY <1>7, <2>3 DEF Ask, Request
    <3>2. calls'[q] \in {"idle", "connecting"} => calls[q] \in {"idle", "connecting"}
      BY <1>1, <2>1, <3>1
    <3> QED
      BY <1>5, <1>6, <2>1, <3>1, <3>2
  <2> QED
    BY <2>2, <2>3
<1>8. ASSUME NEW r \in Requests, Timeout(r) \/ Abort(r) PROVE AskedAt(q)'
  <2>1. /\ calls' = [calls EXCEPT ![r] = "timeout"] \/ calls' = calls
        /\ ToDaemon(socket, Frame("abort", r)) /\ UNCHANGED <<sentOn, proc, said>>
    BY <1>8 DEF Timeout, Abort, Answered
  <2>3. \A s \in Sockets : up'[s] = up[s] \/ up'[s] = Append(up[s], Frame("abort", r))
    BY <1>3, <2>1, ToDaemonUp
  <2>4. \A s \in Sockets : NoMore(s, Req(q))
    BY <1>3, <1>4, <2>3
  <2>5. calls'[q] \in {"idle", "connecting"} => calls[q] \in {"idle", "connecting"}
    BY <1>1, <2>1
  <2> QED
    BY <1>5, <2>1, <2>4, <2>5
<1>9. ASSUME GiveUp \/ UNCHANGED calls
      PROVE  calls'[q] \in {"idle", "connecting"} => calls[q] \in {"idle", "connecting"}
  BY <1>1, <1>9 DEF GiveUp
<1>10. CASE HelloTimeout
  BY <1>5, <1>6, <1>9, <1>10 DEF HelloTimeout
<1>11. CASE Close
  <2>1. UNCHANGED <<calls, sentOn, proc, said>>
        /\ (UNCHANGED up \/ (socket # 0 /\ ToDaemon(socket, Gone)))
    BY <1>11 DEF Close
  <2>3. \A s \in Sockets : up'[s] = up[s] \/ up'[s] = Append(up[s], Gone)
    <3>1. CASE UNCHANGED up
      BY <3>1
    <3>2. CASE socket # 0 /\ ToDaemon(socket, Gone)
      BY <1>3, <3>2, ToDaemonUp
    <3> QED
      BY <2>1, <3>1, <3>2
  <2>4. \A s \in Sockets : NoMore(s, Req(q))
    BY <1>3, <1>4, <2>3
  <2> QED
    BY <1>5, <2>1, <2>4
<1>12. ASSUME NEW s \in Sockets, Open(s) \/ DialFails(s) \/ Drop(s) PROVE AskedAt(q)'
  <2>1. UNCHANGED <<calls, sentOn, proc, said>>
        /\ (UNCHANGED up \/ \E g \in {Hello, Gone} : up' = [up EXCEPT ![s] = <<g>>])
    BY <1>12 DEF Open, DialFails, Drop, client
  <2>2. \A t \in Sockets : NoMore(t, Req(q))
    BY <1>1, <1>3, <1>4, <1>6, <2>1
  <2> QED
    BY <1>5, <2>1, <2>2
<1>13. ASSUME NEW s \in Sockets, TakeFailure(s) \/ TakeRejection(s) PROVE AskedAt(q)'
  <2>1. (GiveUp \/ UNCHANGED calls) /\ UNCHANGED <<sentOn, proc, said, up>>
    BY <1>13 DEF TakeFailure, TakeRejection, Take
  <2> QED
    BY <1>5, <1>6, <1>9, <2>1
<1>14. ASSUME NEW s \in Sockets, TakeHelloOk(s) PROVE AskedAt(q)'
  <2>1. UNCHANGED <<proc, said, conn>>
        /\ (Send(In("connecting")) \/ UNCHANGED <<calls, sentOn, up>>)
    BY <1>14 DEF TakeHelloOk, Take
  <2>2. CASE Send(In("connecting"))
    <3>1. In("connecting") \subseteq Requests
          /\ \A x \in In("connecting") : calls[x] \in {"idle", "connecting"}
      BY DEF In
    <3> QED
      BY <2>1, <2>2, <3>1, AskedSend
  <2>3. CASE UNCHANGED <<calls, sentOn, up>>
    BY <1>5, <1>6, <2>1, <2>3
  <2> QED
    BY <2>1, <2>2, <2>3
<1>15. ASSUME NEW s \in Sockets, TakeStream(s) PROVE AskedAt(q)'
  BY <1>5, <1>6, <1>15 DEF TakeStream, Take
<1>16. ASSUME NEW s \in Sockets, TakeResponse(s) PROVE AskedAt(q)'
  <2>1. UNCHANGED <<sentOn, proc, said, up>> /\ Head(down[s]).type \in Outcomes
        /\ (calls' = calls \/ calls' = [calls EXCEPT ![Head(down[s]).call] = Head(down[s]).type])
    BY <1>16 DEF TakeResponse, Take, Answered
  <2>2. calls'[q] \in {"idle", "connecting"} => calls[q] \in {"idle", "connecting"}
    BY <1>1, <2>1 DEF Outcomes
  <2> QED
    BY <1>5, <1>6, <2>1, <2>2
<1>17. ASSUME NEW s \in Sockets, TakeClose(s) PROVE AskedAt(q)'
  <2>1. UNCHANGED <<sentOn, proc, said, up>>
    BY <1>17 DEF TakeClose, Take
  <2>2. calls'[q] = calls[q] \/ calls'[q] = "lost"
    BY <1>17 DEF TakeClose
  <2> QED
    BY <1>5, <1>6, <2>1, <2>2
<1>18. ASSUME NEW rs, proc' = Signalled(rs) PROVE proc'[q] = "none" <=> proc[q] = "none"
  BY <1>1, <1>18 DEF Signalled
<1>19. ASSUME NEW s \in Sockets, NEW type, Receive(s, type)
       PROVE  /\ UNCHANGED <<calls, sentOn, said>>
              /\ \A t \in Sockets : NoMore(t, Req(q))
              /\ Head(up[s]) = up[s][1] /\ up[s] # <<>> /\ up'[s] = Tail(up[s])
  <2>1. /\ \A t \in Sockets : up'[t] = up[t] \/ (up[t] # <<>> /\ up'[t] = Tail(up[t]))
        /\ Head(up[s]) = up[s][1] /\ up[s] # <<>> /\ up'[s] = Tail(up[s])
    BY <1>19, ReceiveIs
  <2> QED
    BY <1>3, <1>4, <1>19, <2>1 DEF Receive, client
<1>20. ASSUME NEW s \in Sockets, Greet(s) \/ Reject(s) PROVE AskedAt(q)'
  <2>1. Receive(s, "hello") /\ UNCHANGED proc
    BY <1>20 DEF Greet, Reject
  <2> QED
    BY <1>5, <1>19, <2>1
<1>21. ASSUME NEW s \in Sockets, ReceiveAbort(s) \/ ReceiveClose(s) PROVE AskedAt(q)'
  <2>1. (\E type : Receive(s, type)) /\ (UNCHANGED proc \/ \E rs : proc' = Signalled(rs))
    BY <1>21 DEF ReceiveAbort, ReceiveClose
  <2>2. proc'[q] = "none" <=> proc[q] = "none"
    BY <1>18, <2>1
  <2> QED
    BY <1>5, <1>19, <2>1, <2>2
<1>22. ASSUME NEW s \in Sockets, RunOp(s) PROVE AskedAt(q)'
  <2>1. Receive(s, "request") /\ UNCHANGED <<conn>>
        /\ proc' = IF conn[s] = "serving" THEN [proc EXCEPT ![Head(up[s]).call] = "running"] ELSE proc
    BY <1>22 DEF RunOp
  <2>2. /\ UNCHANGED <<calls, sentOn, said>> /\ \A t \in Sockets : NoMore(t, Req(q))
        /\ Head(up[s]) = up[s][1] /\ up[s] # <<>> /\ up'[s] = Tail(up[s])
    BY <1>19, <2>1
  <2>3. CASE conn[s] = "serving" /\ Head(up[s]).call = q
    <3>1. up[s] \in Seq(Frames) /\ 1 \in 1 .. Len(up[s]) /\ Len(up[s]) \in Nat
      BY <1>1, <2>2
    <3>2. up[s][1] = Req(q)
      <4>1. up[s][1] \in Frames /\ up[s][1].type = "request" /\ up[s][1].call = q
        BY <2>1, <2>2, <2>3, <3>1, ElementOfSeq DEF Receive
      <4> QED
        BY <4>1 DEF Frames, Req, Frame
    <3>3. sentOn[q] = s /\ proc[q] = "none" /\ Once(up[s], Req(q))
      BY <1>1, <3>1, <3>2 DEF AskedAt, Has
    <3>4. /\ Len(up'[s]) = Len(up[s]) - 1 /\ \A i \in 1 .. Len(up'[s]) : up'[s][i] = up[s][i + 1]
      BY <2>2, <3>1, Tails
    <3>5. \A i \in 1 .. Len(up'[s]) : i + 1 \in 1 .. Len(up[s]) /\ i + 1 # 1
      BY <3>1, <3>4
    <3>6. ~Has(up'[s], Req(q))
      BY <3>1, <3>2, <3>3, <3>4, <3>5 DEF Has, Once
    <3>7. \A t \in Sockets : ~Has(up'[t], Req(q))
      BY <1>1, <2>2, <3>3, <3>6 DEF AskedAt, NoMore
    <3>8. proc'[q] = "running" /\ s # 0
      BY <1>1, <2>1, <2>3 DEF Sockets
    <3>9. calls[q] \notin {"idle", "connecting"}
      BY <1>1, <3>3, <3>8 DEF AskedAt
    <3> QED
      BY <1>2, <2>1, <2>2, <2>3, <3>3, <3>7, <3>8, <3>9 DEF AskedAt, Has, Req, Frame
  <2>4. CASE ~(conn[s] = "serving" /\ Head(up[s]).call = q)
    <3>1. proc'[q] = proc[q]
      BY <1>1, <2>1, <2>4
    <3> QED
      BY <1>5, <2>2, <3>1
  <2> QED
    BY <2>3, <2>4
<1>23. ASSUME NEW r \in Requests, ExecTimer(r) PROVE AskedAt(q)'
  <2>1. UNCHANGED <<calls, sentOn, said, up>>
    BY <1>23 DEF ExecTimer, client
  <2>2. proc'[q] = "none" <=> proc[q] = "none"
    BY <1>1, <1>23 DEF ExecTimer
  <2> QED
    BY <1>5, <1>6, <2>1, <2>2
<1>24. ASSUME NEW r \in Requests, Output(r) PROVE AskedAt(q)'
  <2>1. UNCHANGED <<calls, sentOn, proc, up>> /\ said' = said \cup {r} /\ proc[r] # "none"
    BY <1>24 DEF Output, client
  <2> QED
    BY <1>5, <1>6, <2>1
<1>25. ASSUME NEW r \in Requests, ExecEnds(r) \/ FileOp(r) PROVE AskedAt(q)'
  <2>1. UNCHANGED <<calls, sentOn, said, up>> /\ proc[r] # "none" /\ proc' = [proc EXCEPT ![r] = "ended"]
    BY <1>25 DEF ExecEnds, FileOp, Ends, client
  <2>2. proc'[q] = "none" <=> proc[q] = "none"
    BY <1>1, <2>1
  <2> QED
    BY <1>5, <1>6, <2>1, <2>2
<1> QED
  BY <1>7, <1>8, <1>10, <1>11, <1>12, <1>13, <1>14, <1>15, <1>16, <1>17, <1>20, <1>21, <1>22,
     <1>23, <1>24, <1>25 DEF Next, FromSocket, Daemon

-----------------------------------------------------------------------------
(* What a step may do to a request, and to what a socket reports.          *)

RequestOnward(r) ==
    /\ proc[r] = "ended" => proc'[r] = "ended"
    /\ sentOn[r] # 0 => sentOn'[r] = sentOn[r]
    /\ r \in said => r \in said'
    /\ r \in heard => r \in heard'
    /\ calls'[r] = "waiting" => calls[r] = "waiting" \/ sentOn[r] = 0
    /\ r \in said' \ said => Output(r)
    /\ r \in heard' \ heard => \E s \in Sockets : Has(down[s], Stream(r))
    /\ calls'[r] = "ok" => calls[r] = "ok" \/
          /\ calls[r] = "waiting" /\ UNCHANGED <<proc, said, heard>>
          /\ \E s \in Sockets : down[s] # <<>> /\ IsAnswer(down[s][1], r)

LEMMA Onward ==
    ASSUME Typed, Asked, Next, NEW r \in Requests
    PROVE  RequestOnward(r)
<1>1. AskedAt(r) /\ sentOn[r] \in 0 .. MaxSockets /\ calls \in [Requests -> Phases]
      /\ proc \in [Requests -> {"none", "running", "aborted", "timedOut", "ended"}]
      /\ up \in [Sockets -> Seq(Frames)] /\ down \in [Sockets -> Seq(Frames)]
  BY DEF Asked, Typed
<1>2. ASSUME UNCHANGED <<sentOn, said, heard>>, proc[r] = "ended" => proc'[r] = "ended",
             calls'[r] = calls[r] \/ calls'[r] \notin {"waiting", "ok"}
      PROVE  RequestOnward(r)
  BY <1>2 DEF RequestOnward
<1>3. ASSUME NEW rs, rs \subseteq Requests, Send(rs), UNCHANGED <<proc, said, heard>>,
             \A q \in rs : calls[q] \in {"idle", "connecting"}
      PROVE  RequestOnward(r)
  <2>1. /\ r \notin rs => calls'[r] = calls[r] /\ sentOn'[r] = sentOn[r]
        /\ r \in rs => calls'[r] \in {"lost", "waiting"}
    BY <1>3, SendIs
  <2>2. r \in rs => sentOn[r] = 0
    BY <1>1, <1>3 DEF AskedAt
  <2> QED
    BY <1>3, <2>1, <2>2 DEF RequestOnward
<1>4. ASSUME NEW q \in Requests, Ask(q) PROVE RequestOnward(r)
  <2>1. calls[q] = "idle" /\ UNCHANGED <<proc, said, heard>>
    BY <1>4 DEF Ask, Request
  <2>2. CASE connected
    <3>1. Send({q}) /\ {q} \subseteq Requests
      BY <1>4, <2>2 DEF Ask, Request
    <3>2. \A x \in {q} : calls[x] \in {"idle", "connecting"}
      BY <2>1
    <3> QED
      BY <1>3, <2>1, <3>1, <3>2
  <2>3. CASE ~connected
    <3>1. calls' = [calls EXCEPT ![q] = "connecting"] /\ UNCHANGED sentOn
      BY <1>4, <2>3 DEF Ask, Request
    <3>2. calls'[r] = calls[r] \/ calls'[r] \notin {"waiting", "ok"}
      BY <1>1, <3>1
    <3> QED
      BY <1>2, <2>1, <3>1, <3>2
  <2> QED
    BY <2>2, <2>3
<1>5. ASSUME NEW q \in Requests, Timeout(q) \/ Abort(q) PROVE RequestOnward(r)
  <2>1. /\ calls' = [calls EXCEPT ![q] = "timeout"] \/ calls' = calls
        /\ UNCHANGED <<sentOn, proc, said, heard>>
    BY <1>5 DEF Timeout, Abort, Answered
  <2>2. calls'[r] = calls[r] \/ calls'[r] \notin {"waiting", "ok"}
    BY <1>1, <2>1
  <2> QED
    BY <1>2, <2>1, <2>2
<1>6. ASSUME GiveUp \/ UNCHANGED calls PROVE calls'[r] = calls[r] \/ calls'[r] \notin {"waiting", "ok"}
  BY <1>1, <1>6 DEF GiveUp
<1>7. CASE HelloTimeout \/ Close
  BY <1>2, <1>6, <1>7 DEF HelloTimeout, Close
<1>8. ASSUME NEW s \in Sockets, Open(s) \/ DialFails(s) \/ Drop(s) PROVE RequestOnward(r)
  BY <1>2, <1>8 DEF Open, DialFails, Drop, client
<1>9. ASSUME NEW s \in Sockets, TakeFailure(s) \/ TakeRejection(s) PROVE RequestOnward(r)
  <2>1. (GiveUp \/ UNCHANGED calls) /\ UNCHANGED <<sentOn, proc, said, heard>>
    BY <1>9 DEF TakeFailure, TakeRejection, Take
  <2> QED
    BY <1>2, <1>6, <2>1
<1>10. ASSUME NEW s \in Sockets, TakeHelloOk(s) PROVE RequestOnward(r)
  <2>1. UNCHANGED <<proc, said, heard>> /\ (Send(In("connecting")) \/ UNCHANGED <<calls, sentOn>>)
    BY <1>10 DEF TakeHelloOk, Take
  <2>2. CASE Send(In("connecting"))
    <3>1. In("connecting") \subseteq Requests
          /\ \A x \in In("connecting") : calls[x] \in {"idle", "connecting"}
      BY DEF In
    <3> QED
      BY <1>3, <2>1, <2>2, <3>1
  <2>3. CASE UNCHANGED <<calls, sentOn>>
    BY <1>2, <2>1, <2>3
  <2> QED
    BY <2>1, <2>2, <2>3
<1>11. ASSUME NEW s \in Sockets, TakeStream(s) PROVE RequestOnward(r)
  <2>1. /\ UNCHANGED <<calls, sentOn, proc, said>>
        /\ heard' = heard \cup ({Head(down[s]).call} \cap In("waiting"))
        /\ down[s] \in Seq(Frames) /\ down[s] # <<>> /\ Head(down[s]) = down[s][1]
        /\ down[s][1].type = "stream"
    BY <1>11, TakeIs DEF TakeStream, Take
  <2>2. r \in heard' \ heard => Has(down[s], Stream(r))
    <3> SUFFICES ASSUME r \in heard' \ heard PROVE Has(down[s], Stream(r))
      OBVIOUS
    <3>1. 1 \in 1 .. Len(down[s])
      BY <2>1
    <3>2. down[s][1] \in Frames /\ down[s][1].call = r
      BY <2>1, <3>1, ElementOfSeq
    <3>3. down[s][1] = Stream(r)
      BY <2>1, <3>2 DEF Frames, Stream, Frame
    <3> QED
      BY <3>1, <3>3 DEF Has
  <2> QED
    BY <2>1, <2>2 DEF RequestOnward
<1>12. ASSUME NEW s \in Sockets, TakeResponse(s) PROVE RequestOnward(r)
  <2>1. /\ UNCHANGED <<sentOn, proc, said, heard>>
        /\ down[s] # <<>> /\ Head(down[s]) = down[s][1] /\ down[s][1].type \in Outcomes
    <3>1. PICK o \in Outcomes : Take(s, o)
      BY <1>12 DEF TakeResponse
    <3> QED
      BY <1>12, <3>1, TakeIs DEF TakeResponse, Take
  <2>2. \/ calls'[r] = calls[r]
        \/ /\ calls[r] = "waiting" /\ down[s][1].call = r /\ calls'[r] = down[s][1].type
    <3>1. calls' = IF calls[down[s][1].call] = "waiting"
                   THEN [calls EXCEPT ![down[s][1].call] = down[s][1].type] ELSE calls
      BY <1>12, <2>1 DEF TakeResponse, Answered
    <3> QED
      BY <1>1, <3>1
  <2> QED
    BY <2>1, <2>2 DEF RequestOnward, IsAnswer, Outcomes
<1>13. ASSUME NEW s \in Sockets, TakeClose(s) PROVE RequestOnward(r)
  <2>1. UNCHANGED <<sentOn, proc, said, heard>>
    BY <1>13 DEF TakeClose, Take
  <2>2. calls'[r] = calls[r] \/ calls'[r] = "lost"
    BY <1>13 DEF TakeClose
  <2> QED
    BY <1>2, <2>1, <2>2
<1>14. ASSUME NEW s \in Sockets, Daemon(s) PROVE RequestOnward(r)
  <2>1. UNCHANGED <<calls, sentOn, said, heard>>
    BY <1>14 DEF Daemon, Greet, Reject, RunOp, ReceiveAbort, ReceiveClose, Receive, client
  <2>2. CASE RunOp(s)
    <3>1. Receive(s, "request") /\ (proc' = proc \/ proc' = [proc EXCEPT ![Head(up[s]).call] = "running"])
      BY <2>2 DEF RunOp
    <3>2. up[s] # <<>> /\ up[s] \in Seq(Frames) /\ Head(up[s]) = up[s][1] /\ up[s][1].type = "request"
      BY <3>1, ReceiveIs
    <3>3. 1 \in 1 .. Len(up[s])
      BY <3>2
    <3>4. up[s][1].call = r => up[s][1] = Req(r)
      <4>1. up[s][1] \in Frames
        BY <3>2, <3>3, ElementOfSeq
      <4> QED
        BY <3>2, <4>1 DEF Frames, Req, Frame
    <3>5. up[s][1].call = r => proc[r] = "none"
      BY <1>1, <3>3, <3>4 DEF AskedAt, Has
    <3>6. proc[r] = "ended" => proc'[r] = "ended"
      BY <1>1, <3>1, <3>2, <3>5
    <3> QED
      BY <1>2, <2>1, <3>6
  <2>3. CASE ~RunOp(s)
    <3>1. proc' = proc \/ \E rs : proc' = Signalled(rs)
      BY <1>14, <2>3 DEF Daemon, Greet, Reject, ReceiveAbort, ReceiveClose
    <3>2. proc[r] = "ended" => proc'[r] = "ended"
      BY <1>1, <3>1 DEF Signalled
    <3> QED
      BY <1>2, <2>1, <3>2
  <2> QED
    BY <2>2, <2>3
<1>15. ASSUME NEW q \in Requests, ExecTimer(q) PROVE RequestOnward(r)
  <2>1. proc[r] = "ended" => proc'[r] = "ended"
    BY <1>1, <1>15 DEF ExecTimer
  <2> QED
    BY <1>2, <1>15, <2>1 DEF ExecTimer, client
<1>16. ASSUME NEW q \in Requests, Output(q) PROVE RequestOnward(r)
  BY <1>16 DEF Output, client, RequestOnward
<1>17. ASSUME NEW q \in Requests, ExecEnds(q) \/ FileOp(q) PROVE RequestOnward(r)
  <2>1. UNCHANGED <<calls, sentOn, said, heard>> /\ proc' = [proc EXCEPT ![q] = "ended"]
    BY <1>17 DEF ExecEnds, FileOp, Ends, client
  <2>2. proc[r] = "ended" => proc'[r] = "ended"
    BY <1>1, <2>1
  <2> QED
    BY <1>2, <2>1, <2>2
<1> QED
  BY <1>4, <1>5, <1>7, <1>8, <1>9, <1>10, <1>11, <1>12, <1>13, <1>14, <1>15, <1>16, <1>17
     DEF Next, FromSocket

\* The client's end reports one frame.
Popped(s) ==
    /\ down[s] # <<>> /\ down'[s] = Tail(down[s])
    /\ down[s][1].type = "close" => sockets'[s] = "closed"
    /\ \A r \in In("waiting") : down[s][1] = Stream(r) => r \in heard'

\* Frames follow the others, unless the connection broke and took them.
Unsaid(f) == f.type \notin Outcomes \cup {"stream"}
New(f, s) ==
    \/ Unsaid(f)
    \/ ~Shut(s) /\ \E r \in Requests : sentOn[r] = s /\
          \/ f = Stream(r) /\ r \in said'
          \/ IsAnswer(f, r) /\ f # Stream(r) /\ proc[r] \notin {"none", "ended"} /\ proc'[r] = "ended"
Grown(s) ==
    /\ \A i \in 1 .. Len(down'[s]) :
          (i \in 1 .. Len(down[s]) /\ down'[s][i] = down[s][i]) \/ New(down'[s][i], s)
    /\ \/ \A i \in 1 .. Len(down[s]) : i \in 1 .. Len(down'[s]) /\ down'[s][i] = down[s][i]
       \/ Has(down'[s], Gone) /\ \A i \in 1 .. Len(down'[s]) : Unsaid(down'[s][i])

LEMMA GrownSame == ASSUME NEW s \in Sockets, down'[s] = down[s] PROVE Grown(s)
BY DEF Grown

LEMMA GrownBy ==
    ASSUME NEW s \in Sockets, down[s] \in Seq(Frames), NEW f \in Frames, New(f, s),
           down'[s] = Append(down[s], f)
    PROVE  Grown(s)
<1>1. /\ Len(down'[s]) = Len(down[s]) + 1 /\ Len(down[s]) \in Nat /\ down'[s][Len(down[s]) + 1] = f
      /\ \A i \in 1 .. Len(down[s]) : down'[s][i] = down[s][i]
  BY Appends
<1>2. \A i \in 1 .. Len(down'[s]) : i \in 1 .. Len(down[s]) \/ i = Len(down[s]) + 1
  BY <1>1
<1>3. \A i \in 1 .. Len(down[s]) : i \in 1 .. Len(down'[s])
  BY <1>1
<1> QED
  BY <1>1, <1>2, <1>3 DEF Grown

LEMMA GrownCut ==
    ASSUME NEW s \in Sockets, down'[s] = <<Failure, Gone>> \/ down'[s] = <<Gone>>
    PROVE  Grown(s)
<1>1. Failure \in Frames /\ Gone \in Frames /\ Unsaid(Failure) /\ Unsaid(Gone)
  BY FramesAre DEF Unsaid, Outcomes
<1>2. \E n \in 1 .. 2 : /\ Len(down'[s]) = n /\ down'[s][n] = Gone
                        /\ \A i \in 1 .. n : down'[s][i] \in {Failure, Gone}
  <2>1. CASE down'[s] = <<Gone>>
    BY <2>1
  <2>2. CASE down'[s] = <<Failure, Gone>>
    <3>1. Len(down'[s]) = 2 /\ down'[s][1] = Failure /\ down'[s][2] = Gone
      BY <2>2
    <3>2. \A i \in 1 .. 2 : i = 1 \/ i = 2
      OBVIOUS
    <3> QED
      BY <3>1, <3>2
  <2> QED
    BY <2>1, <2>2
<1>3. Has(down'[s], Gone) /\ \A i \in 1 .. Len(down'[s]) : Unsaid(down'[s][i])
  BY <1>1, <1>2 DEF Has
<1> QED
  BY <1>3 DEF Grown, New

LEMMA DownOnward ==
    ASSUME Typed, Asked, Next, NEW t \in Sockets
    PROVE  Popped(t) \/ Grown(t)
<1>1. /\ down \in [Sockets -> Seq(Frames)] /\ down[t] \in Seq(Frames)
      /\ proc \in [Requests -> {"none", "running", "aborted", "timedOut", "ended"}]
      /\ socket \in 0 .. MaxSockets
  BY DEF Typed
<1>2. Unsaid(HelloOk) /\ Unsaid(Rejection) /\ Unsaid(Gone)
      /\ HelloOk \in Frames /\ Rejection \in Frames /\ Gone \in Frames
  BY FramesAre DEF Unsaid, Outcomes
<1>3. CASE UNCHANGED down
  BY <1>3, GrownSame
<1>4. ASSUME NEW s \in Sockets, NEW f \in Frames, ToClient(s, f), New(f, s) PROVE Grown(t)
  <2>1. CASE t # s \/ Shut(s)
    <3>1. down'[t] = down[t]
      BY <1>4, <2>1, ToClientIs
    <3> QED
      BY <3>1, GrownSame
  <2>2. CASE t = s /\ ~Shut(s)
    <3>1. down'[t] = Append(down[t], f)
      BY <1>4, <2>2, ToClientIs
    <3> QED
      BY <1>1, <1>4, <2>2, <3>1, GrownBy
  <2> QED
    BY <2>1, <2>2
<1>5. ASSUME NEW s \in Sockets, FromSocket(s) PROVE Popped(t) \/ Grown(t)
  <2>1. PICK type : Take(s, type)
    BY <1>5 DEF FromSocket, TakeFailure, TakeHelloOk, TakeRejection, TakeStream, TakeResponse,
                TakeClose
  <2>2. /\ down[s] # <<>> /\ down[s][1].type = type /\ Head(down[s]) = down[s][1]
        /\ down'[s] = Tail(down[s]) /\ \A x \in Sockets \ {s} : down'[x] = down[x]
    BY <2>1, TakeIs
  <2>3. CASE t # s
    BY <2>2, <2>3, GrownSame
  <2>4. CASE t = s
    <3>1. down[s][1].type = "close" => sockets'[s] = "closed"
      <4>1. down[s][1].type = "close" => TakeClose(s)
        BY <1>5, <2>2 DEF FromSocket, TakeFailure, TakeHelloOk, TakeRejection, TakeStream,
                          TakeResponse, Take, Outcomes
      <4> QED
        BY <4>1 DEF TakeClose, Typed
    <3>2. ASSUME NEW r \in In("waiting"), down[s][1] = Stream(r) PROVE r \in heard'
      <4>1. down[s][1].type = "stream" /\ down[s][1].call = r
        BY <3>2, FramesAre DEF Stream, FrameTypes, In
      <4>2. TakeStream(s)
        BY <1>5, <2>2, <4>1 DEF FromSocket, TakeFailure, TakeHelloOk, TakeRejection, TakeClose,
                                TakeResponse, Take, Outcomes
      <4> QED
        BY <2>2, <3>2, <4>1, <4>2 DEF TakeStream
    <3> QED
      BY <2>2, <2>4, <3>1, <3>2 DEF Popped
  <2> QED
    BY <2>3, <2>4
<1>6. CASE Close
  <2>1. \/ UNCHANGED down
        \/ socket # 0 /\ down' = [down EXCEPT ![socket] = <<Failure, Gone>>]
    BY <1>6 DEF Close
  <2>2. CASE socket # 0 /\ down' = [down EXCEPT ![socket] = <<Failure, Gone>>]
    <3>1. down'[t] = down[t] \/ down'[t] = <<Failure, Gone>>
      BY <1>1, <2>2
    <3> QED
      BY <3>1, GrownSame, GrownCut
  <2> QED
    BY <1>3, <2>1, <2>2
<1>7. ASSUME NEW s \in Sockets, Open(s) \/ DialFails(s) \/ Drop(s) PROVE Grown(t)
  <2>1. \/ UNCHANGED down
        \/ down' = [down EXCEPT ![s] = <<Failure, Gone>>] \/ down' = [down EXCEPT ![s] = <<Gone>>]
    BY <1>7 DEF Open, DialFails, Drop
  <2>2. down'[t] = down[t] \/ down'[t] = <<Failure, Gone>> \/ down'[t] = <<Gone>>
    BY <1>1, <2>1
  <2> QED
    BY <2>2, GrownSame, GrownCut
<1>8. ASSUME NEW s \in Sockets, Daemon(s) PROVE Grown(t)
  <2>1. CASE UNCHANGED down
    BY <2>1, GrownSame
  <2>2. CASE ToClient(s, HelloOk) \/ ToClient(s, Gone)
    BY <1>2, <1>4, <2>2 DEF New
  <2>3. CASE down' = [down EXCEPT ![s] = @ \o <<Rejection, Gone>>]
    <3>1. CASE t # s
      BY <1>1, <2>3, <3>1, GrownSame
    <3>2. CASE t = s
      <4> DEFINE e == <<Rejection, Gone>>
                 j == down[t] \o e
      <4>1. e \in Seq(Frames) /\ Len(e) = 2 /\ e[1] = Rejection /\ e[2] = Gone
        BY <1>2, Few
      <4>2. \A k \in 1 .. Len(e) : Unsaid(e[k])
        BY <1>2, <4>1
      <4> HIDE DEF e
      <4>3. /\ Len(j) = Len(down[t]) + Len(e) /\ Len(down[t]) \in Nat /\ Len(e) \in Nat
            /\ \A i \in 1 .. Len(down[t]) : j[i] = down[t][i]
            /\ \A i \in Len(down[t]) + 1 .. Len(down[t]) + Len(e) : j[i] = e[i - Len(down[t])]
        BY <1>1, <4>1, Joins
      <4> HIDE DEF j
      <4>4. down'[t] = j
        BY <1>1, <2>3, <3>2 DEF j, e
      <4>5. \A i \in 1 .. Len(j) : \/ i \in 1 .. Len(down[t])
                                   \/ /\ i \in Len(down[t]) + 1 .. Len(down[t]) + Len(e)
                                      /\ i - Len(down[t]) \in 1 .. Len(e)
        BY <4>3
      <4>6. \A i \in 1 .. Len(j) : (i \in 1 .. Len(down[t]) /\ j[i] = down[t][i]) \/ New(j[i], t)
        BY <4>2, <4>3, <4>5 DEF New
      <4>7. \A i \in 1 .. Len(down[t]) : i \in 1 .. Len(j) /\ j[i] = down[t][i]
        BY <4>3
      <4> QED
        BY <4>4, <4>6, <4>7 DEF Grown
    <3> QED
      BY <3>1, <3>2
  <2> QED
    BY <1>8, <2>1, <2>2, <2>3 DEF Daemon, Greet, Reject, RunOp, ReceiveAbort, ReceiveClose
<1>9. ASSUME NEW r \in Requests, proc[r] # "none" PROVE sentOn[r] \in Sockets
  <2>1. sentOn[r] # 0 /\ sentOn[r] \in 0 .. MaxSockets
    BY <1>9 DEF Asked, AskedAt, Typed
  <2> QED
    BY <2>1, RemoteEnvAssumption DEF Sockets
<1>10. ASSUME NEW r \in Requests, Output(r) PROVE Grown(t)
  <2>1. proc[r] # "none" /\ r \in said' /\ ToClient(sentOn[r], Stream(r))
    BY <1>10 DEF Output, Stream
  <2>2. Stream(r) \in Frames
    BY FramesAre DEF Stream, FrameTypes
  <2>3. CASE Shut(sentOn[r])
    <3>1. down'[t] = down[t]
      BY <1>9, <2>1, <2>2, <2>3, ToClientIs
    <3> QED
      BY <3>1, GrownSame
  <2>4. CASE ~Shut(sentOn[r])
    <3>1. New(Stream(r), sentOn[r])
      BY <2>1, <2>4 DEF New
    <3> QED
      BY <1>4, <1>9, <2>1, <2>2, <3>1
  <2> QED
    BY <2>3, <2>4
<1>11. ASSUME NEW r \in Requests, ExecEnds(r) \/ FileOp(r) PROVE Grown(t)
  <2>1. /\ proc[r] \notin {"none", "ended"} /\ proc' = [proc EXCEPT ![r] = "ended"]
        /\ \E o \in Outcomes : ToClient(sentOn[r], Frame(o, r))
    BY <1>11 DEF ExecEnds, FileOp, Ends, Outcomes
  <2>2. PICK o \in Outcomes : ToClient(sentOn[r], Frame(o, r))
    BY <2>1
  <2>3. /\ Frame(o, r) \in Frames /\ IsAnswer(Frame(o, r), r) /\ Frame(o, r) # Stream(r)
    BY FramesAre DEF IsAnswer, FrameTypes, Stream, Outcomes
  <2>4. proc'[r] = "ended"
    BY <1>1, <2>1
  <2>5. CASE Shut(sentOn[r])
    <3>1. down'[t] = down[t]
      BY <1>9, <2>1, <2>2, <2>3, <2>5, ToClientIs
    <3> QED
      BY <3>1, GrownSame
  <2>6. CASE ~Shut(sentOn[r])
    <3>1. New(Frame(o, r), sentOn[r])
      BY <2>1, <2>3, <2>4, <2>6 DEF New
    <3> QED
      BY <1>4, <1>9, <2>1, <2>2, <2>3, <3>1
  <2> QED
    BY <2>5, <2>6
<1>12. ASSUME NEW r \in Requests, Ask(r) \/ Timeout(r) \/ Abort(r) \/ ExecTimer(r)
       PROVE  UNCHANGED down
  BY <1>12 DEF Ask, Request, Timeout, Abort, ExecTimer
<1>13. CASE HelloTimeout
  BY <1>3, <1>13 DEF HelloTimeout
<1> QED
  BY <1>3, <1>5, <1>6, <1>7, <1>8, <1>10, <1>11, <1>12, <1>13 DEF Next

LEMMA RepliedKept ==
    ASSUME Typed, Asked, Replied, Next
    PROVE  Replied'
<1> DEFINE Carried(f, s, r) == /\ IsAnswer(f, r) => sentOn[r] = s /\ proc[r] = "ended"
                               /\ f = Stream(r) => r \in said
<1> SUFFICES ASSUME NEW s \in Sockets, NEW i \in 1 .. Len(down'[s]), NEW r \in Requests
             PROVE  /\ IsAnswer(down'[s][i], r) => sentOn'[r] = s /\ proc'[r] = "ended"
                    /\ down'[s][i] = Stream(r) => r \in said'
  BY DEF Replied, IsAnswer, Stream, Frame
<1>1. RequestOnward(r) /\ AskedAt(r) /\ s # 0
  BY Onward DEF Asked, Sockets
<1>2. \A j \in 1 .. Len(down[s]) : Carried(down[s][j], s, r)
  BY DEF Replied
<1>3. ASSUME NEW f, Carried(f, s, r), f = down'[s][i]
      PROVE  /\ IsAnswer(down'[s][i], r) => sentOn'[r] = s /\ proc'[r] = "ended"
             /\ down'[s][i] = Stream(r) => r \in said'
  BY <1>1, <1>3 DEF RequestOnward, AskedAt
<1>4. CASE Popped(s)
  <2>1. down[s] \in Seq(Frames) /\ down[s] # <<>> /\ down'[s] = Tail(down[s])
    BY <1>4 DEF Popped, Typed
  <2>2. i + 1 \in 1 .. Len(down[s]) /\ down'[s][i] = down[s][i + 1]
    <3>1. /\ Len(down'[s]) = Len(down[s]) - 1 /\ Len(down[s]) \in Nat
          /\ \A j \in 1 .. Len(down'[s]) : down'[s][j] = down[s][j + 1]
      BY <2>1, Tails
    <3> QED
      BY <3>1
  <2> QED
    BY <1>2, <1>3, <2>2
<1>5. CASE Grown(s)
  <2>1. CASE i \in 1 .. Len(down[s]) /\ down'[s][i] = down[s][i]
    BY <1>2, <1>3, <2>1
  <2>2. CASE New(down'[s][i], s)
    <3>1. Stream(r).type = "stream" /\ Stream(r).call = r
      BY FramesAre DEF Stream, FrameTypes
    <3>2. CASE Unsaid(down'[s][i])
      BY <3>1, <3>2 DEF Unsaid, IsAnswer
    <3>3. CASE \E q \in Requests : sentOn[q] = s /\
                 \/ down'[s][i] = Stream(q) /\ q \in said'
                 \/ /\ IsAnswer(down'[s][i], q) /\ down'[s][i] # Stream(q)
                    /\ proc[q] \notin {"none", "ended"} /\ proc'[q] = "ended"
      <4>1. PICK q \in Requests : sentOn[q] = s /\
                 \/ down'[s][i] = Stream(q) /\ q \in said'
                 \/ /\ IsAnswer(down'[s][i], q) /\ down'[s][i] # Stream(q)
                    /\ proc[q] \notin {"none", "ended"} /\ proc'[q] = "ended"
        BY <3>3
      <4>2. Stream(q).type = "stream" /\ Stream(q).call = q
        BY FramesAre DEF Stream, FrameTypes
      <4>3. "stream" \notin Outcomes
        BY DEF Outcomes
      <4>4. CASE down'[s][i] = Stream(q) /\ q \in said'
        BY <3>1, <4>2, <4>3, <4>4 DEF IsAnswer
      <4>5. CASE IsAnswer(down'[s][i], q) /\ proc'[q] = "ended"
        <5>1. IsAnswer(down'[s][i], r) => q = r
          BY <4>5 DEF IsAnswer
        <5>2. down'[s][i] # Stream(r)
          BY <3>1, <4>3, <4>5 DEF IsAnswer
        <5> QED
          BY <1>1, <4>1, <4>5, <5>1, <5>2 DEF RequestOnward
      <4> QED
        BY <4>1, <4>4, <4>5
    <3> QED
      BY <2>2, <3>2, <3>3 DEF New
  <2> QED
    BY <1>5, <2>1, <2>2 DEF Grown
<1> QED
  BY <1>4, <1>5, DownOnward

LEMMA HeardKept ==
    ASSUME Typed, Asked, Replied, Heard, Next
    PROVE  Heard'
<1> SUFFICES ASSUME NEW r \in heard' PROVE r \in said'
  BY DEF Heard
<1>1. r \in Requests
  BY TypedKept DEF Typed
<1>2. RequestOnward(r)
  BY <1>1, Onward
<1>3. CASE r \in heard
  BY <1>2, <1>3 DEF Heard, RequestOnward
<1>4. CASE r \notin heard
  <2>1. PICK s \in Sockets : Has(down[s], Stream(r))
    BY <1>2, <1>4 DEF RequestOnward
  <2>2. r \in said
    BY <1>1, <2>1 DEF Has, Replied
  <2> QED
    BY <1>2, <2>2 DEF RequestOnward
<1> QED
  BY <1>3, <1>4

LEMMA ClosedOnward ==
    ASSUME Typed, Dialled, \A s \in Sockets : SocketAt(s), Next, NEW t \in Sockets, sockets[t] = "closed"
    PROVE  sockets'[t] = "closed"
<1>1. CASE UNCHANGED sockets
  BY <1>1
<1>2. ASSUME NEW s \in Sockets, NEW v, sockets[s] # "closed", sockets' = [sockets EXCEPT ![s] = v]
      PROVE  sockets'[t] = "closed"
  BY <1>2 DEF Typed
<1>3. ASSUME NEW r \in Requests, Ask(r) PROVE sockets'[t] = "closed"
  <2> DEFINE s == Cardinality(Used) + 1
  <2>1. CASE s \in Sockets /\ sockets' = [sockets EXCEPT ![s] = "dialing"]
    <3>1. sockets[s] = "none"
      BY <2>1, NextSocket
    <3> QED
      BY <1>2, <2>1, <3>1
  <2> QED
    BY <1>1, <1>3, <2>1 DEF Ask, Request
<1>4. CASE Close
  BY <1>4 DEF Close, Typed
<1>5. ASSUME NEW s \in Sockets, Open(s) \/ DialFails(s) \/ Drop(s) PROVE sockets'[t] = "closed"
  BY <1>2, <1>5 DEF Open, DialFails, Drop
<1>6. ASSUME NEW s \in Sockets, FromSocket(s) PROVE sockets'[t] = "closed"
  BY <1>6 DEF FromSocket, TakeFailure, TakeHelloOk, TakeRejection, TakeStream, TakeResponse, TakeClose,
              Typed
<1>7. ASSUME NEW s \in Sockets, Reject(s) PROVE sockets'[t] = "closed"
  <2>1. Receive(s, "hello") /\ sockets' = [sockets EXCEPT ![s] = "closing"]
    BY <1>7 DEF Reject
  <2>2. up[s] \in Seq(Frames) /\ up[s] # <<>> /\ up[s][1].type = "hello"
    BY <2>1, ReceiveIs
  <2>3. 1 \in 1 .. Len(up[s])
    BY <2>2
  <2>4. Has(up[s], Hello)
    BY <2>2, <2>3 DEF SocketAt, Has
  <2>5. Speaks(s)
    BY <2>4 DEF SocketAt
  <2> QED
    BY <1>2, <2>1, <2>5 DEF Speaks
<1>8. ASSUME NEW s \in Sockets, Daemon(s), ~Reject(s) PROVE UNCHANGED sockets
  BY <1>8 DEF Daemon, Greet, RunOp, ReceiveAbort, ReceiveClose
<1>9. ASSUME NEW r \in Requests,
             \/ Timeout(r) \/ Abort(r) \/ ExecTimer(r) \/ Output(r) \/ ExecEnds(r) \/ FileOp(r)
      PROVE  UNCHANGED sockets
  BY <1>9 DEF Timeout, Abort, ExecTimer, Output, ExecEnds, FileOp, Ends
<1>10. CASE HelloTimeout
  BY <1>10 DEF HelloTimeout
<1> QED
  BY <1>1, <1>3, <1>4, <1>5, <1>6, <1>7, <1>8, <1>9, <1>10 DEF Next

LEMMA ShutOnward ==
    ASSUME Typed, Dialled, \A s \in Sockets : SocketAt(s), Asked, Next, NEW t \in Sockets, Shut(t)
    PROVE  conn'[t] = "gone" \/ sockets'[t] = "closed" \/ Has(down'[t], Gone)
<1>1. CASE conn[t] = "gone"
  BY <1>1, ConnOnward
<1>2. CASE sockets[t] = "closed"
  BY <1>2, ClosedOnward
<1>3. CASE Has(down[t], Gone)
  <2>1. PICK i \in 1 .. Len(down[t]) : down[t][i] = Gone
    BY <1>3 DEF Has
  <2>2. CASE Popped(t)
    <3>1. CASE i = 1
      BY <2>1, <2>2, <3>1, FramesAre DEF Popped
    <3>2. CASE i # 1
      <4>1. down[t] \in Seq(Frames) /\ down[t] # <<>> /\ down'[t] = Tail(down[t])
        BY <2>2 DEF Popped, Typed
      <4>2. /\ Len(down'[t]) = Len(down[t]) - 1 /\ Len(down[t]) \in Nat
            /\ \A j \in 1 .. Len(down'[t]) : down'[t][j] = down[t][j + 1]
        BY <4>1, Tails
      <4>3. i - 1 \in 1 .. Len(down'[t]) /\ (i - 1) + 1 = i
        BY <3>2, <4>2
      <4> QED
        BY <2>1, <4>2, <4>3 DEF Has
    <3> QED
      BY <3>1, <3>2
  <2>3. CASE Grown(t)
    BY <2>1, <2>3 DEF Grown, Has
  <2> QED
    BY <2>2, <2>3, DownOnward
<1> QED
  BY <1>1, <1>2, <1>3 DEF Shut

-----------------------------------------------------------------------------
(* Output reaches the caller before the answer.                            *)

LEMMA ToldKept ==
    ASSUME Typed, Dialled, \A s \in Sockets : SocketAt(s), Asked, Replied, Told, Next
    PROVE  Told'
<1> SUFFICES ASSUME NEW r \in Requests, calls'[r] = "waiting", r \in said', r \notin heard'
             PROVE  ToldOn(r, sentOn[r])'
  BY DEF Told
<1> DEFINE s == sentOn[r]
<1>1. RequestOnward(r) /\ AskedAt(r)
  BY Onward DEF Asked
<1>2. /\ Stream(r) \in Frames /\ Stream(r).type = "stream" /\ Stream(r).call = r
      /\ "stream" \notin Outcomes
  BY FramesAre DEF Stream, FrameTypes, Outcomes
<1>3. proc[r] # "none" /\ s # 0 /\ s \in Sockets
  <2>1. proc[r] # "none"
    BY <1>1 DEF RequestOnward, AskedAt, Output
  <2>2. s \in 0 .. MaxSockets /\ s # 0
    BY <1>1, <2>1 DEF AskedAt, Typed
  <2> QED
    BY <2>1, <2>2, RemoteEnvAssumption DEF Sockets
<1>4. sentOn'[r] = s /\ r \notin heard /\ calls[r] = "waiting"
  BY <1>1, <1>3 DEF RequestOnward
<1> HIDE DEF s
<1>5. SUFFICES /\ Has(down'[s], Stream(r)) \/ conn'[s] = "gone" \/ sockets'[s] = "closed"
                  \/ Has(down'[s], Gone)
               /\ \A j \in 1 .. Len(down'[s]) : IsAnswer(down'[s][j], r) =>
                     \E i \in 1 .. j - 1 : down'[s][i] = Stream(r)
  BY <1>4 DEF ToldOn, Shut, Has, IsAnswer, Stream, Gone, Frame
<1>6. down[s] \in Seq(Frames) /\ Len(down[s]) \in Nat /\ down'[s] \in Seq(Frames) /\ Len(down'[s]) \in Nat
  BY <1>3, TypedKept DEF Typed
\* The output was already on its way or lost.
<1>7. CASE r \in said
  <2>1. ToldOn(r, s)
    BY <1>4, <1>7 DEF Told, s
  <2>2. CASE Popped(s)
    <3>1. /\ down[s] # <<>> /\ down'[s] = Tail(down[s]) /\ down[s][1] # Stream(r)
      BY <1>4, <2>2 DEF Popped, In
    <3>2. /\ Len(down'[s]) = Len(down[s]) - 1
          /\ \A i \in 1 .. Len(down'[s]) : down'[s][i] = down[s][i + 1]
      BY <1>6, <3>1, Tails
    <3>3. \A i \in 1 .. Len(down[s]) : i # 1 => i - 1 \in 1 .. Len(down'[s]) /\ (i - 1) + 1 = i
      BY <1>6, <3>2
    <3>4. Has(down[s], Stream(r)) => Has(down'[s], Stream(r))
      BY <3>1, <3>2, <3>3 DEF Has
    <3>5. Shut(s) => conn'[s] = "gone" \/ sockets'[s] = "closed" \/ Has(down'[s], Gone)
      BY <1>3, ShutOnward
    <3>6. ASSUME NEW j \in 1 .. Len(down'[s]), IsAnswer(down'[s][j], r)
          PROVE  \E i \in 1 .. j - 1 : down'[s][i] = Stream(r)
      <4>1. j + 1 \in 1 .. Len(down[s]) /\ IsAnswer(down[s][j + 1], r)
        BY <1>6, <3>2, <3>6
      <4>2. PICK k \in 1 .. (j + 1) - 1 : down[s][k] = Stream(r)
        BY <2>1, <4>1 DEF ToldOn
      <4>3. k # 1 /\ k \in 1 .. Len(down[s])
        BY <1>6, <3>1, <3>2, <4>2
      <4>4. down'[s][k - 1] = Stream(r) /\ k - 1 \in 1 .. j - 1
        BY <3>2, <3>3, <4>2, <4>3
      <4> QED
        BY <4>4
    <3> QED
      BY <2>1, <3>4, <3>5, <3>6 DEF ToldOn
  <2>3. CASE Grown(s)
    <3>1. CASE Has(down'[s], Gone) /\ \A i \in 1 .. Len(down'[s]) : Unsaid(down'[s][i])
      BY <3>1 DEF Unsaid, IsAnswer
    <3>2. CASE \A i \in 1 .. Len(down[s]) : i \in 1 .. Len(down'[s]) /\ down'[s][i] = down[s][i]
      <4>1. Has(down[s], Stream(r)) => Has(down'[s], Stream(r))
        BY <3>2 DEF Has
      <4>2. Shut(s) => conn'[s] = "gone" \/ sockets'[s] = "closed" \/ Has(down'[s], Gone)
        BY <1>3, ShutOnward
      <4>3. ASSUME NEW j \in 1 .. Len(down'[s]), IsAnswer(down'[s][j], r)
            PROVE  \E i \in 1 .. j - 1 : down'[s][i] = Stream(r)
        <5>1. CASE j \in 1 .. Len(down[s])
          <6>1. IsAnswer(down[s][j], r)
            BY <3>2, <4>3, <5>1
          <6>2. PICK i \in 1 .. j - 1 : down[s][i] = Stream(r)
            BY <2>1, <5>1, <6>1 DEF ToldOn
          <6>3. i \in 1 .. Len(down[s])
            BY <1>6, <5>1
          <6> QED
            BY <3>2, <6>2, <6>3
        <5>2. CASE j \notin 1 .. Len(down[s])
          <6>1. New(down'[s][j], s) /\ ~Unsaid(down'[s][j])
            BY <2>3, <4>3, <5>2 DEF Grown, Unsaid, IsAnswer
          <6>2. Has(down[s], Stream(r))
            BY <2>1, <6>1 DEF New, ToldOn
          <6>3. PICK i \in 1 .. Len(down[s]) : down[s][i] = Stream(r)
            BY <6>2 DEF Has
          <6>4. i \in 1 .. j - 1
            BY <1>6, <5>2
          <6> QED
            BY <3>2, <6>3, <6>4
        <5> QED
          BY <5>1, <5>2
      <4> QED
        BY <2>1, <4>1, <4>2, <4>3 DEF ToldOn
    <3> QED
      BY <2>3, <3>1, <3>2 DEF Grown
  <2> QED
    BY <1>3, <2>2, <2>3, DownOnward
\* The command writes its output in this step.
<1>8. CASE r \notin said
  <2>1. Output(r)
    BY <1>1, <1>8 DEF RequestOnward
  <2>2. /\ proc[r] \notin {"none", "ended"} /\ proc' = proc /\ ToClient(s, Stream(r))
        /\ UNCHANGED <<conn, sockets>>
    BY <2>1 DEF Output, Stream, s
  <2>3. Shut(s) => conn'[s] = "gone" \/ sockets'[s] = "closed" \/ Has(down'[s], Gone)
    BY <1>3, ShutOnward
  <2>4. ~Shut(s) => Has(down'[s], Stream(r))
    <3>1. ~Shut(s) => down'[s] = Append(down[s], Stream(r))
      BY <1>2, <1>3, <2>2, ToClientIs
    <3>2. LET a == Append(down[s], Stream(r)) IN
          Len(a) = Len(down[s]) + 1 /\ a[Len(down[s]) + 1] = Stream(r)
      BY <1>2, <1>6, Appends
    <3>3. Len(down[s]) + 1 \in 1 .. Len(down[s]) + 1
      BY <1>6
    <3> QED
      BY <3>1, <3>2, <3>3 DEF Has
  <2>5. \A j \in 1 .. Len(down'[s]) : ~IsAnswer(down'[s][j], r)
    BY <1>3, <2>2, RepliedKept DEF Replied, IsAnswer
  <2> QED
    BY <2>3, <2>4, <2>5
<1> QED
  BY <1>7, <1>8

LEMMA OkKept ==
    ASSUME Typed, Asked, Replied, Told, OkIsWhole, Next
    PROVE  OkIsWhole'
<1> SUFFICES ASSUME NEW r \in Requests, calls'[r] = "ok"
             PROVE  proc'[r] = "ended" /\ (r \in said' => r \in heard')
  BY DEF OkIsWhole, In
<1>1. RequestOnward(r)
  BY Onward
<1>2. CASE calls[r] = "ok"
  <2>1. proc[r] = "ended" /\ (r \in said => r \in heard)
    BY <1>2 DEF OkIsWhole, In
  <2>2. r \in said' => r \in said
    BY <1>1, <2>1 DEF RequestOnward, Output
  <2> QED
    BY <1>1, <2>1, <2>2 DEF RequestOnward
<1>3. CASE calls[r] # "ok"
  <2>1. calls[r] = "waiting" /\ UNCHANGED <<proc, said, heard>>
    BY <1>1, <1>3 DEF RequestOnward
  <2>2. PICK s \in Sockets : down[s] # <<>> /\ IsAnswer(down[s][1], r)
    BY <1>1, <1>3 DEF RequestOnward
  <2>3. 1 \in 1 .. Len(down[s])
    BY <2>2 DEF Typed
  <2>4. sentOn[r] = s /\ proc[r] = "ended"
    BY <2>2, <2>3 DEF Replied
  <2>5. r \in said => r \in heard
    <3> SUFFICES ASSUME r \in said \ heard PROVE FALSE
      OBVIOUS
    <3>1. ToldOn(r, s)
      BY <2>1, <2>4 DEF Told
    <3>2. \E i \in 1 .. 1 - 1 : down[s][i] = Stream(r)
      BY <2>2, <2>3, <3>1 DEF ToldOn
    <3> QED
      BY <3>2
  <2> QED
    BY <2>1, <2>4, <2>5
<1> QED
  BY <1>2, <1>3

-----------------------------------------------------------------------------
(* One socket at a time.                                                   *)

LEMMA SettledKept == ASSUME Typed, Settled, Next PROVE Settled'
<1>1. ASSUME UNCHANGED <<socket, attempt, connected, disposed>> PROVE Settled'
  BY <1>1 DEF Settled
<1>2. ASSUME NEW r \in Requests, Ask(r) PROVE Settled'
  <2>1. ~disposed /\ UNCHANGED <<connected, disposed>> /\ (connected => UNCHANGED attempt)
    BY <1>2 DEF Ask, Request
  <2> QED
    BY <2>1 DEF Settled
<1>3. ASSUME NEW r \in Requests,
             \/ Timeout(r) \/ Abort(r) \/ ExecTimer(r) \/ Output(r) \/ ExecEnds(r) \/ FileOp(r)
      PROVE  Settled'
  BY <1>1, <1>3 DEF Timeout, Abort, ExecTimer, Output, ExecEnds, FileOp, Ends, client
<1>4. CASE HelloTimeout \/ Close
  BY <1>4 DEF HelloTimeout, Close, GiveUp, Settled
<1>5. ASSUME NEW s \in Sockets, Open(s) \/ DialFails(s) \/ Drop(s) \/ Daemon(s) PROVE Settled'
  BY <1>1, <1>5 DEF Open, DialFails, Drop, Daemon, Greet, Reject, RunOp, ReceiveAbort, ReceiveClose,
                    Receive, client
<1>6. ASSUME NEW s \in Sockets, FromSocket(s) PROVE Settled'
  <2>1. UNCHANGED disposed
    BY <1>6 DEF FromSocket, TakeFailure, TakeHelloOk, TakeRejection, TakeStream, TakeResponse,
                TakeClose, Take
  <2>2. /\ socket' = socket \/ socket' = 0
        /\ attempt' # 0 => attempt' = attempt
        /\ connected' => connected \/ attempt' = 0
    BY <1>6 DEF FromSocket, TakeFailure, TakeHelloOk, TakeRejection, TakeStream, TakeResponse,
                TakeClose, GiveUp
  <2> QED
    BY <2>1, <2>2 DEF Settled
<1> QED
  BY <1>2, <1>3, <1>4, <1>5, <1>6 DEF Next

LEMMA NoNewHello ==
    ASSUME Typed, NEW s \in Sockets, UpQuiet(s)
    PROVE  Has(up'[s], Hello) => Has(up[s], Hello)
<1>1. up[s] \in Seq(Frames) /\ Hello \in Frames /\ Hello.type = "hello"
  BY FramesAre DEF Typed
<1>2. CASE \E e \in Seq(Frames) : up'[s] = up[s] \o e /\ \A i \in 1 .. Len(e) : e[i].type # "hello"
  <2>1. PICK e \in Seq(Frames) : up'[s] = up[s] \o e /\ \A i \in 1 .. Len(e) : e[i].type # "hello"
    BY <1>2
  <2>2. /\ Len(up'[s]) = Len(up[s]) + Len(e) /\ Len(e) \in Nat /\ Len(up[s]) \in Nat
        /\ \A i \in 1 .. Len(up[s]) : up'[s][i] = up[s][i]
        /\ \A i \in Len(up[s]) + 1 .. Len(up[s]) + Len(e) : up'[s][i] = e[i - Len(up[s])]
    BY <1>1, <2>1, Joins
  <2>3. \A i \in 1 .. Len(up'[s]) : i \in 1 .. Len(up[s]) \/ (i - Len(up[s]) \in 1 .. Len(e)
           /\ i \in Len(up[s]) + 1 .. Len(up[s]) + Len(e))
    BY <2>2
  <2> QED
    BY <1>1, <2>1, <2>2, <2>3 DEF Has
<1>3. CASE up'[s] = up[s] \/ (up[s] # <<>> /\ up'[s] = Tail(up[s]))
  <2>1. Gone \in Frames /\ Gone # Hello
    BY FramesAre
  <2> QED
    BY <1>1, <1>3, <2>1, NoMoreIs DEF NoMore
<1> QED
  BY <1>2, <1>3 DEF UpQuiet

\* A hello_ok that the client has is one that was under way.
LEMMA NoNewHelloOk ==
    ASSUME Typed, NEW s \in Sockets, NEW g \in Frames, g # HelloOk,
           \/ down'[s] = down[s] \/ (down[s] # <<>> /\ down'[s] = Tail(down[s]))
           \/ down'[s] = Append(down[s], g) \/ down'[s] = <<Gone>> \/ down'[s] = <<Failure, Gone>>
    PROVE  Has(down'[s], HelloOk) => Has(down[s], HelloOk)
<1>1. down[s] \in Seq(Frames) /\ Gone # HelloOk /\ Failure # HelloOk
  BY FramesAre DEF Typed
<1>2. CASE down'[s] = down[s]
  BY <1>2
<1>3. CASE down[s] # <<>> /\ down'[s] = Tail(down[s])
  <2>1. /\ Len(down'[s]) = Len(down[s]) - 1 /\ Len(down[s]) \in Nat
        /\ \A i \in 1 .. Len(down'[s]) : down'[s][i] = down[s][i + 1]
    BY <1>1, <1>3, Tails
  <2>2. \A i \in 1 .. Len(down'[s]) : i + 1 \in 1 .. Len(down[s])
    BY <2>1
  <2> QED
    BY <2>1, <2>2 DEF Has
<1>4. CASE down'[s] = Append(down[s], g)
  <2>1. /\ Len(down'[s]) = Len(down[s]) + 1 /\ Len(down[s]) \in Nat /\ down'[s][Len(down[s]) + 1] = g
        /\ \A i \in 1 .. Len(down[s]) : down'[s][i] = down[s][i]
    BY <1>1, <1>4, Appends
  <2>2. \A i \in 1 .. Len(down'[s]) : i \in 1 .. Len(down[s]) \/ down'[s][i] = g
    BY <2>1
  <2> QED
    BY <2>1, <2>2 DEF Has
<1>5. CASE down'[s] = <<Gone>>
  <2>1. \A i \in 1 .. Len(down'[s]) : down'[s][i] = Gone
    BY <1>5
  <2> QED
    BY <1>1, <2>1 DEF Has
<1>6. CASE down'[s] = <<Failure, Gone>>
  <2>1. \A i \in 1 .. 2 : <<Failure, Gone>>[i] = Failure \/ <<Failure, Gone>>[i] = Gone
    <3>1. \A i \in 1 .. 2 : i = 1 \/ i = 2
      OBVIOUS
    <3> QED
      BY <3>1
  <2>2. \A i \in 1 .. Len(down'[s]) : down'[s][i] = Failure \/ down'[s][i] = Gone
    BY <1>6, <2>1
  <2> QED
    BY <1>1, <2>2 DEF Has
<1> QED
  BY <1>2, <1>3, <1>4, <1>5, <1>6

LEMMA OneSame ==
    ASSUME One, UNCHANGED <<socket, attempt, connected, disposed>>, attempt \in 0 .. MaxSockets,
           socket \in 0 .. MaxSockets,
           \A s \in Sockets : /\ Alive(s)' <=> Alive(s)
                              /\ Speaks(s) => Speaks(s)'
                              /\ Has(up'[s], Hello) => Greets(s)
                              /\ Has(down'[s], HelloOk) => Greets(s)
                              /\ sockets'[s] = "dialing" => sockets[s] = "dialing"
    PROVE  One'
<1>1. \A s \in Sockets : Has(up'[s], Hello) \/ Has(down'[s], HelloOk) \/ sockets'[s] = "dialing"
                            => attempt = s
  BY DEF One, Greets
<1>2. /\ attempt # 0 => attempt \in Sockets
      /\ socket # 0 => socket \in Sockets
  BY RemoteEnvAssumption DEF Sockets
<1>3. /\ \A s, t \in Sockets : Alive(s)' /\ Alive(t)' => s = t
      /\ ~disposed => \A s \in Sockets : Alive(s)' => attempt = s \/ (connected /\ socket = s)
      /\ attempt # 0 => Alive(attempt)' /\ (disposed \/ socket = attempt)
      /\ connected /\ ~disposed => socket # 0 /\ Speaks(socket)'
  BY <1>2 DEF One
<1> QED
  BY <1>1, <1>3 DEF One, Greets, Has, Hello, HelloOk, Frame, Alive, Speaks

LEMMA StrayOnward == ASSUME stray \in BOOLEAN, Next, ~stray' PROVE ~stray
<1>1. ASSUME NEW r \in Requests, Ask(r) \/ Timeout(r) \/ Abort(r) PROVE UNCHANGED stray
  BY <1>1 DEF Ask, Request, Timeout, Abort
<1>2. CASE HelloTimeout \/ Close
  BY <1>2 DEF HelloTimeout, Close
<1>3. ASSUME NEW s \in Sockets, Open(s) \/ DialFails(s) \/ Drop(s) \/ Daemon(s) PROVE UNCHANGED stray
  BY <1>3 DEF Open, DialFails, Drop, Daemon, Greet, Reject, RunOp, ReceiveAbort, ReceiveClose,
              Receive, client
<1>4. ASSUME NEW s \in Sockets, FromSocket(s) PROVE stray' = stray \/ stray'
  BY <1>4 DEF FromSocket, TakeFailure, TakeHelloOk, TakeRejection, TakeStream, TakeResponse, TakeClose
<1>5. ASSUME NEW r \in Requests, ExecTimer(r) \/ Output(r) \/ ExecEnds(r) \/ FileOp(r)
      PROVE  UNCHANGED stray
  BY <1>5 DEF ExecTimer, Output, ExecEnds, FileOp, Ends, client
<1> QED
  BY <1>1, <1>2, <1>3, <1>4, <1>5 DEF Next

LEMMA OneKept ==
    ASSUME Typed, Dialled, \A s \in Sockets : SocketAt(s), Asked, Settled, One, Next, ~stray'
    PROVE  One'
<1>1. /\ socket \in 0 .. MaxSockets /\ attempt \in 0 .. MaxSockets
      /\ attempt # 0 => attempt \in Sockets
      /\ socket # 0 => socket \in Sockets
      /\ \A s \in Sockets : s # 0
      /\ sockets \in [Sockets -> States]
  BY RemoteEnvAssumption DEF Typed, Sockets
<1>2. \A s \in Sockets : SocketAt(s)'
  BY SocketKept
<1>3. /\ Gone \in Frames /\ Failure \in Frames /\ HelloOk \in Frames /\ Gone # HelloOk
      /\ Hello.type = "hello" /\ HelloOk.type = "hello_ok"
  BY FramesAre
<1>4. ASSUME UNCHANGED <<socket, attempt, connected, disposed>>,
             \A s \in Sockets : /\ Alive(s)' <=> Alive(s)
                                /\ Speaks(s) => Speaks(s)'
                                /\ Has(up'[s], Hello) => Greets(s)
                                /\ Has(down'[s], HelloOk) => Greets(s)
                                /\ sockets'[s] = "dialing" => sockets[s] = "dialing"
      PROVE  One'
  BY <1>1, <1>4, OneSame
<1>5. ASSUME UNCHANGED <<socket, attempt, connected, disposed, sockets>>,
             \A s \in Sockets : /\ Has(up'[s], Hello) => Has(up[s], Hello)
                                /\ Has(down'[s], HelloOk) => Has(down[s], HelloOk)
      PROVE  One'
  BY <1>4, <1>5 DEF Greets, Alive, Speaks
<1>6. ASSUME NEW r \in Requests, Ask(r) PROVE One'
  <2>1. UNCHANGED <<connected, disposed, down>> /\ ~disposed
    BY <1>6 DEF Ask, Request
  <2>2. CASE connected
    <3>1. Send({r}) /\ UNCHANGED <<socket, attempt, sockets>> /\ {r} \subseteq Requests
      BY <1>6, <2>2 DEF Ask, Request
    <3>2. \A s \in Sockets : UpQuiet(s)
      BY <3>1, SendQuiet
    <3>3. \A s \in Sockets : Has(up'[s], Hello) => Has(up[s], Hello)
      BY <3>2, NoNewHello
    <3> QED
      BY <1>5, <2>1, <3>1, <3>3
  <2>3. CASE ~connected /\ attempt # 0
    <3>1. UNCHANGED <<socket, attempt, sockets, up>>
      BY <1>6, <2>3 DEF Ask, Request
    <3> QED
      BY <1>5, <2>1, <3>1
  <2>4. CASE ~connected /\ attempt = 0
    <3> DEFINE s == Cardinality(Used) + 1
    <3>1. /\ s \in Sockets /\ attempt' = s /\ socket' = s
          /\ sockets' = [sockets EXCEPT ![s] = "dialing"] /\ UNCHANGED up
      BY <1>6, <2>4 DEF Ask, Request
    <3> HIDE DEF s
    <3>2. \A x \in Sockets : ~Alive(x) /\ ~Greets(x)
      BY <1>1, <2>1, <2>4 DEF One
    <3>3. \A x \in Sockets : Alive(x)' <=> x = s
      BY <1>1, <3>1, <3>2 DEF Alive
    <3>4. \A x \in Sockets : Greets(x)' => x = s
      <4>1. \A x \in Sockets : ~Has(up'[x], Hello) /\ ~Has(down'[x], HelloOk)
        BY <2>1, <3>1, <3>2 DEF Greets
      <4>2. \A x \in Sockets : sockets'[x] = "dialing" => x = s
        BY <1>1, <3>1, <3>2 DEF Greets
      <4> QED
        BY <4>1, <4>2 DEF Greets, Has, Hello, HelloOk, Frame
    <3>5. ~connected'
      BY <2>1, <2>4
    <3>6. Alive(attempt)'
      BY <1>1, <3>1 DEF Alive
    <3> QED
      BY <3>1, <3>3, <3>4, <3>5, <3>6 DEF One
  <2> QED
    BY <2>2, <2>3, <2>4
<1>7. ASSUME NEW r \in Requests, Timeout(r) \/ Abort(r) PROVE One'
  <2>1. /\ ToDaemon(socket, Frame("abort", r))
        /\ UNCHANGED <<socket, attempt, connected, disposed, sockets, down>>
    BY <1>7 DEF Timeout, Abort
  <2>2. Frame("abort", r) \in Frames /\ Frame("abort", r) # Hello
    BY FramesAre DEF FrameTypes
  <2>3. \A s \in Sockets : up'[s] = up[s] \/ up'[s] = Append(up[s], Frame("abort", r))
    BY <2>1, <2>2, ToDaemonUp
  <2>4. \A s \in Sockets : Has(up'[s], Hello) => Has(up[s], Hello)
    BY <2>2, <2>3, FramesAre, NoMoreIs DEF NoMore
  <2> QED
    BY <1>5, <2>1, <2>4
<1>8. CASE HelloTimeout
  BY <1>8 DEF HelloTimeout
<1>9. CASE Close
  <2>1. /\ disposed' = TRUE /\ connected' = FALSE /\ socket' = 0 /\ UNCHANGED attempt
    BY <1>9 DEF Close
  <2>2. /\ \A s \in Sockets : /\ Alive(s)' <=> Alive(s)
                              /\ sockets'[s] = "dialing" => sockets[s] = "dialing"
    BY <1>1, <1>9 DEF Close, Alive
  <2>3. \A s \in Sockets : Has(up'[s], Hello) => Has(up[s], Hello)
    <3>1. UNCHANGED up \/ ToDaemon(socket, Gone)
      BY <1>9 DEF Close
    <3>2. \A s \in Sockets : up'[s] = up[s] \/ up'[s] = Append(up[s], Gone)
      BY <1>3, <3>1, ToDaemonUp
    <3> QED
      BY <1>3, <3>2, FramesAre, NoMoreIs DEF NoMore
  <2>4. \A s \in Sockets : Has(down'[s], HelloOk) => Has(down[s], HelloOk)
    <3>1. down \in [Sockets -> Seq(Frames)]
      BY DEF Typed
    <3>2. \A s \in Sockets : down'[s] = down[s] \/ down'[s] = <<Failure, Gone>>
      BY <1>9, <3>1 DEF Close
    <3> QED
      BY <1>3, <3>2, NoNewHelloOk
  <2>5. \A s \in Sockets : Greets(s)' => attempt' = s
    <3>1. \A s \in Sockets : Has(up'[s], Hello) \/ Has(down'[s], HelloOk) \/ sockets'[s] = "dialing"
             => Greets(s)
      BY <2>2, <2>3, <2>4 DEF Greets
    <3> QED
      BY <2>1, <3>1 DEF One, Greets, Has, Hello, HelloOk, Frame
  <2>6. attempt' # 0 => Alive(attempt)'
    BY <1>1, <2>1, <2>2 DEF One, Alive
  <2>7. \A s, t \in Sockets : Alive(s)' /\ Alive(t)' => s = t
    BY <2>2 DEF One
  <2> QED
    BY <2>1, <2>5, <2>6, <2>7 DEF One
<1>10. ASSUME NEW s \in Sockets, Open(s) PROVE One'
  <2>1. /\ sockets[s] = "dialing" /\ sockets' = [sockets EXCEPT ![s] = "open"]
        /\ up' = [up EXCEPT ![s] = <<Hello>>]
        /\ UNCHANGED <<socket, attempt, connected, disposed, down>>
    BY <1>10 DEF Open, client
  <2>2. \A t \in Sockets : /\ Alive(t)' <=> Alive(t)
                           /\ Speaks(t) => Speaks(t)'
                           /\ sockets'[t] = "dialing" => sockets[t] = "dialing"
    BY <1>1, <2>1 DEF Alive, Speaks
  <2>3. \A t \in Sockets : t # s => up'[t] = up[t]
    BY <2>1 DEF Typed
  <2> QED
    BY <1>4, <2>1, <2>2, <2>3 DEF Greets
<1>11. ASSUME NEW s \in Sockets, DialFails(s) \/ Drop(s) PROVE One'
  <2>1. /\ \/ sockets[s] = "dialing" /\ sockets' = [sockets EXCEPT ![s] = "failing"]
           \/ sockets[s] = "open" /\ sockets' = [sockets EXCEPT ![s] = "closing"]
        /\ up' = up \/ up' = [up EXCEPT ![s] = <<Gone>>]
        /\ down' = [down EXCEPT ![s] = <<Failure, Gone>>] \/ down' = [down EXCEPT ![s] = <<Gone>>]
        /\ UNCHANGED <<socket, attempt, connected, disposed>>
    BY <1>11 DEF DialFails, Drop, client
  <2>2. \A t \in Sockets : /\ Alive(t)' <=> Alive(t)
                           /\ Speaks(t) => Speaks(t)'
                           /\ sockets'[t] = "dialing" => sockets[t] = "dialing"
    BY <1>1, <2>1 DEF Alive, Speaks
  <2>3. \A t \in Sockets : /\ up'[t] = up[t] \/ up'[t] = <<Gone>>
                           /\ down'[t] = down[t] \/ down'[t] = <<Gone>> \/ down'[t] = <<Failure, Gone>>
    <3>1. up \in [Sockets -> Seq(Frames)] /\ down \in [Sockets -> Seq(Frames)]
      BY DEF Typed
    <3> QED
      BY <2>1, <3>1
  <2>4. \A t \in Sockets : Has(up'[t], Hello) => Has(up[t], Hello)
    BY <1>3, <2>3, FramesAre, NoMoreIs DEF NoMore
  <2>5. \A t \in Sockets : Has(down'[t], HelloOk) => Has(down[t], HelloOk)
    BY <1>3, <2>3, NoNewHelloOk
  <2> QED
    BY <1>4, <2>1, <2>2, <2>4, <2>5 DEF Greets
<1>12. ASSUME NEW s \in Sockets, NEW type, Take(s, type)
       PROVE  \A t \in Sockets : Has(down'[t], HelloOk) => Has(down[t], HelloOk)
  <2>1. \A t \in Sockets : down'[t] = down[t] \/ (down[t] # <<>> /\ down'[t] = Tail(down[t]))
    BY <1>12, TakeIs
  <2> QED
    BY <1>3, <2>1, NoNewHelloOk
<1>13. ASSUME NEW s \in Sockets,
              TakeFailure(s) \/ TakeRejection(s) \/ TakeStream(s) \/ TakeResponse(s)
       PROVE  One'
  <2>1. /\ \E type : Take(s, type)
        /\ stray' \/ UNCHANGED <<attempt, socket>>
        /\ UNCHANGED <<connected, disposed, sockets, up>>
    BY <1>13 DEF TakeFailure, TakeRejection, TakeStream, TakeResponse, Take
  <2> QED
    BY <1>5, <1>12, <2>1

<1>14. ASSUME NEW s \in Sockets, TakeHelloOk(s) PROVE One'
  <2>1. /\ down[s] # <<>> /\ down[s] \in Seq(Frames) /\ down[s][1].type = "hello_ok"
        /\ down'[s] = Tail(down[s]) /\ \A t \in Sockets \ {s} : down'[t] = down[t]
    BY <1>14, TakeIs DEF TakeHelloOk
  <2>2. 1 \in 1 .. Len(down[s])
    BY <2>1
  <2>3. down[s][1] = HelloOk /\ Speaks(s)
    BY <2>1, <2>2 DEF SocketAt
  <2>4. Has(down[s], HelloOk)
    BY <2>2, <2>3 DEF Has
  <2>5. attempt = s /\ (disposed \/ socket = s)
    BY <1>1, <2>4 DEF One, Greets
  <2>6. /\ attempt' = 0 /\ connected' = TRUE /\ Send(In("connecting"))
        /\ UNCHANGED <<socket, sockets, disposed>>
    BY <1>1, <1>14, <2>5 DEF TakeHelloOk, Take
  <2>7. \A t \in Sockets : Has(up'[t], Hello) => Has(up[t], Hello)
    <3>1. In("connecting") \subseteq Requests
      BY DEF In
    <3>2. \A t \in Sockets : UpQuiet(t)
      BY <2>6, <3>1, SendQuiet
    <3> QED
      BY <3>2, NoNewHello
  <2>8. ~Has(down'[s], HelloOk)
    <3>1. /\ Len(down'[s]) = Len(down[s]) - 1 /\ Len(down[s]) \in Nat
          /\ \A i \in 1 .. Len(down'[s]) : down'[s][i] = down[s][i + 1]
      BY <2>1, Tails
    <3>2. \A i \in 1 .. Len(down'[s]) : i + 1 \in 1 .. Len(down[s]) /\ i + 1 # 1
      BY <3>1
    <3>3. \A i, j \in 1 .. Len(down[s]) :
             down[s][i].type = "hello_ok" /\ down[s][j].type = "hello_ok" => i = j
      BY DEF SocketAt
    <3> QED
      BY <1>3, <2>1, <2>2, <3>1, <3>2, <3>3 DEF Has
  <2>9. ~Has(up[s], Hello)
    BY <2>4 DEF SocketAt
  <2>10. \A x \in Sockets : ~(Has(up'[x], Hello) \/ Has(down'[x], HelloOk) \/ sockets'[x] = "dialing")
    <3>1. ASSUME NEW x \in Sockets, x # s
          PROVE  ~(Has(up'[x], Hello) \/ Has(down'[x], HelloOk) \/ sockets'[x] = "dialing")
      <4>1. ~Greets(x)
        BY <2>5, <3>1 DEF One
      <4> QED
        BY <2>1, <2>6, <2>7, <3>1, <4>1 DEF Greets
    <3>2. ~(Has(up'[s], Hello) \/ Has(down'[s], HelloOk) \/ sockets'[s] = "dialing")
      BY <2>3, <2>6, <2>7, <2>8, <2>9 DEF Speaks
    <3> QED
      BY <3>1, <3>2
  <2>11. \A x \in Sockets : ~Greets(x)'
    BY <2>10 DEF Greets, Has, Hello, HelloOk, Frame
  <2>12. \A x \in Sockets : Alive(x)' => x = s
    BY <2>3, <2>6 DEF One, Alive, Speaks
  <2>13. ~disposed => socket' = s /\ Speaks(s)'
    BY <2>3, <2>5, <2>6 DEF Speaks
  <2>14. ~disposed' => socket' # 0 /\ Speaks(socket)'
    BY <1>1, <2>3, <2>5, <2>6 DEF Speaks
  <2> QED
    BY <2>6, <2>11, <2>12, <2>13, <2>14 DEF One
<1>15. ASSUME NEW s \in Sockets, TakeClose(s) PROVE One'
  <2>1. /\ down[s] # <<>> /\ UNCHANGED <<up, disposed>> /\ sockets' = [sockets EXCEPT ![s] = "closed"]
        /\ socket' = 0 /\ connected' = FALSE
        /\ attempt' = IF ~connected /\ attempt = s THEN 0 ELSE attempt
    BY <1>15 DEF TakeClose, Take
  <2>2. Alive(s)
    BY <1>1, <2>1 DEF SocketAt, Alive, States
  <2>3. attempt' = 0
    BY <1>1, <2>1, <2>2 DEF One, Settled
  <2>4. \A x \in Sockets : ~Alive(x)'
    BY <1>1, <2>1, <2>2 DEF One, Alive
  <2>5. \A x \in Sockets : ~Greets(x)'
    <3> SUFFICES ASSUME NEW x \in Sockets PROVE ~Greets(x)'
      OBVIOUS
    <3>1. ~Speaks(x)' /\ sockets'[x] # "dialing"
      BY <2>4 DEF Alive, Speaks
    <3>2. ~Has(up[x], Hello)'
      BY <1>2, <3>1 DEF SocketAt
    <3>3. ~Has(down[x], HelloOk)'
      BY <1>2, <1>3, <3>1 DEF SocketAt, Has, HelloOk, Frame
    <3> QED
      BY <3>1, <3>2, <3>3 DEF Greets
  <2> QED
    BY <2>1, <2>3, <2>4, <2>5 DEF One
<1>16. ASSUME NEW s \in Sockets, NEW type, Receive(s, type)
       PROVE  /\ UNCHANGED <<socket, attempt, connected, disposed>>
              /\ \A t \in Sockets : Has(up'[t], Hello) => Has(up[t], Hello)
  <2>1. \A t \in Sockets : up'[t] = up[t] \/ (up[t] # <<>> /\ up'[t] = Tail(up[t]))
    BY <1>16, ReceiveIs
  <2>2. Gone # Hello
    BY FramesAre
  <2> QED
    BY <1>3, <1>16, <2>1, <2>2, FramesAre, NoMoreIs DEF NoMore, Receive, client
<1>17. ASSUME NEW s \in Sockets, Receive(s, "hello") PROVE Greets(s) /\ Speaks(s)
  <2>1. up[s] \in Seq(Frames) /\ up[s] # <<>> /\ up[s][1].type = "hello"
    BY <1>17, ReceiveIs
  <2>2. 1 \in 1 .. Len(up[s])
    BY <2>1
  <2>3. Has(up[s], Hello)
    BY <2>1, <2>2 DEF SocketAt, Has
  <2> QED
    BY <2>3 DEF SocketAt, Greets
<1>18. ASSUME NEW s \in Sockets, Greet(s) PROVE One'
  <2>1. Receive(s, "hello") /\ ToClient(s, HelloOk) /\ UNCHANGED sockets
    BY <1>18 DEF Greet
  <2>2. \A t \in Sockets : t # s => down'[t] = down[t]
    BY <1>3, <2>1, ToClientIs
  <2> QED
    BY <1>4, <1>16, <1>17, <2>1, <2>2 DEF Greets, Alive, Speaks
<1>19. ASSUME NEW s \in Sockets, Reject(s) PROVE One'
  <2>1. /\ Receive(s, "hello") /\ sockets' = [sockets EXCEPT ![s] = "closing"]
        /\ down' = [down EXCEPT ![s] = @ \o <<Rejection, Gone>>]
    BY <1>19 DEF Reject
  <2>2. \A t \in Sockets : t # s => down'[t] = down[t]
    BY <2>1 DEF Typed
  <2>3. Greets(s) /\ Speaks(s)
    BY <1>17, <2>1
  <2>4. \A t \in Sockets : /\ Alive(t)' <=> Alive(t)
                           /\ Speaks(t) => Speaks(t)'
                           /\ sockets'[t] = "dialing" => sockets[t] = "dialing"
    BY <1>1, <2>1, <2>3 DEF Alive, Speaks
  <2> QED
    BY <1>4, <1>16, <2>1, <2>2, <2>3, <2>4 DEF Greets
<1>20. ASSUME NEW s \in Sockets, RunOp(s) \/ ReceiveAbort(s) PROVE One'
  <2>1. (\E type : Receive(s, type)) /\ UNCHANGED <<sockets, down>>
    BY <1>20 DEF RunOp, ReceiveAbort
  <2> QED
    BY <1>5, <1>16, <2>1
<1>21. ASSUME NEW s \in Sockets, NEW f \in Frames, f # HelloOk, ToClient(s, f)
       PROVE  \A t \in Sockets : Has(down'[t], HelloOk) => Has(down[t], HelloOk)
  <2>1. \A t \in Sockets : down'[t] = down[t] \/ down'[t] = Append(down[t], f)
    BY <1>21, ToClientIs
  <2> QED
    BY <1>21, <2>1, NoNewHelloOk
<1>22. ASSUME NEW s \in Sockets, ReceiveClose(s) PROVE One'
  <2>1. Receive(s, "close") /\ ToClient(s, Gone) /\ UNCHANGED sockets
    BY <1>22 DEF ReceiveClose
  <2> QED
    BY <1>3, <1>5, <1>16, <1>21, <2>1
<1>23. ASSUME NEW r \in Requests, ExecTimer(r) PROVE One'
  BY <1>5, <1>23 DEF ExecTimer, client
<1>24. ASSUME NEW r \in Requests, Output(r) \/ ExecEnds(r) \/ FileOp(r) PROVE One'
  <2>1. /\ proc[r] # "none" /\ UNCHANGED <<socket, attempt, connected, disposed, sockets, up>>
        /\ \E ty \in Outcomes \cup {"stream"} : ToClient(sentOn[r], Frame(ty, r))
    BY <1>24 DEF Output, ExecEnds, FileOp, Ends, Outcomes, client
  <2>2. sentOn[r] \in Sockets
    <3>1. sentOn[r] # 0 /\ sentOn[r] \in 0 .. MaxSockets
      BY <2>1 DEF Asked, AskedAt, Typed
    <3> QED
      BY <3>1, RemoteEnvAssumption DEF Sockets
  <2>3. PICK f \in Frames : f.type \in Outcomes \cup {"stream"} /\ ToClient(sentOn[r], f)
    BY <2>1, FramesAre DEF FrameTypes
  <2>4. f # HelloOk
    BY <1>3, <2>3 DEF Outcomes
  <2> QED
    BY <1>5, <1>21, <2>1, <2>2, <2>3, <2>4
<1> QED
  BY <1>6, <1>7, <1>8, <1>9, <1>10, <1>11, <1>13, <1>14, <1>15, <1>18, <1>19, <1>20, <1>22,
     <1>23, <1>24 DEF Next, FromSocket, Daemon

-----------------------------------------------------------------------------
(* Who waits has a socket that has still to report its end.                *)

Served(r, s) == Speaks(s) /\ (sentOn[r] = s \/ (sentOn[r] = 0 /\ disposed))

LEMMA AnswerableIs ==
    Answerable <=> (~stray => \A r \in Requests : calls[r] = "waiting" => \E s \in Sockets : Served(r, s))
BY DEF Answerable, In, Served, Speaks

LEMMA SpeaksOnward ==
    ASSUME Typed, Dialled, \A s \in Sockets : SocketAt(s), Next, ~(\E x \in Sockets : TakeClose(x)),
           NEW s \in Sockets, Speaks(s)
    PROVE  sockets'[s] \in {"open", "closing"}
<1>1. CASE UNCHANGED sockets
  BY <1>1 DEF Speaks
<1>2. ASSUME NEW r \in Requests, Ask(r) PROVE sockets'[s] \in {"open", "closing"}
  <2> DEFINE x == Cardinality(Used) + 1
  <2>1. CASE x \in Sockets /\ sockets' = [sockets EXCEPT ![x] = "dialing"]
    <3>1. sockets[x] = "none"
      BY <2>1, NextSocket
    <3> QED
      BY <2>1, <3>1 DEF Speaks, Typed
  <2> QED
    BY <1>1, <1>2, <2>1 DEF Ask, Request
<1>3. CASE Close
  BY <1>3 DEF Close, Speaks, Typed
<1>4. ASSUME NEW x \in Sockets, Open(x) \/ DialFails(x) \/ Drop(x) \/ Reject(x)
      PROVE  sockets'[s] \in {"open", "closing"}
  BY <1>4 DEF Open, DialFails, Drop, Reject, Speaks, Typed
<1>5. ASSUME NEW x \in Sockets, FromSocket(x) PROVE UNCHANGED sockets
  BY <1>5 DEF FromSocket, TakeFailure, TakeHelloOk, TakeRejection, TakeStream, TakeResponse
<1>6. ASSUME NEW x \in Sockets, Daemon(x), ~Reject(x) PROVE UNCHANGED sockets
  BY <1>6 DEF Daemon, Greet, RunOp, ReceiveAbort, ReceiveClose
<1>7. ASSUME NEW r \in Requests,
             \/ Timeout(r) \/ Abort(r) \/ ExecTimer(r) \/ Output(r) \/ ExecEnds(r) \/ FileOp(r)
      PROVE  UNCHANGED sockets
  BY <1>7 DEF Timeout, Abort, ExecTimer, Output, ExecEnds, FileOp, Ends
<1>8. CASE HelloTimeout
  BY <1>1, <1>8 DEF HelloTimeout
<1> QED
  BY <1>1, <1>2, <1>3, <1>4, <1>5, <1>6, <1>7, <1>8 DEF Next

LEMMA AnswerableKept ==
    ASSUME Typed, Dialled, \A s \in Sockets : SocketAt(s), Asked, Settled, ~stray => One, Answerable,
           Next
    PROVE  Answerable'
<1> SUFFICES ASSUME ~stray', NEW q \in Requests, calls'[q] = "waiting"
             PROVE  \E s \in Sockets : /\ sockets'[s] \in {"open", "closing"}
                                       /\ sentOn'[q] = s \/ (sentOn'[q] = 0 /\ disposed')
  BY DEF Answerable, In
<1>1. One /\ (calls[q] = "waiting" => \E s \in Sockets : Served(q, s))
  BY StrayOnward, AnswerableIs DEF Typed
<1>2. /\ calls \in [Requests -> Phases] /\ AskedAt(q)
      /\ attempt # 0 => attempt \in Sockets
      /\ socket # 0 => socket \in Sockets
      /\ \A s \in Sockets : s # 0
  BY RemoteEnvAssumption DEF Typed, Sockets, Asked
<1>3. CASE \E s \in Sockets : TakeClose(s)
  BY <1>3 DEF TakeClose
<1>4. CASE ~\E s \in Sockets : TakeClose(s)
  <2>1. \A s \in Sockets : Speaks(s) => sockets'[s] \in {"open", "closing"}
    BY <1>4, SpeaksOnward
  <2>2. ASSUME calls[q] = "waiting", sentOn'[q] = sentOn[q], disposed => disposed'
        PROVE  \E s \in Sockets : /\ sockets'[s] \in {"open", "closing"}
                                  /\ sentOn'[q] = s \/ (sentOn'[q] = 0 /\ disposed')
    BY <1>1, <2>1, <2>2 DEF Served
  <2>3. ASSUME NEW rs, rs \subseteq Requests, Send(rs), disposed' = disposed,
               \A r \in rs : calls[r] \in {"idle", "connecting"},
               NEW t \in Sockets, Speaks(t), socket = t \/ (socket = 0 /\ disposed)
        PROVE  \E s \in Sockets : /\ sockets'[s] \in {"open", "closing"}
                                  /\ sentOn'[q] = s \/ (sentOn'[q] = 0 /\ disposed')
    <3>1. CASE q \notin rs
      BY <2>2, <2>3, <3>1, SendIs
    <3>2. CASE q \in rs /\ socket = t
      <4>1. socket # 0 /\ sockets[socket] # "dialing"
        BY <1>2, <2>3, <3>2 DEF Speaks
      <4>2. sentOn'[q] = socket
        BY <2>3, <3>2, <4>1, SendSent
      <4> QED
        BY <2>1, <2>3, <3>2, <4>2
    <3>3. CASE q \in rs /\ socket = 0
      <4>1. sentOn' = sentOn
        BY <2>3, <3>3, SendUnsent
      <4>2. sentOn[q] = 0
        BY <1>2, <2>3, <3>3 DEF AskedAt
      <4> QED
        BY <2>1, <2>3, <3>3, <4>1, <4>2, <1>2
    <3> QED
      BY <2>3, <3>1, <3>2, <3>3
  <2>4. ASSUME NEW r \in Requests, Ask(r)
        PROVE  \E s \in Sockets : /\ sockets'[s] \in {"open", "closing"}
                                  /\ sentOn'[q] = s \/ (sentOn'[q] = 0 /\ disposed')
    <3>1. calls[r] = "idle" /\ ~disposed /\ disposed' = disposed
      BY <2>4 DEF Ask, Request
    <3>2. CASE connected
      <4>1. Send({r}) /\ {r} \subseteq Requests /\ \A x \in {r} : calls[x] \in {"idle", "connecting"}
        BY <2>4, <3>1, <3>2 DEF Ask, Request
      <4>2. socket \in Sockets /\ Speaks(socket)
        BY <1>1, <1>2, <3>1, <3>2 DEF One
      <4> QED
        BY <2>3, <3>1, <4>1, <4>2
    <3>3. CASE ~connected
      <4>1. calls' = [calls EXCEPT ![r] = "connecting"] /\ UNCHANGED sentOn
        BY <2>4, <3>3 DEF Ask, Request
      <4>2. calls[q] = "waiting"
        BY <1>2, <4>1
      <4> QED
        BY <2>2, <3>1, <4>1, <4>2
    <3> QED
      BY <3>2, <3>3
  <2>5. ASSUME NEW s \in Sockets, TakeHelloOk(s)
        PROVE  \E x \in Sockets : /\ sockets'[x] \in {"open", "closing"}
                                  /\ sentOn'[q] = x \/ (sentOn'[q] = 0 /\ disposed')
    <3>1. /\ down[s] # <<>> /\ down[s] \in Seq(Frames) /\ down[s][1].type = "hello_ok"
          /\ disposed' = disposed
      BY <2>5, TakeIs DEF TakeHelloOk, Take
    <3>2. 1 \in 1 .. Len(down[s])
      BY <3>1
    <3>3. down[s][1] = HelloOk /\ Speaks(s)
      BY <3>1, <3>2 DEF SocketAt
    <3>4. Greets(s)
      BY <3>2, <3>3 DEF Has, Greets
    <3>5. attempt = s /\ (disposed \/ socket = s)
      BY <1>1, <1>2, <3>4 DEF One
    <3>6. Send(In("connecting")) /\ In("connecting") \subseteq Requests
          /\ \A x \in In("connecting") : calls[x] \in {"idle", "connecting"}
      BY <1>2, <2>5, <3>5 DEF TakeHelloOk, In
    <3>7. disposed => socket = 0
      BY DEF Settled
    <3> QED
      BY <2>3, <3>1, <3>3, <3>5, <3>6, <3>7
  <2>6. ASSUME GiveUp PROVE calls[q] = "waiting"
    BY <2>6 DEF GiveUp
  <2>7. ASSUME NEW r \in Requests, Timeout(r) \/ Abort(r)
        PROVE  calls[q] = "waiting" /\ UNCHANGED sentOn /\ disposed' = disposed
    BY <1>2, <2>7 DEF Timeout, Abort, Answered
  <2>8. CASE HelloTimeout \/ Close
    <3>1. (GiveUp \/ UNCHANGED calls) /\ UNCHANGED sentOn /\ (disposed => disposed')
      BY <2>8 DEF HelloTimeout, Close
    <3> QED
      BY <2>2, <2>6, <3>1
  <2>9. ASSUME NEW s \in Sockets, TakeFailure(s) \/ TakeRejection(s) \/ TakeStream(s)
        PROVE  calls[q] = "waiting" /\ UNCHANGED sentOn /\ disposed' = disposed
    <3>1. (GiveUp \/ UNCHANGED calls) /\ UNCHANGED sentOn /\ disposed' = disposed
      BY <2>9 DEF TakeFailure, TakeRejection, TakeStream, Take
    <3> QED
      BY <2>6, <3>1
  <2>10. ASSUME NEW s \in Sockets, TakeResponse(s)
         PROVE  calls[q] = "waiting" /\ UNCHANGED sentOn /\ disposed' = disposed
    <3>1. UNCHANGED sentOn /\ disposed' = disposed /\ Head(down[s]).type \in Outcomes
          /\ (calls' = calls \/ calls' = [calls EXCEPT ![Head(down[s]).call] = Head(down[s]).type])
      BY <2>10 DEF TakeResponse, Take, Answered
    <3> QED
      BY <1>2, <3>1 DEF Outcomes
  <2>11. ASSUME NEW s \in Sockets, Open(s) \/ DialFails(s) \/ Drop(s) \/ Daemon(s)
         PROVE  UNCHANGED <<calls, sentOn, disposed>>
    BY <2>11 DEF Open, DialFails, Drop, Daemon, Greet, Reject, RunOp, ReceiveAbort, ReceiveClose,
                 Receive, client
  <2>12. ASSUME NEW r \in Requests, ExecTimer(r) \/ Output(r) \/ ExecEnds(r) \/ FileOp(r)
         PROVE  UNCHANGED <<calls, sentOn, disposed>>
    BY <2>12 DEF ExecTimer, Output, ExecEnds, FileOp, Ends, client
  <2> QED
    BY <1>4, <2>2, <2>4, <2>5, <2>7, <2>8, <2>9, <2>10, <2>11, <2>12 DEF Next, FromSocket
<1> QED
  BY <1>3, <1>4

-----------------------------------------------------------------------------
(* The theorems.                                                           *)

LEMMA Start == Init => IInv
<1> SUFFICES ASSUME Init PROVE IInv
  OBVIOUS
<1>0. 0 \in 0 .. MaxSockets /\ <<>> \in Seq(Frames) /\ Len(<<>>) = 0 /\ \A s \in Sockets : s # 0
  BY RemoteEnvAssumption, FramesAre, Few DEF Sockets
<1>1. /\ socket = 0 /\ attempt = 0 /\ connected = FALSE /\ disposed = FALSE /\ stray = FALSE
      /\ heard = {} /\ said = {} /\ aborted = {}
      /\ \A s \in Sockets : up[s] = <<>> /\ down[s] = <<>> /\ sockets[s] = "none" /\ conn[s] = "none"
      /\ \A r \in Requests : calls[r] = "idle" /\ sentOn[r] = 0 /\ proc[r] = "none"
  BY DEF Init
<1>2. Typed
  BY <1>0 DEF Init, Typed, Phases, States
<1>3. Dialled
  BY <1>0, <1>1 DEF Dialled, Sockets
<1>4. \A s \in Sockets : \A i \in 1 .. Len(up[s]) : FALSE
  BY <1>0, <1>1
<1>5. \A s \in Sockets : \A i \in 1 .. Len(down[s]) : FALSE
  BY <1>0, <1>1
<1>6. \A s \in Sockets : SocketAt(s)
  BY <1>1, <1>4, <1>5 DEF SocketAt, Has
<1>7. Asked /\ Replied /\ Heard /\ Told /\ OkIsWhole
  BY <1>1, <1>4, <1>5 DEF Asked, AskedAt, Has, Replied, Heard, Told, OkIsWhole, In
<1>8. One /\ Settled /\ Answerable
  BY <1>1, <1>4, <1>5 DEF One, Settled, Answerable, In, Alive, Greets, Has
<1> QED
  BY <1>2, <1>3, <1>6, <1>7, <1>8 DEF IInv

LEMMA Kept == IInv /\ [Next]_vars => IInv'
<1> SUFFICES ASSUME IInv, [Next]_vars PROVE IInv'
  OBVIOUS
<1>1. CASE Next
  <2>1. /\ Typed /\ Dialled /\ (\A s \in Sockets : SocketAt(s)) /\ Asked /\ Replied /\ Heard /\ Told
        /\ OkIsWhole /\ Settled /\ Answerable
    BY DEF IInv
  <2>2. ~stray => One
    BY DEF IInv
  <2>3. Typed' /\ Dialled' /\ (\A s \in Sockets : SocketAt(s)') /\ Asked' /\ Replied' /\ Heard'
    BY <1>1, <2>1, TypedKept, DialledKept, SocketKept, AskedKept, RepliedKept, HeardKept
  <2>4. Told' /\ OkIsWhole' /\ Settled'
    BY <1>1, <2>1, ToldKept, OkKept, SettledKept
  <2>5. Answerable'
    BY <1>1, <2>1, <2>2, AnswerableKept
  <2>6. ~stray' => One'
    BY <1>1, <2>1, <2>2, StrayOnward, OneKept DEF Typed
  <2> QED
    BY <2>3, <2>4, <2>5, <2>6 DEF IInv
<1>2. CASE UNCHANGED vars
  BY <1>2 DEF vars, client, IInv, Typed, Dialled, SocketAt, Has, Once, Speaks, Asked, AskedAt, Replied,
              IsAnswer, Heard, Told, ToldOn, Shut, OkIsWhole, In, Settled, One, Alive, Greets, Answerable
<1> QED
  BY <1>1, <1>2

\* The inductive invariant of the client, the daemon and the sockets between them.
THEOREM Inductive == Spec => []IInv
<1> QED
  BY Start, Kept, PTL DEF Spec

\* Every variable stays within its type, and the caller hears only what was said.
THEOREM TypeCorrect == Spec => []TypeOK
<1>1. IInv => TypeOK
  BY DEF IInv, Typed, Heard, TypeOK, Phases, States, Frames
<1> QED
  BY <1>1, Inductive, PTL

\* "ok" reaches a caller only when the operation is over at the daemon and all the
\* output of the command has been heard: the daemon's frames keep their order and
\* a connection that breaks takes the answer with the output.
THEOREM OkMeansWhole == Spec => []OkIsWhole
<1>1. IInv => OkIsWhole
  BY DEF IInv
<1> QED
  BY <1>1, Inductive, PTL

\* Unless a handshake is given up while its socket lives, no call waits for an
\* answer no socket can bring: every call that waits was sent on a socket whose end
\* has still to be reported, or fails when that socket reports it.
THEOREM CallsHaveASocket == Spec => []Answerable
<1>1. IInv => Answerable
  BY DEF IInv
<1> QED
  BY <1>1, Inductive, PTL
=============================================================================
