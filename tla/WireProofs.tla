----------------------------- MODULE WireProofs -----------------------------
(***************************************************************************)
(* Theorems of Wire, for every set of calls, every number of sockets and   *)
(* whichever faults happen.                                                *)
(***************************************************************************)
EXTENDS Wire, TLAPS, SequenceTheorems, FiniteSetTheorems

\* What a socket still has to report.
Reports(q, type) == \E i \in 1 .. Len(q) : q[i].type = type
Answers(q, r) == \E i \in 1 .. Len(q) : q[i].type = "response" /\ q[i].call = r
CloseIsLast(q) == \A i \in 1 .. Len(q) - 1 : q[i].type # "close"

Live(s) == sockets[s] \notin {"none", "closed"}

\* Sockets are opened in order, and a connect that is asked for finds one to open.
Opened == \E n \in 0 .. MaxSockets :
    /\ \A s \in Sockets : sockets[s] # "none" <=> s <= n
    /\ connectRequested => n < MaxSockets

\* A socket reports while it lives; its close comes last, and once.
Reporting(s) ==
    /\ frames[s] # <<>> => sockets[s] \in {"failing", "open", "closing"}
    /\ CloseIsLast(frames[s])
    /\ sockets[s] = "open" /\ server[s] # "gone" => ~Reports(frames[s], "close")
    /\ Reports(frames[s], "errored") => sockets[s] = "failing"
    /\ Reports(frames[s], "error") => rejected
Reported == \A s \in Sockets : Reporting(s)

\* The machine's state is its socket's.
Matched == ~rejected =>
    /\ \A s \in Sockets : Live(s) => state.tag # "Disconnected" /\ state.socket = s
    /\ state.tag # "Disconnected" => state.socket \in Sockets /\ Live(state.socket)
    /\ state.tag = "Connecting" => sockets[state.socket] \in {"dialing", "failing"}
    /\ state.tag \in {"Handshaking", "Connected"}
          => sockets[state.socket] \in {"open", "silent", "closing"}

\* A call that was not sent yet was not answered either.
Unsent(r) ==
    /\ \A w \in work : w[2] # r
    /\ \A s \in Sockets : ~Answers(frames[s], r)

\* A call that failed is not sent later: its connection is gone, and the next one
\* waits for the mailbox to be empty.
Called ==
    /\ pending = {r \in Calls : calls[r] = "waiting"}
    /\ \A r \in Calls :
          /\ calls[r] \in {"idle", "asked"} => r \notin outbox
          /\ calls[r] \in {"idle", "asked"} \/ r \in outbox => Unsent(r)
          /\ r \in outbox => calls[r] \in {"waiting", "failed", "timedOut"}
          /\ r \in outbox /\ calls[r] = "failed" => state.tag = "Disconnected"

\* The phases of the console's connection.
Down ==
    \/ state.tag = "Disconnected"
    \/ state.tag = "Connecting" /\ sockets[state.socket] = "failing"

Phases == ~early /\ ~rejected =>
    /\ connectRequested => dial = "awaiting" /\ state.tag = "Disconnected"
    /\ dial = "awaiting" => conn = "Connecting"
    /\ conn = "Connecting" =>
          /\ closes = 0
          /\ \/ dial = "awaiting" /\ outcome = "none" /\ state.tag # "Connected"
             \/ dial = "landing" /\ outcome = "none" /\ state.tag = "Connected"
             \/ dial = "idle" /\ outcome = "connected" /\ state.tag = "Connected"
             \/ dial = "idle" /\ outcome = "failed" /\ Down
    /\ conn = "Online" =>
          /\ dial = "idle" /\ outcome = "none"
          /\ \/ state.tag = "Connected" /\ closes = 0
             \/ state.tag = "Disconnected" /\ closes = 1
    /\ conn = "Offline" => dial = "idle" /\ outcome = "none" /\ closes = 0 /\ Down

\* A machine that is not disconnected has a socket.
Owned == state.tag # "Disconnected" => state.socket \in Sockets

IInv == TypeOK /\ Owned /\ Opened /\ Reported /\ Matched /\ Called /\ Phases

----------------------------------------------------------------------------
(* Lemmas about what a socket has to report.                               *)

LEMMA TailFrames ==
    ASSUME NEW q \in Seq(Frames), q # <<>>
    PROVE  /\ Tail(q) \in Seq(Frames) /\ Head(q) \in Frames
           /\ \A t : Reports(Tail(q), t) => Reports(q, t)
           /\ \A r : Answers(Tail(q), r) => Answers(q, r)
           /\ CloseIsLast(q) => CloseIsLast(Tail(q))
           /\ Head(q).type = "close" /\ CloseIsLast(q) => Tail(q) = <<>>
           /\ Reports(q, Head(q).type)
           /\ Head(q).type = "response" => Answers(q, Head(q).call)
<1>1. /\ Tail(q) \in Seq(Frames) /\ Head(q) = q[1] /\ Len(q) \in Nat /\ Len(q) >= 1
      /\ q[1] \in Frames /\ Len(Tail(q)) = Len(q) - 1
      /\ \A i \in 1 .. Len(Tail(q)) : Tail(q)[i] = q[i + 1]
  OBVIOUS
<1>2. \A i \in 1 .. Len(Tail(q)) : i + 1 \in 1 .. Len(q)
  BY <1>1
<1>3. \A t : Reports(Tail(q), t) => Reports(q, t)
  BY <1>1, <1>2 DEF Reports
<1>4. \A r : Answers(Tail(q), r) => Answers(q, r)
  BY <1>1, <1>2 DEF Answers
<1>5. CloseIsLast(q) => CloseIsLast(Tail(q))
  BY <1>1, <1>2 DEF CloseIsLast
<1>6. Head(q).type = "close" /\ CloseIsLast(q) => Tail(q) = <<>>
  <2>1. Len(q) # 1 => 1 \in 1 .. Len(q) - 1
    BY <1>1
  <2>2. Len(q) = 1 => Len(Tail(q)) = 0
    BY <1>1
  <2> QED
    BY <1>1, <2>1, <2>2 DEF CloseIsLast
<1>7. 1 \in 1 .. Len(q)
  BY <1>1
<1> QED
  BY <1>1, <1>3, <1>4, <1>5, <1>6, <1>7 DEF Reports, Answers

LEMMA ConcatFrames ==
    ASSUME NEW q \in Seq(Frames), NEW p \in Seq(Frames)
    PROVE  /\ q \o p \in Seq(Frames)
           /\ \A t : Reports(q \o p, t) => Reports(q, t) \/ Reports(p, t)
           /\ \A r : Answers(q \o p, r) => Answers(q, r) \/ Answers(p, r)
           /\ ~Reports(q, "close") /\ CloseIsLast(p) => CloseIsLast(q \o p)
<1> DEFINE n == Len(q)
<1>1. /\ q \o p \in Seq(Frames) /\ n \in Nat /\ Len(p) \in Nat /\ Len(q \o p) = n + Len(p)
      /\ \A i \in 1 .. n : (q \o p)[i] = q[i]
      /\ \A i \in 1 .. Len(p) : (q \o p)[n + i] = p[i]
  OBVIOUS
<1>2. ASSUME NEW i \in 1 .. Len(q \o p)
      PROVE  i \in 1 .. n \/ \E j \in 1 .. Len(p) : i = n + j
  <2>1. i \in 1 .. n \/ i - n \in 1 .. Len(p)
    BY <1>1
  <2>2. i = n + (i - n)
    BY <1>1
  <2> QED
    BY <2>1, <2>2
<1> HIDE DEF n
<1>3. \A t : Reports(q \o p, t) => Reports(q, t) \/ Reports(p, t)
  BY <1>1, <1>2 DEF Reports, n
<1>4. \A r : Answers(q \o p, r) => Answers(q, r) \/ Answers(p, r)
  BY <1>1, <1>2 DEF Answers, n
<1>5. ~Reports(q, "close") /\ CloseIsLast(p) => CloseIsLast(q \o p)
  <2> SUFFICES ASSUME ~Reports(q, "close"), CloseIsLast(p), NEW i \in 1 .. Len(q \o p) - 1
               PROVE  (q \o p)[i].type # "close"
    BY DEF CloseIsLast
  <2>1. i \in 1 .. Len(q \o p) /\ i # n + Len(p)
    BY <1>1
  <2>2. CASE i \in 1 .. n
    BY <1>1, <2>2 DEF Reports, n
  <2>3. ASSUME NEW j \in 1 .. Len(p), i = n + j
        PROVE  (q \o p)[i].type # "close"
    <3>1. j \in 1 .. Len(p) - 1
      BY <1>1, <2>1, <2>3
    <3> QED
      BY <1>1, <2>3, <3>1 DEF CloseIsLast
  <2> QED
    BY <1>2, <2>1, <2>2, <2>3
<1> QED
  BY <1>1, <1>3, <1>4, <1>5

\* The sequences the model appends or puts in place.
LEMMA FrameSequences ==
    /\ \A t \in {"hello_ok", "error", "errored", "close"} :
          /\ Frame(t) \in Frames /\ Frame(t).type = t
          /\ <<Frame(t)>> \in Seq(Frames) /\ CloseIsLast(<<Frame(t)>>)
          /\ \A u : Reports(<<Frame(t)>>, u) => u = t
          /\ \A r : ~Answers(<<Frame(t)>>, r)
    /\ \A t \in {"error", "errored"} :
          /\ <<Frame(t), Frame("close")>> \in Seq(Frames)
          /\ CloseIsLast(<<Frame(t), Frame("close")>>)
          /\ \A u : Reports(<<Frame(t), Frame("close")>>, u) => u \in {t, "close"}
          /\ \A r : ~Answers(<<Frame(t), Frame("close")>>, r)
    /\ <<>> \in Seq(Frames) /\ CloseIsLast(<<>>)
    /\ \A u : ~Reports(<<>>, u)
    /\ \A r : ~Answers(<<>>, r)
<1>1. ASSUME NEW t \in {"hello_ok", "error", "errored", "close"}
      PROVE  /\ Frame(t) \in Frames /\ Frame(t).type = t
  BY DEF Frame, Frames
<1> HIDE DEF Frame
<1>2. ASSUME NEW t \in {"hello_ok", "error", "errored", "close"}
      PROVE  /\ <<Frame(t)>> \in Seq(Frames) /\ CloseIsLast(<<Frame(t)>>)
             /\ \A u : Reports(<<Frame(t)>>, u) => u = t
             /\ \A r : ~Answers(<<Frame(t)>>, r)
  BY <1>1 DEF CloseIsLast, Reports, Answers
<1>3. ASSUME NEW t \in {"error", "errored"}
      PROVE  /\ <<Frame(t), Frame("close")>> \in Seq(Frames)
             /\ CloseIsLast(<<Frame(t), Frame("close")>>)
             /\ \A u : Reports(<<Frame(t), Frame("close")>>, u) => u \in {t, "close"}
             /\ \A r : ~Answers(<<Frame(t), Frame("close")>>, r)
  BY <1>1 DEF CloseIsLast, Reports, Answers
<1>4. <<>> \in Seq(Frames) /\ CloseIsLast(<<>>) /\ (\A u : ~Reports(<<>>, u)) /\ (\A r : ~Answers(<<>>, r))
  BY DEF CloseIsLast, Reports, Answers
<1> QED
  BY <1>1, <1>2, <1>3, <1>4

LEMMA ResponseSequence ==
    ASSUME NEW r \in Calls
    PROVE  LET q == <<[type |-> "response", call |-> r]>> IN
           /\ q \in Seq(Frames) /\ CloseIsLast(q)
           /\ \A u : Reports(q, u) => u = "response"
           /\ \A c : Answers(q, c) => c = r
<1> DEFINE f == [type |-> "response", call |-> r]
<1>1. f \in Frames /\ f.type = "response" /\ f.call = r
  BY DEF Frames
<1> HIDE DEF f
<1>2. /\ <<f>> \in Seq(Frames) /\ CloseIsLast(<<f>>)
      /\ \A u : Reports(<<f>>, u) => u = "response"
      /\ \A c : Answers(<<f>>, c) => c = r
  BY <1>1 DEF CloseIsLast, Reports, Answers
<1> QED
  BY <1>2 DEF f

----------------------------------------------------------------------------
\* What the server sends reaches the client's end of an open socket.
LEMMA ToClientType ==
    ASSUME frames \in [Sockets -> Seq(Frames)], NEW s, NEW p \in Seq(Frames), ToClient(s, p)
    PROVE  frames' \in [Sockets -> Seq(Frames)]
<1>1. ASSUME NEW u \in Sockets PROVE frames[u] \o p \in Seq(Frames)
  BY ConcatFrames
<1> QED
  BY <1>1 DEF ToClient

LEMMA TakeType ==
    ASSUME frames \in [Sockets -> Seq(Frames)], NEW s \in Sockets, NEW t, Take(s, t)
    PROVE  /\ frames' \in [Sockets -> Seq(Frames)] /\ frames[s] # <<>>
           /\ frames'[s] = Tail(frames[s]) /\ \A u \in Sockets \ {s} : frames'[u] = frames[u]
           /\ Head(frames[s]) \in Frames /\ Head(frames[s]).type = t /\ Reports(frames[s], t)
<1>1. frames[s] # <<>> /\ frames[s] \in Seq(Frames)
  BY DEF Take
<1>2. Tail(frames[s]) \in Seq(Frames) /\ Head(frames[s]) \in Frames /\ Reports(frames[s], Head(frames[s]).type)
  BY <1>1, TailFrames
<1> QED
  BY <1>1, <1>2 DEF Take

\* How many sockets were opened.
LEMMA UsedCount ==
    ASSUME NEW n \in 0 .. MaxSockets, \A s \in Sockets : sockets[s] # "none" <=> s <= n
    PROVE  Cardinality(Used) = n
<1>1. Used = 1 .. n
  BY WireAssumption DEF Used, Sockets
<1>2. Cardinality(1 .. n) = n
  BY FS_Interval
<1> QED
  BY <1>1, <1>2

LEMMA InitInv == Init => IInv
<1> SUFFICES ASSUME Init PROVE IInv
  OBVIOUS
<1>1. TypeOK /\ Owned
  <2>1. <<>> \in Seq(Frames) /\ 0 \in 0 .. MaxSockets
    BY WireAssumption
  <2> QED
    BY <2>1 DEF Init, TypeOK, Owned, Disconnected, States, Tags
<1>2. Opened
  BY WireAssumption DEF Init, Opened, Sockets
<1>3. Reported
  BY FrameSequences DEF Init, Reported, Reporting
<1>4. Matched
  BY DEF Init, Matched, Live, Disconnected
<1>5. Called
  BY FrameSequences DEF Init, Called, Unsent
<1>6. Phases
  BY DEF Init, Phases, Disconnected
<1> QED
  BY <1>1, <1>2, <1>3, <1>4, <1>5, <1>6 DEF IInv

\* A connect that is asked for opens the next socket.
LEMMA NextSocket ==
    ASSUME Opened, connectRequested
    PROVE  /\ Cardinality(Used) + 1 \in Sockets /\ sockets[Cardinality(Used) + 1] = "none"
           /\ \A s \in Sockets : sockets[s] # "none" <=> s <= Cardinality(Used)
           /\ Cardinality(Used) \in Nat
<1>1. PICK n \in 0 .. MaxSockets : /\ \A s \in Sockets : sockets[s] # "none" <=> s <= n
                                   /\ n < MaxSockets
  BY DEF Opened
<1>2. Cardinality(Used) = n
  BY <1>1, UsedCount
<1> QED
  BY <1>1, <1>2, WireAssumption DEF Sockets

LEMMA MachineStates ==
    /\ Disconnected \in States /\ Disconnected.tag = "Disconnected"
    /\ \A t \in Tags, s \in Sockets :
          LET m == [tag |-> t, socket |-> s] IN
          m \in States /\ m.tag = t /\ m.socket = s
    /\ \A m \in States :
          LET n == [m EXCEPT !.tag = "Connected"] IN
          n \in States /\ n.tag = "Connected" /\ n.socket = m.socket
    /\ {"Disconnected", "Connecting", "Handshaking", "Connected"} = Tags
  BY WireAssumption DEF Disconnected, Tags, States, Sockets

\* Everything is of its type, and the machine's socket is one.
LEMMA Types == TypeOK /\ Owned /\ Opened /\ [Next]_vars => TypeOK' /\ Owned'
<1> SUFFICES ASSUME TypeOK, Owned, Opened, [Next]_vars PROVE TypeOK' /\ Owned'
  OBVIOUS
<1> USE DEF TypeOK, Owned, client, wire, console, history
<1>3. CASE ConnectRequested
  <2>1. Cardinality(Used) + 1 \in Sockets
    BY <1>3, NextSocket DEF ConnectRequested
  <2>2. LET m == [tag |-> "Connecting", socket |-> Cardinality(Used) + 1] IN
        m \in States /\ m.socket \in Sockets
    BY <2>1, MachineStates
  <2>3. state' \in States /\ Owned'
    BY <1>3, <2>2 DEF ConnectRequested
  <2> QED
    BY <1>3, <2>3 DEF ConnectRequested
<1>4. CASE Land
  BY <1>4 DEF Land
<1>5. CASE TakeOutcome
  BY <1>5 DEF TakeOutcome
<1>6. CASE TakeClose
  BY <1>6 DEF TakeClose
<1>7. CASE Retry
  BY <1>7 DEF Retry
<1>8. ASSUME NEW s \in Sockets, Open(s)
      PROVE  TypeOK' /\ Owned'
  <2>1. LET m == [tag |-> "Handshaking", socket |-> s] IN m \in States /\ m.socket \in Sockets
    BY MachineStates
  <2>2. state' \in States /\ Owned'
    BY <1>8, <2>1 DEF Open
  <2> QED
    BY <1>8, <2>2 DEF Open
<1>9. ASSUME NEW s \in Sockets, DialFails(s)
      PROVE  TypeOK' /\ Owned'
  <2>1. <<Frame("errored"), Frame("close")>> \in Seq(Frames)
    BY FrameSequences
  <2> QED
    BY <1>9, <2>1 DEF DialFails
<1>10. ASSUME NEW s \in Sockets, GoSilent(s)
       PROVE  TypeOK' /\ Owned'
  <2>1. <<>> \in Seq(Frames)
    BY FrameSequences
  <2> QED
    BY <1>10, <2>1 DEF GoSilent
<1>11. CASE Heartbeat
  <2>1. <<Frame("close")>> \in Seq(Frames)
    BY FrameSequences
  <2> QED
    BY <1>11, <2>1 DEF Heartbeat
<1>12. ASSUME NEW s \in Sockets,
              Errored(s) \/ HelloOk(s) \/ ErrorFrame(s) \/ Response(s) \/ Closed(s)
       PROVE  TypeOK' /\ Owned'
  <2>1. frames' \in [Sockets -> Seq(Frames)]
    BY <1>12, TakeType DEF Errored, HelloOk, ErrorFrame, Response, Closed
  <2>2. CASE Errored(s)
    BY <2>1, <2>2 DEF Errored, Settle
  <2>3. CASE HelloOk(s)
    <3>0. LET n == [state EXCEPT !.tag = "Connected"] IN n \in States /\ n.socket = state.socket
      BY MachineStates
    <3>1. state' \in States /\ Owned'
      BY <2>3, <3>0 DEF HelloOk
    <3> QED
      BY <2>1, <2>3, <3>1 DEF HelloOk, Settle
  <2>4. CASE ErrorFrame(s)
    <3>1. state' \in States /\ Owned'
      BY <2>4, MachineStates DEF ErrorFrame
    <3> QED
      BY <2>1, <2>4, <3>1 DEF ErrorFrame, Settle
  <2>5. CASE Response(s)
    BY <2>1, <2>5 DEF Response
  <2>6. CASE Closed(s)
    <3>1. state' \in States /\ Owned'
      BY <2>6, MachineStates DEF Closed
    <3>2. pending' \subseteq Calls /\ calls' \in [Calls -> {"idle", "asked", "waiting", "answered", "failed", "timedOut"}]
      BY <2>6 DEF Closed, FailAllPending
    <3>3. closes' \in Nat
      BY <2>6 DEF Closed
    <3>4. early' \in BOOLEAN
      BY <2>6 DEF Closed
    <3> QED
      BY <2>1, <2>6, <3>1, <3>2, <3>3, <3>4 DEF Closed, Settle
  <2> QED
    BY <1>12, <2>2, <2>3, <2>4, <2>5, <2>6
<1>13. ASSUME NEW r \in Calls, Ask(r) \/ Register(r) \/ Timeout(r)
       PROVE  TypeOK' /\ Owned'
  <2>1. CASE Ask(r)
    BY <2>1 DEF Ask, Call
  <2>2. CASE Register(r)
    BY <2>2 DEF Register, Call
  <2>3. CASE Timeout(r)
    BY <2>3 DEF Timeout, Call
  <2> QED
    BY <1>13, <2>1, <2>2, <2>3
<1>14. ASSUME NEW r \in Calls, CommandSent(r)
       PROVE  TypeOK' /\ Owned'
  <2>1. state.tag = "Connected" => <<state.socket, r>> \in Sockets \X Calls /\ state.socket \in 0 .. MaxSockets
    BY WireAssumption DEF Sockets
  <2>2. work' \subseteq Sockets \X Calls
    BY <1>14, <2>1 DEF CommandSent
  <2>3. sentOn' \in [Calls -> 0 .. MaxSockets]
    BY <1>14, <2>1 DEF CommandSent
  <2> QED
    BY <1>14, <2>2, <2>3 DEF CommandSent
<1>15. ASSUME NEW s \in Sockets, Greet(s) \/ Reject(s) \/ ServerCloses(s)
       PROVE  TypeOK' /\ Owned'
  <2>1. frames' \in [Sockets -> Seq(Frames)]
    BY <1>15, ToClientType, FrameSequences DEF Greet, Reject, ServerCloses
  <2>2. CASE Greet(s)
    BY <2>1, <2>2 DEF Greet
  <2>3. CASE Reject(s)
    BY <2>1, <2>3 DEF Reject
  <2>4. CASE ServerCloses(s)
    BY <2>1, <2>4 DEF ServerCloses
  <2> QED
    BY <1>15, <2>2, <2>3, <2>4
<1>16. CASE Respond
  <2>1. PICK w \in work : /\ work' = work \ {w}
                          /\ \/ ToClient(w[1], <<[type |-> "response", call |-> w[2]]>>)
                             \/ UNCHANGED frames
                          /\ UNCHANGED <<client, sockets, server, console, history>>
    BY <1>16 DEF Respond
  <2>2. w[2] \in Calls
    BY <2>1
  <2>3. <<[type |-> "response", call |-> w[2]]>> \in Seq(Frames)
    BY <2>2, ResponseSequence
  <2>4. frames' \in [Sockets -> Seq(Frames)]
    BY <2>1, <2>3, ToClientType
  <2> QED
    BY <2>1, <2>4
<1>17. CASE UNCHANGED vars
  BY <1>17 DEF vars
<1> QED
  BY <1>3, <1>4, <1>5, <1>6, <1>7, <1>8, <1>9, <1>10, <1>11, <1>12, <1>13, <1>14, <1>15,
     <1>16, <1>17 DEF Next, Actor

\* Sockets are numbered as they are opened.
LEMMA OpenedStep == TypeOK /\ Owned /\ Opened /\ Reported /\ [Next]_vars => Opened'
<1> SUFFICES ASSUME TypeOK, Owned, Opened, Reported, [Next]_vars PROVE Opened'
  OBVIOUS
<1> USE DEF client, wire, console, history
<1>1. ASSUME \A s \in Sockets : sockets'[s] # "none" <=> sockets[s] # "none",
             connectRequested' => connectRequested
      PROVE  Opened'
  BY <1>1 DEF Opened
<1>2. ASSUME NEW t, NEW v, sockets' = [sockets EXCEPT ![t] = v], v # "none",
             t \in Sockets /\ sockets[t] # "none", UNCHANGED connectRequested
      PROVE  Opened'
  BY <1>1, <1>2 DEF TypeOK
<1>3. CASE ConnectRequested
  <2>1. CASE state.tag = "Disconnected"
    <3> DEFINE n == Cardinality(Used)
    <3>1. /\ n + 1 \in Sockets /\ n \in Nat
          /\ \A s \in Sockets : sockets[s] # "none" <=> s <= n
      BY <1>3, NextSocket DEF ConnectRequested
    <3>2. sockets' = [sockets EXCEPT ![n + 1] = "dialing"] /\ ~connectRequested'
      BY <1>3, <2>1 DEF ConnectRequested, TypeOK
    <3> HIDE DEF n
    <3>3. n + 1 \in 0 .. MaxSockets
      BY <3>1, WireAssumption DEF Sockets
    <3>4. \A s \in Sockets : sockets'[s] # "none" <=> s <= n + 1
      BY <3>1, <3>2 DEF TypeOK, Sockets
    <3> QED
      BY <3>2, <3>3, <3>4 DEF Opened
  <2>2. CASE state.tag # "Disconnected"
    BY <1>1, <1>3, <2>2 DEF ConnectRequested, TypeOK
  <2> QED
    BY <2>1, <2>2
<1>4. CASE Retry
  <2>1. PICK n \in 0 .. MaxSockets : \A s \in Sockets : sockets[s] # "none" <=> s <= n
    BY DEF Opened
  <2>2. n < MaxSockets
    BY <1>4, <2>1, UsedCount DEF Retry
  <2> QED
    BY <1>4, <2>1, <2>2 DEF Opened, Retry
<1>5. CASE Land \/ TakeOutcome \/ TakeClose \/ Respond \/ UNCHANGED vars
  <2>1. UNCHANGED <<sockets, connectRequested>>
    BY <1>5 DEF Land, TakeOutcome, TakeClose, Respond, vars
  <2> QED
    BY <1>1, <2>1
<1>6. ASSUME NEW s \in Sockets, Open(s) \/ DialFails(s) \/ GoSilent(s)
      PROVE  Opened'
  BY <1>2, <1>6 DEF Open, DialFails, GoSilent
<1>7. CASE Heartbeat
  <2>1. state.socket \in Sockets
    BY <1>7 DEF Heartbeat, Owned
  <2> QED
    BY <1>2, <1>7, <2>1 DEF Heartbeat
<1>8. ASSUME NEW s \in Sockets, Errored(s) \/ HelloOk(s) \/ ErrorFrame(s) \/ Response(s)
      PROVE  Opened'
  BY <1>1, <1>8 DEF Errored, HelloOk, ErrorFrame, Response
<1>9. ASSUME NEW s \in Sockets, Closed(s)
      PROVE  Opened'
  <2>1. sockets[s] # "none"
    BY <1>9 DEF Closed, Take, Reported, Reporting
  <2> QED
    BY <1>2, <1>9, <2>1 DEF Closed
<1>10. ASSUME NEW r \in Calls, Ask(r) \/ Register(r) \/ CommandSent(r) \/ Timeout(r)
       PROVE  Opened'
  BY <1>1, <1>10 DEF Ask, Register, CommandSent, Timeout, Call
<1>11. ASSUME NEW s \in Sockets, Greet(s) \/ Reject(s) \/ ServerCloses(s)
       PROVE  Opened'
  BY <1>1, <1>11 DEF Greet, Reject, ServerCloses
<1> QED
  BY <1>3, <1>4, <1>5, <1>6, <1>7, <1>8, <1>9, <1>10, <1>11 DEF Next, Actor

\* What a socket reports fits what has become of it.
LEMMA ReportedStep == TypeOK /\ Owned /\ Opened /\ Reported /\ [Next]_vars => Reported'
<1> SUFFICES ASSUME TypeOK, Owned, Opened, Reported, [Next]_vars, NEW u \in Sockets
             PROVE  Reporting(u)'
  BY DEF Reported
<1> USE DEF client, wire, console, history
<1>a. Reporting(u) /\ frames[u] \in Seq(Frames)
  BY DEF Reported, TypeOK
<1>1. ASSUME frames'[u] = frames[u], sockets'[u] = sockets[u],
             server'[u] = server[u] \/ server'[u] = "gone",
             rejected => rejected'
      PROVE  Reporting(u)'
  BY <1>a, <1>1 DEF Reporting
<1>2. CASE ConnectRequested
  <2>1. state.tag = "Disconnected" =>
           sockets[Cardinality(Used) + 1] = "none" /\ Cardinality(Used) + 1 \in Sockets
    BY <1>2, NextSocket DEF ConnectRequested
  <2>2. CASE state.tag = "Disconnected" /\ u = Cardinality(Used) + 1
    <3>1. frames[u] = <<>>
      BY <1>a, <2>1, <2>2 DEF Reporting
    <3> QED
      BY <1>2, <2>2, <3>1, FrameSequences DEF ConnectRequested, Reporting, TypeOK
  <2>3. CASE ~(state.tag = "Disconnected" /\ u = Cardinality(Used) + 1)
    BY <1>1, <1>2, <2>3 DEF ConnectRequested, TypeOK
  <2> QED
    BY <2>2, <2>3
<1>3. CASE Land \/ TakeOutcome \/ TakeClose \/ Retry \/ UNCHANGED vars
  BY <1>1, <1>3 DEF Land, TakeOutcome, TakeClose, Retry, vars
<1>4. ASSUME NEW s \in Sockets, Open(s)
      PROVE  Reporting(u)'
  <2>1. CASE u = s
    <3>1. frames[s] = <<>>
      BY <1>4, <1>a, <2>1 DEF Open, Reporting
    <3> QED
      BY <1>4, <2>1, <3>1, FrameSequences DEF Open, Reporting
  <2>2. CASE u # s
    BY <1>1, <1>4, <2>2 DEF Open, TypeOK
  <2> QED
    BY <2>1, <2>2
<1>5. ASSUME NEW s \in Sockets, DialFails(s)
      PROVE  Reporting(u)'
  <2>1. CASE u = s
    <3>1. frames'[u] = <<Frame("errored"), Frame("close")>> /\ sockets'[u] = "failing"
      BY <1>5, <2>1 DEF DialFails, TypeOK
    <3> QED
      BY <3>1, FrameSequences DEF Reporting
  <2>2. CASE u # s
    BY <1>1, <1>5, <2>2 DEF DialFails, TypeOK
  <2> QED
    BY <2>1, <2>2
<1>6. ASSUME NEW s \in Sockets, GoSilent(s)
      PROVE  Reporting(u)'
  <2>1. CASE u = s
    <3>1. frames'[u] = <<>> /\ sockets'[u] = "silent"
      BY <1>6, <2>1 DEF GoSilent, TypeOK
    <3> QED
      BY <3>1, FrameSequences DEF Reporting
  <2>2. CASE u # s
    BY <1>1, <1>6, <2>2 DEF GoSilent, TypeOK
  <2> QED
    BY <2>1, <2>2
<1>7. CASE Heartbeat
  <2>1. CASE u = state.socket
    <3>1. frames'[u] = <<Frame("close")>> /\ sockets'[u] = "closing"
      BY <1>7, <2>1 DEF Heartbeat, TypeOK
    <3> QED
      BY <3>1, FrameSequences DEF Reporting
  <2>2. CASE u # state.socket
    BY <1>1, <1>7, <2>2 DEF Heartbeat, TypeOK
  <2> QED
    BY <2>1, <2>2
<1>8. ASSUME NEW s \in Sockets, NEW t, Take(s, t), s # u \/ UNCHANGED sockets,
             UNCHANGED <<server, rejected>>, s # u => sockets'[u] = sockets[u]
      PROVE  Reporting(u)'
  <2>1. CASE u = s
    <3>1. frames'[u] = Tail(frames[u]) /\ frames[u] # <<>>
      BY <1>8, <2>1, TakeType DEF TypeOK
    <3>2. /\ \A v : Reports(Tail(frames[u]), v) => Reports(frames[u], v)
          /\ CloseIsLast(frames[u]) => CloseIsLast(Tail(frames[u]))
      BY <1>a, <3>1, TailFrames
    <3> QED
      BY <1>a, <1>8, <2>1, <3>1, <3>2 DEF Reporting
  <2>2. CASE u # s
    <3>1. frames'[u] = frames[u]
      BY <1>8, <2>2, TakeType DEF TypeOK
    <3> QED
      BY <1>1, <1>8, <2>2, <3>1
  <2> QED
    BY <2>1, <2>2
<1>9. ASSUME NEW s \in Sockets, Errored(s) \/ HelloOk(s) \/ ErrorFrame(s) \/ Response(s)
      PROVE  Reporting(u)'
  BY <1>8, <1>9 DEF Errored, HelloOk, ErrorFrame, Response
<1>10. ASSUME NEW s \in Sockets, Closed(s)
       PROVE  Reporting(u)'
  <2>1. CASE u = s
    <3>1. /\ frames'[s] = Tail(frames[s]) /\ frames[s] # <<>> /\ frames[s] \in Seq(Frames)
          /\ Head(frames[s]).type = "close"
      BY <1>10, TakeType DEF TypeOK, Closed
    <3>2. CloseIsLast(frames[s])
      BY <1>a, <2>1 DEF Reporting
    <3>3. frames'[u] = <<>>
      BY <2>1, <3>1, <3>2, TailFrames
    <3>4. sockets'[u] = "closed"
      BY <1>10, <2>1 DEF Closed, TypeOK
    <3> QED
      BY <3>3, <3>4, FrameSequences DEF Reporting
  <2>2. CASE u # s
    BY <1>8, <1>10, <2>2 DEF Closed, TypeOK
  <2> QED
    BY <2>1, <2>2
<1>11. ASSUME NEW r \in Calls, Ask(r) \/ Register(r) \/ CommandSent(r) \/ Timeout(r)
       PROVE  Reporting(u)'
  BY <1>1, <1>11 DEF Ask, Register, CommandSent, Timeout, Call
<1>12. ASSUME NEW s \in Sockets, NEW q \in Seq(Frames), ToClient(s, q), UNCHANGED sockets,
              sockets[s] = "open" => server[s] # "gone", CloseIsLast(q),
              ~Reports(q, "errored"), Reports(q, "error") => rejected',
              rejected => rejected',
              Reports(q, "close") => server'[s] = "gone",
              server'[s] \in {server[s], "gone"},
              \A v \in Sockets \ {s} : server'[v] = server[v]
       PROVE  Reporting(u)'
  <2>1. CASE u = s /\ sockets[s] = "open"
    <3>1. frames'[u] = frames[u] \o q
      BY <1>12, <2>1 DEF ToClient, TypeOK
    <3>2. ~Reports(frames[u], "close")
      BY <1>a, <1>12, <2>1 DEF Reporting
    <3>3. /\ \A t : Reports(frames[u] \o q, t) => Reports(frames[u], t) \/ Reports(q, t)
          /\ CloseIsLast(frames[u] \o q)
      BY <1>a, <1>12, <3>2, ConcatFrames
    <3> QED
      BY <1>a, <1>12, <2>1, <3>1, <3>2, <3>3 DEF Reporting
  <2>2. CASE ~(u = s /\ sockets[s] = "open")
    <3>1. frames'[u] = frames[u]
      BY <1>12, <2>2 DEF ToClient, TypeOK
    <3> QED
      BY <1>1, <1>12, <3>1
  <2> QED
    BY <2>1, <2>2
<1>13. ASSUME NEW s \in Sockets, Greet(s)
       PROVE  Reporting(u)'
  <2> DEFINE q == <<Frame("hello_ok")>>
  <2>1. q \in Seq(Frames) /\ CloseIsLast(q) /\ \A v : Reports(q, v) => v = "hello_ok"
    BY FrameSequences
  <2>2. ToClient(s, q) /\ server'[s] = "authed" /\ server[s] = "greeting"
        /\ UNCHANGED <<sockets, rejected>>
        /\ \A v \in Sockets \ {s} : server'[v] = server[v]
    BY <1>13 DEF Greet, TypeOK
  <2> HIDE DEF q
  <2>3. CASE u = s /\ sockets[s] = "open"
    <3>1. frames'[u] = frames[u] \o q
      BY <2>2, <2>3 DEF ToClient, TypeOK
    <3>2. /\ \A t : Reports(frames[u] \o q, t) => Reports(frames[u], t) \/ Reports(q, t)
          /\ ~Reports(frames[u], "close") => CloseIsLast(frames[u] \o q)
      BY <1>a, <2>1, ConcatFrames
    <3> QED
      BY <1>a, <2>1, <2>2, <2>3, <3>1, <3>2 DEF Reporting
  <2>4. CASE ~(u = s /\ sockets[s] = "open")
    <3>1. frames'[u] = frames[u]
      BY <2>2, <2>4 DEF ToClient, TypeOK
    <3> QED
      BY <1>a, <2>2, <2>4, <3>1 DEF Reporting
  <2> QED
    BY <2>3, <2>4
<1>14. ASSUME NEW s \in Sockets, Reject(s)
       PROVE  Reporting(u)'
  <2> DEFINE q == <<Frame("error"), Frame("close")>>
  <2>1. q \in Seq(Frames) /\ CloseIsLast(q) /\ \A v : Reports(q, v) => v \in {"error", "close"}
    BY FrameSequences
  <2>2. /\ server'[s] = "gone" /\ server[s] = "greeting" /\ UNCHANGED sockets /\ rejected'
        /\ ToClient(s, q) /\ \A v \in Sockets \ {s} : server'[v] = server[v]
    BY <1>14 DEF Reject, TypeOK
  <2> HIDE DEF q
  <2> QED
    BY <1>12, <2>1, <2>2
<1>15. ASSUME NEW s \in Sockets, ServerCloses(s)
       PROVE  Reporting(u)'
  <2> DEFINE q == <<Frame("close")>>
  <2>1. q \in Seq(Frames) /\ CloseIsLast(q) /\ \A v : Reports(q, v) => v = "close"
    BY FrameSequences
  <2>2. /\ server'[s] = "gone" /\ server[s] # "gone" /\ UNCHANGED <<sockets, rejected>>
        /\ ToClient(s, q) /\ \A v \in Sockets \ {s} : server'[v] = server[v]
    BY <1>15 DEF ServerCloses, TypeOK
  <2> HIDE DEF q
  <2> QED
    BY <1>12, <2>1, <2>2
<1>16. CASE Respond
  <2>1. PICK w \in work :
          /\ \/ /\ server[w[1]] = "authed"
                /\ ToClient(w[1], <<[type |-> "response", call |-> w[2]]>>)
             \/ UNCHANGED frames
          /\ UNCHANGED <<sockets, server, rejected>>
    BY <1>16 DEF Respond
  <2>2. w[1] \in Sockets /\ w[2] \in Calls
    BY <2>1 DEF TypeOK
  <2>3. CASE UNCHANGED frames
    BY <1>1, <2>1, <2>3
  <2>4. CASE server[w[1]] = "authed" /\ ToClient(w[1], <<[type |-> "response", call |-> w[2]]>>)
    <3>1. LET q == <<[type |-> "response", call |-> w[2]]>> IN
          q \in Seq(Frames) /\ CloseIsLast(q) /\ \A v : Reports(q, v) => v = "response"
      BY <2>2, ResponseSequence
    <3> QED
      BY <1>12, <2>1, <2>2, <2>4, <3>1
  <2> QED
    BY <2>1, <2>3, <2>4
<1> QED
  BY <1>2, <1>3, <1>4, <1>5, <1>6, <1>7, <1>9, <1>10, <1>11, <1>13, <1>14, <1>15, <1>16
     DEF Next, Actor

\* The machine follows its one socket.
LEMMA MatchedStep ==
    TypeOK /\ Owned /\ Opened /\ Reported /\ Matched /\ [Next]_vars => Matched'
<1> SUFFICES ASSUME TypeOK, Owned, Opened, Reported, Matched, [Next]_vars, ~rejected'
             PROVE  Matched'
  BY DEF Matched
<1> USE DEF client, wire, console, history
<1>1. ~rejected
  BY DEF Next, vars, ConnectRequested, Land, TakeOutcome, TakeClose, Retry, Actor, Errored, HelloOk,
         ErrorFrame, Response, Closed, Open, DialFails, GoSilent, Heartbeat, Ask, Register,
         CommandSent, Timeout, Call, Greet, Reject, ServerCloses, Respond
<1>2. /\ \A s \in Sockets : Live(s) => state.tag # "Disconnected" /\ state.socket = s
      /\ state.tag # "Disconnected" => state.socket \in Sockets /\ Live(state.socket)
      /\ state.tag = "Connecting" => sockets[state.socket] \in {"dialing", "failing"}
      /\ state.tag \in {"Handshaking", "Connected"}
            => sockets[state.socket] \in {"open", "silent", "closing"}
  BY <1>1 DEF Matched
<1>3. ASSUME UNCHANGED <<state, sockets>>
      PROVE  Matched'
  BY <1>2, <1>3 DEF Matched, Live
<1>4. CASE ConnectRequested
  <2>1. CASE state.tag = "Disconnected"
    <3> DEFINE n == Cardinality(Used) + 1
    <3>1. n \in Sockets
      BY <1>4, NextSocket DEF ConnectRequested
    <3>2. sockets' = [sockets EXCEPT ![n] = "dialing"]
      BY <1>4, <2>1 DEF ConnectRequested
    <3>3. state'.tag = "Connecting" /\ state'.socket = n
      BY <1>4, <2>1 DEF ConnectRequested
    <3> HIDE DEF n
    <3>4. sockets'[n] = "dialing" /\ \A s \in Sockets \ {n} : sockets'[s] = sockets[s]
      BY <3>1, <3>2 DEF TypeOK
    <3> QED
      BY <1>2, <2>1, <3>1, <3>3, <3>4 DEF Matched, Live
  <2>2. CASE state.tag # "Disconnected"
    BY <1>3, <1>4, <2>2 DEF ConnectRequested
  <2> QED
    BY <2>1, <2>2
<1>5. CASE Land \/ TakeOutcome \/ TakeClose \/ Retry \/ Respond \/ UNCHANGED vars
  <2>1. UNCHANGED <<state, sockets>>
    BY <1>5 DEF Land, TakeOutcome, TakeClose, Retry, Respond, vars
  <2> QED
    BY <1>3, <2>1
<1>6. ASSUME NEW s \in Sockets, Open(s)
      PROVE  Matched'
  <2>1. sockets[s] = "dialing" /\ state.socket = s /\ state.tag = "Connecting"
    <3>1. sockets[s] = "dialing"
      BY <1>6 DEF Open
    <3> QED
      BY <1>2, <3>1 DEF Live, TypeOK, States, Tags
  <2>2. state'.tag = "Handshaking" /\ state'.socket = s
    BY <1>6, <2>1 DEF Open
  <2>3. sockets'[s] = "open" /\ \A v \in Sockets \ {s} : sockets'[v] = sockets[v]
    BY <1>6 DEF Open, TypeOK
  <2> QED
    BY <1>2, <2>1, <2>2, <2>3 DEF Matched, Live
<1>7. ASSUME NEW s \in Sockets, DialFails(s) \/ GoSilent(s)
      PROVE  Matched'
  <2>1. /\ \/ sockets[s] = "dialing" /\ sockets'[s] = "failing"
           \/ sockets[s] = "open" /\ sockets'[s] = "silent"
        /\ \A v \in Sockets \ {s} : sockets'[v] = sockets[v]
        /\ state' = state
    <3>1. CASE DialFails(s)
      BY <3>1 DEF DialFails, TypeOK
    <3>2. CASE GoSilent(s)
      BY <3>2 DEF GoSilent, TypeOK
    <3> QED
      BY <1>7, <3>1, <3>2
  <2>2. state.socket = s /\ state.tag # "Disconnected"
    BY <1>2, <2>1 DEF Live
  <2> QED
    BY <1>2, <2>1, <2>2 DEF Matched, Live
<1>8. CASE Heartbeat
  <2>1. state.socket \in Sockets /\ state.tag = "Connected"
    BY <1>8 DEF Heartbeat, Owned
  <2>2. sockets'[state.socket] = "closing"
        /\ (\A v \in Sockets \ {state.socket} : sockets'[v] = sockets[v]) /\ state' = state
    BY <1>8, <2>1 DEF Heartbeat, TypeOK
  <2> QED
    BY <1>2, <2>1, <2>2 DEF Matched, Live
<1>9. ASSUME NEW s \in Sockets, Errored(s) \/ Response(s)
      PROVE  Matched'
  BY <1>3, <1>9 DEF Errored, Response
<1>10. ASSUME NEW s \in Sockets, HelloOk(s)
       PROVE  Matched'
  <2>1. CASE state.tag = "Handshaking"
    <3>0. LET n == [state EXCEPT !.tag = "Connected"] IN n.tag = "Connected" /\ n.socket = state.socket
      BY MachineStates DEF TypeOK
    <3>1. state'.tag = "Connected" /\ state'.socket = state.socket /\ sockets' = sockets
      BY <1>10, <2>1, <3>0 DEF HelloOk
    <3> QED
      BY <1>2, <2>1, <3>1 DEF Matched, Live
  <2>2. CASE state.tag # "Handshaking"
    BY <1>3, <1>10, <2>2 DEF HelloOk
  <2> QED
    BY <2>1, <2>2
<1>11. ASSUME NEW s \in Sockets, ErrorFrame(s)
       PROVE  Matched'
  <2>1. Reports(frames[s], "error")
    BY <1>11, TakeType DEF ErrorFrame, TypeOK
  <2> QED
    BY <1>1, <2>1 DEF Reported, Reporting
<1>12. ASSUME NEW s \in Sockets, Closed(s)
       PROVE  Matched'
  <2>1. frames[s] # <<>>
    BY <1>12, TakeType DEF Closed, TypeOK
  <2>2. Live(s)
    BY <2>1 DEF Live, Reported, Reporting
  <2>3. sockets'[s] = "closed" /\ (\A v \in Sockets \ {s} : sockets'[v] = sockets[v])
        /\ state'.tag = "Disconnected"
    BY <1>12 DEF Closed, TypeOK, Disconnected
  <2> QED
    BY <1>2, <2>2, <2>3 DEF Matched, Live
<1>13. ASSUME NEW r \in Calls, Ask(r) \/ Register(r) \/ CommandSent(r) \/ Timeout(r)
       PROVE  Matched'
  <2>1. UNCHANGED <<state, sockets>>
    BY <1>13 DEF Ask, Register, CommandSent, Timeout, Call
  <2> QED
    BY <1>3, <2>1
<1>14. ASSUME NEW s \in Sockets, Greet(s) \/ Reject(s) \/ ServerCloses(s)
       PROVE  Matched'
  BY <1>3, <1>14 DEF Greet, Reject, ServerCloses
<1> QED
  BY <1>4, <1>5, <1>6, <1>7, <1>8, <1>9, <1>10, <1>11, <1>12, <1>13, <1>14 DEF Next, Actor

\* Nobody answers a call that was not sent.
LEMMA CalledStep ==
    TypeOK /\ Owned /\ Called /\ [Next]_vars => Called'
<1> SUFFICES ASSUME TypeOK, Owned, Called, [Next]_vars
             PROVE  Called'
  OBVIOUS
<1> USE DEF client, wire, console, history
<1>1. ASSUME UNCHANGED <<calls, pending, outbox>>,
             \A r \in Calls : Unsent(r) => Unsent(r)',
             state.tag = "Disconnected" /\ (\E r \in Calls : r \in outbox /\ calls[r] = "failed")
                => state'.tag = "Disconnected"
      PROVE  Called'
  BY <1>1 DEF Called
<1>2. ASSUME UNCHANGED <<work, frames>>, NEW r \in Calls, Unsent(r)
      PROVE  Unsent(r)'
  BY <1>2 DEF Unsent
<1>3. ASSUME NEW s \in Sockets, NEW t, Take(s, t), UNCHANGED work, NEW r \in Calls, Unsent(r)
      PROVE  Unsent(r)'
  <2>1. /\ frames[s] # <<>> /\ frames[s] \in Seq(Frames) /\ frames'[s] = Tail(frames[s])
        /\ \A v \in Sockets \ {s} : frames'[v] = frames[v]
    BY <1>3, TakeType DEF TypeOK
  <2>2. Answers(Tail(frames[s]), r) => Answers(frames[s], r)
    BY <2>1, TailFrames
  <2> QED
    BY <1>3, <2>1, <2>2 DEF Unsent
<1>4. ASSUME NEW s \in Sockets, NEW q \in Seq(Frames), ToClient(s, q), work' \subseteq work,
             NEW r \in Calls, Unsent(r), ~Answers(q, r)
      PROVE  Unsent(r)'
  <2>1. frames[s] \in Seq(Frames)
    BY DEF TypeOK
  <2>2. Answers(frames[s] \o q, r) => Answers(frames[s], r)
    BY <1>4, <2>1, ConcatFrames
  <2>3. \A v \in Sockets : frames'[v] = frames[v] \/ (v = s /\ frames'[v] = frames[v] \o q)
    <3>1. frames' = frames \/ frames' = [frames EXCEPT ![s] = frames[s] \o q]
      BY <1>4 DEF ToClient
    <3> QED
      BY <3>1 DEF TypeOK
  <2> QED
    BY <1>4, <2>2, <2>3 DEF Unsent
<1>5. ASSUME NEW s \in Sockets, NEW q \in Seq(Frames), frames' = [frames EXCEPT ![s] = q],
             UNCHANGED work, NEW r \in Calls, Unsent(r), ~Answers(q, r)
      PROVE  Unsent(r)'
  BY <1>5 DEF Unsent, TypeOK
<1>6. CASE ConnectRequested
  BY <1>1, <1>2, <1>6 DEF ConnectRequested
<1>7. CASE Land \/ TakeOutcome \/ TakeClose \/ Retry \/ UNCHANGED vars
  BY <1>1, <1>2, <1>7 DEF Land, TakeOutcome, TakeClose, Retry, vars
<1>8. ASSUME NEW s \in Sockets, Open(s)
      PROVE  Called'
  BY <1>1, <1>2, <1>8 DEF Open
<1>9. ASSUME NEW s \in Sockets, DialFails(s) \/ GoSilent(s)
      PROVE  Called'
  BY <1>1, <1>5, <1>9, FrameSequences DEF DialFails, GoSilent
<1>10. CASE Heartbeat
  BY <1>1, <1>5, <1>10, FrameSequences DEF Heartbeat, Owned
<1>11. ASSUME NEW s \in Sockets, Errored(s) \/ HelloOk(s) \/ ErrorFrame(s)
       PROVE  Called'
  BY <1>1, <1>3, <1>11 DEF Errored, HelloOk, ErrorFrame, Disconnected
<1>12. ASSUME NEW s \in Sockets, Response(s)
       PROVE  Called'
  <2>1. \A r \in Calls : Unsent(r) => Unsent(r)'
    BY <1>3, <1>12 DEF Response
  <2> DEFINE c == Head(frames[s]).call
  <2>2. CASE state.tag = "Connected" /\ c \in pending
    <3>1. frames[s] # <<>> /\ frames[s] \in Seq(Frames) /\ Head(frames[s]).type = "response"
      BY <1>12, TakeType DEF Response, TypeOK
    <3>2. Answers(frames[s], c)
      BY <3>1, TailFrames
    <3> HIDE DEF c
    <3>3. c \in Calls /\ calls[c] = "waiting" /\ c \notin outbox
      BY <2>2, <3>2 DEF Called, Unsent, TypeOK
    <3>4. pending' = pending \ {c} /\ calls' = [calls EXCEPT ![c] = "answered"]
          /\ UNCHANGED <<outbox, state>>
      BY <1>12, <2>2 DEF Response, c
    <3>5. calls'[c] = "answered" /\ \A r \in Calls \ {c} : calls'[r] = calls[r]
      BY <3>3, <3>4 DEF TypeOK
    <3> QED
      BY <2>1, <3>3, <3>4, <3>5 DEF Called
  <2>3. CASE ~(state.tag = "Connected" /\ c \in pending)
    BY <1>1, <1>12, <2>1, <2>3 DEF Response
  <2> QED
    BY <2>2, <2>3
<1>13. ASSUME NEW s \in Sockets, Closed(s)
       PROVE  Called'
  <2>1. \A r \in Calls : Unsent(r) => Unsent(r)'
    BY <1>3, <1>13 DEF Closed
  <2>2. state'.tag = "Disconnected"
    BY <1>13 DEF Closed, Disconnected
  <2>3. CASE state.tag = "Connected"
    <3>1. pending' = {} /\ outbox' = outbox
          /\ \A r \in Calls : calls'[r] = IF r \in pending THEN "failed" ELSE calls[r]
      BY <1>13, <2>3 DEF Closed, FailAllPending
    <3> QED
      BY <2>1, <2>2, <3>1 DEF Called, TypeOK
  <2>4. CASE state.tag # "Connected"
    BY <1>1, <1>13, <2>1, <2>2, <2>4 DEF Closed
  <2> QED
    BY <2>3, <2>4
<1>14. ASSUME NEW r \in Calls, Ask(r)
       PROVE  Called'
  <2>1. /\ calls[r] = "idle" /\ calls'[r] = "asked" /\ (\A c \in Calls \ {r} : calls'[c] = calls[c])
        /\ UNCHANGED <<work, frames, pending, outbox, state>>
    BY <1>14 DEF Ask, Call, TypeOK
  <2> QED
    BY <1>2, <2>1 DEF Called, TypeOK
<1>15. ASSUME NEW r \in Calls, Register(r)
       PROVE  Called'
  <2>1. /\ calls[r] = "asked" /\ calls'[r] = "waiting"
        /\ (\A c \in Calls \ {r} : calls'[c] = calls[c])
        /\ pending' = pending \cup {r} /\ outbox' = outbox \cup {r}
        /\ UNCHANGED <<work, frames, state>>
    BY <1>15 DEF Register, Call, TypeOK
  <2> QED
    BY <1>2, <2>1 DEF Called, TypeOK
<1>16. ASSUME NEW r \in Calls, CommandSent(r)
       PROVE  Called'
  <2>1. /\ r \in outbox /\ outbox' = outbox \ {r} /\ UNCHANGED <<calls, pending, frames, state>>
        /\ work' \subseteq work \cup {<<state.socket, r>>}
    BY <1>16 DEF CommandSent
  <2>2. \A c \in Calls \ {r} : Unsent(c) => Unsent(c)'
    BY <2>1 DEF Unsent
  <2>3. calls[r] \notin {"idle", "asked"}
    BY <2>1 DEF Called
  <2> QED
    BY <2>1, <2>2, <2>3 DEF Called
<1>17. ASSUME NEW r \in Calls, Timeout(r)
       PROVE  Called'
  <2>1. /\ calls[r] = "waiting" /\ calls'[r] = "timedOut"
        /\ (\A c \in Calls \ {r} : calls'[c] = calls[c])
        /\ pending' = pending \ {r}
        /\ UNCHANGED <<work, frames, state, outbox>>
    BY <1>17 DEF Timeout, Call, TypeOK
  <2> QED
    BY <1>2, <2>1 DEF Called, TypeOK
<1>18. ASSUME NEW s \in Sockets, Greet(s) \/ Reject(s) \/ ServerCloses(s)
       PROVE  Called'
  BY <1>1, <1>4, <1>18, FrameSequences DEF Greet, Reject, ServerCloses
<1>19. CASE Respond
  <2>1. PICK w \in work : /\ work' = work \ {w}
                          /\ \/ ToClient(w[1], <<[type |-> "response", call |-> w[2]]>>)
                             \/ UNCHANGED frames
                          /\ UNCHANGED <<client, sockets, server, console, history>>
    BY <1>19 DEF Respond
  <2>2. w[1] \in Sockets /\ w[2] \in Calls
    BY <2>1 DEF TypeOK
  <2> DEFINE q == <<[type |-> "response", call |-> w[2]]>>
  <2>3. q \in Seq(Frames) /\ \A c : Answers(q, c) => c = w[2]
    BY <2>2, ResponseSequence
  <2>4. ToClient(w[1], q) \/ UNCHANGED frames
    BY <2>1
  <2> HIDE DEF q
  <2>5. ASSUME NEW r \in Calls, Unsent(r)
        PROVE  Unsent(r)'
    <3>1. r # w[2]
      BY <2>1, <2>5 DEF Unsent
    <3>2. CASE UNCHANGED frames
      BY <2>1, <2>5, <3>2 DEF Unsent
    <3>3. CASE ToClient(w[1], q)
      BY <1>4, <2>1, <2>2, <2>3, <2>5, <3>1, <3>3
    <3> QED
      BY <2>4, <3>2, <3>3
  <2> QED
    BY <1>1, <2>1, <2>5
<1> QED
  BY <1>6, <1>7, <1>8, <1>9, <1>10, <1>11, <1>12, <1>13, <1>14, <1>15, <1>16, <1>17, <1>18,
     <1>19 DEF Next, Actor

\* The console's phases go with the client's.
LEMMA PhasesStep ==
    TypeOK /\ Owned /\ Reported /\ Matched /\ Phases /\ [Next]_vars => Phases'
<1> SUFFICES ASSUME TypeOK, Owned, Reported, Matched, Phases, [Next]_vars, ~early', ~rejected'
             PROVE  Phases'
  BY DEF Phases
<1> USE DEF client, wire, console, history
<1>1. ~rejected /\ ~early
  <2>1. ~rejected
    BY DEF Next, vars, ConnectRequested, Land, TakeOutcome, TakeClose, Retry, Actor, Errored,
           HelloOk, ErrorFrame, Response, Closed, Open, DialFails, GoSilent, Heartbeat, Ask,
           Register, CommandSent, Timeout, Call, Greet, Reject, ServerCloses, Respond
  <2>2. ASSUME NEW s \in Sockets, Closed(s)
        PROVE  ~early
    BY <2>2 DEF Closed
  <2>3. (\E s \in Sockets : Closed(s)) \/ early' = early
    BY DEF Next, vars, ConnectRequested, Land, TakeOutcome, TakeClose, Retry, Actor, Errored,
           HelloOk, ErrorFrame, Response, Open, DialFails, GoSilent, Heartbeat, Ask,
           Register, CommandSent, Timeout, Call, Greet, Reject, ServerCloses, Respond
  <2> QED
    BY <2>1, <2>2, <2>3
<1>2. /\ connectRequested => dial = "awaiting" /\ state.tag = "Disconnected"
      /\ dial = "awaiting" => conn = "Connecting"
      /\ conn = "Connecting" =>
            /\ closes = 0
            /\ \/ dial = "awaiting" /\ outcome = "none" /\ state.tag # "Connected"
               \/ dial = "landing" /\ outcome = "none" /\ state.tag = "Connected"
               \/ dial = "idle" /\ outcome = "connected" /\ state.tag = "Connected"
               \/ dial = "idle" /\ outcome = "failed" /\ Down
      /\ conn = "Online" =>
            /\ dial = "idle" /\ outcome = "none"
            /\ \/ state.tag = "Connected" /\ closes = 0
               \/ state.tag = "Disconnected" /\ closes = 1
      /\ conn = "Offline" => dial = "idle" /\ outcome = "none" /\ closes = 0 /\ Down
      /\ conn \in {"Connecting", "Offline", "Online"}
  BY <1>1 DEF Phases, TypeOK
<1>3. ASSUME UNCHANGED <<connectRequested, dial, conn, outcome, closes, state>>, Down => Down'
      PROVE  Phases'
  BY <1>2, <1>3 DEF Phases
<1>4. ASSUME UNCHANGED <<connectRequested, dial, conn, outcome, closes, state, sockets>>
      PROVE  Phases'
  BY <1>3, <1>4 DEF Down
<1>5. ASSUME NEW s \in Sockets, Live(s)
      PROVE  /\ state.tag # "Disconnected" /\ state.socket = s /\ ~connectRequested
             /\ sockets[s] \in {"dialing", "failing"} => state.tag = "Connecting"
             /\ sockets[s] \in {"open", "silent", "closing"} => state.tag \in {"Handshaking", "Connected"}
  BY <1>1, <1>2, <1>5 DEF Matched, TypeOK, States, Tags
<1>6. CASE ConnectRequested
  <2>1. state'.tag = "Connecting" /\ ~connectRequested' /\ UNCHANGED <<dial, conn, outcome, closes>>
    BY <1>2, <1>6 DEF ConnectRequested
  <2>2. dial = "awaiting" /\ conn = "Connecting"
    BY <1>2, <1>6 DEF ConnectRequested
  <2> QED
    BY <1>2, <2>1, <2>2 DEF Phases
<1>7. CASE Land
  BY <1>2, <1>7 DEF Land, Phases
<1>8. CASE TakeOutcome
  <2>1. /\ conn = "Connecting" /\ dial = "idle" /\ closes = 0
        /\ \/ outcome = "connected" /\ state.tag = "Connected"
           \/ outcome = "failed" /\ Down
    BY <1>2, <1>8 DEF TakeOutcome
  <2>2. Down' <=> Down
    BY <1>8 DEF TakeOutcome, Down
  <2>3. conn' = IF outcome = "connected" THEN "Online" ELSE "Offline"
    BY <1>8, <2>1 DEF TakeOutcome
  <2>4. ~connectRequested
    BY <1>2, <2>1
  <2> QED
    BY <1>8, <2>1, <2>2, <2>3, <2>4 DEF TakeOutcome, Phases
<1>9. CASE TakeClose
  <2>1. conn = "Online" /\ dial = "idle" /\ outcome = "none" /\ state.tag = "Disconnected" /\ closes = 1
    BY <1>2, <1>9 DEF TakeClose
  <2>2. conn' = "Offline" /\ closes' = 0 /\ Down' /\ ~connectRequested
    BY <1>2, <1>9, <2>1 DEF TakeClose, Down
  <2> QED
    BY <1>9, <2>1, <2>2 DEF TakeClose, Phases
<1>10. CASE Retry
  <2>1. state.tag = "Disconnected" /\ outcome = "none" /\ closes = 0
    BY <1>2, <1>10 DEF Retry, Down, Owned
  <2> QED
    BY <1>10, <2>1 DEF Retry, Phases
<1>11. ASSUME NEW s \in Sockets, Open(s)
       PROVE  Phases'
  <2>1. sockets[s] = "dialing"
    BY <1>11 DEF Open
  <2>2. state.tag = "Connecting" /\ state.socket = s /\ ~connectRequested /\ ~Down
    BY <1>5, <2>1 DEF Live, Down
  <2>3. conn = "Connecting" /\ dial = "awaiting" /\ outcome = "none" /\ closes = 0
    BY <1>2, <2>2
  <2>4. state'.tag = "Handshaking" /\ UNCHANGED <<connectRequested, dial, conn, outcome, closes>>
    BY <1>11, <2>2 DEF Open
  <2> QED
    BY <2>2, <2>3, <2>4 DEF Phases
<1>12. ASSUME NEW s \in Sockets, DialFails(s) \/ GoSilent(s)
       PROVE  Phases'
  <2>1. /\ UNCHANGED <<connectRequested, dial, conn, outcome, closes, state>>
        /\ sockets[s] # "failing" /\ \A v \in Sockets \ {s} : sockets'[v] = sockets[v]
    BY <1>12 DEF DialFails, GoSilent, TypeOK
  <2> QED
    BY <1>3, <2>1 DEF Down, Owned
<1>13. CASE Heartbeat
  <2>1. UNCHANGED <<connectRequested, dial, conn, outcome, closes, state>> /\ ~Down
    BY <1>13 DEF Heartbeat, Down
  <2> QED
    BY <1>3, <2>1
<1>14. ASSUME NEW s \in Sockets, Errored(s)
       PROVE  Phases'
  <2>1. Reports(frames[s], "errored")
    BY <1>14, TakeType DEF Errored, TypeOK
  <2>2. sockets[s] = "failing"
    BY <2>1 DEF Reported, Reporting
  <2>3. state.tag = "Connecting" /\ Down /\ ~connectRequested
    BY <1>5, <2>2 DEF Live, Down
  <2>4. UNCHANGED <<state, sockets, conn, closes, connectRequested>> /\ Down'
    BY <1>14, <2>3 DEF Errored, Down
  <2>5. CASE dial = "awaiting"
    BY <1>2, <1>14, <2>3, <2>4, <2>5 DEF Errored, Settle, Phases
  <2>6. CASE dial # "awaiting"
    BY <1>4, <1>14, <2>3, <2>4, <2>6 DEF Errored, Settle
  <2> QED
    BY <2>5, <2>6
<1>15. ASSUME NEW s \in Sockets, HelloOk(s)
       PROVE  Phases'
  <2>1. CASE state.tag = "Handshaking"
    <3>0. LET n == [state EXCEPT !.tag = "Connected"] IN n.tag = "Connected"
      BY MachineStates DEF TypeOK
    <3>1. state'.tag = "Connected" /\ UNCHANGED <<conn, closes, connectRequested>>
      BY <1>15, <2>1, <3>0 DEF HelloOk
    <3>2. ~connectRequested /\ conn = "Connecting" /\ dial = "awaiting" /\ outcome = "none" /\ closes = 0
      BY <1>2, <2>1 DEF Down
    <3>3. dial' = "landing" /\ outcome' = "none"
      BY <1>15, <2>1, <3>2 DEF HelloOk, Settle
    <3> QED
      BY <3>1, <3>2, <3>3 DEF Phases
  <2>2. CASE state.tag # "Handshaking"
    BY <1>4, <1>15, <2>2 DEF HelloOk
  <2> QED
    BY <2>1, <2>2
<1>16. ASSUME NEW s \in Sockets, ErrorFrame(s)
       PROVE  Phases'
  <2>1. Reports(frames[s], "error")
    BY <1>16, TakeType DEF ErrorFrame, TypeOK
  <2> QED
    BY <1>1, <2>1 DEF Reported, Reporting
<1>17. ASSUME NEW s \in Sockets, Closed(s)
       PROVE  Phases'
  <2>1. frames[s] # <<>>
    BY <1>17, TakeType DEF Closed, TypeOK
  <2>2. Live(s)
    BY <2>1 DEF Live, Reported, Reporting
  <2>3. state.tag \in {"Connecting", "Handshaking", "Connected"} /\ ~connectRequested
    BY <1>5, <2>2 DEF TypeOK, States, Tags
  <2>4. state'.tag = "Disconnected" /\ Down' /\ UNCHANGED <<connectRequested, conn>>
    BY <1>17 DEF Closed, Disconnected, Down
  <2>5. CASE state.tag = "Connected"
    <3>1. conn = "Online"
      BY <1>17, <2>5 DEF Closed
    <3>2. closes' = closes + 1 /\ UNCHANGED <<dial, outcome>>
      BY <1>17, <2>5 DEF Closed
    <3> QED
      BY <1>2, <2>3, <2>4, <2>5, <3>1, <3>2 DEF Phases
  <2>6. CASE state.tag # "Connected"
    <3>1. UNCHANGED closes /\ Settle("failed")
      BY <1>17, <2>3, <2>6 DEF Closed
    <3>2. CASE dial = "awaiting"
      BY <1>2, <2>3, <2>4, <2>6, <3>1, <3>2 DEF Phases, Settle
    <3>3. CASE dial # "awaiting"
      BY <1>2, <2>3, <2>4, <2>6, <3>1, <3>3 DEF Phases, Settle
    <3> QED
      BY <3>2, <3>3
  <2> QED
    BY <2>5, <2>6
<1>18. ASSUME NEW s \in Sockets, Response(s) \/ Greet(s) \/ Reject(s) \/ ServerCloses(s)
       PROVE  Phases'
  BY <1>4, <1>18 DEF Response, Greet, Reject, ServerCloses
<1>19. ASSUME NEW r \in Calls, Ask(r) \/ Register(r) \/ CommandSent(r) \/ Timeout(r)
       PROVE  Phases'
  BY <1>4, <1>19 DEF Ask, Register, CommandSent, Timeout, Call
<1>20. CASE Respond \/ UNCHANGED vars
  <2>1. UNCHANGED <<connectRequested, dial, conn, outcome, closes, state, sockets>>
    BY <1>20 DEF Respond, vars
  <2> QED
    BY <1>4, <2>1
<1> QED
  BY <1>6, <1>7, <1>8, <1>9, <1>10, <1>11, <1>12, <1>13, <1>14, <1>15, <1>16, <1>17, <1>18,
     <1>19, <1>20 DEF Next, Actor

THEOREM Invariance == Spec => []IInv
<1>1. IInv /\ [Next]_vars => IInv'
  BY Types, OpenedStep, ReportedStep, MatchedStep, CalledStep, PhasesStep DEF IInv
<1> QED
  BY InitInv, <1>1, PTL DEF Spec

----------------------------------------------------------------------------
\* Every variable keeps to its type.
THEOREM TypeCorrect == Spec => []TypeOK
<1>1. IInv => TypeOK
  BY DEF IInv
<1> QED
  BY Invariance, <1>1, PTL

\* However many connections were dropped, refused or fell silent, one socket
\* lives at most, and it is the one the machine's state is about.
THEOREM OneSocketLives == Spec => []OneSocket
<1>1. IInv => OneSocket
  BY DEF IInv, Matched, OneSocket, Live
<1> QED
  BY Invariance, <1>1, PTL

\* The console's "online" and the client's state agree whenever nothing is
\* under way between them.
THEOREM ConsoleAndClientAgree == Spec => []ConsoleAgrees
<1>1. IInv => ConsoleAgrees
  BY DEF IInv, TypeOK, Phases, ConsoleAgrees, Down
<1> QED
  BY Invariance, <1>1, PTL

\* A command goes on the wire only for a caller that waits or gave up waiting,
\* never after the caller was told that its connection closed.
THEOREM NoCommandAfterItsFailure == Spec => NoGhosts
<1>1. IInv /\ [Next]_vars => \A r \in Calls : sentOn'[r] # sentOn[r] => calls[r] \in {"waiting", "timedOut"}
  <2> SUFFICES ASSUME IInv, [Next]_vars, NEW r \in Calls, sentOn'[r] # sentOn[r]
               PROVE  calls[r] \in {"waiting", "timedOut"}
    OBVIOUS
  <2> USE DEF client, wire, console, history
  <2>1. PICK c \in Calls : CommandSent(c)
    BY DEF Next, vars, ConnectRequested, Land, TakeOutcome, TakeClose, Retry, Actor, Errored, HelloOk,
           ErrorFrame, Response, Closed, Open, DialFails, GoSilent, Heartbeat, Ask, Register,
           Timeout, Call, Greet, Reject, ServerCloses, Respond
  <2>2. state.tag = "Connected" /\ c = r /\ r \in outbox
    BY <2>1 DEF CommandSent, IInv, TypeOK
  <2> QED
    BY <2>2 DEF IInv, Called
<1>2. IInv /\ [Next]_vars => [\A r \in Calls : sentOn'[r] # sentOn[r] => calls[r] \in {"waiting", "timedOut"}]_vars
  BY <1>1
<1> QED
  BY Invariance, <1>2, PTL DEF Spec, NoGhosts
=============================================================================
