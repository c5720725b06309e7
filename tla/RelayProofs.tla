----------------------------- MODULE RelayProofs -----------------------------
(***************************************************************************)
(* Theorems of Relay, for every number of workers' connections and of the  *)
(* daemon's registrations, and whichever faults happen.                    *)
(***************************************************************************)
EXTENDS Relay, TLAPS, SequenceTheorems, FiniteSetTheorems, WellFoundedInduction

\* A function of the ends of connections; what it holds does not matter here.
IsMap(f) == f = [x \in Ends |-> f[x]]

\* What is kept of the sockets, the registration and the pipes.
Typed ==
    /\ env \in Daemons \cup {0} /\ worker \in Workers \cup {0}
    /\ waiting \in Seq(Workers) /\ buffers \in [Workers -> Seq({"hello"})]
    /\ pipe \in [Workers -> Daemons \cup {0}]
    /\ met \subseteq Ends /\ closed \in BOOLEAN
    /\ sock \in [Ends -> {"none", "open", "closing", "closed"}]
    /\ IsMap(up) /\ IsMap(down) /\ IsMap(end)
    /\ dials \in 0 .. MaxDials

\* A socket that was not opened has no end, no frames and no role; the daemon's
\* are opened in order.
Unopened == \A x \in Ends : sock[x] = "none" =>
    up[x] = <<>> /\ down[x] = <<>> /\ end[x] = "none" /\ x \notin met
Dialled == \A d \in Daemons : d > dials <=> sock[d] = "none"

\* A worker that waits or was piped has attached, and a pipe that is open is the
\* one of the worker piped last.
Attached ==
    /\ \A i \in 1 .. Len(waiting) : waiting[i] \in met
    /\ \A w \in Workers : pipe[w] # 0 => w \in met /\ (sock[w] = "open" => worker = w)

IInv == Typed /\ Unopened /\ Dialled /\ Attached /\ OpenIsRegistered

----------------------------------------------------------------------------
(* Lemmas about sequences and the sockets.                                 *)

LEMMA LeastElement ==
    ASSUME NEW S, S \subseteq Nat, S # {}
    PROVE  \E x \in S : \A y \in S : x <= y
<1>1. PICK x \in S : \A y \in S : ~ (<<y, x>> \in OpToRel(<, Nat))
  BY NatLessThanWellFounded, WFMin, Zenon
<1>2. \A y \in S : ~ (y < x)
  BY <1>1 DEF OpToRel
<1>3. \A y \in S : x <= y
  BY <1>2
<1> QED
  BY <1>3

\* What is removed from a sequence leaves elements of it.
LEMMA RemoveKeeps ==
    ASSUME NEW S, NEW s \in Seq(S), NEW w
    PROVE  RemoveFirst(s, w) \in Seq(S) /\ Range(RemoveFirst(s, w)) \subseteq Range(s)
<1>1. CASE \E i \in 1..Len(s) : s[i] = w
  <2> DEFINE I == {i \in 1..Len(s) : s[i] = w}
  <2>1. I # {} /\ I \subseteq Nat
    BY <1>1
  <2>2. \E x \in I : \A y \in I : x <= y
    BY <2>1, LeastElement
  <2>3. Min(I) \in I
    BY <2>2 DEF Min
  <2>4. SelectInSeq(s, LAMBDA v : v = w) = Min(I)
    BY <1>1 DEF SelectInSeq
  <2>5. PICK k \in 1..Len(s) : RemoveFirst(s, w) = RemoveAt(s, k)
    BY <1>1, <2>3, <2>4 DEF RemoveFirst
  <2>6. /\ SubSeq(s, 1, k - 1) \in Seq(S) /\ SubSeq(s, k + 1, Len(s)) \in Seq(S)
        /\ Len(SubSeq(s, 1, k - 1)) = k - 1 /\ Len(SubSeq(s, k + 1, Len(s))) = Len(s) - k
        /\ \A i \in 1 .. k - 1 : SubSeq(s, 1, k - 1)[i] = s[i]
        /\ \A i \in 1 .. Len(s) - k : SubSeq(s, k + 1, Len(s))[i] = s[k + i]
    OBVIOUS
  <2> DEFINE a == SubSeq(s, 1, k - 1)
             b == SubSeq(s, k + 1, Len(s))
             q == a \o b
  <2> HIDE DEF a, b
  <2>a. /\ a \in Seq(S) /\ b \in Seq(S) /\ Len(a) = k - 1 /\ Len(b) = Len(s) - k
        /\ \A i \in 1 .. k - 1 : a[i] = s[i]
        /\ \A i \in 1 .. Len(s) - k : b[i] = s[k + i]
    BY <2>6 DEF a, b
  <2>b. q \in Seq(S) /\ Len(q) = Len(a) + Len(b)
        /\ \A i \in 1 .. Len(a) + Len(b) : q[i] = IF i <= Len(a) THEN a[i] ELSE b[i - Len(a)]
    BY ONLY <2>a, ConcatProperties DEF q
  <2> HIDE DEF q
  <2>7. q \in Seq(S) /\ Len(q) = Len(s) - 1
    BY <2>a, <2>b
  <2>8. ASSUME NEW i \in 1 .. Len(q)
        PROVE q[i] \in Range(s)
    <3>0. \A j \in 1 .. Len(s) : s[j] \in Range(s)
      BY DEF Range
    <3>1. CASE i <= k - 1
      <4>1. i \in 1 .. Len(a) + Len(b) /\ i <= Len(a) /\ i \in 1 .. k - 1 /\ i \in 1 .. Len(s)
        BY <2>a, <2>7, <3>1
      <4>2. q[i] = s[i]
        BY <2>a, <2>b, <4>1
      <4> QED
        BY <3>0, <4>1, <4>2
    <3>2. CASE i > k - 1
      <4>1. i - (k - 1) \in 1 .. Len(s) - k
        BY <2>7, <3>2
      <4>2. q[i] = s[k + (i - (k - 1))]
        BY <2>a, <2>b, <2>7, <3>2, <4>1
      <4> QED
        BY <4>1, <4>2 DEF Range
    <3> QED
      BY <2>7, <3>1, <3>2
  <2> HIDE DEF q
  <2>9. RemoveFirst(s, w) = q
    BY <2>5 DEF RemoveAt, q, a, b
  <2> QED
    BY <2>7, <2>8, <2>9 DEF Range
<1>2. CASE ~\E i \in 1..Len(s) : s[i] = w
  BY <1>2 DEF RemoveFirst
<1> QED
  BY <1>1, <1>2

LEMMA EndSets ==
    /\ Workers \cap Daemons = {} /\ 0 \notin Ends
    /\ Workers \subseteq Ends /\ Daemons \subseteq Ends /\ Ends = Workers \cup Daemons
    /\ Workers \subseteq Nat /\ Daemons = 1 .. MaxDials /\ MaxDials \in Nat
  BY RelayAssumption DEF Workers, Daemons, Ends

\* What is sent in one step: a socket that stays open was not closed in it.
LEMMA Says ==
    ASSUME Typed, NEW ended, NEW out, SayAfter(ended, out)
    PROVE  /\ sock' \in [Ends -> {"none", "open", "closing", "closed"}] /\ IsMap(down)'
           /\ \A x \in Ends :
                 /\ sock'[x] = "open" => sock[x] = "open" /\ x \notin ended /\ "gone" \notin Range(out[x])
                 /\ sock[x] = "none" /\ x \notin ended => sock'[x] = "none" /\ down'[x] = down[x]
                 /\ sock'[x] = "none" => sock[x] = "none"
<1>1. sock' = [x \in Ends |-> IF x \in ended THEN "closed"
                              ELSE IF sock[x] = "open" /\ "gone" \in Range(out[x]) THEN "closing"
                              ELSE sock[x]]
  BY DEF SayAfter
<1>2. IsMap(down)'
  BY DEF SayAfter, IsMap
<1>3. ASSUME NEW x \in Ends, sock[x] = "none"
      PROVE  down'[x] = down[x]
  BY <1>3 DEF SayAfter
<1>4. sock' \in [Ends -> {"none", "open", "closing", "closed"}]
  BY <1>1 DEF Typed
<1> QED
  BY <1>1, <1>2, <1>3, <1>4 DEF Typed

LEMMA SaysNow ==
    ASSUME NEW out, Say(out)
    PROVE  SayAfter({}, out)
  BY DEF Say

\* A socket that is heard from was opened.
LEMMA Heard ==
    ASSUME Typed, Unopened, NEW x \in Ends, NEW t, Hear(x, t)
    PROVE  /\ sock[x] # "none" /\ IsMap(up)' /\ \A y \in Ends \ {x} : up'[y] = up[y]
           /\ UNCHANGED <<closed, end, dials>>
  BY DEF Typed, Unopened, Hear, IsMap, peers

\* The last word of what is sent is heard after what was sent before it.
LEMMA GoneIsLast ==
    ASSUME NEW q \in Seq({"hello"}), NEW p \in Seq({"hello", "env_error", "gone"})
    PROVE  /\ "gone" \in Range(q \o <<"gone">>)
           /\ "gone" \in Range(<<"gone">> \o p)
           /\ "gone" \in Range(<<"gone">>) /\ "gone" \in Range(<<>> \o <<"gone">>)
<1>1. <<"gone">>[1] = "gone" /\ 1 \in DOMAIN <<"gone">>
  OBVIOUS
<1>2. (q \o <<"gone">>)[Len(q) + 1] = "gone" /\ Len(q) + 1 \in DOMAIN (q \o <<"gone">>)
  OBVIOUS
<1>3. (<<"gone">> \o p)[1] = "gone" /\ 1 \in DOMAIN (<<"gone">> \o p)
  OBVIOUS
<1>4. <<>> \o <<"gone">> = <<"gone">>
  OBVIOUS
<1> QED
  BY <1>1, <1>2, <1>3, <1>4 DEF Range

----------------------------------------------------------------------------
LEMMA InitInv == Init => IInv
<1> SUFFICES ASSUME Init PROVE IInv
  OBVIOUS
<1>1. Typed
  <2>1. <<>> \in Seq(Workers) /\ <<>> \in Seq({"hello"}) /\ 0 \in 0 .. MaxDials
    BY EndSets
  <2>2. IsMap(up) /\ IsMap(down) /\ IsMap(end)
    BY DEF Init, IsMap
  <2> QED
    BY <2>1, <2>2 DEF Init, Typed
<1>2. Unopened
  BY DEF Init, Unopened
<1>3. Dialled
  BY EndSets DEF Init, Dialled
<1>4. Attached
  BY DEF Init, Attached
<1>5. OpenIsRegistered
  BY DEF Init, OpenIsRegistered
<1> QED
  BY <1>1, <1>2, <1>3, <1>4, <1>5 DEF IInv

----------------------------------------------------------------------------
LEMMA Types == Typed /\ Unopened /\ Dialled /\ [Next]_vars => Typed'
<1> SUFFICES ASSUME Typed, Unopened, Dialled, [Next]_vars PROVE Typed'
  OBVIOUS
<1> USE DEF relay, peers
<1>1. ASSUME NEW out, Say(out)
      PROVE  sock' \in [Ends -> {"none", "open", "closing", "closed"}] /\ IsMap(down)'
  BY <1>1, Says, SaysNow
<1>2. ASSUME NEW x \in Ends, NEW t, Hear(x, t)
      PROVE  /\ IsMap(up)' /\ UNCHANGED <<closed, end, dials>>
             /\ IsMap(end)'
  <2>1. IsMap(up)' /\ UNCHANGED <<closed, end, dials>>
    BY <1>2, Heard
  <2> QED
    BY <2>1 DEF Typed, IsMap
<1>3. UNCHANGED sock => sock' \in [Ends -> {"none", "open", "closing", "closed"}]
  BY DEF Typed
<1>4. UNCHANGED down => IsMap(down)'
  BY DEF Typed, IsMap
<1>5. ASSUME NEW w \in Workers, NEW d \in Daemons, PipeBoth(w, d)
      PROVE  /\ pipe' \in [Workers -> Daemons \cup {0}] /\ worker' \in Workers \cup {0}
             /\ buffers' \in [Workers -> Seq({"hello"})]
  <2>1. <<>> \in Seq({"hello"})
    OBVIOUS
  <2> QED
    BY <1>5, <2>1 DEF PipeBoth, Typed
<1>6. ASSUME NEW x \in Ends, Reject(x)
      PROVE  Typed'
  <2>1. PICK t : Hear(x, t)
    BY <1>6 DEF Reject
  <2> QED
    BY <1>1, <1>2, <1>6, <2>1 DEF Reject, Typed
<1>7. ASSUME NEW w \in Workers, AttachWorker(w)
      PROVE  Typed'
  <2>1. Hear(w, "attach") /\ met' = met \cup {w}
    BY <1>7 DEF AttachWorker, First
  <2>2. w \in Ends
    BY EndSets
  <2>3. CASE env # 0
    BY <1>1, <1>2, <1>5, <1>7, <2>1, <2>2, <2>3 DEF AttachWorker, Typed
  <2>4. CASE env = 0
    <3>1. Append(waiting, w) \in Seq(Workers)
      BY DEF Typed
    <3> QED
      BY <1>2, <1>3, <1>4, <1>7, <2>1, <2>2, <2>4, <3>1 DEF AttachWorker, Typed
  <2> QED
    BY <2>3, <2>4
<1>8. ASSUME NEW w \in Workers, Timer(w)
      PROVE  Typed'
  <2>1. RemoveFirst(waiting, w) \in Seq(Workers) /\ <<>> \in Seq({"hello"})
    BY RemoveKeeps DEF Typed
  <2>2. IsMap(up)' /\ IsMap(end)'
    BY <1>8 DEF Timer, Typed, IsMap
  <2>3. CASE env = 0
    BY <1>1, <1>8, <2>1, <2>2, <2>3 DEF Timer, Typed
  <2>4. CASE env # 0
    BY <1>3, <1>4, <1>8, <2>2, <2>4 DEF Timer, Typed
  <2> QED
    BY <2>3, <2>4
<1>9. ASSUME NEW d \in Daemons, Register(d)
      PROVE  Typed'
  <2>1. Hear(d, "relay_hello") /\ met' = met \cup {d} /\ d \in Ends
    BY <1>9, EndSets DEF Register, First
  <2>2. PICK out : Say(out)
    BY <1>9 DEF Register
  <2>3. <<>> \in Seq(Workers) /\ waiting' = <<>>
    BY <1>9 DEF Register
  <2>4. CASE waiting = <<>>
    BY <1>1, <1>2, <1>9, <2>1, <2>2, <2>3, <2>4 DEF Register, Typed
  <2>5. CASE waiting # <<>>
    <3>1. waiting[1] \in Workers
      BY <2>5 DEF Typed
    <3>2. PipeBoth(waiting[1], d)
      BY <1>9, <2>5 DEF Register
    <3> QED
      BY <1>1, <1>2, <1>5, <1>9, <2>1, <2>2, <2>3, <3>1, <3>2 DEF Register, Typed
  <2> QED
    BY <2>4, <2>5
<1>10. ASSUME NEW w \in Workers, FromWorker(w)
       PROVE  Typed'
  <2>1. Hear(w, "hello") /\ w \in Ends
    BY <1>10, EndSets DEF FromWorker
  <2>2. CASE pipe[w] # 0
    BY <1>1, <1>2, <1>10, <2>1, <2>2 DEF FromWorker, Typed
  <2>3. CASE pipe[w] = 0
    <3>1. Append(buffers[w], "hello") \in Seq({"hello"})
      BY DEF Typed
    <3>2. buffers' \in [Workers -> Seq({"hello"})]
      BY <1>10, <2>3, <3>1 DEF FromWorker, Typed
    <3> QED
      BY <1>2, <1>3, <1>4, <1>10, <2>1, <2>3, <3>2 DEF FromWorker, Typed
  <2> QED
    BY <2>2, <2>3
<1>11. ASSUME NEW d \in Daemons, FromDaemon(d)
       PROVE  Typed'
  <2>1. Hear(d, "hello_ok") /\ d \in Ends
    BY <1>11, EndSets DEF FromDaemon
  <2> QED
    BY <1>1, <1>2, <1>11, <2>1 DEF FromDaemon, Typed
<1>12. ASSUME NEW w \in Workers, WorkerCloses(w)
       PROVE  Typed'
  <2>1. Hear(w, "gone") /\ w \in Ends
    BY <1>12, EndSets DEF WorkerCloses
  <2>2. RemoveFirst(waiting, w) \in Seq(Workers) /\ <<>> \in Seq({"hello"})
    BY RemoveKeeps DEF Typed
  <2>3. waiting' \in Seq(Workers) /\ buffers' \in [Workers -> Seq({"hello"})] /\ worker' \in Workers \cup {0}
    BY <1>12, <2>2 DEF WorkerCloses, Typed
  <2>4. PICK out : SayAfter({w}, out)
    BY <1>12 DEF WorkerCloses
  <2>5. sock' \in [Ends -> {"none", "open", "closing", "closed"}] /\ IsMap(down)'
    BY <2>4, Says
  <2> QED
    BY <1>2, <1>12, <2>1, <2>3, <2>5 DEF WorkerCloses, Typed
<1>13. ASSUME NEW d \in Daemons, DaemonCloses(d)
       PROVE  Typed'
  <2>1. Hear(d, "gone") /\ d \in Ends
    BY <1>13, EndSets DEF DaemonCloses
  <2>2. PICK out : SayAfter({d}, out)
    BY <1>13 DEF DaemonCloses
  <2>3. sock' \in [Ends -> {"none", "open", "closing", "closed"}] /\ IsMap(down)'
    BY <2>2, Says
  <2>4. env' \in Daemons \cup {0}
    BY <1>13 DEF DaemonCloses, Unregistered, Typed
  <2> QED
    BY <1>2, <1>13, <2>1, <2>3, <2>4 DEF DaemonCloses, Typed
<1>14. CASE Close
  <2>1. PICK out : Say(out)
    BY <1>14 DEF Close
  <2>2. <<>> \in Seq(Workers)
    OBVIOUS
  <2>3. IsMap(up)' /\ IsMap(end)'
    BY <1>14 DEF Close, Typed, IsMap
  <2> QED
    BY <1>1, <1>14, <2>1, <2>2, <2>3 DEF Close, Typed
<1>15. ASSUME NEW w \in Workers, Connect(w)
       PROVE  Typed'
  <2>1. IsMap(up)' /\ IsMap(end)' /\ IsMap(down)'
    BY <1>15 DEF Connect, Typed, IsMap
  <2> QED
    BY <1>15, <2>1 DEF Connect, Typed
<1>16. CASE Dial
  <2>1. IsMap(up)' /\ IsMap(end)' /\ IsMap(down)'
    BY <1>16 DEF Dial, Typed, IsMap
  <2>2. dials' \in 0 .. MaxDials /\ sock' \in [Ends -> {"none", "open", "closing", "closed"}]
    BY <1>16, EndSets DEF Dial, Typed
  <2> QED
    BY <1>16, <2>1, <2>2 DEF Dial, Typed
<1>17. ASSUME UNCHANGED <<relay, dials>>, IsMap(up)', IsMap(down)', IsMap(end)'
       PROVE  Typed'
  BY <1>17 DEF Typed
<1>18. ASSUME NEW w \in Workers, HelloTimeout(w) \/ WorkerGets(w) \/ Leave(w)
       PROVE  Typed'
  <2>1. IsMap(up)' /\ IsMap(down)' /\ IsMap(end)'
    BY <1>18 DEF HelloTimeout, WorkerGets, Leave, Leaves, Gets, Tells, Typed, IsMap
  <2>2. UNCHANGED <<relay, dials>>
    BY <1>18 DEF HelloTimeout, WorkerGets, Leave, Leaves, Gets, Tells
  <2> QED
    BY <1>17, <2>1, <2>2
<1>19. ASSUME NEW d \in Daemons, DaemonGets(d)
       PROVE  Typed'
  <2>1. IsMap(up)' /\ IsMap(down)' /\ IsMap(end)'
    BY <1>19 DEF DaemonGets, Leaves, Gets, Tells, Typed, IsMap
  <2>2. UNCHANGED <<relay, dials>>
    BY <1>19 DEF DaemonGets, Leaves, Gets, Tells
  <2> QED
    BY <1>17, <2>1, <2>2
<1>20. CASE Stop
  <2>1. IsMap(up)' /\ IsMap(down)' /\ IsMap(end)'
    BY <1>20 DEF Stop, Leaves, Typed, IsMap
  <2> QED
    BY <1>17, <1>20, <2>1 DEF Stop
<1>21. ASSUME NEW x \in Ends, Drop(x)
       PROVE  Typed'
  <2>1. IsMap(up)' /\ IsMap(down)' /\ IsMap(end)'
    BY <1>21 DEF Drop, Typed, IsMap
  <2> QED
    BY <1>17, <1>21, <2>1 DEF Drop
<1>22. CASE UNCHANGED vars
  <2>1. IsMap(up)' /\ IsMap(down)' /\ IsMap(end)'
    BY <1>22 DEF vars, Typed, IsMap
  <2> QED
    BY <1>17, <1>22, <2>1 DEF vars
<1> QED
  BY <1>6, <1>7, <1>8, <1>9, <1>10, <1>11, <1>12, <1>13, <1>14, <1>15, <1>16, <1>18, <1>19,
     <1>20, <1>21, <1>22, EndSets DEF Next, WorkerEvent, DaemonEvent

\* Only an opened socket has frames, an end or a role.
LEMMA UnopenedStep ==
    Typed /\ Unopened /\ Dialled /\ [Next]_vars => Unopened' /\ Dialled'
<1> SUFFICES ASSUME Typed, Unopened, Dialled, [Next]_vars PROVE Unopened' /\ Dialled'
  OBVIOUS
<1> USE DEF relay, peers
<1>1. ASSUME \A x \in Ends : /\ sock'[x] = "none" <=> sock[x] = "none"
                             /\ sock[x] = "none" =>
                                   /\ up'[x] = up[x] /\ down'[x] = down[x] /\ end'[x] = end[x]
                                   /\ x \in met' => x \in met,
             UNCHANGED dials
      PROVE  Unopened' /\ Dialled'
  BY <1>1, EndSets DEF Unopened, Dialled
\* The relay's handler of what x says.
<1>2. ASSUME NEW x \in Ends, NEW t, Hear(x, t), met' = met \/ met' = met \cup {x},
             UNCHANGED <<sock, down>> \/ \E out, ended : ended \subseteq {x} /\ SayAfter(ended, out)
      PROVE  Unopened' /\ Dialled'
  <2>1. sock[x] # "none" /\ (\A y \in Ends \ {x} : up'[y] = up[y]) /\ UNCHANGED <<end, dials>>
    BY <1>2, Heard
  <2>2. \A y \in Ends : /\ sock'[y] = "none" <=> sock[y] = "none"
                        /\ sock[y] = "none" => down'[y] = down[y]
    <3>1. CASE UNCHANGED <<sock, down>>
      BY <3>1
    <3>2. ASSUME NEW out, NEW ended, ended \subseteq {x}, SayAfter(ended, out)
          PROVE  \A y \in Ends : /\ sock'[y] = "none" <=> sock[y] = "none"
                                 /\ sock[y] = "none" => down'[y] = down[y]
      BY <2>1, <3>2, Says
    <3> QED
      BY <1>2, <3>1, <3>2
  <2> QED
    BY <1>1, <1>2, <2>1, <2>2
<1>3. \A x : {} \subseteq {x} /\ {x} \subseteq {x}
  OBVIOUS
<1>4. ASSUME NEW x \in Ends, Reject(x)
      PROVE  Unopened' /\ Dialled'
  <2>1. PICK t : Hear(x, t)
    BY <1>4 DEF Reject
  <2> QED
    BY <1>2, <1>3, <1>4, <2>1, SaysNow DEF Reject
<1>5. ASSUME NEW w \in Workers, AttachWorker(w)
      PROVE  Unopened' /\ Dialled'
  <2>1. Hear(w, "attach") /\ met' = met \cup {w} /\ w \in Ends
    BY <1>5, EndSets DEF AttachWorker, First
  <2>2. UNCHANGED <<sock, down>> \/ \E out : Say(out)
    BY <1>5 DEF AttachWorker
  <2> QED
    BY <1>2, <1>3, <2>1, <2>2, SaysNow
<1>6. ASSUME NEW w \in Workers, Timer(w)
      PROVE  Unopened' /\ Dialled'
  <2>1. CASE env = 0
    <3>1. PICK out : Say(out)
      BY <1>6, <2>1 DEF Timer
    <3>2. \A y \in Ends : /\ sock'[y] = "none" <=> sock[y] = "none"
                          /\ sock[y] = "none" => down'[y] = down[y]
      BY <3>1, Says, SaysNow
    <3> QED
      BY <1>1, <1>6, <3>2 DEF Timer
  <2>2. CASE env # 0
    BY <1>1, <1>6, <2>2 DEF Timer
  <2> QED
    BY <2>1, <2>2
<1>7. ASSUME NEW d \in Daemons, Register(d)
      PROVE  Unopened' /\ Dialled'
  <2>1. Hear(d, "relay_hello") /\ met' = met \cup {d} /\ d \in Ends
    BY <1>7, EndSets DEF Register, First
  <2>2. PICK out : Say(out)
    BY <1>7 DEF Register
  <2> QED
    BY <1>2, <1>3, <2>1, <2>2, SaysNow
<1>8. ASSUME NEW w \in Workers, FromWorker(w)
      PROVE  Unopened' /\ Dialled'
  <2>1. Hear(w, "hello") /\ met' = met /\ w \in Ends
    BY <1>8, EndSets DEF FromWorker
  <2>2. UNCHANGED <<sock, down>> \/ \E out : Say(out)
    BY <1>8 DEF FromWorker
  <2> QED
    BY <1>2, <1>3, <2>1, <2>2, SaysNow
<1>9. ASSUME NEW d \in Daemons, FromDaemon(d)
      PROVE  Unopened' /\ Dialled'
  <2>1. Hear(d, "hello_ok") /\ met' = met /\ d \in Ends
    BY <1>9, EndSets DEF FromDaemon
  <2>2. PICK out : Say(out)
    BY <1>9 DEF FromDaemon
  <2> QED
    BY <1>2, <1>3, <2>1, <2>2, SaysNow
<1>10. ASSUME NEW w \in Workers, WorkerCloses(w)
       PROVE  Unopened' /\ Dialled'
  <2>1. Hear(w, "gone") /\ met' = met /\ w \in Ends
    BY <1>10, EndSets DEF WorkerCloses
  <2>2. PICK out : SayAfter({w}, out)
    BY <1>10 DEF WorkerCloses
  <2> QED
    BY <1>2, <1>3, <2>1, <2>2
<1>11. ASSUME NEW d \in Daemons, DaemonCloses(d)
       PROVE  Unopened' /\ Dialled'
  <2>1. Hear(d, "gone") /\ met' = met /\ d \in Ends
    BY <1>11, EndSets DEF DaemonCloses
  <2>2. PICK out : SayAfter({d}, out)
    BY <1>11 DEF DaemonCloses
  <2> QED
    BY <1>2, <1>3, <2>1, <2>2
<1>12. CASE Close
  <2>1. PICK out : Say(out)
    BY <1>12 DEF Close
  <2>2. \A y \in Ends : /\ sock'[y] = "none" <=> sock[y] = "none"
                        /\ sock[y] = "none" => down'[y] = down[y]
    BY <2>1, Says, SaysNow
  <2> QED
    BY <1>1, <1>12, <2>2 DEF Close
<1>13. ASSUME NEW w \in Workers, Connect(w)
       PROVE  Unopened' /\ Dialled'
  <2>1. /\ sock'[w] = "open" /\ \A x \in Ends \ {w} : sock'[x] = sock[x]
        /\ \A x \in Ends \ {w} : up'[x] = up[x] /\ end'[x] = end[x]
        /\ UNCHANGED <<down, met, dials>> /\ w \in Ends /\ w \notin Daemons
    BY <1>13, EndSets DEF Connect, Typed, IsMap
  <2>2. Unopened'
    BY <2>1 DEF Unopened
  <2>3. Dialled'
    BY <2>1, EndSets DEF Dialled
  <2> QED
    BY <2>2, <2>3
<1>14. CASE Dial
  <2> DEFINE d == dials + 1
  <2>1. d \in Daemons /\ d \in Ends
    BY <1>14, EndSets DEF Dial, Typed
  <2>2. /\ sock'[d] = "open" /\ \A x \in Ends \ {d} : sock'[x] = sock[x]
        /\ \A x \in Ends \ {d} : up'[x] = up[x] /\ end'[x] = end[x]
        /\ UNCHANGED <<down, met>> /\ dials' = d
    BY <1>14, <2>1 DEF Dial, Typed, IsMap
  <2>3. Unopened'
    BY <2>1, <2>2 DEF Unopened
  <2>4. ASSUME NEW c \in Daemons
        PROVE  c > dials' <=> sock'[c] = "none"
    BY <2>1, <2>2, EndSets DEF Dialled, Typed
  <2> QED
    BY <2>3, <2>4 DEF Dialled
<1>15. ASSUME NEW x \in Ends, sock[x] # "none", UNCHANGED <<sock, met, dials>>,
              \A y \in Ends \ {x} : up'[y] = up[y] /\ down'[y] = down[y] /\ end'[y] = end[y]
       PROVE  Unopened' /\ Dialled'
  BY <1>1, <1>15
<1>16. ASSUME NEW x \in Ends, Leaves(x)
       PROVE  \A y \in Ends \ {x} : up'[y] = up[y] /\ down'[y] = down[y] /\ end'[y] = end[y]
  BY <1>16 DEF Leaves, Typed, IsMap
<1>17. ASSUME NEW w \in Workers, HelloTimeout(w) \/ Leave(w)
       PROVE  Unopened' /\ Dialled'
  <2>1. w \in Ends
    BY EndSets
  <2>2. CASE HelloTimeout(w)
    <3>1. sock[w] # "none"
      BY <2>1, <2>2 DEF HelloTimeout, Unopened
    <3>2. \A y \in Ends \ {w} : up'[y] = up[y] /\ down'[y] = down[y] /\ end'[y] = end[y]
      BY <2>1, <2>2 DEF HelloTimeout, Typed, IsMap
    <3> QED
      BY <1>15, <2>1, <2>2, <3>1, <3>2 DEF HelloTimeout
  <2>3. CASE Leave(w)
    <3>1. sock[w] # "none"
      BY <2>1, <2>3 DEF Leave, Unopened
    <3> QED
      BY <1>15, <1>16, <2>1, <2>3, <3>1 DEF Leave
  <2> QED
    BY <1>17, <2>2, <2>3
<1>18. ASSUME NEW w \in Workers, WorkerGets(w)
       PROVE  Unopened' /\ Dialled'
  <2>1. w \in Ends /\ down[w] # <<>> /\ UNCHANGED <<sock, met, dials>>
    BY <1>18, EndSets DEF WorkerGets, Gets, Tells
  <2>2. sock[w] # "none"
    BY <2>1 DEF Unopened
  <2>3. \A y \in Ends \ {w} : up'[y] = up[y] /\ down'[y] = down[y] /\ end'[y] = end[y]
    BY <1>16, <1>18, <2>1 DEF WorkerGets, Gets, Typed, IsMap
  <2> QED
    BY <1>15, <2>1, <2>2, <2>3
<1>19. ASSUME NEW d \in Daemons, DaemonGets(d)
       PROVE  Unopened' /\ Dialled'
  <2>1. d \in Ends /\ down[d] # <<>> /\ UNCHANGED <<sock, met, dials>>
    BY <1>19, EndSets DEF DaemonGets, Gets, Tells
  <2>2. sock[d] # "none"
    BY <2>1 DEF Unopened
  <2>3. \A y \in Ends \ {d} : up'[y] = up[y] /\ down'[y] = down[y] /\ end'[y] = end[y]
    BY <1>16, <1>19, <2>1 DEF DaemonGets, Gets, Typed, IsMap
  <2> QED
    BY <1>15, <2>1, <2>2, <2>3
<1>20. CASE Stop
  <2>1. CASE dials > 0 /\ end[dials] # "gone"
    <3>1. dials \in Daemons /\ dials \in Ends
      BY <2>1, EndSets DEF Typed
    <3>2. sock[dials] # "none"
      BY <3>1, EndSets DEF Dialled
    <3>3. Leaves(dials)
      BY <1>20, <2>1 DEF Stop
    <3> QED
      BY <1>15, <1>16, <1>20, <3>1, <3>2, <3>3 DEF Stop
  <2>2. CASE ~(dials > 0 /\ end[dials] # "gone")
    BY <1>1, <1>20, <2>2 DEF Stop
  <2> QED
    BY <2>1, <2>2
<1>21. ASSUME NEW x \in Ends, Drop(x)
       PROVE  Unopened' /\ Dialled'
  <2>1. \A y \in Ends \ {x} : up'[y] = up[y] /\ down'[y] = down[y] /\ end'[y] = end[y]
    BY <1>21 DEF Drop, Typed, IsMap
  <2> QED
    BY <1>15, <1>21, <2>1 DEF Drop
<1>22. CASE UNCHANGED vars
  BY <1>1, <1>22 DEF vars
<1> QED
  BY <1>4, <1>5, <1>6, <1>7, <1>8, <1>9, <1>10, <1>11, <1>12, <1>13, <1>14, <1>17, <1>18, <1>19,
     <1>20, <1>21, <1>22, EndSets DEF Next, WorkerEvent, DaemonEvent

\* The frames of the worker that is piped, and the close of the one before.
LEMMA PipeOutCloses ==
    ASSUME Typed, NEW w \in Workers, NEW d \in Daemons, worker # 0, worker # w
    PROVE  PipeOut(w, d)[worker] = <<"gone">>
<1>1. worker \in Ends /\ worker # d /\ worker \in Workers
  BY EndSets DEF Typed
<1>2. To(d, buffers[w])[worker] = <<>> /\ PreviousOut(w)[worker] = <<"gone">>
  BY <1>1 DEF To, Nothing, PreviousOut
<1>3. <<>> \o <<"gone">> = <<"gone">>
  OBVIOUS
<1> QED
  BY <1>1, <1>2, <1>3 DEF PipeOut, Both

\* A pipe that is open is the last one.
LEMMA AttachedStep == Typed /\ Unopened /\ Attached /\ [Next]_vars => Attached'
<1> SUFFICES ASSUME Typed, Unopened, Attached, [Next]_vars PROVE Attached'
  OBVIOUS
<1> USE DEF relay, peers
\* A step that pipes nobody.
<1>1. ASSUME UNCHANGED pipe, met \subseteq met', Range(waiting') \subseteq Range(waiting),
             waiting' \in Seq(Workers),
             \A w \in Workers : sock'[w] = "open" /\ pipe[w] # 0 => sock[w] = "open",
             \A w \in Workers : pipe[w] # 0 /\ worker = w /\ sock'[w] = "open" => worker' = w
      PROVE  Attached'
  <2>1. ASSUME NEW i \in 1 .. Len(waiting')
        PROVE  waiting'[i] \in met'
    <3>1. waiting'[i] \in Range(waiting')
      BY <1>1 DEF Range
    <3>2. PICK j \in DOMAIN waiting : waiting'[i] = waiting[j]
      BY <1>1, <3>1 DEF Range
    <3>3. j \in 1 .. Len(waiting)
      BY <3>2 DEF Typed
    <3> QED
      BY <1>1, <3>2, <3>3 DEF Attached
  <2>2. ASSUME NEW w \in Workers, pipe'[w] # 0
        PROVE  w \in met' /\ (sock'[w] = "open" => worker' = w)
    BY <1>1, <2>2 DEF Attached
  <2> QED
    BY <2>1, <2>2 DEF Attached
<1>2. Range(waiting) \subseteq Range(waiting) /\ waiting \in Seq(Workers)
  BY DEF Typed
<1>3. ASSUME NEW out, Say(out), NEW w \in Workers, sock'[w] = "open"
      PROVE  sock[w] = "open" /\ "gone" \notin Range(out[w])
  BY <1>3, Says, SaysNow, EndSets
\* A step that pipes w.
<1>4. ASSUME NEW w \in Workers, NEW d \in Daemons, PipeBoth(w, d), met \subseteq met', w \in met',
             \A i \in 1 .. Len(waiting') : waiting'[i] \in met',
             NEW out, Say(out), worker \notin {0, w} => "gone" \in Range(out[worker])
      PROVE  Attached'
  <2>1. ASSUME NEW v \in Workers, pipe'[v] # 0
        PROVE  v \in met' /\ (sock'[v] = "open" => worker' = v)
    <3>1. CASE v = w
      BY <1>4, <3>1 DEF PipeBoth
    <3>2. CASE v # w
      <4>1. pipe[v] # 0
        BY <1>4, <2>1, <3>2 DEF PipeBoth, Typed
      <4>2. v \in met /\ (sock[v] = "open" => worker = v)
        BY <4>1 DEF Attached
      <4>3. sock'[v] # "open"
        BY <1>3, <1>4, <3>2, <4>2, EndSets
      <4> QED
        BY <1>4, <4>2, <4>3
    <3> QED
      BY <3>1, <3>2
  <2> QED
    BY <1>4, <2>1 DEF Attached
<1>5. ASSUME NEW x \in Ends, Reject(x)
      PROVE  Attached'
  <2>1. UNCHANGED <<pipe, worker, waiting, met>> /\ Say(Fail(x))
    BY <1>5 DEF Reject
  <2> QED
    BY <1>1, <1>2, <1>3, <2>1
<1>6. ASSUME NEW w \in Workers, AttachWorker(w)
      PROVE  Attached'
  <2>1. met' = met \cup {w}
    BY <1>6 DEF AttachWorker, First
  <2>2. CASE env # 0
    <3>1. env \in Daemons
      BY <2>2 DEF Typed
    <3>2. PipeBoth(w, env) /\ Say(PipeOut(w, env)) /\ UNCHANGED waiting
      BY <1>6, <2>2 DEF AttachWorker
    <3>3. "gone" \in Range(<<"gone">>)
      BY DEF Range
    <3>4. \A i \in 1 .. Len(waiting') : waiting'[i] \in met'
      BY <2>1, <3>2 DEF Attached
    <3> QED
      BY <1>4, <2>1, <3>1, <3>2, <3>3, <3>4, PipeOutCloses
  <2>3. CASE env = 0
    <3>1. waiting' = Append(waiting, w) /\ UNCHANGED <<pipe, worker, sock>>
      BY <1>6, <2>3 DEF AttachWorker
    <3>2. \A i \in 1 .. Len(waiting') : waiting'[i] = w \/ (i \in 1 .. Len(waiting) /\ waiting'[i] = waiting[i])
      BY <3>1 DEF Typed
    <3> QED
      BY <2>1, <3>1, <3>2 DEF Attached
  <2> QED
    BY <2>2, <2>3
<1>7. ASSUME NEW w \in Workers, Timer(w)
      PROVE  Attached'
  <2>1. RemoveFirst(waiting, w) \in Seq(Workers) /\ Range(RemoveFirst(waiting, w)) \subseteq Range(waiting)
    BY RemoveKeeps DEF Typed
  <2>2. CASE env = 0
    <3>1. UNCHANGED <<pipe, worker, met>> /\ Say(Fail(w)) /\ waiting' = RemoveFirst(waiting, w)
      BY <1>7, <2>2 DEF Timer
    <3> QED
      BY <1>1, <1>3, <2>1, <3>1
  <2>3. CASE env # 0
    <3>1. UNCHANGED <<pipe, worker, met, waiting, sock>>
      BY <1>7, <2>3 DEF Timer
    <3> QED
      BY <1>1, <1>2, <3>1
  <2> QED
    BY <2>2, <2>3
<1>8. ASSUME NEW d \in Daemons, Register(d)
      PROVE  Attached'
  <2>1. met' = met \cup {d} /\ waiting' = <<>>
    BY <1>8 DEF Register, First
  <2>2. CASE waiting = <<>>
    <3>1. UNCHANGED <<pipe, worker, waiting>> /\ \E out : Say(out)
      BY <1>8, <2>1, <2>2 DEF Register
    <3> QED
      BY <1>1, <1>2, <1>3, <2>1, <3>1
  <2>3. CASE waiting # <<>>
    <3> DEFINE w == waiting[1]
               replaced == IF env = 0 THEN Nothing ELSE To(env, <<"gone">>)
               others == [x \in Ends |-> IF x \in Range(waiting) /\ x # w
                                         THEN <<"env_error", "gone">> ELSE <<>>]
               out == Both(Both(replaced, PipeOut(w, d)), others)
    <3>1. w \in Workers /\ w \in met
      BY <2>3 DEF Typed, Attached
    <3>2. PipeBoth(w, d) /\ Say(out)
      BY <1>8, <2>3 DEF Register
    <3>3. ASSUME worker \notin {0, w}
          PROVE  "gone" \in Range(out[worker])
      <4>1. worker \in Ends /\ worker \in Workers /\ worker # env
        BY <3>3, EndSets DEF Typed
      <4>2. replaced[worker] = <<>>
        BY <4>1 DEF To, Nothing
      <4>3. PipeOut(w, d)[worker] = <<"gone">>
        BY <3>1, <3>3, PipeOutCloses
      <4>4. others[worker] \in Seq({"hello", "env_error", "gone"})
        <5>1. <<"env_error", "gone">> \in Seq({"hello", "env_error", "gone"})
          OBVIOUS
        <5>2. <<>> \in Seq({"hello", "env_error", "gone"})
          OBVIOUS
        <5>3. others[worker] \in {<<"env_error", "gone">>, <<>>}
          BY <4>1
        <5> HIDE DEF others
        <5> QED
          BY <5>1, <5>2, <5>3
      <4> HIDE DEF replaced, others, w
      <4>5. out[worker] = (<<>> \o <<"gone">>) \o others[worker]
        BY <4>1, <4>2, <4>3 DEF Both
      <4>6. <<>> \o <<"gone">> = <<"gone">>
        OBVIOUS
      <4>7. <<>> \in Seq({"hello"})
        OBVIOUS
      <4> QED
        BY <4>4, <4>5, <4>6, <4>7, GoneIsLast
    <3> HIDE DEF out, w
    <3>4. \A i \in 1 .. Len(waiting') : waiting'[i] \in met'
      BY <2>1
    <3> QED
      BY <1>4, <2>1, <3>1, <3>2, <3>3, <3>4
  <2> QED
    BY <2>2, <2>3
<1>9. ASSUME NEW w \in Workers, FromWorker(w)
      PROVE  Attached'
  <2>1. UNCHANGED <<pipe, worker, waiting, met>>
    BY <1>9 DEF FromWorker
  <2>2. CASE UNCHANGED sock
    BY <1>1, <1>2, <2>1, <2>2
  <2>3. CASE \E out : Say(out)
    BY <1>1, <1>2, <1>3, <2>1, <2>3
  <2> QED
    BY <1>9, <2>2, <2>3 DEF FromWorker
<1>10. ASSUME NEW d \in Daemons, FromDaemon(d)
       PROVE  Attached'
  <2>1. UNCHANGED <<pipe, worker, waiting, met>> /\ \E out : Say(out)
    BY <1>10 DEF FromDaemon
  <2> QED
    BY <1>1, <1>2, <1>3, <2>1
<1>11. ASSUME NEW w \in Workers, WorkerCloses(w)
       PROVE  Attached'
  <2>1. UNCHANGED <<pipe, met>>
    BY <1>11 DEF WorkerCloses
  <2>2. RemoveFirst(waiting, w) \in Seq(Workers) /\ Range(RemoveFirst(waiting, w)) \subseteq Range(waiting)
    BY RemoveKeeps DEF Typed
  <2>3. waiting' \in Seq(Workers) /\ Range(waiting') \subseteq Range(waiting)
    BY <1>2, <1>11, <2>2 DEF WorkerCloses
  <2>4. worker' = worker \/ worker = w
    BY <1>11 DEF WorkerCloses
  <2>5. PICK out : SayAfter({w}, out)
    BY <1>11 DEF WorkerCloses
  <2>6. \A v \in Workers : sock'[v] = "open" => sock[v] = "open" /\ v # w
    BY <2>5, Says, EndSets
  <2> QED
    BY <1>1, <2>1, <2>3, <2>4, <2>6
<1>12. ASSUME NEW d \in Daemons, DaemonCloses(d)
       PROVE  Attached'
  <2>1. UNCHANGED <<pipe, worker, waiting, met>>
    BY <1>12 DEF DaemonCloses
  <2>2. PICK out : SayAfter({d}, out)
    BY <1>12 DEF DaemonCloses
  <2>3. \A v \in Workers : sock'[v] = "open" => sock[v] = "open"
    BY <2>2, Says, EndSets
  <2> QED
    BY <1>1, <1>2, <2>1, <2>3
<1>13. CASE Close
  <2> DEFINE out == [x \in Ends |-> IF x \in ({env, worker} \ {0}) \cup Range(waiting)
                                    THEN <<"gone">> ELSE <<>>]
  <2>1. UNCHANGED <<pipe, met>> /\ waiting' = <<>> /\ Say(out)
    BY <1>13 DEF Close
  <2>2. <<>> \in Seq(Workers) /\ Range(<<>>) \subseteq Range(waiting)
    BY DEF Range
  <2>3. ASSUME NEW v \in Workers, worker = v
        PROVE  "gone" \in Range(out[v])
    <3>1. v # 0 /\ v \in Ends
      BY EndSets
    <3>2. out[v] = <<"gone">>
      BY <2>3, <3>1
    <3> QED
      BY <3>2 DEF Range
  <2> HIDE DEF out
  <2> QED
    BY <1>1, <1>3, <2>1, <2>2, <2>3
<1>14. ASSUME NEW w \in Workers, Connect(w)
       PROVE  Attached'
  <2>1. UNCHANGED <<pipe, worker, waiting, met>> /\ sock[w] = "none"
    BY <1>14 DEF Connect
  <2>2. pipe[w] = 0
    BY <2>1, EndSets DEF Unopened, Attached
  <2>3. \A v \in Workers \ {w} : sock'[v] = sock[v]
    BY <1>14, EndSets DEF Connect, Typed
  <2> QED
    BY <1>1, <1>2, <2>1, <2>2, <2>3
<1>15. CASE Dial
  <2>1. UNCHANGED <<pipe, worker, waiting, met>>
    BY <1>15 DEF Dial
  <2>2. dials + 1 \in Daemons
    BY <1>15, EndSets DEF Dial, Typed
  <2>3. \A v \in Workers : sock'[v] = sock[v]
    BY <1>15, <2>2, EndSets DEF Dial, Typed
  <2> QED
    BY <1>1, <1>2, <2>1, <2>3
<1>16. ASSUME UNCHANGED relay
       PROVE  Attached'
  BY <1>1, <1>2, <1>16
<1>17. ASSUME NEW w \in Workers, HelloTimeout(w) \/ WorkerGets(w) \/ Leave(w)
       PROVE  Attached'
  BY <1>16, <1>17 DEF HelloTimeout, WorkerGets, Leave, Gets, Tells
<1>18. ASSUME NEW d \in Daemons, DaemonGets(d)
       PROVE  Attached'
  BY <1>16, <1>18 DEF DaemonGets, Gets, Tells
<1>19. CASE Stop \/ (\E x \in Ends : Drop(x)) \/ UNCHANGED vars
  BY <1>16, <1>19 DEF Stop, Drop, vars
<1> QED
  BY <1>5, <1>6, <1>7, <1>8, <1>9, <1>10, <1>11, <1>12, <1>13, <1>14, <1>15, <1>17, <1>18, <1>19,
     EndSets DEF Next, WorkerEvent, DaemonEvent

\* The registration is the one of the daemon that is open.
LEMMA RegisteredStep ==
    Typed /\ Unopened /\ Dialled /\ OpenIsRegistered /\ [Next]_vars => OpenIsRegistered'
<1> SUFFICES ASSUME Typed, Unopened, Dialled, OpenIsRegistered, [Next]_vars PROVE OpenIsRegistered'
  OBVIOUS
<1> USE DEF relay, peers
<1>1. ASSUME UNCHANGED env, met' \cap Daemons \subseteq met, closed => closed',
             \A d \in Daemons : sock'[d] = "open" /\ d \in met => sock[d] = "open"
      PROVE  OpenIsRegistered'
  BY <1>1 DEF OpenIsRegistered
<1>2. ASSUME NEW ended, NEW out, SayAfter(ended, out), NEW d \in Daemons, sock'[d] = "open"
      PROVE  sock[d] = "open" /\ d \notin ended /\ "gone" \notin Range(out[d])
  BY <1>2, Says, EndSets
<1>3. ASSUME NEW x, NEW t, Hear(x, t)
      PROVE  UNCHANGED closed
  BY <1>3 DEF Hear
<1>4. ASSUME NEW x \in Ends, Reject(x)
      PROVE  OpenIsRegistered'
  BY <1>1, <1>2, <1>3, <1>4, SaysNow DEF Reject
<1>5. ASSUME NEW w \in Workers, AttachWorker(w)
      PROVE  OpenIsRegistered'
  <2>1. met' = met \cup {w} /\ w \notin Daemons /\ UNCHANGED <<env, closed>>
    BY <1>3, <1>5, EndSets DEF AttachWorker, First
  <2>2. UNCHANGED sock \/ \E out : Say(out)
    BY <1>5 DEF AttachWorker
  <2> QED
    BY <1>1, <1>2, <2>1, <2>2, SaysNow
<1>6. ASSUME NEW w \in Workers, Timer(w)
      PROVE  OpenIsRegistered'
  <2>1. UNCHANGED <<env, met, closed>>
    BY <1>6 DEF Timer
  <2>2. UNCHANGED sock \/ \E out : Say(out)
    BY <1>6 DEF Timer
  <2> QED
    BY <1>1, <1>2, <2>1, <2>2, SaysNow
<1>7. ASSUME NEW d \in Daemons, Register(d)
      PROVE  OpenIsRegistered'
  <2> DEFINE replaced == IF env = 0 THEN Nothing ELSE To(env, <<"gone">>)
  <2>1. met' = met \cup {d} /\ env' = d /\ UNCHANGED closed
    BY <1>3, <1>7 DEF Register, First
  <2>2. ASSUME env # 0
        PROVE  sock'[env] # "open"
    <3>1. env \in Daemons /\ env \in Ends
      BY <2>2, EndSets DEF Typed
    <3>2. replaced[env] = <<"gone">>
      BY <2>2, <3>1 DEF To, Nothing
    <3>3. CASE waiting = <<>>
      <4>1. Say(replaced)
        BY <1>7, <3>3 DEF Register
      <4>2. "gone" \in Range(replaced[env])
        BY <3>2 DEF Range
      <4> HIDE DEF replaced
      <4> QED
        BY <1>2, <3>1, <4>1, <4>2, SaysNow
    <3>4. CASE waiting # <<>>
      <4> DEFINE w == waiting[1]
                 others == [x \in Ends |-> IF x \in Range(waiting) /\ x # w
                                           THEN <<"env_error", "gone">> ELSE <<>>]
                 out == Both(Both(replaced, PipeOut(w, d)), others)
      <4>1. Say(out)
        BY <1>7, <3>4 DEF Register
      <4>2. w \in Workers
        BY <3>4 DEF Typed
      <4>3. others[env] = <<>>
        BY <3>1, EndSets DEF Typed, Range
      <4>4. PipeOut(w, d)[env] = (IF env = d THEN buffers[w] ELSE <<>>) \o <<>>
        BY <3>1, <4>2, EndSets DEF PipeOut, Both, To, Nothing, PreviousOut, Typed
      <4>5. buffers[w] \in Seq({"hello"}) /\ <<>> \in Seq({"hello"})
        BY <4>2 DEF Typed
      <4> HIDE DEF replaced, others, w
      <4>6. PipeOut(w, d)[env] \in Seq({"hello", "env_error", "gone"})
        BY <4>4, <4>5
      <4>7. out[env] = (<<"gone">> \o PipeOut(w, d)[env]) \o <<>>
        BY <3>1, <3>2, <4>3 DEF Both
      <4>8. out[env] = <<"gone">> \o PipeOut(w, d)[env]
        BY <4>6, <4>7
      <4>9. "gone" \in Range(out[env])
        BY <4>5, <4>6, <4>8, GoneIsLast
      <4> HIDE DEF out
      <4> QED
        BY <1>2, <3>1, <4>1, <4>9, SaysNow
    <3> QED
      BY <3>3, <3>4
  <2>3. PICK out : Say(out)
    BY <1>7 DEF Register
  <2>4. ASSUME NEW c \in Daemons, c \in met', sock'[c] = "open", ~closed'
        PROVE  c = d
    <3>1. sock[c] = "open"
      BY <1>2, <2>3, <2>4, SaysNow
    <3>2. CASE c \in met
      <4>1. env = c /\ c # 0
        BY <2>1, <2>4, <3>1, <3>2, EndSets DEF OpenIsRegistered
      <4> QED
        BY <2>2, <2>4, <4>1
    <3> QED
      BY <2>1, <2>4, <3>2
  <2> QED
    BY <2>1, <2>4 DEF OpenIsRegistered
<1>8. ASSUME NEW w \in Workers, FromWorker(w)
      PROVE  OpenIsRegistered'
  <2>1. UNCHANGED <<env, met, closed>>
    BY <1>3, <1>8 DEF FromWorker
  <2>2. UNCHANGED sock \/ \E out : Say(out)
    BY <1>8 DEF FromWorker
  <2> QED
    BY <1>1, <1>2, <2>1, <2>2, SaysNow
<1>9. ASSUME NEW d \in Daemons, FromDaemon(d)
      PROVE  OpenIsRegistered'
  <2>1. UNCHANGED <<env, met, closed>> /\ \E out : Say(out)
    BY <1>3, <1>9 DEF FromDaemon
  <2> QED
    BY <1>1, <1>2, <2>1, SaysNow
<1>10. ASSUME NEW w \in Workers, WorkerCloses(w)
       PROVE  OpenIsRegistered'
  <2>1. UNCHANGED <<env, met, closed>> /\ \E out : SayAfter({w}, out)
    BY <1>3, <1>10 DEF WorkerCloses
  <2> QED
    BY <1>1, <1>2, <2>1
<1>11. ASSUME NEW d \in Daemons, DaemonCloses(d)
       PROVE  OpenIsRegistered'
  <2>1. UNCHANGED <<met, closed>> /\ (env' = env \/ env = d)
    BY <1>3, <1>11 DEF DaemonCloses, Unregistered
  <2>2. PICK out : SayAfter({d}, out)
    BY <1>11 DEF DaemonCloses
  <2>3. \A c \in Daemons : sock'[c] = "open" => sock[c] = "open" /\ c # d
    BY <1>2, <2>2
  <2> QED
    BY <2>1, <2>3 DEF OpenIsRegistered
<1>12. CASE Close
  BY <1>12 DEF Close, OpenIsRegistered
<1>13. ASSUME NEW w \in Workers, Connect(w)
       PROVE  OpenIsRegistered'
  <2>1. \A d \in Daemons : sock'[d] = sock[d]
    BY <1>13, EndSets DEF Connect, Typed
  <2> QED
    BY <1>1, <1>13, <2>1 DEF Connect
<1>14. CASE Dial
  <2>1. dials + 1 \in Daemons
    BY <1>14, EndSets DEF Dial, Typed
  <2>2. sock[dials + 1] = "none"
    BY <2>1, EndSets DEF Dialled, Typed
  <2>3. dials + 1 \notin met
    BY <2>1, <2>2, EndSets DEF Unopened
  <2>4. \A d \in Daemons : d # dials + 1 => sock'[d] = sock[d]
    BY <1>14, EndSets DEF Dial, Typed
  <2> QED
    BY <1>1, <1>14, <2>3, <2>4 DEF Dial
<1>15. ASSUME UNCHANGED relay
       PROVE  OpenIsRegistered'
  BY <1>1, <1>15
<1>16. ASSUME NEW w \in Workers, HelloTimeout(w) \/ WorkerGets(w) \/ Leave(w)
       PROVE  OpenIsRegistered'
  BY <1>15, <1>16 DEF HelloTimeout, WorkerGets, Leave, Gets, Tells
<1>17. ASSUME NEW d \in Daemons, DaemonGets(d)
       PROVE  OpenIsRegistered'
  BY <1>15, <1>17 DEF DaemonGets, Gets, Tells
<1>18. CASE Stop \/ (\E x \in Ends : Drop(x)) \/ UNCHANGED vars
  BY <1>15, <1>18 DEF Stop, Drop, vars
<1> QED
  BY <1>4, <1>5, <1>6, <1>7, <1>8, <1>9, <1>10, <1>11, <1>12, <1>13, <1>14, <1>16, <1>17, <1>18,
     EndSets DEF Next, WorkerEvent, DaemonEvent

THEOREM Invariance == Spec => []IInv
<1>1. IInv /\ [Next]_vars => IInv'
  BY Types, UnopenedStep, AttachedStep, RegisteredStep DEF IInv
<1> QED
  BY InitInv, <1>1, PTL DEF Spec

----------------------------------------------------------------------------
\* A daemon that registered and whose socket is open is the one workers are
\* paired with, however registrations, closes and attaches interleave.
THEOREM RegistrationFollowsTheSocket == Spec => []OpenIsRegistered
<1>1. IInv => OpenIsRegistered
  BY DEF IInv
<1> QED
  BY Invariance, <1>1, PTL

\* Of all workers that were ever piped to a daemon one at most has an open socket.
THEOREM OneWorkerPerDaemon == Spec => []OnePipe
<1>1. IInv => OnePipe
  <2> SUFFICES ASSUME IInv, NEW d \in Daemons
               PROVE  Cardinality({w \in Workers : pipe[w] = d /\ sock[w] = "open"}) <= 1
    BY DEF OnePipe
  <2> DEFINE piped == {w \in Workers : pipe[w] = d /\ sock[w] = "open"}
  <2>1. piped \subseteq {worker}
    BY EndSets DEF IInv, Attached
  <2>2. IsFiniteSet({worker}) /\ Cardinality({worker}) = 1
    BY FS_Singleton
  <2>3. Cardinality(piped) <= Cardinality({worker})
    BY <2>1, <2>2, FS_Subset
  <2> QED
    BY <2>2, <2>3
<1> QED
  BY Invariance, <1>1, PTL
=============================================================================
