--------------------------- MODULE ThreadDOProofs ---------------------------
(***************************************************************************)
(* Theorems of ThreadDO, for every set of calls, scenes, handles and slots *)
(* and whichever faults happen.                                            *)
(***************************************************************************)
EXTENDS ThreadDO, TLAPS

\* The hub's record and its cached state.
Records == [name : {"given", "user", "title"}, auto : BOOLEAN, sid : BOOLEAN, archived : BOOLEAN,
            env : {"stopped", "ready", "error"}, handle : Handles \cup {NoHandle}]
Typed == rec \in Records \cup {NoRecord} /\ seen \in {"idle", "working"}

\* What the steps below look at in a call, a host and the storage.
Shaped ==
    /\ DOMAIN call = Calls /\ DOMAIN applying = Slots /\ DOMAIN hosts = HostIds
    /\ \A c \in Calls : {"at", "handle", "host"} \subseteq DOMAIN call[c]
    /\ \A i \in HostIds : {"at", "env", "running", "cut"} \subseteq DOMAIN hosts[i]
    /\ {"rec", "sid", "auto", "handle", "trail"} \subseteq DOMAIN stored
    /\ host \in {0} \cup HostIds

\* A live host is the current one, unless this.host forgot it; only it runs.
Current ==
    /\ \A i \in HostIds : hosts[i].running => hosts[i].at = "live"
    /\ \A i \in HostIds : hosts[i].at = "live" => orphaned \/ i = host

\* The connection, who waits for it and who uses it, is that of the handle, but
\* for those whose connection was closed.
Keyed ==
    /\ host # 0 /\ hosts[host].at = "live" /\ ~hosts[host].cut
          => hosts[host].env = stored.handle /\ envKey = stored.handle
    /\ \A c \in Calls : At(c, "connect") => call[c].handle = stored.handle /\ envKey = stored.handle

\* An emptied DO has no host and nobody who would build one, but on a closed
\* connection: that makes it late.
Emptied == gone /\ ~orphaned /\ ~late =>
    /\ ~stored.rec /\ ~stored.trail /\ host = 0
    /\ \A c \in Calls : ~At(c, "connect") /\ ~At(c, "rebuild")

\* A create comes before any delete, also before one under way.
Creating == \A c \in Calls : At(c, "create") => ~gone /\ \A d \in Calls : ~At(d, "deleting")

\* Who waits for a dispose waits for a host that was closed.
Waiting == {"deleting", "rebuild", "pushing", "handing over", "clearing"}
Disposals == \A c \in Calls : call[c].at \in Waiting =>
    call[c].host \in HostIds /\ hosts[call[c].host].at \in {"closing", "gone"}

\* If the consoles know another view, someone is about to tell them.
Teller(x) == x.at \in {"create", "created", "create failed",
                      "hand over", "handing over", "tell"}
Owed == rec # NoRecord /\ told # View /\ ~missed =>
    \/ \E s \in Slots : applying[s] \notin {NoRecord, View}
    \/ \E c \in Calls : Teller(call[c])

Worker == Current /\ Keyed /\ Emptied /\ Creating /\ Disposals
IInv == Shaped /\ Worker /\ Owed

-----------------------------------------------------------------------------
(* The initial states.                                                     *)

LEMMA InitIInv == Init => IInv
<1> SUFFICES ASSUME Init PROVE IInv
  OBVIOUS
<1>1. Shaped
  BY DEF Init, Shaped, Idle
<1>2. /\ \A c \in Calls : call[c].at = "idle"
      /\ \A i \in HostIds : hosts[i].at = "unborn" /\ ~hosts[i].running
      /\ host = 0 /\ ~gone
  BY DEF Init, Idle
<1>3. rec # NoRecord => told = View
  BY DEF Init, View
<1> QED
  BY <1>1, <1>2, <1>3 DEF IInv, Worker, Current, Keyed, Emptied, Creating, Disposals, Waiting, Owed, At

-----------------------------------------------------------------------------
(* What a failed RPC leaves of a call.                                     *)

\* A call whose connection is closed keeps all but its place.
Cut(x) == [x EXCEPT !.at = "cut"]

LEMMA CutIs ==
    ASSUME Shaped
    PROVE  \A d \in Calls : /\ Cut(call[d]).at = "cut"
                            /\ {"at", "handle", "host"} \subseteq DOMAIN Cut(call[d])
BY DEF Shaped, Cut

LEMMA IdleIs == Idle.at = "idle" /\ {"at", "handle", "host"} \subseteq DOMAIN Idle
BY DEF Idle

LEMMA AfterFailureIs ==
    ASSUME NEW x, {"at", "handle", "host"} \subseteq DOMAIN x
    PROVE  LET y == AfterFailure(x) IN
           /\ {"at", "handle", "host"} \subseteq DOMAIN y
           /\ y.at \notin {"connect", "rebuild", "deleting"}
           /\ y.at = "create" => x.at = "create"
           /\ Teller(x) => Teller(y)
<1>1. x.at = "pushing" => AfterFailure(x) = [x EXCEPT !.at = "arm"]
  BY DEF AfterFailure
<1>2. x.at = "handing over" => AfterFailure(x) = [x EXCEPT !.at = "tell"]
  BY DEF AfterFailure
<1>3. x.at = "clearing" => AfterFailure(x) = [x EXCEPT !.at = "stop"]
  BY DEF AfterFailure
<1>4. x.at = "deleting" => AfterFailure(x) = [x EXCEPT !.at = "release"]
  BY DEF AfterFailure
<1>5. x.at \in {"connect", "cut", "rebuild"} => AfterFailure(x) = Idle
  BY DEF AfterFailure
<1>6. x.at \notin {"pushing", "handing over", "clearing", "deleting", "connect", "cut", "rebuild"}
        => AfterFailure(x) = x
  BY DEF AfterFailure
<1>7. CASE x.at \in {"pushing", "handing over", "clearing", "deleting"}
  <2>1. \E l \in {"arm", "tell", "stop", "release"} :
          /\ AfterFailure(x) = [x EXCEPT !.at = l]
          /\ Teller(x) => l = "tell"
    BY <1>1, <1>2, <1>3, <1>4, <1>7 DEF Teller
  <2> QED
    BY <2>1 DEF Teller
<1>8. CASE x.at \in {"connect", "cut", "rebuild"}
  <2>1. AfterFailure(x) = Idle /\ ~Teller(x)
    BY <1>5, <1>8 DEF Teller
  <2> QED
    BY <2>1, IdleIs
<1>9. CASE x.at \notin {"pushing", "handing over", "clearing", "deleting", "connect", "cut",
                      "rebuild"}
  BY <1>6, <1>9 DEF Teller
<1> QED
  BY <1>7, <1>8, <1>9

-----------------------------------------------------------------------------
(* What a step makes of the calls: c goes on at one of the places in L, and *)
(* of the others only those that wait for the env may have been cut off.   *)

Goes(c, L) ==
    /\ DOMAIN call' = Calls
    /\ \A d \in Calls : {"at", "handle", "host"} \subseteq DOMAIN call'[d]
    /\ call'[c].at \in L
    /\ \A d \in Calls \ {c} : call'[d] = call[d] \/ (At(d, "connect") /\ call'[d] = Cut(call[d]))

LEMMA ClosedIs ==
    ASSUME Shaped
    PROVE  /\ DOMAIN Closed(call) = Calls
           /\ \A d \in Calls :
                 /\ {"at", "handle", "host"} \subseteq DOMAIN Closed(call)[d]
                 /\ \/ Closed(call)[d] = call[d]
                    \/ At(d, "connect") /\ Closed(call)[d] = Cut(call[d])
                 /\ Closed(call)[d].at # "connect"
<1>1. \A d \in Calls : Closed(call)[d] = IF call[d].at = "connect" THEN Cut(call[d]) ELSE call[d]
  BY DEF Closed, Cut
<1>2. DOMAIN Closed(call) = Calls
  BY DEF Closed
<1> QED
  BY <1>1, <1>2, CutIs DEF Shaped, At

LEMMA GotoGoes ==
    ASSUME Shaped, NEW c \in Calls, NEW l, Goto(c, l)
    PROVE  Goes(c, {l})
BY DEF Shaped, Goto, Goes

LEMMA DoneGoes ==
    ASSUME Shaped, NEW c \in Calls, Done(c)
    PROVE  Goes(c, {"idle"})
BY IdleIs DEF Shaped, Done, Goes

LEMMA SetHandleGoes ==
    ASSUME Shaped, NEW c \in Calls, NEW h, NEW wait, NEW next, SetHandle(c, h, wait, next)
    PROVE  /\ Goes(c, {wait, next})
           /\ h # envKey => \A d \in Calls \ {c} : call'[d].at # "connect"
<1>1. CASE h = envKey
  BY <1>1, GotoGoes DEF SetHandle, Goes
<1>2. CASE h # envKey
  <2> DEFINE calls == Closed(call)
  <2>1. /\ DOMAIN calls = Calls
        /\ \A d \in Calls :
                 /\ {"at", "handle", "host"} \subseteq DOMAIN calls[d]
                 /\ calls[d] = call[d] \/ (At(d, "connect") /\ calls[d] = Cut(call[d]))
                 /\ calls[d].at # "connect"
    BY ClosedIs
  <2>2. \/ call' = [calls EXCEPT ![c].at = next]
        \/ call' = [calls EXCEPT ![c].at = wait, ![c].host = host]
    BY <1>2 DEF SetHandle
  <2> HIDE DEF calls
  <2>3. CASE call' = [calls EXCEPT ![c].at = next]
    BY <2>1, <2>3 DEF Goes
  <2>4. CASE call' = [calls EXCEPT ![c].at = wait, ![c].host = host]
    BY <2>1, <2>4 DEF Goes
  <2> QED
    BY <2>2, <2>3, <2>4
<1> QED
  BY <1>1, <1>2

LEMMA AwaitGoes ==
    ASSUME Shaped, NEW c \in Calls, NEW k, NEW l, Await(c, k, l)
    PROVE  Goes(c, {l})
<1>1. PICK x : /\ call' = [call EXCEPT ![c] = x]
               /\ x.at = l /\ {"at", "handle", "host"} \subseteq DOMAIN x
  <2> DEFINE x == [Idle EXCEPT !.kind = k, !.at = l,
                     !.rec = IF l \in {"delete", "push"} THEN rec ELSE NoRecord,
                     !.seen = IF l = "delete" THEN seen ELSE "idle"]
  <2>1. x.at = l /\ {"at", "handle", "host"} \subseteq DOMAIN x
    BY DEF Idle
  <2>2. call' = [call EXCEPT ![c] = x]
    BY DEF Await
  <2> HIDE DEF x
  <2> QED
    BY <2>1, <2>2
<1> QED
  BY <1>1 DEF Shaped, Goes

-----------------------------------------------------------------------------
(* Steps that leave the thread DO alone, and steps after which nobody owes *)
(* the consoles more than before.                                          *)

Watched == {"connect", "create"} \cup Waiting

LEMMA HubFrame ==
    ASSUME IInv, NEW c \in Calls, NEW L, Goes(c, L),
           Watched \cap L = {},
           UNCHANGED <<stored, envKey, host, hosts, gone, orphaned, late>>,
           DOMAIN applying' = Slots
    PROVE  Shaped' /\ Worker'
<1>1. Shaped'
  BY DEF IInv, Shaped, Goes
<1>2. \A d \in Calls, l \in Watched :
         call'[d].at = l => call[d].at = l /\ call'[d] = call[d]
  BY CutIs DEF IInv, Goes, Watched, Waiting
<1>3. Current' /\ Keyed'
  BY <1>2 DEF IInv, Worker, Current, Keyed, At, Watched
<1>4. Emptied' /\ Creating'
  BY <1>2 DEF IInv, Worker, Emptied, Creating, At, Watched, Waiting
<1>5. Disposals'
  BY <1>2 DEF IInv, Worker, Disposals, Watched
<1> QED
  BY <1>1, <1>3, <1>4, <1>5 DEF Worker

LEMMA ToldFrame ==
    ASSUME rec' = NoRecord \/ told' = View'
    PROVE  Owed'
BY DEF Owed

LEMMA TellerFrame ==
    ASSUME NEW c \in Calls, Teller(call'[c])
    PROVE  Owed'
BY DEF Owed, Teller

LEMMA QuietFrame ==
    ASSUME IInv, NEW c \in Calls, NEW L, Goes(c, L), ~Teller(call[c]),
           UNCHANGED <<rec, seen, told, applying, missed>>
    PROVE  Owed'
<1>1. View' = View
  BY DEF View
<1>2. \A d \in Calls : Teller(call[d]) => Teller(call'[d])
  BY DEF Goes, Teller, At
<1> QED
  BY <1>1, <1>2 DEF IInv, Owed

-----------------------------------------------------------------------------
(* The hub's calls.                                                        *)

LEMMA BeginKeeps == ASSUME IInv, NEW c \in Calls, NEW k \in Kinds, Begin(c, k) PROVE IInv'
<1> USE DEF IInv, At
<1>1. UNCHANGED <<applying, stored, envKey, host, hosts, gone, orphaned, late, missed>>
  BY DEF Begin, thread
<1>2. ~Teller(call[c])
  BY DEF Begin, Teller
<1>3. CASE /\ k = "create" /\ rec = NoRecord /\ ~gone /\ \A d \in Calls : At(d, "idle")
           /\ Await(c, k, "create")
  <2>1. Goes(c, {"create"})
    BY <1>3, AwaitGoes
  <2>2. \A d \in Calls \ {c} : call'[d] = call[d]
    BY <1>3, <2>1 DEF Goes
  <2>3. Shaped'
    BY <1>1, <2>1 DEF Shaped, Goes
  <2>4. Worker'
    <3>1. Current' /\ Keyed' /\ Emptied' /\ Creating'
      BY <1>1, <1>3, <2>1, <2>2 DEF Worker, Current, Keyed, Emptied, Creating, Goes
    <3>2. Disposals'
      BY <1>1, <2>1, <2>2 DEF Worker, Disposals, Waiting, Goes
    <3> QED
      BY <3>1, <3>2 DEF Worker
  <2>5. Owed'
    BY <2>1, TellerFrame DEF Goes, Teller
  <2> QED
    BY <2>3, <2>4, <2>5
<1>4. CASE UNCHANGED call /\ told' = View'
  <2>1. Goes(c, {"idle"})
    BY <1>4 DEF Begin, Goes, Shaped
  <2>2. Shaped' /\ Worker'
    BY <1>1, <2>1, HubFrame DEF Watched, Waiting, Shaped
  <2> QED
    BY <1>4, <2>2, ToldFrame
<1>5. CASE /\ \E l \in {"delete", "command", "push", "ensure", "clear"} : Await(c, k, l)
           /\ UNCHANGED <<rec, seen, told>>
  <2>1. PICK l \in {"delete", "command", "push", "ensure", "clear"} : Await(c, k, l)
    BY <1>5
  <2>2. Goes(c, {l})
    BY <2>1, AwaitGoes
  <2>3. Shaped' /\ Worker'
    BY <1>1, <2>2, HubFrame DEF Watched, Waiting, Shaped
  <2>4. Owed'
    BY <1>1, <1>2, <1>5, <2>2, QuietFrame
  <2> QED
    BY <2>3, <2>4
<1> QED
  BY <1>3, <1>4, <1>5 DEF Begin, Now

\* What the hosts become: none turns live, one that runs stays as it is, and one
\* that was closed stays closed.
Dwindles == /\ DOMAIN hosts' = HostIds
            /\ \A i \in HostIds :
                  /\ {"at", "env", "running", "cut"} \subseteq DOMAIN hosts'[i]
                  /\ hosts'[i].running => hosts'[i] = hosts[i]
                  /\ hosts'[i].at = "live" => hosts'[i] = hosts[i]
                  /\ hosts[i].at \in {"closing", "gone"} => hosts'[i].at \in {"closing", "gone"}

LEMMA DisposeDwindles ==
    ASSUME Shaped, Current, NEW i \in HostIds,
           \/ hosts' = Disposing(i)
           \/ hosts' = Disposed(i) /\ hosts[i].at \in {"closing", "gone"}
    PROVE  Dwindles
<1>1. CASE hosts' = Disposing(i)
  BY <1>1 DEF Shaped, Disposing, Dwindles
<1>2. CASE hosts' = Disposed(i) /\ hosts[i].at \in {"closing", "gone"}
  BY <1>2 DEF Shaped, Current, Disposed, Dwindles
<1> QED
  BY <1>1, <1>2

LEMMA SetHandleKeeps ==
    ASSUME IInv, NEW c \in Calls, NEW h, NEW wait, NEW next, SetHandle(c, h, wait, next),
           {"connect", "rebuild", "create", "deleting"} \cap {wait, next} = {},
           wait # next, next \notin Waiting,
           UNCHANGED <<gone, orphaned, late, applying>>
    PROVE  Shaped' /\ Worker'
<1> USE DEF IInv
<1>1. Goes(c, {wait, next}) /\ (h # envKey => \A d \in Calls \ {c} : call'[d].at # "connect")
  BY SetHandleGoes
<1>2. stored' = [stored EXCEPT !.handle = h] /\ host' = host
  BY DEF SetHandle
<1>3. \/ h = envKey /\ UNCHANGED <<hosts, envKey>>
      \/ h # envKey /\ host = 0 /\ UNCHANGED hosts
      \/ h # envKey /\ host # 0 /\ hosts' = Disposing(host)
  BY DEF SetHandle
<1>4. Dwindles
  <2>1. CASE UNCHANGED hosts
    BY <2>1 DEF Shaped, Dwindles
  <2>2. CASE hosts' = Disposing(host) /\ host # 0
    BY <2>2, DisposeDwindles DEF Worker, Shaped
  <2> QED
    BY <1>3, <2>1, <2>2
<1>5. Shaped'
  <2>1. {"rec", "sid", "auto", "handle", "trail"} \subseteq DOMAIN stored'
    BY <1>2 DEF Shaped
  <2> QED
    BY <1>1, <1>2, <1>4, <2>1 DEF Shaped, Goes, Dwindles
<1>6. \A d \in Calls, l \in {"connect", "rebuild", "create", "deleting"} :
         call'[d].at = l => call[d].at = l /\ call'[d] = call[d] /\ d # c
  BY <1>1, CutIs DEF Goes
<1>7. Current'
  <2>0. Current
    BY DEF Worker
  <2>1. ASSUME NEW i \in HostIds, hosts'[i].running PROVE hosts'[i].at = "live"
    <3>1. hosts'[i] = hosts[i]
      BY <1>4, <2>1 DEF Dwindles
    <3>2. hosts[i].running
      BY <2>1, <3>1
    <3> QED
      BY <2>0, <3>1, <3>2 DEF Current
  <2>2. \A i \in HostIds : hosts'[i].at = "live" => orphaned \/ i = host
    BY <1>4 DEF Worker, Current, Dwindles
  <2> QED
    BY <1>2, <2>1, <2>2 DEF Current
<1>8. h # envKey => ~(host # 0 /\ hosts'[host].at = "live")
  BY <1>3 DEF Disposing, Shaped
<1>9. Keyed'
  <2>1. CASE h = envKey
    BY <2>1, <1>2, <1>3, <1>6 DEF Worker, Keyed, At, Shaped
  <2>2. CASE h # envKey
    BY <2>2, <1>1, <1>2, <1>6, <1>8 DEF Keyed, At
  <2> QED
    BY <2>1, <2>2
<1>10. stored'.rec = stored.rec /\ stored'.trail = stored.trail
  BY <1>2 DEF Shaped
<1>11. Emptied'
  BY <1>2, <1>6, <1>10 DEF Worker, Emptied, At
<1>12. Creating'
  BY <1>6 DEF Worker, Creating, At
<1>13. Disposals'
  <2>1. \A d \in Calls \ {c} : call'[d].at \in Waiting => call'[d] = call[d]
    BY <1>1, CutIs DEF Goes, Waiting
  <2>2. \A d \in Calls \ {c} : call'[d].at \in Waiting =>
          call'[d].host \in HostIds /\ hosts'[call'[d].host].at \in {"closing", "gone"}
    BY <1>4, <2>1 DEF Worker, Disposals, Dwindles
  <2>3. call'[c].at \in Waiting => call'[c].host = host /\ hosts' = Disposing(host) /\ host # 0
    BY ClosedIs DEF SetHandle, Goto, Shaped
  <2>4. call'[c].at \in Waiting =>
          call'[c].host \in HostIds /\ hosts'[call'[c].host].at \in {"closing", "gone"}
    BY <2>3 DEF Disposing, Shaped
  <2> QED
    BY <2>2, <2>4 DEF Disposals
<1> QED
  BY <1>5, <1>7, <1>9, <1>11, <1>12, <1>13 DEF Worker

LEMMA HubStepKeeps == ASSUME IInv, NEW c \in Calls, HubStep(c) PROVE IInv'
<1> USE DEF IInv
<1>0. \A l : Goto(c, l) => Goes(c, {l})
  BY GotoGoes
<1>1. Done(c) => Goes(c, {"idle"})
  BY DoneGoes
<1>2. ASSUME NEW k \in Kinds, Begin(c, k) PROVE IInv'
  BY <1>2, BeginKeeps
<1>3. CASE Created(c)
  <2>1. Shaped' /\ Worker'
    BY <1>1, <1>3, HubFrame DEF Watched, Waiting, Created, thread, history, Shaped
  <2>2. rec' = NoRecord \/ told' = View'
    BY <1>3 DEF Created, View
  <2> QED
    BY <2>1, <2>2, ToldFrame
<1>4. CASE CreateFails(c)
  <2>1. Shaped' /\ Worker'
    BY <1>1, <1>4, HubFrame DEF Watched, Waiting, CreateFails, thread, history, Shaped
  <2> QED
    BY <1>4, <2>1, ToldFrame DEF CreateFails
<1>5. CASE DeleteWorkerFails(c)
  <2>1. Goes(c, {"release"})
    BY <1>0, <1>5 DEF DeleteWorkerFails
  <2>2. Shaped' /\ Worker'
    BY <1>5, <2>1, HubFrame DEF Watched, Waiting, DeleteWorkerFails, thread, history, Shaped
  <2>3. Owed'
    BY <1>5, <2>1, QuietFrame DEF DeleteWorkerFails, At, Teller, history
  <2> QED
    BY <2>2, <2>3
<1>6. CASE Deleted(c)
  <2>1. Shaped' /\ Worker'
    BY <1>1, <1>6, HubFrame DEF Watched, Waiting, Deleted, thread, history, Shaped
  <2> QED
    BY <1>6, <2>1, ToldFrame DEF Deleted
<1>7. CASE Ensure(c)
  <2>1. Goes(c, {"hand over"})
    BY <1>7 DEF Ensure, Goes, Shaped
  <2>2. Shaped' /\ Worker'
    BY <1>7, <2>1, HubFrame DEF Watched, Waiting, Ensure, thread, history, Shaped
  <2>3. Owed'
    BY <2>1, TellerFrame DEF Goes, Teller
  <2> QED
    BY <2>2, <2>3
<1>8. CASE EnsureFails(c)
  <2>1. Shaped' /\ Worker'
    BY <1>1, <1>8, HubFrame DEF Watched, Waiting, EnsureFails, thread, history, Shaped
  <2>2. rec' = NoRecord \/ told' = View'
    BY <1>8 DEF EnsureFails, View
  <2> QED
    BY <2>1, <2>2, ToldFrame
<1>9. CASE TellReady(c)
  <2>1. Goes(c, {"idle"}) \/ Goes(c, {"arm"})
    BY <1>0, <1>1, <1>9 DEF TellReady
  <2>2. Shaped' /\ Worker'
    BY <1>9, <2>1, HubFrame DEF Watched, Waiting, TellReady, thread, history, Shaped
  <2>3. rec' = NoRecord \/ told' = View'
    BY <1>9 DEF TellReady, View
  <2> QED
    BY <2>2, <2>3, ToldFrame
<1>10. CASE Armed(c)
  <2>1. Goes(c, {"command"}) \/ Goes(c, {"idle"})
    BY <1>0, <1>1, <1>10 DEF Armed
  <2>2. Shaped' /\ Worker'
    BY <1>10, <2>1, HubFrame DEF Watched, Waiting, Armed, thread, history, Shaped
  <2>3. Owed'
    BY <1>10, <2>1, QuietFrame DEF Armed, At, Teller, history
  <2> QED
    BY <2>2, <2>3
<1>11. CASE CommandFails(c)
  <2>1. Shaped' /\ Worker'
    BY <1>1, <1>11, HubFrame DEF Watched, Waiting, CommandFails, thread, history, Shaped
  <2>2. Owed'
    BY <1>1, <1>11, QuietFrame DEF CommandFails, At, Teller, history
  <2> QED
    BY <2>1, <2>2
<1>12. CASE Stopped(c)
  <2>1. Shaped' /\ Worker'
    BY <1>1, <1>12, HubFrame DEF Watched, Waiting, Stopped, thread, history, Shaped
  <2>2. rec' = NoRecord \/ told' = View'
    BY <1>12 DEF Stopped, View
  <2> QED
    BY <2>1, <2>2, ToldFrame
<1>13. CASE Push(c)
  <2>1. CASE SetHandle(c, call[c].rec.handle, "pushing", "arm")
    <3>1. Goes(c, {"pushing", "arm"})
      BY <2>1, SetHandleGoes
    <3>2. Shaped' /\ Worker'
      <4> DEFINE h == call[c].rec.handle
      <4>1. SetHandle(c, h, "pushing", "arm") /\ UNCHANGED <<gone, orphaned, late, applying>>
        BY <1>13, <2>1 DEF Push, history
      <4> HIDE DEF h
      <4> QED
        BY <4>1, SetHandleKeeps DEF Waiting
    <3>3. Owed'
      BY <1>13, <3>1, QuietFrame DEF Push, At, Teller, history
    <3> QED
      BY <3>2, <3>3
  <2>2. CASE Goto(c, "arm") /\ UNCHANGED <<mail, thread>>
    <3>1. Goes(c, {"arm"})
      BY <1>0, <2>2
    <3>2. Shaped' /\ Worker'
      BY <1>13, <2>2, <3>1, HubFrame DEF Watched, Waiting, Push, thread, history, Shaped
    <3>3. Owed'
      BY <1>13, <3>1, QuietFrame DEF Push, At, Teller, history
    <3> QED
      BY <3>2, <3>3
  <2> QED
    BY <1>13, <2>1, <2>2 DEF Push
<1>14. CASE HandOver(c)
  <2>1. CASE SetHandle(c, call[c].handle, "handing over", "tell")
    <3>1. Goes(c, {"handing over", "tell"})
      BY <2>1, SetHandleGoes
    <3>2. Shaped' /\ Worker'
      BY <1>14, <2>1, SetHandleKeeps DEF Waiting, HandOver, history
    <3>3. Owed'
      BY <3>1, TellerFrame DEF Goes, Teller
    <3> QED
      BY <3>2, <3>3
  <2>2. CASE Goto(c, "tell") /\ UNCHANGED <<mail, thread>>
    <3>1. Goes(c, {"tell"})
      BY <1>0, <2>2
    <3>2. Shaped' /\ Worker'
      BY <1>14, <2>2, <3>1, HubFrame DEF Watched, Waiting, HandOver, thread, history, Shaped
    <3>3. Owed'
      BY <3>1, TellerFrame DEF Goes, Teller
    <3> QED
      BY <3>2, <3>3
  <2> QED
    BY <1>14, <2>1, <2>2 DEF HandOver
<1>15. CASE ClearHandle(c)
  <2>1. CASE SetHandle(c, NoHandle, "clearing", "stop")
    <3>1. Goes(c, {"clearing", "stop"})
      BY <2>1, SetHandleGoes
    <3>2. Shaped' /\ Worker'
      BY <1>15, <2>1, SetHandleKeeps DEF Waiting, ClearHandle, history
    <3>3. Owed'
      BY <1>15, <3>1, QuietFrame DEF ClearHandle, At, Teller, history
    <3> QED
      BY <3>2, <3>3
  <2>2. CASE Goto(c, "stop") /\ UNCHANGED <<mail, thread>>
    <3>1. Goes(c, {"stop"})
      BY <1>0, <2>2
    <3>2. Shaped' /\ Worker'
      BY <1>15, <2>2, <3>1, HubFrame DEF Watched, Waiting, ClearHandle, thread, history, Shaped
    <3>3. Owed'
      BY <1>15, <3>1, QuietFrame DEF ClearHandle, At, Teller, history
    <3> QED
      BY <3>2, <3>3
  <2> QED
    BY <1>15, <2>1, <2>2 DEF ClearHandle
<1> QED
  BY <1>2, <1>3, <1>4, <1>5, <1>6, <1>7, <1>8, <1>9, <1>10, <1>11, <1>12, <1>13, <1>14, <1>15
     DEF HubStep

-----------------------------------------------------------------------------
(* The thread DO.                                                          *)

LEMMA ConnectGoes ==
    ASSUME Shaped, NEW c \in Calls, Connect(c)
    PROVE  /\ Goes(c, {"idle", "connect"})
           /\ call'[c].at = "connect"
                 => call'[c].handle = stored.handle /\ envKey' = stored.handle
           /\ \A d \in Calls \ {c} : call'[d].at = "connect"
                 => call'[d] = call[d] /\ envKey' = envKey
           /\ \A d \in Calls \ {c} : call'[d].at # "connect"
                 => call'[d] = call[d] \/ call'[d] = Cut(call[d])
<1>1. CASE stored.handle = NoHandle
  <2>1. Done(c) /\ UNCHANGED envKey
    BY <1>1 DEF Connect
  <2>2. \A d \in Calls \ {c} : call'[d] = call[d]
    BY <2>1 DEF Done, Shaped
  <2> QED
    BY <2>1, <2>2, DoneGoes DEF Goes
<1>2. CASE stored.handle # NoHandle
  <2> DEFINE calls == IF stored.handle = envKey THEN call ELSE Closed(call)
  <2>1. /\ DOMAIN calls = Calls
        /\ \A d \in Calls :
                 /\ {"at", "handle", "host"} \subseteq DOMAIN calls[d]
                 /\ calls[d] = call[d] \/ (At(d, "connect") /\ calls[d] = Cut(call[d]))
                 /\ calls[d].at = "connect" => stored.handle = envKey
    BY ClosedIs DEF Shaped
  <2>2. /\ call' = [calls EXCEPT ![c].at = "connect", ![c].handle = stored.handle]
        /\ envKey' = stored.handle
    BY <1>2 DEF Connect
  <2> HIDE DEF calls
  <2>3. Goes(c, {"idle", "connect"})
    BY <2>1, <2>2 DEF Goes
  <2>4. call'[c].handle = stored.handle
    BY <2>1, <2>2
  <2>5. \A d \in Calls \ {c} : call'[d] = calls[d]
    BY <2>1, <2>2
  <2> QED
    BY <2>1, <2>2, <2>3, <2>4, <2>5, CutIs DEF At
<1> QED
  BY <1>1, <1>2

LEMMA DisposalsFrame ==
    ASSUME IInv, NEW c \in Calls, NEW L, Goes(c, L), Dwindles,
           call'[c].at \in Waiting =>
              call'[c].host \in HostIds /\ hosts'[call'[c].host].at \in {"closing", "gone"}
    PROVE  Disposals'
<1>1. \A d \in Calls \ {c} : call'[d].at \in Waiting => call'[d] = call[d]
  BY CutIs DEF IInv, Goes, Waiting
<1>2. \A d \in Calls \ {c} : call'[d].at \in Waiting =>
         call'[d].host \in HostIds /\ hosts'[call'[d].host].at \in {"closing", "gone"}
  BY <1>1 DEF IInv, Worker, Disposals, Dwindles
<1> QED
  BY <1>2 DEF Disposals

LEMMA CurrentFrame ==
    ASSUME IInv, Dwindles, UNCHANGED <<host, orphaned>>
    PROVE  Current'
<1>1. Current
  BY DEF IInv, Worker
<1>2. \A i \in HostIds : hosts'[i].running => hosts'[i].at = "live"
  BY <1>1 DEF Current, Dwindles
<1>3. \A i \in HostIds : hosts'[i].at = "live" => orphaned \/ i = host
  BY <1>1 DEF Current, Dwindles
<1> QED
  BY <1>2, <1>3 DEF Current

LEMMA ClearIs ==
    ASSUME IInv, NEW c \in Calls, call[c].at \in Waiting, Clear(c)
    PROVE  Dwindles /\ Current' /\ host' = 0
<1>1. Dwindles
  BY DisposeDwindles DEF IInv, Worker, Disposals, Clear
<1>2. Current
  BY DEF IInv, Worker
<1>3. \A i \in HostIds : hosts'[i].running => hosts'[i].at = "live"
  BY <1>1, <1>2 DEF Current, Dwindles
<1>4. ASSUME NEW i \in HostIds, hosts'[i].at = "live" PROVE orphaned' \/ i = host'
  <2>1. i # 0
    BY DEF HostIds
  <2>2. i \in Orphans(Disposed(call[c].host), 0)
    BY <1>4, <2>1 DEF Orphans, Clear
  <2> QED
    BY <2>2 DEF Clear
<1> QED
  BY <1>1, <1>3, <1>4 DEF Current, Clear

LEMMA WorkerQuiet ==
    ASSUME IInv, NEW c \in Calls, NEW L, Goes(c, L), ~Teller(call[c]),
           UNCHANGED <<rec, seen, told, applying, missed>>
    PROVE  Owed' /\ DOMAIN applying' = Slots
BY QuietFrame DEF IInv, Shaped

LEMMA CreateWorkerKeeps == ASSUME IInv, NEW c \in Calls, CreateWorker(c) PROVE IInv'
<1> USE DEF IInv
<1>1. Goes(c, {"created"}) \/ Goes(c, {"create failed"})
  BY GotoGoes DEF CreateWorker
<1>2. /\ {"rec", "sid", "auto", "handle", "trail"} \subseteq DOMAIN stored'
      /\ stored'.handle = stored.handle
  BY DEF CreateWorker, Shaped
<1>3. Shaped'
  BY <1>1, <1>2 DEF CreateWorker, Shaped, Goes
<1>4. \A d \in Calls, l \in Watched : call'[d].at = l => call[d].at = l /\ call'[d] = call[d]
  BY <1>1, CutIs DEF Goes, Watched, Waiting
<1>5. ~gone
  BY DEF CreateWorker, Worker, Creating
<1>6. UNCHANGED <<hosts, host, envKey, orphaned, gone>>
  BY DEF CreateWorker, history
<1>7. Current' /\ Keyed'
  BY <1>2, <1>4, <1>6 DEF Worker, Current, Keyed, At, Watched
<1>8. Emptied' /\ Creating'
  BY <1>4, <1>5, <1>6 DEF Worker, Emptied, Creating, At, Watched, Waiting
<1>9. Disposals'
  BY <1>4, <1>6 DEF Worker, Disposals, Watched
<1>10. Owed'
  BY <1>1, TellerFrame DEF Goes, Teller
<1> QED
  BY <1>3, <1>7, <1>8, <1>9, <1>10 DEF Worker

LEMMA DeleteHostKeeps == ASSUME IInv, NEW c \in Calls, DeleteHost(c) PROVE IInv'
<1> USE DEF IInv
<1>1. Goes(c, {"deleting"}) /\ call'[c].host = host
  BY DEF DeleteHost, Goes, Shaped
<1>2. \A d \in Calls \ {c} : call'[d] = call[d]
  BY DEF DeleteHost, Shaped
<1>3. host \in HostIds /\ hosts' = Disposing(host)
  BY DEF DeleteHost, Shaped
<1>4. Dwindles
  BY <1>3, DisposeDwindles DEF Worker
<1>5. UNCHANGED <<rec, seen, told, applying, stored, envKey, host, gone, orphaned, late, missed>>
  BY DEF DeleteHost, history
<1>6. Shaped'
  BY <1>1, <1>4, <1>5 DEF Shaped, Goes, Dwindles
<1>7. Current'
  BY <1>4, <1>5, CurrentFrame
<1>8. Keyed'
  BY <1>1, <1>2, <1>4, <1>5 DEF Worker, Keyed, At, Goes, Dwindles, Shaped
<1>9. Emptied' /\ Creating'
  BY <1>1, <1>2, <1>5 DEF Worker, Emptied, Creating, At, Goes, DeleteHost, Deletes
<1>10. Disposals'
  <2>1. hosts'[host].at = "closing"
    BY <1>3 DEF Disposing, Shaped
  <2> QED
    BY <1>1, <1>3, <1>4, <2>1, DisposalsFrame
<1>11. Owed'
  BY <1>1, <1>5, QuietFrame DEF DeleteHost, Deletes, At, Teller
<1> QED
  BY <1>6, <1>7, <1>8, <1>9, <1>10, <1>11 DEF Worker

LEMMA DeleteAllKeeps == ASSUME IInv, NEW c \in Calls, DeleteAll(c) PROVE IInv'
<1> USE DEF IInv
<1>1. /\ Goes(c, {"release"})
      /\ \A d \in Calls \ {c} : /\ call'[d].at # "connect"
                                /\ call'[d] = call[d] \/ call'[d] = Cut(call[d])
  <2> DEFINE calls == Closed(call)
  <2>1. /\ DOMAIN calls = Calls
        /\ \A d \in Calls :
                 /\ {"at", "handle", "host"} \subseteq DOMAIN calls[d]
                 /\ calls[d] = call[d] \/ (At(d, "connect") /\ calls[d] = Cut(call[d]))
                 /\ calls[d].at # "connect"
    BY ClosedIs
  <2>2. call' = [calls EXCEPT ![c].at = "release"]
    BY DEF DeleteAll
  <2> HIDE DEF calls
  <2> QED
    BY <2>1, <2>2 DEF Goes
<1>2. Dwindles /\ Current' /\ host' = 0
  <2>1. CASE Deletes(c) /\ host = 0 /\ UNCHANGED <<hosts, host, orphaned>>
    <3>1. Dwindles
      BY <2>1 DEF Dwindles, Shaped
    <3> QED
      BY <2>1, <3>1, CurrentFrame
  <2>2. CASE At(c, "deleting") /\ Clear(c)
    BY <2>2, ClearIs DEF At, Waiting
  <2> QED
    BY <2>1, <2>2 DEF DeleteAll
<1>3. UNCHANGED <<rec, seen, told, applying, envKey, missed>> /\ stored' = Blank
  BY DEF DeleteAll
<1>4. Shaped'
  BY <1>1, <1>2, <1>3 DEF Shaped, Goes, Dwindles, Blank
<1>5. Keyed'
  BY <1>1, <1>2 DEF Keyed, At, Goes
<1>6. Emptied'
  <2>1. ~late' => \A d \in Calls : ~At(d, "rebuild")
    BY DEF DeleteAll
  <2>2. ~stored'.rec /\ ~stored'.trail
    BY <1>3 DEF Blank
  <2>3. ~late' => \A d \in Calls : call'[d].at # "connect" /\ call'[d].at # "rebuild"
    BY <1>1, <2>1, CutIs DEF At, Goes
  <2> QED
    BY <1>2, <2>2, <2>3 DEF Emptied, At
<1>7. Creating'
  <2>1. \A d \in Calls : ~At(d, "create")
    BY DEF DeleteAll, Deletes, Worker, Creating
  <2> QED
    BY <1>1, <2>1, CutIs DEF Creating, At, Goes
<1>8. Disposals'
  BY <1>1, <1>2, DisposalsFrame DEF Goes, Waiting
<1>9. Owed'
  <2>1. ~Teller(call[c])
    BY DEF DeleteAll, Deletes, At, Teller
  <2> QED
    BY <1>1, <1>3, <2>1, QuietFrame
<1> QED
  BY <1>2, <1>4, <1>5, <1>6, <1>7, <1>8, <1>9 DEF Worker

LEMMA HandleSetKeeps == ASSUME IInv, NEW c \in Calls, HandleSet(c) PROVE IInv'
<1> USE DEF IInv
<1>0. call[c].at \in Waiting /\ ~At(c, "connect") /\ ~At(c, "create")
  BY DEF HandleSet, Waiting, At
<1>1. /\ Goes(c, {"arm", "tell", "stop"})
      /\ \A d \in Calls \ {c} : call'[d] = call[d]
      /\ Teller(call[c]) => Teller(call'[c])
  <2>1. call'[c] = AfterFailure(call[c]) /\ \A d \in Calls \ {c} : call'[d] = call[d]
    BY DEF HandleSet, Shaped
  <2>2. AfterFailure(call[c]).at \in {"arm", "tell", "stop"}
    <3>1. \E l \in {"arm", "tell", "stop"} : AfterFailure(call[c]) = [call[c] EXCEPT !.at = l]
      BY DEF HandleSet, AfterFailure
    <3> QED
      BY <3>1 DEF Shaped
  <2>3. Teller(call[c]) => Teller(AfterFailure(call[c]))
    BY AfterFailureIs DEF Shaped
  <2>4. {"at", "handle", "host"} \subseteq DOMAIN AfterFailure(call[c])
    BY AfterFailureIs DEF Shaped
  <2>5. DOMAIN call' = Calls
    BY DEF HandleSet, Shaped
  <2> QED
    BY <2>1, <2>2, <2>3, <2>4, <2>5 DEF Goes, Shaped, Teller
<1>2. Dwindles /\ Current' /\ host' = 0
  BY <1>0, ClearIs DEF HandleSet
<1>3. UNCHANGED <<rec, seen, told, applying, stored, envKey, gone, late, missed>>
  BY DEF HandleSet
<1>4. Shaped'
  BY <1>1, <1>2, <1>3 DEF Shaped, Goes, Dwindles
<1>5. Keyed'
  BY <1>1, <1>2, <1>3 DEF Worker, Keyed, At, Goes
<1>6. orphaned => orphaned'
  BY DEF HandleSet, Clear
<1>7. Emptied' /\ Creating'
  BY <1>1, <1>2, <1>3, <1>6 DEF Worker, Emptied, Creating, At, Goes
<1>8. Disposals'
  BY <1>1, <1>2, DisposalsFrame DEF Goes, Waiting
<1>9. Owed'
  <2>1. View' = View
    BY <1>3 DEF View
  <2>2. \A d \in Calls : Teller(call[d]) => Teller(call'[d])
    BY <1>1 DEF Teller
  <2> QED
    BY <1>3, <2>1, <2>2 DEF Owed
<1> QED
  BY <1>2, <1>4, <1>5, <1>7, <1>8, <1>9 DEF Worker

LEMMA CommandOnHostKeeps == ASSUME IInv, NEW c \in Calls, CommandOnHost(c) PROVE IInv'
<1> USE DEF IInv
<1>1. Goes(c, {"idle"})
  BY DoneGoes DEF CommandOnHost
<1>2. \A d \in Calls, l \in Watched : call'[d].at = l => call[d].at = l /\ call'[d] = call[d]
  BY <1>1, CutIs DEF Goes, Watched, Waiting
<1>3. /\ UNCHANGED <<rec, seen, told, applying, envKey, host, gone, orphaned, late, missed>>
      /\ host \in HostIds /\ stored.rec
  BY DEF CommandOnHost, history, Shaped
<1>4. /\ {"rec", "sid", "auto", "handle", "trail"} \subseteq DOMAIN stored'
      /\ stored'.handle = stored.handle
  BY DEF CommandOnHost, Shaped
<1>5. /\ DOMAIN hosts' = HostIds
      /\ \A i \in HostIds : /\ {"at", "env", "running", "cut"} \subseteq DOMAIN hosts'[i]
                            /\ hosts'[i].at = hosts[i].at /\ hosts'[i].env = hosts[i].env
                            /\ hosts'[i].cut = hosts[i].cut
                            /\ hosts'[i].running => hosts[i].running \/ hosts[i].at = "live"
  <2>1. CASE hosts' = hosts
    BY <2>1 DEF Shaped
  <2>2. CASE hosts' = [hosts EXCEPT ![host].running = TRUE] /\ hosts[host].at = "live"
    BY <1>3, <2>2 DEF Shaped
  <2> QED
    BY <2>1, <2>2 DEF CommandOnHost, Act
<1>6. Shaped'
  BY <1>1, <1>3, <1>4, <1>5 DEF Shaped, Goes
<1>7. Current'
  BY <1>3, <1>5 DEF Worker, Current
<1>8. Keyed'
  BY <1>2, <1>3, <1>4, <1>5 DEF Worker, Keyed, At, Watched
<1>9. Emptied' /\ Creating'
  BY <1>2, <1>3 DEF Worker, Emptied, Creating, At, Watched, Waiting
<1>10. Disposals'
  <2>1. \A d \in Calls : call'[d].at \in Waiting => call'[d] = call[d] /\ call[d].at \in Waiting
    BY <1>2 DEF Watched
  <2> QED
    BY <1>5, <2>1 DEF Worker, Disposals
<1>11. Owed'
  BY <1>1, <1>3, QuietFrame DEF CommandOnHost, At, Teller
<1> QED
  BY <1>6, <1>7, <1>8, <1>9, <1>10, <1>11 DEF Worker

LEMMA CommandNeedsHostKeeps == ASSUME IInv, NEW c \in Calls, CommandNeedsHost(c) PROVE IInv'
<1> USE DEF IInv
<1>1. /\ Goes(c, {"idle", "connect"})
      /\ call'[c].at = "connect" => call'[c].handle = stored.handle /\ envKey' = stored.handle
      /\ \A d \in Calls \ {c} : call'[d].at = "connect" => call'[d] = call[d] /\ envKey' = envKey
      /\ \A d \in Calls \ {c} : call'[d].at # "connect"
            => call'[d] = call[d] \/ call'[d] = Cut(call[d])
  BY ConnectGoes DEF CommandNeedsHost
<1>2. /\ UNCHANGED <<rec, seen, told, applying, stored, host, hosts, gone, orphaned, late, missed>>
      /\ stored.rec /\ host = 0
  BY DEF CommandNeedsHost, history
<1>3. Dwindles
  BY <1>2 DEF Shaped, Dwindles
<1>4. Shaped'
  BY <1>1, <1>2 DEF Shaped, Goes
<1>5. Current'
  BY <1>2, <1>3, CurrentFrame
<1>6. Keyed'
  BY <1>1, <1>2 DEF Worker, Keyed, At
<1>7. Emptied' /\ Creating'
  BY <1>1, <1>2, CutIs DEF Worker, Emptied, Creating, At, Goes
<1>8. Disposals'
  BY <1>1, <1>3, DisposalsFrame DEF Goes, Waiting
<1>9. Owed'
  BY <1>1, <1>2, QuietFrame DEF CommandNeedsHost, At, Teller
<1> QED
  BY <1>4, <1>5, <1>6, <1>7, <1>8, <1>9 DEF Worker

LEMMA CommandOnCrashedKeeps == ASSUME IInv, NEW c \in Calls, CommandOnCrashed(c) PROVE IInv'
<1> USE DEF IInv
<1>1. Goes(c, {"rebuild"}) /\ call'[c].host = host
  BY DEF CommandOnCrashed, Goes, Shaped
<1>2. \A d \in Calls \ {c} : call'[d] = call[d]
  BY DEF CommandOnCrashed, Shaped
<1>3. host \in HostIds /\ hosts' = Disposing(host) /\ stored.rec
  BY DEF CommandOnCrashed, Shaped
<1>4. Dwindles
  BY <1>3, DisposeDwindles DEF Worker
<1>5. UNCHANGED <<rec, seen, told, applying, stored, envKey, host, gone, orphaned, late, missed>>
  BY DEF CommandOnCrashed, history
<1>6. Shaped'
  BY <1>1, <1>4, <1>5 DEF Shaped, Goes, Dwindles
<1>7. Current'
  BY <1>4, <1>5, CurrentFrame
<1>8. Keyed'
  BY <1>1, <1>2, <1>4, <1>5 DEF Worker, Keyed, At, Goes, Dwindles, Shaped
<1>9. Emptied' /\ Creating'
  BY <1>1, <1>2, <1>3, <1>5 DEF Worker, Emptied, Creating, At, Goes
<1>10. Disposals'
  <2>1. hosts'[host].at = "closing"
    BY <1>3 DEF Disposing, Shaped
  <2> QED
    BY <1>1, <1>3, <1>4, <2>1, DisposalsFrame
<1>11. Owed'
  BY <1>1, <1>5, QuietFrame DEF CommandOnCrashed, At, Teller
<1> QED
  BY <1>6, <1>7, <1>8, <1>9, <1>10, <1>11 DEF Worker

LEMMA RebuildKeeps == ASSUME IInv, NEW c \in Calls, Rebuild(c) PROVE IInv'
<1> USE DEF IInv
<1>1. /\ Goes(c, {"idle", "connect"})
      /\ call'[c].at = "connect" => call'[c].handle = stored.handle /\ envKey' = stored.handle
      /\ \A d \in Calls \ {c} : call'[d].at = "connect" => call'[d] = call[d] /\ envKey' = envKey
      /\ \A d \in Calls \ {c} : call'[d].at # "connect"
            => call'[d] = call[d] \/ call'[d] = Cut(call[d])
  BY ConnectGoes DEF Rebuild
<1>2. Dwindles /\ Current' /\ host' = 0
  BY ClearIs DEF Rebuild, Waiting, At
<1>3. UNCHANGED <<rec, seen, told, applying, stored, gone, late, missed>>
  BY DEF Rebuild
<1>4. Shaped'
  BY <1>1, <1>2, <1>3 DEF Shaped, Goes, Dwindles
<1>5. Keyed'
  BY <1>1, <1>2, <1>3 DEF Worker, Keyed, At
<1>6. orphaned => orphaned'
  BY DEF Rebuild, Clear
<1>7. Emptied' /\ Creating'
  BY <1>1, <1>3, <1>6, CutIs DEF Worker, Emptied, Creating, At, Goes, Rebuild
<1>8. Disposals'
  BY <1>1, <1>2, DisposalsFrame DEF Goes, Waiting
<1>9. Owed'
  BY <1>1, <1>3, QuietFrame DEF Rebuild, At, Teller
<1> QED
  BY <1>2, <1>4, <1>5, <1>7, <1>8, <1>9 DEF Worker

LEMMA ConnectedKeeps == ASSUME IInv, NEW c \in Calls, Connected(c) PROVE IInv'
<1> USE DEF IInv
<1>1. Goes(c, {"idle"})
  BY DoneGoes DEF Connected
<1>2. \A d \in Calls, l \in Watched : call'[d].at = l => call[d].at = l /\ call'[d] = call[d]
  BY <1>1, CutIs DEF Goes, Watched, Waiting
<1>3. PICK i \in HostIds :
         LET hs == [hosts EXCEPT ![i] = [at |-> "live", env |-> call[c].handle,
                                         running |-> call[c].kind = "prompt",
                                         cut |-> At(c, "cut")]]
         IN /\ hosts[i].at = "unborn" /\ hosts' = hs /\ host' = i
            /\ orphaned' = (orphaned \/ Orphans(hs, i) # {})
  BY DEF Connected
<1>4. /\ UNCHANGED <<rec, seen, told, applying, envKey, gone, missed>>
      /\ At(c, "connect") \/ At(c, "cut")
      /\ At(c, "connect") => call[c].handle = stored.handle /\ envKey = stored.handle
  BY DEF Connected, Worker, Keyed
<1>5. /\ {"rec", "sid", "auto", "handle", "trail"} \subseteq DOMAIN stored'
      /\ stored'.handle = stored.handle
  BY DEF Connected, Shaped
<1>6. /\ DOMAIN hosts' = HostIds
      /\ {"at", "env", "running", "cut"} \subseteq DOMAIN hosts'[i]
      /\ hosts'[i].at = "live" /\ hosts'[i].env = call[c].handle
      /\ hosts'[i].cut = At(c, "cut")
      /\ \A j \in HostIds \ {i} : hosts'[j] = hosts[j]
  BY <1>3 DEF Shaped
<1>7. Shaped'
  BY <1>1, <1>3, <1>4, <1>5, <1>6 DEF Shaped, Goes
<1>8. Current'
  <2>1. \A j \in HostIds : hosts'[j].running => hosts'[j].at = "live"
    BY <1>6 DEF Worker, Current
  <2>2. ASSUME NEW j \in HostIds, hosts'[j].at = "live" PROVE orphaned' \/ j = host'
    <3>1. CASE j = i
      BY <1>3, <3>1
    <3>2. CASE j # i
      <4>1. j \in Orphans(hosts', i)
        BY <2>2, <3>2 DEF Orphans
      <4> QED
        BY <1>3, <4>1
    <3> QED
      BY <3>1, <3>2
  <2> QED
    BY <2>1, <2>2 DEF Current
<1>9. Keyed'
  <2>1. CASE At(c, "connect")
    BY <1>2, <1>3, <1>4, <1>5, <1>6, <2>1 DEF Worker, Keyed, At, Watched
  <2>2. CASE At(c, "cut")
    <3>1. hosts'[host'].cut
      BY <1>3, <1>6, <2>2
    <3>2. \A d \in Calls : call'[d].at = "connect" =>
             call'[d].handle = stored'.handle /\ envKey' = stored'.handle
      BY <1>2, <1>4, <1>5 DEF Worker, Keyed, At, Watched
    <3> QED
      BY <3>1, <3>2 DEF Keyed, At
  <2> QED
    BY <1>4, <2>1, <2>2
<1>10. orphaned => orphaned'
  BY <1>3
<1>11. Emptied' /\ Creating'
  <2>1. gone' => orphaned' \/ late'
    <3>0. (late => late') /\ (gone /\ At(c, "cut") => late')
      BY Zenon DEF Connected
    <3>1. CASE At(c, "connect")
      BY <1>4, <1>10, <3>0, <3>1 DEF Worker, Emptied
    <3>2. CASE At(c, "cut")
      BY <1>4, <3>0, <3>2
    <3> QED
      BY <1>4, <3>1, <3>2
  <2>2. Creating'
    BY <1>2, <1>4 DEF Worker, Creating, At, Watched, Waiting
  <2> QED
    BY <2>1, <2>2 DEF Emptied
<1>12. Disposals'
  <2>1. \A d \in Calls : call'[d].at \in Waiting => call'[d] = call[d] /\ call[d].at \in Waiting
    BY <1>2 DEF Watched
  <2> QED
    BY <1>3, <1>6, <2>1 DEF Worker, Disposals
<1>13. Owed'
  BY <1>1, <1>4, QuietFrame DEF Connected, At, Teller
<1> QED
  BY <1>7, <1>8, <1>9, <1>11, <1>12, <1>13 DEF Worker

LEMMA WorkerStepKeeps == ASSUME IInv, NEW c \in Calls, WorkerStep(c) PROVE IInv'
<1> USE DEF IInv
<1>1. Done(c) => Goes(c, {"idle"})
  BY DoneGoes
<1>2. CASE CommandAnswered(c)
  <2>1. Shaped' /\ Worker'
    BY <1>1, <1>2, HubFrame DEF Watched, Waiting, CommandAnswered, thread, history, Shaped
  <2>2. Owed'
    BY <1>1, <1>2, QuietFrame DEF CommandAnswered, At, Teller, history
  <2> QED
    BY <2>1, <2>2
<1>3. CASE ConnectFails(c)
  <2>1. Shaped' /\ Worker'
    BY <1>1, <1>3, HubFrame DEF Watched, Waiting, ConnectFails, thread, history, Shaped
  <2>2. Owed'
    BY <1>1, <1>3, QuietFrame DEF ConnectFails, At, Teller, history
  <2> QED
    BY <2>1, <2>2
<1> QED
  BY <1>2, <1>3, CreateWorkerKeeps, DeleteHostKeeps, DeleteAllKeeps, HandleSetKeeps,
     CommandOnHostKeeps, CommandNeedsHostKeeps, CommandOnCrashedKeeps, RebuildKeeps,
     ConnectedKeeps DEF WorkerStep

-----------------------------------------------------------------------------
(* Runs, reports, faults.                                                  *)

\* Steps that leave the calls and the storage's handle alone.
LEMMA CallFrame ==
    ASSUME IInv, UNCHANGED <<call, envKey, host, gone, orphaned, late>>, Dwindles,
           {"rec", "sid", "auto", "handle", "trail"} \subseteq DOMAIN stored',
           stored'.handle = stored.handle,
           gone /\ ~orphaned /\ ~late => stored'.rec = stored.rec /\ stored'.trail = stored.trail,
           DOMAIN applying' = Slots
    PROVE  Shaped' /\ Worker'
<1> USE DEF IInv
<1>1. Shaped'
  BY DEF Shaped, Dwindles
<1>2. Current'
  BY CurrentFrame
<1>3. Keyed'
  BY DEF Shaped, Worker, Keyed, Dwindles, At
<1>4. Emptied' /\ Creating'
  BY DEF Worker, Emptied, Creating, At
<1>5. Disposals'
  BY DEF Worker, Disposals, Dwindles
<1> QED
  BY <1>1, <1>2, <1>3, <1>4, <1>5 DEF Worker

LEMMA RunKeeps == ASSUME IInv, NEW i \in HostIds, RunEnds(i) \/ RunCrashes(i) PROVE IInv'
<1> USE DEF IInv
<1>1. hosts[i].running /\ hosts[i].at = "live"
  BY DEF RunEnds, RunCrashes, Worker, Current
<1>2. UNCHANGED <<rec, seen, told, call, applying, envKey, host, gone, orphaned, late, missed>>
  BY DEF RunEnds, RunCrashes, hub, history
<1>3. /\ {"rec", "sid", "auto", "handle", "trail"} \subseteq DOMAIN stored'
      /\ stored'.handle = stored.handle
  BY DEF RunEnds, RunCrashes, Shaped
<1>4. /\ DOMAIN hosts' = HostIds
      /\ \A j \in HostIds \ {i} : hosts'[j] = hosts[j]
      /\ {"at", "env", "running", "cut"} \subseteq DOMAIN hosts'[i]
      /\ hosts'[i].at \in {"live", "crashed"} /\ hosts'[i].env = hosts[i].env
      /\ hosts'[i].cut = hosts[i].cut
      /\ ~hosts'[i].running
  BY <1>1 DEF RunEnds, RunCrashes, Shaped
<1>5. ~(gone /\ ~orphaned /\ ~late)
  BY <1>1 DEF Worker, Current, Emptied, HostIds
<1>6. Shaped'
  BY <1>2, <1>3, <1>4 DEF Shaped
<1>7. Current'
  BY <1>1, <1>2, <1>4 DEF Worker, Current
<1>8. Keyed'
  BY <1>1, <1>2, <1>3, <1>4 DEF Worker, Keyed, At, Shaped
<1>9. Emptied' /\ Creating'
  BY <1>2, <1>5 DEF Worker, Emptied, Creating, At
<1>10. Disposals'
  BY <1>1, <1>2, <1>4 DEF Worker, Disposals
<1>11. Owed'
  BY <1>2 DEF Owed, View, Teller
<1> QED
  BY <1>6, <1>7, <1>8, <1>9, <1>10, <1>11 DEF Worker

LEMMA ReportKeeps == ASSUME Typed, IInv, NEW p, Report(p) PROVE IInv'
<1> USE DEF IInv
<1>1. UNCHANGED <<call, stored, envKey, host, hosts, gone, orphaned, late, missed>>
  BY DEF Report, thread, history
<1>2. DOMAIN applying' = Slots
  BY DEF Report, Shaped
<1>3. Shaped' /\ Worker'
  BY <1>1, <1>2, CallFrame DEF Shaped, Dwindles
<1>4. CASE rec = NoRecord \/ rec' = NoRecord
  <2>1. rec' = NoRecord
    BY <1>4 DEF Report, Patched
  <2> QED
    BY <1>3, <2>1, ToldFrame
<1>5. CASE rec # NoRecord /\ rec' # NoRecord /\ View' = View
  <2>1. told' = told
    BY <1>5 DEF Report, View
  <2>2. \A s \in Slots : applying[s] # NoRecord => applying'[s] = applying[s]
    BY DEF Report, Shaped
  <2>3. Owed'
    BY <1>1, <1>5, <2>1, <2>2 DEF Owed, Teller
  <2> QED
    BY <1>3, <2>3
<1>6. CASE rec # NoRecord /\ rec' # NoRecord /\ View' # View
  <2>1. CASE CallsWorker(p)
    <3>1. View \in Infos
      BY <1>6 DEF Typed, Records, View, InfoOf, Infos
    <3>2. PICK s \in Slots : applying' = [applying EXCEPT ![s] = View]
      BY <1>6, <2>1 DEF Report
    <3>3. applying'[s] = View
      BY <3>2 DEF Shaped
    <3>4. Owed'
      BY <1>6, <3>1, <3>3, DeploymentAssumption DEF Owed
    <3> QED
      BY <1>3, <3>4
  <2>2. CASE ~CallsWorker(p)
    <3>1. told' = View'
      BY <1>6, <2>2 DEF Report, View
    <3> QED
      BY <1>3, <3>1, ToldFrame
  <2> QED
    BY <2>1, <2>2
<1> QED
  BY <1>4, <1>5, <1>6

LEMMA AppliedKeeps == ASSUME Typed, IInv, NEW s \in Slots, Applied(s) \/ ApplyFails(s) PROVE IInv'
<1> USE DEF IInv
<1>1. UNCHANGED <<rec, seen, call, stored, envKey, host, hosts, gone, orphaned, late>>
  BY DEF Applied, ApplyFails, thread, history
<1>2. applying' = [applying EXCEPT ![s] = NoRecord]
  BY DEF Applied, ApplyFails
<1>3. Shaped' /\ Worker'
  BY <1>1, <1>2, CallFrame DEF Shaped, Dwindles
<1>4. CASE ApplyFails(s)
  BY <1>3, <1>4 DEF ApplyFails, Owed
<1>5. CASE Applied(s) /\ View \notin {NoRecord, applying[s]}
  <2>1. told' = View'
    BY <1>5 DEF Applied, View
  <2> QED
    BY <1>3, <2>1, ToldFrame
<1>6. CASE Applied(s) /\ View = NoRecord /\ rec # NoRecord
  <2>1. View \in Infos
    BY <1>6 DEF Typed, Records, View, InfoOf, Infos
  <2> QED
    BY <1>6, <2>1, DeploymentAssumption
<1>7. CASE Applied(s) /\ View = applying[s] /\ rec # NoRecord
  <2>1. UNCHANGED <<told, missed>> /\ View' = View
    BY <1>7 DEF Applied, View, history
  <2>2. \A t \in Slots : applying[t] \notin {NoRecord, View} => applying'[t] = applying[t]
    BY <1>2, <1>7 DEF Shaped
  <2>3. Owed'
    BY <1>1, <2>1, <2>2 DEF Owed, Teller
  <2> QED
    BY <1>3, <2>3
<1>8. CASE rec = NoRecord
  BY <1>1, <1>3, <1>8, ToldFrame
<1> QED
  BY <1>4, <1>5, <1>6, <1>7, <1>8

LEMMA EvictKeeps == ASSUME IInv, Evict PROVE IInv'
<1> USE DEF IInv
<1>1. /\ UNCHANGED <<rec, seen, told, applying, stored, gone, orphaned, late, missed>>
      /\ host' = 0
  BY DEF Evict
<1>2. /\ DOMAIN call' = Calls
      /\ \A c \in Calls : call'[c] = AfterFailure(call[c])
  BY DEF Evict
<1>3. \A c \in Calls : /\ {"at", "handle", "host"} \subseteq DOMAIN call'[c]
                       /\ call'[c].at \notin {"connect", "rebuild", "deleting"}
                       /\ call'[c].at = "create" => call[c].at = "create"
                       /\ Teller(call[c]) => Teller(call'[c])
  <2> SUFFICES ASSUME NEW c \in Calls
               PROVE  LET y == AfterFailure(call[c]) IN
                      /\ {"at", "handle", "host"} \subseteq DOMAIN y
                      /\ y.at \notin {"connect", "rebuild", "deleting"}
                      /\ y.at = "create" => call[c].at = "create"
                      /\ Teller(call[c]) => Teller(y)
    BY <1>2 DEF Teller
  <2>1. {"at", "handle", "host"} \subseteq DOMAIN call[c]
    BY DEF Shaped
  <2> QED
    BY <2>1, AfterFailureIs
<1>4. \A c \in Calls : call'[c].at \notin Waiting
  <2>1. ASSUME NEW c \in Calls, call[c].at \in {"pushing", "handing over", "clearing"}
        PROVE  call'[c].at \notin Waiting
    <3>1. \E l \in {"arm", "tell", "stop"} : AfterFailure(call[c]) = [call[c] EXCEPT !.at = l]
      BY <2>1 DEF AfterFailure
    <3> QED
      BY <1>2, <3>1 DEF Shaped, Waiting
  <2>2. ASSUME NEW c \in Calls, call[c].at \notin {"pushing", "handing over", "clearing"},
               call[c].at \in {"deleting", "connect", "cut", "rebuild"}
        PROVE  call'[c].at \notin Waiting
    <3>1. AfterFailure(call[c]) = [call[c] EXCEPT !.at = "release"] \/ AfterFailure(call[c]) = Idle
      BY <2>2 DEF AfterFailure
    <3> QED
      BY <1>2, <3>1, IdleIs DEF Shaped, Waiting
  <2>3. ASSUME NEW c \in Calls, call[c].at \notin Waiting \cup {"connect", "cut"}
        PROVE  call'[c].at \notin Waiting
    <3>1. AfterFailure(call[c]) = call[c]
      BY <2>3 DEF AfterFailure, Waiting
    <3> QED
      BY <1>2, <2>3, <3>1
  <2> QED
    BY <2>1, <2>2, <2>3 DEF Waiting
<1>5. /\ DOMAIN hosts' = HostIds
      /\ \A i \in HostIds : /\ {"at", "env", "running", "cut"} \subseteq DOMAIN hosts'[i]
                            /\ ~hosts'[i].running \/ hosts'[i] = hosts[i]
                            /\ hosts'[i].at # "live"
  <2>1. ASSUME NEW i \in HostIds
        PROVE  /\ {"at", "env", "running", "cut"} \subseteq DOMAIN hosts'[i]
               /\ ~hosts'[i].running \/ hosts'[i] = hosts[i]
               /\ hosts'[i].at # "live"
    <3>1. CASE hosts[i].at = "unborn"
      BY <3>1 DEF Evict, Shaped
    <3>2. CASE hosts[i].at # "unborn"
      <4>1. hosts'[i] = [hosts[i] EXCEPT !.at = "gone", !.running = FALSE]
        BY <3>2 DEF Evict
      <4> QED
        BY <4>1 DEF Shaped
    <3> QED
      BY <3>1, <3>2
  <2> QED
    BY <2>1 DEF Evict
<1>6. Shaped'
  BY <1>1, <1>2, <1>3, <1>5 DEF Shaped
<1>7. Current'
  <2>1. ASSUME NEW i \in HostIds PROVE ~hosts'[i].running
    <3>1. hosts[i].running => hosts[i].at = "live"
      BY DEF Worker, Current
    <3> QED
      BY <1>5, <3>1
  <2> QED
    BY <1>5, <2>1 DEF Current
<1>8. Keyed' /\ Emptied' /\ Creating'
  BY <1>1, <1>3 DEF Worker, Keyed, Emptied, Creating, At
<1>9. Disposals'
  BY <1>4 DEF Disposals
<1>10. Owed'
  BY <1>1, <1>3 DEF Owed, View
<1> QED
  BY <1>6, <1>7, <1>8, <1>9, <1>10 DEF Worker

-----------------------------------------------------------------------------
(* The record the hub keeps stays a record.                                *)

LEMMA TypedKept == ASSUME Typed, [Next]_vars PROVE Typed'
<1> USE DEF Typed
<1>1. CASE UNCHANGED vars
  BY <1>1 DEF vars, hub
<1>2. ASSUME NEW c \in Calls, NEW k \in Kinds, Begin(c, k) PROVE Typed'
  <2>1. seen' = seen
    BY <1>2 DEF Begin, Now
  <2>2. CASE rec = NoRecord
    <3>1. rec' = Fresh
      BY <1>2, <2>2 DEF Begin
    <3> QED
      BY <2>1, <3>1 DEF Fresh, Records
  <2>3. CASE rec # NoRecord
    <3>1. rec \in Records
      BY <2>3
    <3>2. \/ rec' = rec
          \/ rec' = [rec EXCEPT !.name = "user", !.auto = FALSE]
          \/ rec' = [rec EXCEPT !.archived = TRUE]
          \/ rec' = [rec EXCEPT !.archived = FALSE]
      BY <1>2, <2>3 DEF Begin, Now
    <3> QED
      BY <2>1, <3>1, <3>2 DEF Records
  <2> QED
    BY <2>2, <2>3
<1>3. ASSUME NEW c \in Calls,
             CreateFails(c) \/ Deleted(c) \/ Ensure(c) \/ EnsureFails(c) \/ Stopped(c)
      PROVE  Typed'
  <2>1. seen' = seen
    BY <1>3 DEF CreateFails, Deleted, Ensure, EnsureFails, Stopped
  <2>2. \/ rec' \in {rec, NoRecord}
        \/ /\ rec \in Records
           /\ \/ \E h \in Handles : rec' = [rec EXCEPT !.handle = h, !.env = "ready"]
              \/ rec' = [rec EXCEPT !.env = "error"]
              \/ rec' = [rec EXCEPT !.env = "stopped"]
    BY <1>3 DEF CreateFails, Deleted, Ensure, EnsureFails, Stopped
  <2> QED
    BY <2>1, <2>2 DEF Records
<1>4. ASSUME NEW p, Report(p) PROVE Typed'
  <2>1. seen' \in {"idle", "working"}
    BY <1>4 DEF Report, Seen
  <2>2. CASE rec = NoRecord
    BY <1>4, <2>1, <2>2 DEF Report, Patched
  <2>3. CASE rec \in Records
    <3>1. Named(rec, p) \in Records
      BY <2>3 DEF Named, Records
    <3>2. Backfilled(Named(rec, p), p) \in Records
      BY <3>1 DEF Backfilled, Records
    <3> QED
      BY <1>4, <2>1, <3>2 DEF Report, Patched
  <2> QED
    BY <2>2, <2>3
<1>5. ASSUME NEW c \in Calls,
             \/ Created(c) \/ DeleteWorkerFails(c) \/ Push(c) \/ HandOver(c) \/ TellReady(c)
             \/ Armed(c) \/ CommandFails(c) \/ ClearHandle(c)
      PROVE  Typed'
  BY <1>5 DEF Created, DeleteWorkerFails, Push, HandOver, TellReady, Armed, CommandFails,
              ClearHandle
<1>6. ASSUME NEW c \in Calls, WorkerStep(c) PROVE Typed'
  BY <1>6 DEF WorkerStep, CreateWorker, DeleteHost, DeleteAll, HandleSet, CommandOnHost,
     CommandNeedsHost, CommandAnswered, CommandOnCrashed, Rebuild, Connected, ConnectFails
<1>7. ASSUME \/ \E i \in HostIds : RunEnds(i) \/ RunCrashes(i)
             \/ \E s \in Slots : Applied(s) \/ ApplyFails(s)
             \/ LosePush \/ Evict
      PROVE  Typed'
  BY <1>7 DEF RunEnds, RunCrashes, Applied, ApplyFails, LosePush, Evict, hub
<1> QED
  BY <1>1, <1>2, <1>3, <1>4, <1>5, <1>6, <1>7 DEF Next, HubStep

-----------------------------------------------------------------------------
(* The invariant is inductive.                                             *)

LEMMA NextIInv == ASSUME Typed, IInv, [Next]_vars PROVE IInv'
<1>1. CASE UNCHANGED vars
  BY <1>1 DEF vars, hub, thread, history, IInv, Shaped, Worker, Current, Keyed, Emptied,
     Creating, Disposals, Owed, View, At, Teller
<1>2. CASE LosePush
  <2>1. UNCHANGED <<rec, seen, told, call, applying, stored, envKey, host, hosts, gone,
                    orphaned, late, missed>>
    BY <1>2 DEF LosePush, hub, thread, history
  <2> QED
    BY <2>1 DEF IInv, Shaped, Worker, Current, Keyed, Emptied, Creating, Disposals, Owed, View,
       At, Teller
<1> QED
  BY <1>1, <1>2, HubStepKeeps, WorkerStepKeeps, RunKeeps, ReportKeeps, AppliedKeeps, EvictKeeps
     DEF Next

LEMMA Inductive == Spec => [](Typed /\ IInv)
<1>1. Init => Typed /\ IInv
  <2>1. Init => Typed
    <3>1. Fresh \in Records
      BY DEF Fresh, Records
    <3>2. \A h \in Handles : [Fresh EXCEPT !.sid = TRUE, !.env = "ready", !.handle = h] \in Records
      BY <3>1 DEF Records
    <3>3. ASSUME Init PROVE /\ seen = "idle"
                            /\ \/ rec \in {NoRecord, Fresh}
                               \/ \E h \in Handles :
                                     rec = [Fresh EXCEPT !.sid = TRUE, !.env = "ready", !.handle = h]
      <4>1. PICK scene \in Scenes, h \in Handles :
               /\ rec = CASE scene.start = "new" -> NoRecord
                          [] scene.start = "created" -> Fresh
                          [] scene.start = "evicted" ->
                                [Fresh EXCEPT !.sid = TRUE, !.env = "ready", !.handle = h]
               /\ seen = "idle"
        BY <3>3 DEF Init
      <4>2. scene.start \in {"new", "created", "evicted"}
        BY DeploymentAssumption
      <4> QED
        BY <4>1, <4>2
    <3> QED
      BY <3>1, <3>2, <3>3 DEF Typed
  <2> QED
    BY <2>1, InitIInv
<1>2. Typed /\ IInv /\ [Next]_vars => (Typed /\ IInv)'
  BY TypedKept, NextIInv
<1> QED
  BY <1>1, <1>2, PTL DEF Spec

-----------------------------------------------------------------------------
(* The theorems.                                                           *)

\* A thread whose Durable Object completed a delete gets no record and no trail
\* back from the calls that overlap with it, however many (hostFor, handleDelete),
\* but for a host that this.host forgot, a command that was disposing of a crashed
\* host, and a call whose closed connection is greeted all the same.
THEOREM DeletedStays == Spec => []DeletedStaysGone
<1>1. IInv => DeletedStaysGone
  BY DEF IInv, Worker, Emptied, DeletedStaysGone
<1> QED
  BY <1>1, Inductive, PTL

\* The live host that answers commands is connected to the env of the handle
\* the hub stored last (handleSetEnvHandle, envFor), unless its connection was
\* closed while it was greeted.
THEOREM HostFollowsHandle == Spec => []HostHasTheHandle
<1>1. IInv => HostHasTheHandle
  BY DEF IInv, Worker, Keyed, HostHasTheHandle
<1> QED
  BY <1>1, Inductive, PTL

\* A hub at rest has told its consoles of every thread as its record and its
\* cached state now show it (applyReport, ensureEnv, fire, the commands), but
\* for a report whose rest was dropped.
THEOREM ConsolesHear == Spec => []ConsolesKnow
<1>1. IInv => ConsolesKnow
  BY DEF IInv, Owed, ConsolesKnow, Quiet, At, Teller
<1> QED
  BY <1>1, Inductive, PTL
=============================================================================
