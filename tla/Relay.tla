-------------------------------- MODULE Relay --------------------------------
(***************************************************************************)
(* The hub's relay (hub/relay-core.ts): the env daemon of a machine with   *)
(* no open port registers a socket here (env/relay.ts, env/daemon.ts), a   *)
(* worker attaches one (env/remote.ts), and the relay pipes the two.       *)
(*                                                                         *)
(* One env: the relay keeps every env's state apart.  A socket carries     *)
(* frames both ways and is told of its end once; events of the relay's     *)
(* sockets are handled one at a time, each to its end.  The hello and its  *)
(* answer stand for all that is piped.                                     *)
(***************************************************************************)
EXTENDS Naturals, FiniteSets, SequencesExt

CONSTANTS
    MaxAttaches, \* bound: connections of workers
    MaxDials,    \* bound: registrations the daemon dials
    MaxFaults,   \* bound: faults that happen
    Faults       \* which happen: reject, drop, leave, slow, stop, close

Daemons == 1 .. MaxDials
Workers == MaxDials + 1 .. MaxDials + MaxAttaches
Ends == Workers \cup Daemons

ASSUME RelayAssumption ==
    /\ MaxAttaches \in Nat \ {0} /\ MaxDials \in Nat \ {0} /\ MaxFaults \in Nat
    /\ Faults \subseteq {"reject", "drop", "leave", "slow", "stop", "close"}

VARIABLES
    \* the relay
    env,         \* the registered daemon's socket, or 0
    waiting,     \* workers waiting for a registration, in order
    buffers,     \* what a waiting worker sent
    worker,      \* the worker piped last, or 0
    pipe,        \* the daemon's socket a worker was piped to, or 0
    timers,      \* waiting workers whose grace has not run out
    met,         \* sockets whose first frame was handled
    closed,      \* close() was called
    sock,        \* the relay's end of each socket
    up, down,    \* frames to the relay, frames from it
    \* the peers
    end,         \* the other end of each socket
    dials, running,  \* the daemon's registration loop
    faults       \* faults that have happened

relay == <<env, waiting, buffers, worker, pipe, timers, met, closed, sock>>
peers == <<end, dials, running>>
vars == <<relay, up, down, peers, faults>>

Fault(f) == f \in Faults /\ faults < MaxFaults /\ faults' = faults + 1

Init ==
    /\ env = 0 /\ waiting = <<>> /\ worker = 0 /\ timers = {} /\ met = {} /\ closed = FALSE
    /\ buffers = [w \in Workers |-> <<>>] /\ pipe = [w \in Workers |-> 0]
    /\ sock = [x \in Ends |-> "none"] /\ end = [x \in Ends |-> "none"]
    /\ up = [x \in Ends |-> <<>>] /\ down = [x \in Ends |-> <<>>]
    /\ dials = 0 /\ running = TRUE /\ faults = 0

----------------------------------------------------------------------------
(* The relay.                                                              *)

Nothing == [x \in Ends |-> <<>>]
To(x, frames) == [Nothing EXCEPT ![x] = frames]
Both(a, b) == [x \in Ends |-> a[x] \o b[x]]

\* What the relay sends in one step, a close among it, when the sockets of
\* `ended` have just ended; on a socket that is not open neither does anything.
SayAfter(ended, out) ==
    /\ sock' = [x \in Ends |-> IF x \in ended THEN "closed"
                               ELSE IF sock[x] = "open" /\ "gone" \in Range(out[x]) THEN "closing"
                               ELSE sock[x]]
    /\ down' = [x \in Ends |-> IF /\ sock[x] = "open" /\ x \notin ended
                                  /\ end[x] # "gone" /\ "gone" \notin Range(down[x])
                               THEN down[x] \o out[x] ELSE down[x]]

Say(out) == SayAfter({}, out)

Fail(x) == To(x, <<"env_error", "gone">>)

Hear(x, type) ==
    /\ up[x] # <<>> /\ Head(up[x]) = type
    /\ up' = [up EXCEPT ![x] = Tail(@)]
    /\ UNCHANGED <<closed, peers, faults>>

\* Mutant: the worker piped before is left alone.
PreviousOut_None(w) == Nothing

\* The worker piped before is closed; its pipe goes with its close event.
PreviousOut(w) == IF worker \notin {0, w} THEN To(worker, <<"gone">>) ELSE Nothing

\* Mutant: what the worker sent while it waited is not handed on.
PipeOut_NoFlush(w, d) == PreviousOut(w)

PipeOut(w, d) == Both(To(d, buffers[w]), PreviousOut(w))

PipeBoth(w, d) ==
    /\ pipe' = [pipe EXCEPT ![w] = d] /\ worker' = w
    /\ buffers' = [buffers EXCEPT ![w] = <<>>]

\* The first frame of a socket decides its role.
First(x, type) == Hear(x, type) /\ met' = met \cup {x}

\* A wrong token or version.
Reject(x) ==
    /\ "reject" \in Faults
    /\ Hear(x, "attach") \/ Hear(x, "relay_hello")
    /\ Say(Fail(x))
    /\ UNCHANGED <<env, waiting, buffers, worker, pipe, timers, met>>

\* A worker's socket: pipe it, or hold it for a daemon.
AttachWorker(w) ==
    /\ First(w, "attach")
    /\ IF env # 0
       THEN /\ PipeBoth(w, env) /\ Say(PipeOut(w, env))
            /\ UNCHANGED <<waiting, timers>>
       ELSE /\ waiting' = Append(waiting, w) /\ timers' = timers \cup {w}
            /\ UNCHANGED <<pipe, worker, buffers, sock, down>>
    /\ UNCHANGED env

\* Two seconds later, if no daemon is registered by then.
Timer(w) ==
    /\ w \in timers /\ timers' = timers \ {w}
    /\ IF env = 0
       THEN /\ waiting' = RemoveFirst(waiting, w)
            /\ buffers' = [buffers EXCEPT ![w] = <<>>]
            /\ Say(Fail(w))
       ELSE UNCHANGED <<waiting, buffers, sock, down>>
    /\ UNCHANGED <<env, worker, pipe, met, closed, up, peers, faults>>

\* A daemon's socket: it replaces the one before, and takes the first worker
\* that waits; the others are refused.
Register(d) ==
    /\ First(d, "relay_hello")
    /\ env' = d
    /\ LET replaced == IF env = 0 THEN Nothing ELSE To(env, <<"gone">>)
           others == [x \in Ends |-> IF x \in Range(waiting) /\ x # waiting[1]
                                     THEN <<"env_error", "gone">> ELSE <<>>]
       IN IF waiting = <<>>
          THEN Say(replaced) /\ UNCHANGED <<pipe, worker, buffers>>
          ELSE /\ PipeBoth(waiting[1], d)
               /\ Say(Both(Both(replaced, PipeOut(waiting[1], d)), others))
    /\ waiting' = <<>>
    /\ UNCHANGED timers

\* Any other frame: buffered while its worker waits, or on its way.
FromWorker(w) ==
    /\ Hear(w, "hello")
    /\ IF pipe[w] # 0
       THEN Say(To(pipe[w], <<"hello">>)) /\ UNCHANGED buffers
       ELSE /\ buffers' = IF w \in Range(waiting) THEN [buffers EXCEPT ![w] = Append(@, "hello")]
                          ELSE buffers
            /\ UNCHANGED <<sock, down>>
    /\ UNCHANGED <<env, waiting, worker, pipe, timers, met>>

\* A daemon's frame goes to every worker that was piped to it.
FromDaemon(d) ==
    /\ Hear(d, "hello_ok")
    /\ Say([x \in Ends |-> IF x \in Workers /\ pipe[x] = d THEN <<"hello_ok">> ELSE <<>>])
    /\ UNCHANGED <<env, waiting, buffers, worker, pipe, timers, met>>

\* A worker's socket ended: the pipe's cleanup takes the daemon's with it.
WorkerCloses(w) ==
    /\ Hear(w, "gone")
    /\ buffers' = [buffers EXCEPT ![w] = <<>>]
    /\ IF pipe[w] = 0 THEN UNCHANGED <<waiting, worker>> /\ SayAfter({w}, Nothing)
       ELSE /\ waiting' = RemoveFirst(waiting, w)
            /\ worker' = IF worker = w THEN 0 ELSE worker
            /\ SayAfter({w}, To(pipe[w], <<"gone">>))
    /\ UNCHANGED <<env, pipe, timers, met>>

\* Mutant: the close of a replaced registration ends the present one.
Unregistered_Any(d) == 0

Unregistered(d) == IF env = d THEN 0 ELSE env

\* A daemon's socket ended, and so do the workers piped to it.
DaemonCloses(d) ==
    /\ Hear(d, "gone")
    /\ env' = IF d \in met THEN Unregistered(d) ELSE env
    /\ SayAfter({d}, [x \in Ends |-> IF x \in Workers /\ pipe[x] = d THEN <<"gone">> ELSE <<>>])
    /\ UNCHANGED <<waiting, buffers, worker, pipe, timers, met>>

\* close(): what is registered, waits or is piped is dropped.
Close ==
    /\ Fault("close") /\ ~closed /\ closed' = TRUE
    /\ Say([x \in Ends |-> IF x \in ({env, worker} \ {0}) \cup Range(waiting)
                           THEN <<"gone">> ELSE <<>>])
    /\ env' = 0 /\ waiting' = <<>> /\ worker' = 0
    /\ UNCHANGED <<buffers, pipe, timers, met, up, peers>>

----------------------------------------------------------------------------
(* The peers.                                                              *)

\* The other end of x ends, and tells the relay.
Leaves(x) ==
    /\ end' = [end EXCEPT ![x] = "gone"]
    /\ down' = [down EXCEPT ![x] = <<>>]
    /\ up' = [up EXCEPT ![x] = IF "gone" \in Range(@) THEN @ ELSE Append(@, "gone")]

Tells(x, type) ==
    /\ down[x] # <<>> /\ Head(down[x]) = type /\ end[x] # "gone"
    /\ UNCHANGED relay

Gets(x, type) ==
    /\ Tells(x, type)
    /\ down' = [down EXCEPT ![x] = Tail(@)]

\* connectOnce: attach and say hello at once.
Connect(w) ==
    /\ sock[w] = "none" /\ \A v \in Workers : v < w => sock[v] # "none"
    /\ sock' = [sock EXCEPT ![w] = "open"] /\ end' = [end EXCEPT ![w] = "greeting"]
    /\ up' = [up EXCEPT ![w] = <<"attach", "hello">>]
    /\ UNCHANGED <<env, waiting, buffers, worker, pipe, timers, met, closed, down,
                   dials, running, faults>>

\* The handshake's timer: the attempt is given up, its socket lives on.
HelloTimeout(w) ==
    /\ Fault("slow") /\ end[w] = "greeting"
    /\ end' = [end EXCEPT ![w] = "stray"]
    /\ UNCHANGED <<relay, up, down, dials, running>>

WorkerGets(w) ==
    /\ \/ /\ Gets(w, "hello_ok")
          /\ end' = IF end[w] = "greeting" THEN [end EXCEPT ![w] = "connected"] ELSE end
          /\ UNCHANGED up
       \/ /\ Gets(w, "env_error")
          /\ end' = IF end[w] = "greeting" THEN [end EXCEPT ![w] = "stray"] ELSE end
          /\ UNCHANGED up
       \/ /\ Tells(w, "gone") /\ Leaves(w)
    /\ UNCHANGED <<dials, running, faults>>

Leave(w) ==
    /\ Fault("leave") /\ end[w] \notin {"none", "gone"} /\ Leaves(w)
    /\ UNCHANGED <<relay, dials, running>>

\* runRegistration: the loop dials when its last connection has ended.
Dial ==
    /\ running /\ dials < MaxDials /\ (dials > 0 => end[dials] = "gone")
    /\ dials' = dials + 1
    /\ LET d == dials + 1 IN
       /\ sock' = [sock EXCEPT ![d] = "open"] /\ end' = [end EXCEPT ![d] = "listening"]
       /\ up' = [up EXCEPT ![d] = <<"relay_hello">>]
    /\ UNCHANGED <<env, waiting, buffers, worker, pipe, timers, met, closed, down,
                   running, faults>>

\* handleEnvConnection: the first frame is the hello, a later one is ignored.
DaemonGets(d) ==
    /\ \/ /\ Gets(d, "hello")
          /\ IF end[d] = "listening"
             THEN /\ end' = [end EXCEPT ![d] = "serving"]
                  /\ up' = [up EXCEPT ![d] = IF "gone" \in Range(@) THEN @
                                             ELSE Append(@, "hello_ok")]
             ELSE UNCHANGED <<end, up>>
       \/ (Tells(d, "env_error") \/ Tells(d, "gone")) /\ Leaves(d)
    /\ UNCHANGED <<dials, running, faults>>

\* stop() interrupts the loop, whose scope closes the socket.
Stop ==
    /\ Fault("stop") /\ running /\ running' = FALSE
    /\ IF dials > 0 /\ end[dials] # "gone" THEN Leaves(dials) ELSE UNCHANGED <<end, down, up>>
    /\ UNCHANGED <<relay, dials>>

\* A connection breaks: what is under way is lost, and each end hears of it in
\* its own time.
Drop(x) ==
    /\ Fault("drop") /\ sock[x] = "open" /\ end[x] # "gone"
    /\ up' = [up EXCEPT ![x] = <<"gone">>] /\ down' = [down EXCEPT ![x] = <<"gone">>]
    /\ UNCHANGED <<relay, peers>>

----------------------------------------------------------------------------
WorkerEvent(w) == AttachWorker(w) \/ Reject(w) \/ FromWorker(w) \/ WorkerCloses(w)
DaemonEvent(d) == Register(d) \/ Reject(d) \/ FromDaemon(d) \/ DaemonCloses(d)

Next ==
    \/ \E w \in Workers : WorkerEvent(w) \/ Timer(w)
    \/ \E d \in Daemons : DaemonEvent(d)
    \/ Close
    \/ \E w \in Workers : Connect(w) \/ HelloTimeout(w) \/ WorkerGets(w) \/ Leave(w)
    \/ Dial \/ \E d \in Daemons : DaemonGets(d)
    \/ Stop \/ \E x \in Ends : Drop(x)

Spec == Init /\ [][Next]_vars

\* Frames and ends of sockets are delivered, and the grace runs out.
FairSpec ==
    /\ Spec
    /\ \A w \in Workers : WF_vars(WorkerEvent(w)) /\ WF_vars(Timer(w)) /\ WF_vars(WorkerGets(w))
    /\ \A d \in Daemons : WF_vars(DaemonEvent(d)) /\ WF_vars(DaemonGets(d))

----------------------------------------------------------------------------
(* Properties.                                                             *)

\* A daemon whose socket is open and that has registered is the one workers
\* are paired with: the close of a registration it replaced changes nothing.
OpenIsRegistered == \A d \in Daemons : d \in met /\ sock[d] = "open" /\ ~closed => env = d

\* One daemon serves one worker pipe: of the workers piped to it, all but one
\* are on their way out.
OnePipe ==
    \A d \in Daemons : Cardinality({w \in Workers : pipe[w] = d /\ sock[w] = "open"}) <= 1

\* A worker that said hello is not left hanging: it is answered, or it is told
\* that the connection is over.
Decided == \A w \in Workers : end[w] = "greeting" ~> end[w] # "greeting"

\* A second attach replaces the old pipe: while the worker attached last holds
\* the pipe of the registered daemon, the relay does not close that daemon.
LatestSurvives ==
    worker # 0 /\ env # 0 /\ sock[worker] = "open" /\ pipe[worker] = env => sock[env] = "open"
=============================================================================
