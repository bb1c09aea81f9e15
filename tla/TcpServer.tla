----------------------------- MODULE TcpServer -----------------------------
(***************************************************************************)
(* The life of a net::TcpConnection under a net::TcpServer                 *)
(* (src/TcpServer.cpp, src/TcpConnection.cpp, src/Acceptor.cpp): accepted  *)
(* and entered in connections_ by the base loop, established and served by *)
(* its IO loop, closed there, erased by the base loop, and taken off its   *)
(* poller by the IO loop again.                                            *)
(*                                                                         *)
(* A loop is what EventLoop.tla has shown it to be: each round it handles  *)
(* the channels poll has reported, then runs the functors queued so far,   *)
(* in order.  These are destroyed together when the last has returned, and *)
(* a connection is destroyed, its descriptor closed, with the last         *)
(* shared_ptr to it.  What is read and written is left out: a stream has   *)
(* something to read, or has ended.  The pool of loops                     *)
(* (src/EventLoopThreadPool.cpp) is started by TcpServer::start, thread by *)
(* thread (EventThreadLoop.tla), before the base loop's loop() is called.  *)
(***************************************************************************)
EXTENDS Naturals, Sequences, FiniteSets, EventThreadLoop

CONSTANTS
    Conns,              \* the TcpConnection objects
    Fds,                \* the descriptors accept can return
    Base,               \* the server's loop
    IoLoops,            \* the loops of the pool's threads
    None,               \* no connection
    Resets              \* whether a peer may reset a connection

ASSUME BaseIsNoIoLoop == Base \notin IoLoops
ASSUME IoLoopsAreFinite == IsFiniteSet(IoLoops)
ASSUME NoneIsNoConn == None \notin Conns
ASSUME ResetsIsBool == Resets \in BOOLEAN

Loops == {Base} \cup IoLoops

VARIABLES
    threadNums,         \* threadNums_ of the pool
    loops,              \* loops_ of the pool, those started so far
    next,               \* next_ of the pool
    threads,            \* threads_ of the pool, by the loop each makes
    started,            \* started_ of the pool
    listening,          \* listening_ of the acceptor: start has returned
    state,              \* state_; "none" before accept
    fd,                 \* tcpSocket_, which is also the connection's name
    loop,               \* loop_ of each connection
    connections,        \* connections_, by name
    reading,            \* the channel is enabled
    inPoller,           \* the channel is in its loop's poller
    peer,               \* what the peer has done: "up", "fin", "rst"
    held,               \* the user keeps a TcpConnectionPtr
    pending,            \* pendingFunctors_ of each loop
    batch,              \* the functors a loop has swapped out and not run
    done,               \* connections bound to functors run in this batch
    phase,              \* where in its round each loop is
    active,             \* what poll reported and is still to be handled
    handler,            \* the channel whose handlerEvent a loop is in
    failed              \* an assertion has ended the process

poolVars == <<threadNums, loops, next, threads, started, listening>>

loopVars == <<phase, active, handler>>
connVars == <<state, fd, loop, connections, reading, inPoller, held>>
functorVars == <<pending, batch, done>>

vars == <<poolVars, state, fd, loop, connections, reading, inPoller, peer, held,
          pending, batch, done, phase, active, handler, failed>>

Strong == {"connectEstablished", "removeConnection", "removeInPoller"}
Raw == "shutdownInLoop"     \* bound to this, not to a shared_ptr
Functors == [op : Strong \cup {Raw}, conn : Conns]
Functor(op, c) == [op |-> op, conn |-> c]

Idle == [conn |-> None, callbacks |-> <<>>]

\* what handlerEvent will call for the revents poll stores: a reset raises
\* POLLIN, POLLERR and POLLHUP, and the close callback comes before the read
\* one (the error callback only logs); anything else to read raises POLLIN
Report(c) ==
    [conn |-> c,
     callbacks |-> IF peer[c] = "rst" THEN <<"close", "read">> ELSE <<"read">>]

TypeOK ==
    /\ threadNums \in 0..Cardinality(IoLoops)
    /\ loops \in Seq(IoLoops) /\ Len(loops) <= threadNums
    /\ loops # <<>> => next \in 0..(Len(loops) - 1)
    /\ threads \in [IoLoops -> EventThreadLoop]
    /\ \A i \in 1..Len(loops) : threads[loops[i]].loop
    /\ started \in BOOLEAN
    /\ listening => started /\ Len(loops) = threadNums
    /\ state \in [Conns -> {"none", "Connecting", "Connected", "DisConnecting",
                            "DisConnected"}]
    /\ fd \in [Conns -> Fds \cup {None}]
    /\ loop \in [Conns -> Loops]
    /\ connections \in [Fds -> Conns \cup {None}]
    /\ reading \in [Conns -> BOOLEAN]
    /\ inPoller \in [Conns -> BOOLEAN]
    /\ peer \in [Conns -> {"up", "fin", "rst"}]
    /\ held \in [Conns -> BOOLEAN]
    /\ pending \in [Loops -> Seq(Functors)]
    /\ batch \in [Loops -> Seq(Functors)]
    /\ done \in [Loops -> SUBSET Conns]
    /\ phase \in [Loops -> {"poll", "handle", "functors"}]
    /\ \A l \in Loops : \A e \in active[l] :
          e.conn \in Conns /\ e.callbacks \in Seq({"close", "read"})
    /\ handler \in [Loops -> [conn : Conns \cup {None},
                              callbacks : Seq({"close", "read"})]]
    /\ failed \in BOOLEAN
    /\ \A c \in Conns : inPoller[c] => state[c] \notin {"none", "Connecting"}
    /\ \A c \in Conns : reading[c] => inPoller[c] /\ state[c] # "DisConnected"

Init ==
    /\ threadNums = 0
    /\ loops = <<>>
    /\ next = 0
    /\ threads = [l \in IoLoops |-> NewEventThreadLoop]
    /\ started = FALSE
    /\ listening = FALSE
    /\ state = [c \in Conns |-> "none"]
    /\ fd = [c \in Conns |-> None]
    /\ loop = [c \in Conns |-> Base]
    /\ connections = [f \in Fds |-> None]
    /\ reading = [c \in Conns |-> FALSE]
    /\ inPoller = [c \in Conns |-> FALSE]
    /\ peer = [c \in Conns |-> "up"]
    /\ held = [c \in Conns |-> FALSE]
    /\ pending = [l \in Loops |-> <<>>]
    /\ batch = [l \in Loops |-> <<>>]
    /\ done = [l \in Loops |-> {}]
    /\ phase = [l \in Loops |-> "poll"]
    /\ active = [l \in Loops |-> {}]
    /\ handler = [l \in Loops |-> Idle]
    /\ failed = FALSE

InSeq(x, s) == \E i \in 1..Len(s) : s[i] = x

\* some shared_ptr to c is left
Alive(c) ==
    \/ \E f \in Fds : connections[f] = c
    \/ held[c]
    \/ \E l \in Loops :
          \/ c \in done[l]
          \/ \E op \in Strong : InSeq(Functor(op, c), pending[l] \o batch[l])

RawPending(c) ==
    \E l \in Loops : InSeq(Functor(Raw, c), pending[l] \o batch[l])

Queue(l, f) == pending' = [pending EXCEPT ![l] = Append(@, f)]

-----------------------------------------------------------------------------
(* The connection's and the server's member functions, run in the right    *)
(* loop.  Each says what becomes of the variables it names.                *)

\* mutant: without enableReading
ConnectEstablishedDisabled(c) ==
    /\ state' = [state EXCEPT ![c] = "Connected"]
    /\ inPoller' = [inPoller EXCEPT ![c] = TRUE]
    /\ \E keep \in BOOLEAN : held' = [held EXCEPT ![c] = keep]
    /\ UNCHANGED reading

\* TcpConnection::connectEstablished: state, reading, inPoller, held; the
\* connection callback may keep the pointer it is given
ConnectEstablished(c) ==
    /\ state' = [state EXCEPT ![c] = "Connected"]
    /\ reading' = [reading EXCEPT ![c] = TRUE]
    /\ inPoller' = [inPoller EXCEPT ![c] = TRUE]
    /\ \E keep \in BOOLEAN : held' = [held EXCEPT ![c] = keep]

\* mutant: the channel leaves the poller inside its own handlerEvent
RemoveConnectionNow(c) ==
    /\ connections' = [connections EXCEPT ![fd[c]] = None]
    /\ inPoller' = [inPoller EXCEPT ![c] = FALSE]
    /\ UNCHANGED <<pending, failed>>

\* TcpServer::removeConnection: connections, pending, inPoller, failed
RemoveConnection(c) ==
    /\ IF connections[fd[c]] = None
       THEN failed' = TRUE /\ UNCHANGED <<connections, pending>>
       ELSE /\ connections' = [connections EXCEPT ![fd[c]] = None]
            /\ Queue(loop[c], Functor("removeInPoller", c))
            /\ UNCHANGED failed
    /\ UNCHANGED inPoller

\* mutant: a connection of an IO loop is not handed to the server's loop
CloseConnectionHere(c) ==
    \/ /\ loop[c] = Base
       /\ RemoveConnection(c)
    \/ /\ loop[c] # Base
       /\ UNCHANGED <<connections, pending, inPoller, failed>>

\* TcpServer::closeConnection: runInLoop on the server's loop
CloseConnection(c) ==
    \/ /\ loop[c] = Base
       /\ RemoveConnection(c)
    \/ /\ loop[c] # Base
       /\ Queue(Base, Functor("removeConnection", c))
       /\ UNCHANGED <<connections, inPoller, failed>>

\* TcpConnection::handleClose: state, reading and what CloseConnection names
HandleClose(c) ==
    /\ state' = [state EXCEPT ![c] = "DisConnected"]
    /\ reading' = [reading EXCEPT ![c] = FALSE]
    /\ CloseConnection(c)

\* mutant: without the test of the state
ShutdownInLoopAlways(c) == state' = [state EXCEPT ![c] = "DisConnecting"]

\* TcpConnection::shutdownInLoop: state
ShutdownInLoop(c) ==
    state' = IF state[c] = "Connected"
             THEN [state EXCEPT ![c] = "DisConnecting"] ELSE state

Ended(c) == peer[c] # "up" \/ state[c] = "DisConnecting"

-----------------------------------------------------------------------------
(* The start of the server.  Each step says what becomes of the pool.      *)

\* setThreadNum, before start
SetThreadNum ==
    /\ ~started
    /\ threadNums' \in 1..Cardinality(IoLoops)
    /\ UNCHANGED <<loops, next, threads, started, listening>>

\* TcpServer::start calls EventLoopThreadPool::start
StartPool ==
    /\ ~started
    /\ started' = TRUE
    /\ UNCHANGED <<threadNums, loops, next, threads, listening>>

\* the loop of EventLoopThreadPool::start: the next thread, when the last one
\* has been waited for
CreateThread(l) ==
    /\ started
    /\ Cardinality({m \in IoLoops : threads[m].thread.start}) = Len(loops)
    /\ Len(loops) < threadNums
    /\ threads[l] = NewEventThreadLoop
    /\ threads' = [threads EXCEPT ![l] = StartLoop(@)]
    /\ UNCHANGED <<threadNums, loops, next, started, listening>>

\* startLoop sleeps, for the thread's latch or for loop_
AwaitLoop(l) ==
    /\ \/ /\ StartWaits(threads[l].thread)
          /\ threads' = [threads EXCEPT ![l].thread = StartSleeps(@)]
       \/ /\ AwaitsLoop(threads[l])
          /\ threads' = [threads EXCEPT ![l].asleep = TRUE]
    /\ UNCHANGED <<threadNums, loops, next, started, listening>>

\* loops_.push_back(threads_[i]->startLoop())
PushLoop(l) ==
    /\ \A i \in 1..Len(loops) : loops[i] # l
    /\ LoopReturns(threads[l])
    /\ loops' = Append(loops, l)
    /\ UNCHANGED <<threadNums, next, threads, started, listening>>

\* the pool has started, and Acceptor::listen is called
Listen ==
    /\ started
    /\ ~listening
    /\ Len(loops) = threadNums
    /\ listening' = TRUE
    /\ UNCHANGED <<threadNums, loops, next, threads, started>>

\* in the new thread, up to loop()
ThreadRuns(l) ==
    /\ \/ /\ threads[l].thread.life = "created"
          /\ threads' = [threads EXCEPT ![l].thread = Announce(@)]
       \/ /\ MakesLoop(threads[l])
          /\ threads' = [threads EXCEPT ![l] = MakeLoop(@)]
    /\ UNCHANGED <<threadNums, loops, next, started, listening>>

\* the steps of TcpServer::start, which returns when it listens
StartStep ==
    \/ \E l \in IoLoops : CreateThread(l) \/ AwaitLoop(l) \/ PushLoop(l)
    \/ Listen

Starting ==
    /\ SetThreadNum \/ StartPool \/ StartStep \/ (\E l \in IoLoops : ThreadRuns(l))
    /\ UNCHANGED <<connVars, peer, functorVars, loopVars, failed>>

-----------------------------------------------------------------------------
(* The loops' rounds.                                                      *)

\* poll reports the ready channels: those whose stream has ended and any others.
\* A round with nothing to handle and nothing to run changes nothing.
Poll(l) ==
    /\ ~failed
    /\ listening
    /\ phase[l] = "poll"
    /\ LET watched == {c \in Conns : loop[c] = l /\ reading[c]} IN
       \E A \in SUBSET watched :
          /\ {c \in watched : Ended(c)} \subseteq A
          /\ A # {} \/ pending[l] # <<>> \/ l = Base
          /\ active' = [active EXCEPT ![l] = {Report(c) : c \in A}]
    /\ phase' = [phase EXCEPT ![l] = "handle"]
    /\ UNCHANGED <<poolVars, connVars, peer, functorVars, handler, failed>>

\* mutant: next_ is not wrapped at the last loop
NextLoopNoWrap(l) ==
    \/ /\ loops = <<>>
       /\ l = Base
       /\ UNCHANGED next
    \/ /\ loops # <<>>
       /\ l = loops[next + 1]
       /\ next' = next + 1

\* getNextLoop: the loops of the pool in turn, or the base loop when it has none
NextLoop(l) ==
    \/ /\ loops = <<>>
       /\ l = Base
       /\ UNCHANGED next
    \/ /\ loops # <<>>
       /\ l = loops[next + 1]
       /\ next' = IF next + 1 = threadNums THEN 0 ELSE next + 1

\* TcpServer::OnConnection
OnConnection(c, f, l) ==
    /\ NextLoop(l)
    /\ fd' = [fd EXCEPT ![c] = f]
    /\ loop' = [loop EXCEPT ![c] = l]
    /\ connections' = [connections EXCEPT ![f] = c]
    /\ IF l = Base
       THEN ConnectEstablished(c) /\ UNCHANGED pending
       ELSE /\ state' = [state EXCEPT ![c] = "Connecting"]
            /\ Queue(l, Functor("connectEstablished", c))
            /\ UNCHANGED <<reading, inPoller, held>>

\* Acceptor::handleRead: the kernel returns a descriptor that no object owns.  A
\* failing accept changes nothing, as it closes only the descriptor -1.
Accept(c, f, l) ==
    /\ ~failed
    /\ phase[Base] = "handle"
    /\ handler[Base] = Idle
    /\ state[c] = "none"
    /\ \A d \in Conns : Alive(d) => fd[d] # f
    /\ OnConnection(c, f, l)
    /\ UNCHANGED <<threadNums, loops, threads, started, listening, peer, batch, done,
                   loopVars, failed>>

\* handlerEvent starts, or goes on, with the next callback of c's report
NextCallback(l, c) ==
    \/ /\ handler[l] = Idle
       /\ \E e \in active[l] :
             /\ e.conn = c
             /\ active' = [active EXCEPT ![l] = @ \ {e}]
             /\ handler' = [handler EXCEPT
                   ![l] = [e EXCEPT !.callbacks = Tail(@)]]
    \/ /\ handler[l].conn = c
       /\ handler[l].callbacks # <<>>
       /\ handler' = [handler EXCEPT ![l].callbacks = Tail(@)]
       /\ UNCHANGED active

\* handleRead finds something to read, and the message callback may shut the
\* connection down.  What was sent before the end, or after shutdown, is left
\* out: it only delays the close.
MessageArrives(l, c) ==
    /\ ~failed
    /\ NextCallback(l, c)
    /\ ~Ended(c)
    /\ ShutdownInLoop(c) \/ UNCHANGED state
    /\ UNCHANGED <<poolVars, fd, loop, connections, reading, inPoller, held, peer,
                   functorVars, phase, failed>>

\* the close callback, or handleRead reads 0 bytes
StreamEnds(l, c) ==
    /\ ~failed
    /\ NextCallback(l, c)
    /\ Ended(c)
    /\ HandleClose(c)
    /\ UNCHANGED <<poolVars, fd, loop, held, peer, batch, done, phase>>

\* handlerEvent returns
EndHandling(l) ==
    /\ ~failed
    /\ handler[l] # Idle
    /\ handler[l].callbacks = <<>>
    /\ handler' = [handler EXCEPT ![l] = Idle]
    /\ UNCHANGED <<poolVars, connVars, peer, functorVars, phase, active, failed>>

\* doPendingFunctors swaps the functors out
BeginBatch(l) ==
    /\ ~failed
    /\ phase[l] = "handle"
    /\ active[l] = {}
    /\ handler[l] = Idle
    /\ phase' = [phase EXCEPT ![l] = "functors"]
    /\ batch' = [batch EXCEPT ![l] = pending[l]]
    /\ pending' = [pending EXCEPT ![l] = <<>>]
    /\ UNCHANGED <<poolVars, connVars, peer, done, active, handler, failed>>

RunFunctor(l) ==
    LET f == Head(batch[l])
        c == f.conn
    IN
    /\ ~failed
    /\ batch[l] # <<>>
    /\ batch' = [batch EXCEPT ![l] = Tail(@)]
    /\ done' = [done EXCEPT ![l] = IF f.op \in Strong THEN @ \cup {c} ELSE @]
    /\ \/ /\ f.op = "connectEstablished"
          /\ ConnectEstablished(c)
          /\ UNCHANGED <<connections, pending, failed>>
       \/ /\ f.op = "removeConnection"
          /\ RemoveConnection(c)
          /\ UNCHANGED <<state, reading, held>>
       \/ /\ f.op = "removeInPoller"
          /\ inPoller' = [inPoller EXCEPT ![c] = FALSE]
          /\ UNCHANGED <<state, reading, connections, pending, held, failed>>
       \/ /\ f.op = Raw
          /\ ShutdownInLoop(c)
          /\ UNCHANGED <<reading, inPoller, connections, pending, held, failed>>
    /\ UNCHANGED <<poolVars, fd, loop, peer, loopVars>>

\* doPendingFunctors returns and destroys the functors it has called
EndBatch(l) ==
    /\ ~failed
    /\ phase[l] = "functors"
    /\ batch[l] = <<>>
    /\ done' = [done EXCEPT ![l] = {}]
    /\ phase' = [phase EXCEPT ![l] = "poll"]
    /\ UNCHANGED <<poolVars, connVars, peer, pending, batch, active, handler, failed>>

-----------------------------------------------------------------------------
(* The user's other threads and the peers.                                 *)

\* shutdown; at most one call of the user is pending per connection
UserShutdown(c) ==
    /\ ~failed
    /\ held[c]
    /\ ~RawPending(c)
    /\ Queue(loop[c], Functor(Raw, c))
    /\ UNCHANGED <<poolVars, connVars, peer, batch, done, loopVars, failed>>

\* the user keeps its pointer until its calls have run
Release(c) ==
    /\ ~failed
    /\ held[c]
    /\ ~RawPending(c)
    /\ held' = [held EXCEPT ![c] = FALSE]
    /\ UNCHANGED <<poolVars, state, fd, loop, connections, reading, inPoller, peer,
                   functorVars, loopVars, failed>>

PeerEnds(c) ==
    /\ ~failed
    /\ state[c] # "none"
    /\ peer[c] = "up"
    /\ \E p \in {"fin"} \cup (IF Resets THEN {"rst"} ELSE {}) :
          peer' = [peer EXCEPT ![c] = p]
    /\ UNCHANGED <<poolVars, connVars, functorVars, loopVars, failed>>

LoopStep(l) ==
    \/ Poll(l)
    \/ \E c \in Conns : MessageArrives(l, c) \/ StreamEnds(l, c)
    \/ EndHandling(l)
    \/ BeginBatch(l)
    \/ RunFunctor(l)
    \/ EndBatch(l)

Next ==
    \/ \E c \in Conns, f \in Fds, l \in Loops : Accept(c, f, l)
    \/ Starting
    \/ \E l \in Loops : LoopStep(l)
    \/ \E c \in Conns : UserShutdown(c) \/ Release(c) \/ PeerEnds(c)

Spec == Init /\ [][Next]_vars

\* start goes on in its thread and the new threads run.  Each loop's thread keeps
\* running (EventLoop.tla has shown that a pending
\* functor, like a ready channel, ends a blocking poll).  Nobody else has to do
\* anything.
Fairness ==
    /\ WF_vars(StartStep /\ Starting)
    /\ \A l \in IoLoops : WF_vars(ThreadRuns(l) /\ Starting)
    /\ \A l \in Loops : WF_vars(LoopStep(l))

FairSpec == Spec /\ Fairness

-----------------------------------------------------------------------------
(* Properties.                                                             *)

\* A connection that is not disconnected is in connections_ under its own name:
\* the name, made of the descriptor, is never taken by another connection while
\* it is, though the base loop erases names and the IO loops close descriptors
\* (OnConnection, removeConnection).
OpenIsRegistered ==
    \A c \in Conns :
        state[c] \in {"Connecting", "Connected", "DisConnecting"}
            => connections[fd[c]] = c

\* No channel outlives its connection: those a loop is handling or has yet to
\* handle and those the pollers know belong to live connections ("a Channel must
\* not be removed inside handlerEvent, use queueInLoop", TcpServer.cpp:48).
NothingDangles ==
    /\ \A l \in Loops :
          /\ handler[l] # Idle => Alive(handler[l].conn)
          /\ \A e \in active[l] : Alive(e.conn)
    /\ \A c \in Conns : inPoller[c] => Alive(c)

\* assert(n==1) in removeConnection: a connection is closed once.
EraseFindsConnection == ~failed

\* TcpServer::start returns, whatever the new threads do first: no sleep in a
\* latch's condition or in cond_ lasts because the wakeup came too early or not at
\* all.
PoolStarts == started ~> listening

\* A closed connection the user has let go of is destroyed, which closes its
\* descriptor: the hops from the IO loop to the server's and back are all taken.
ClosedIsDestroyed ==
    \A c \in Conns : (state[c] = "DisConnected" /\ ~held[c]) ~> ~Alive(c)

\* The end of the stream, or shutdown, closes an established connection.
EndCloses ==
    \A c \in Conns :
        (state[c] # "none" /\ Ended(c)) ~> (state[c] = "DisConnected")
=============================================================================
