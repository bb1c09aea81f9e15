----------------------------- MODULE TcpClient -----------------------------
(***************************************************************************)
(* net::TcpClient and its net::Connector (src/TcpClient.cpp,               *)
(* src/Connector.cpp): non-blocking connects, retried after a growing      *)
(* delay, whose socket goes from the Connector's channel to the            *)
(* TcpConnection's; the connection that ends, which is replaced when       *)
(* retry_ is set; and the client's destruction after loop() has returned.  *)
(*                                                                         *)
(* Everything happens in one loop, whose rounds are TcpServer.tla's; start *)
(* and stop may be called by any thread.  Of the poller there is           *)
(* channelMap_, since descriptors are reused; what is read and written is  *)
(* left out, and the user keeps no pointer to the connection.              *)
(***************************************************************************)
EXTENDS Naturals, Sequences

CONSTANTS
    Fds,                \* the descriptors socket() can return
    None,               \* no descriptor
    kInitretryDelay,    \* in milliseconds
    kMaxRetryDelay,
    MaxStarts,          \* bound: the user's calls of start
    MaxEnds             \* bound: the connections the peer ends or resets

ASSUME NoneIsNoFd == None \notin Fds
ASSUME DelaysAssumption ==
    /\ kInitretryDelay \in Nat /\ kMaxRetryDelay \in Nat
    /\ kInitretryDelay <= kMaxRetryDelay
ASSUME BoundsAssumption == MaxStarts \in Nat /\ MaxEnds \in Nat

VARIABLES
    retry,              \* retry_, set before start
    connector,          \* the Connector: connecting_, state_, retryDelayms_, the
                        \* descriptor of connectChannel_, and how many
                        \* startInLoop calls runAfter has scheduled for it
    conn,               \* the descriptor of connPtr_, or None
    connState,          \* state_ of that connection
    channelMap,         \* whose channel the poller has under a descriptor
    sock,               \* the sockets, as the kernel knows them
    server,             \* "up" while the connects in progress succeed
    pending,            \* pendingFunctors_
    batch,              \* the functors swapped out and not run
    phase,              \* where in its round the loop is
    active,             \* the descriptors poll reported, still to be handled
    timerFires,         \* poll reported the timerfd too
    rereads,            \* the connection whose close callback handlerEvent has
                        \* called, and whose read callback it calls next
    starts,             \* how often start was called
    ends,               \* how many connections the peer has ended or reset
    failed,             \* which misuse of the poller has ended the process
    closedTwice         \* history: a reset connection has been closed twice

connVars == <<conn, connState>>
roundVars == <<phase, active, timerFires, rereads, closedTwice>>
vars == <<retry, connector, connVars, channelMap, sock, server, pending, batch,
          roundVars, starts, ends, failed>>

ConnectorStates == {"DisConnected", "Connecting", "Connected"}
Functors == {"startInLoop", "resetChannel", "removeInPoller"}

TypeOK ==
    /\ retry \in BOOLEAN
    /\ connector \in [connecting : BOOLEAN, state : ConnectorStates,
                      retryDelay : kInitretryDelay..kMaxRetryDelay,
                      channel : Fds \cup {None}, timers : Nat]
    /\ conn \in Fds \cup {None}
    /\ connState \in {"none", "Connected", "DisConnected"}
    /\ channelMap \in [Fds -> {"none", "connector", "connection", "destroyed"}]
    /\ sock \in [Fds -> {"closed", "trying", "connected", "refused", "ended", "reset"}]
    /\ server \in {"up", "down"}
    /\ pending \in Seq(Functors)
    /\ batch \in Seq(Functors)
    /\ phase \in {"poll", "handle", "functors", "over"}
    /\ active \subseteq Fds
    /\ timerFires \in BOOLEAN
    /\ rereads \in Fds \cup {None}
    /\ starts \in 0..MaxStarts
    /\ ends \in 0..MaxEnds
    /\ failed \in {"no", "added twice", "removed twice", "destroyed inside"}
    /\ closedTwice \in BOOLEAN

\* loop() has not been called yet, which is like the end of a round
Init ==
    /\ retry \in BOOLEAN
    /\ connector = [connecting |-> FALSE, state |-> "DisConnected",
                    retryDelay |-> kInitretryDelay, channel |-> None, timers |-> 0]
    /\ conn = None
    /\ connState = "none"
    /\ channelMap = [f \in Fds |-> "none"]
    /\ sock = [f \in Fds |-> "closed"]
    /\ server \in {"up", "down"}
    /\ pending = <<>>
    /\ batch = <<>>
    /\ phase = "functors"
    /\ active = {}
    /\ timerFires = FALSE
    /\ rereads = None
    /\ starts = 0
    /\ ends = 0
    /\ failed = "no"
    /\ closedTwice = FALSE

-----------------------------------------------------------------------------
(* Connector, in the loop thread; k is the Connector when it is called.    *)
(* What follows says what becomes of connector, sock, channelMap, failed.  *)

\* mutant: the delay is not capped
NextDelayUncapped(d) == 2 * d

NextDelay(d) == IF 2 * d < kMaxRetryDelay THEN 2 * d ELSE kMaxRetryDelay

\* mutant: without setState
RetryKeepsState(k, f) ==
    IF k.connecting
    THEN /\ connector' = [k EXCEPT !.timers = @ + 1,
                                   !.retryDelay = NextDelay(@)]
         /\ sock' = [sock EXCEPT ![f] = "closed"]
    ELSE /\ connector' = k
         /\ sock' = [sock EXCEPT ![f] = "refused"]

\* mutant: without runAfter
RetryWithoutTimer(k, f) ==
    IF k.connecting
    THEN /\ connector' = [k EXCEPT !.state = "DisConnected",
                                   !.retryDelay = NextDelay(@)]
         /\ sock' = [sock EXCEPT ![f] = "closed"]
    ELSE /\ connector' = k
         /\ sock' = [sock EXCEPT ![f] = "refused"]

\* retry; when the Connector has been stopped the socket stays open
Retry(k, f) ==
    IF k.connecting
    THEN /\ connector' = [k EXCEPT !.state = "DisConnected",
                                   !.timers = @ + 1,
                                   !.retryDelay = NextDelay(@)]
         /\ sock' = [sock EXCEPT ![f] = "closed"]
    ELSE /\ connector' = k
         /\ sock' = [sock EXCEPT ![f] = "refused"]

\* a Channel is destroyed though the poller has it
DestroysInPoller(k) == k.channel # None /\ channelMap[k.channel] = "connector"

\* connecting; when the Connector has been stopped the socket stays open.  A
\* poller that still has another channel under the descriptor asserts (Epoll) or
\* keeps the old one (Poll).
Connecting(k, f) ==
    /\ sock' = [sock EXCEPT ![f] = "trying"]
    /\ IF k.connecting
       THEN /\ connector' = [k EXCEPT !.state = "Connecting", !.channel = f]
            /\ channelMap' = [channelMap EXCEPT ![f] = "connector"]
            /\ failed' = IF channelMap[f] # "none" THEN "added twice"
                         ELSE IF DestroysInPoller(k) THEN "destroyed inside"
                         ELSE "no"
       ELSE connector' = k /\ UNCHANGED <<channelMap, failed>>

\* connect on a new socket: in progress, refused, or, which the code passes over,
\* connected at once or another error
Connect(k) ==
    \E f \in Fds :
       /\ sock[f] = "closed"
       /\ \/ Connecting(k, f)
          \/ /\ server = "down"
             /\ Retry(k, f)
             /\ UNCHANGED <<channelMap, failed>>
          \/ /\ connector' = k
             /\ \E s \in {"refused"} \cup (IF server = "up" THEN {"connected"} ELSE {}) :
                   sock' = [sock EXCEPT ![f] = s]
             /\ UNCHANGED <<channelMap, failed>>

StartInLoop(k) ==
    IF k.state = "DisConnected" THEN Connect(k)
    ELSE connector' = k /\ UNCHANGED <<sock, channelMap, failed>>

\* restart, before startInLoop
Restarted(k) ==
    [k EXCEPT !.state = "DisConnected", !.retryDelay = kInitretryDelay,
              !.connecting = TRUE]

\* resetChannel
ResetChannel ==
    /\ failed' = IF DestroysInPoller(connector) THEN "destroyed inside" ELSE "no"
    /\ connector' = [connector EXCEPT !.channel = None]
    /\ UNCHANGED <<sock, channelMap>>

-----------------------------------------------------------------------------
(* TcpClient.                                                              *)

\* OnConnection, with m the poller's map: the old connection is destroyed and
\* its socket closed, the new one established: connVars, sock, channelMap, failed
OnConnection(f, m) ==
    /\ conn' = f
    /\ connState' = "Connected"
    /\ sock' = [g \in Fds |-> IF g = conn THEN "closed" ELSE sock[g]]
    /\ channelMap' = [g \in Fds |->
                         IF g = f THEN "connection"
                         ELSE IF g = conn /\ m[g] = "connection" THEN "destroyed"
                         ELSE m[g]]
    /\ failed' = IF m[f] # "none" THEN "added twice" ELSE "no"

\* mutant: the channel stays in the poller
RemoveAndResetKeeps(m, f) == m

\* removeAndReset: what becomes of the poller's map
RemoveAndReset(m, f) == [m EXCEPT ![f] = "none"]

\* the events of the Connector's channel: handleWrite, after handleError when
\* the connect has failed, of which one acts in each state
HandleConnect(f) ==
    LET removed == RemoveAndReset(channelMap, f) IN
    /\ channelMap[f] = "connector"
    /\ IF connector.state = "Connecting" \/ (connector.state = "DisConnected"
                                             /\ sock[f] = "refused")
       THEN /\ pending' = Append(pending, "resetChannel")
            /\ IF sock[f] = "refused"
               THEN /\ Retry(connector, f)
                    /\ channelMap' = removed
                    /\ UNCHANGED <<connVars, failed>>
               ELSE /\ connector' = [connector EXCEPT !.state = "Connected"]
                    /\ OnConnection(f, removed)
       ELSE UNCHANGED <<connector, connVars, sock, channelMap, failed, pending>>

\* handleClose of the connection, and removeConnection
HandleClose(f) ==
    /\ f = conn
    /\ channelMap[f] = "connection"
    /\ connState' = "DisConnected"
    /\ UNCHANGED conn
    /\ IF retry
       THEN StartInLoop(Restarted(connector)) /\ UNCHANGED pending
       ELSE /\ pending' = Append(pending, "removeInPoller")
            /\ UNCHANGED <<connector, sock, channelMap, failed>>

\* removeConnectionInPoller of connPtr_
RemoveInPoller ==
    /\ channelMap' = [channelMap EXCEPT ![conn] = "none"]
    /\ failed' = IF channelMap[conn] # "connection" THEN "removed twice" ELSE "no"
    /\ UNCHANGED <<connector, sock>>

-----------------------------------------------------------------------------
(* The loop.                                                               *)

Running == failed = "no" /\ phase # "over"

Ready(f) ==
    \/ channelMap[f] = "connector" /\ sock[f] \in {"connected", "refused"}
    \/ channelMap[f] = "connection" /\ connState = "Connected"
                                   /\ sock[f] \in {"ended", "reset"}

Poll ==
    /\ Running
    /\ phase = "poll"
    /\ active' = {f \in Fds : Ready(f)}
    /\ timerFires' \in {FALSE, connector.timers > 0}
    /\ active' # {} \/ timerFires' \/ pending # <<>>
    /\ phase' = "handle"
    /\ UNCHANGED <<retry, connector, connVars, channelMap, sock, server, pending,
                   batch, rereads, starts, ends, failed, closedTwice>>

\* handlerEvent of a reported channel.  POLLIN, the end of a stream, calls the read
\* callback, which reads 0 and is handleClose; a reset has POLLERR as well, which
\* calls the close callback before it.
HandleEvent(f) ==
    /\ Running
    /\ rereads = None
    /\ f \in active
    /\ active' = active \ {f}
    /\ HandleConnect(f) \/ HandleClose(f)
    /\ rereads' = IF channelMap[f] = "connection" /\ sock[f] = "reset" THEN f ELSE None
    /\ UNCHANGED <<retry, server, batch, phase, timerFires, starts, ends, closedTwice>>

\* handlerEvent goes on to the read callback of the reset connection
ReadAgain ==
    /\ Running
    /\ rereads # None
    /\ HandleClose(rereads)
    /\ rereads' = None
    /\ closedTwice' = TRUE
    /\ UNCHANGED <<retry, server, batch, phase, active, timerFires, starts, ends>>

\* a startInLoop that runAfter has scheduled
RetryTimer ==
    /\ Running
    /\ timerFires
    /\ rereads = None
    /\ timerFires' = FALSE
    /\ StartInLoop([connector EXCEPT !.timers = @ - 1])
    /\ UNCHANGED <<retry, connVars, server, pending, batch, phase, active, rereads,
                   starts, ends, closedTwice>>

BeginBatch ==
    /\ Running
    /\ phase = "handle"
    /\ active = {}
    /\ rereads = None
    /\ ~timerFires
    /\ phase' = "functors"
    /\ batch' = pending
    /\ pending' = <<>>
    /\ UNCHANGED <<retry, connector, connVars, channelMap, sock, server, active,
                   timerFires, rereads, starts, ends, failed, closedTwice>>

RunFunctor ==
    /\ Running
    /\ batch # <<>>
    /\ batch' = Tail(batch)
    /\ \/ Head(batch) = "startInLoop" /\ StartInLoop(connector)
       \/ Head(batch) = "resetChannel" /\ ResetChannel
       \/ Head(batch) = "removeInPoller" /\ RemoveInPoller
    /\ UNCHANGED <<retry, connVars, server, pending, roundVars, starts, ends>>

EndBatch ==
    /\ Running
    /\ phase = "functors"
    /\ batch = <<>>
    /\ phase' = "poll"
    /\ UNCHANGED <<retry, connector, connVars, channelMap, sock, server, pending,
                   batch, active, timerFires, rereads, starts, ends, failed,
                   closedTwice>>

-----------------------------------------------------------------------------
(* The user, the kernel and the peer.                                      *)

\* start: the loop's thread, in a callback or functor of its own or before
\* loop(), goes on with startInLoop; another queues it
Start ==
    /\ Running
    /\ starts < MaxStarts
    /\ starts' = starts + 1
    /\ LET k == [connector EXCEPT !.connecting = TRUE] IN
       \/ /\ phase # "poll" /\ rereads = None
          /\ StartInLoop(k)
          /\ UNCHANGED pending
       \/ /\ connector' = k
          /\ pending' = Append(pending, "startInLoop")
          /\ UNCHANGED <<sock, channelMap, failed>>
    /\ UNCHANGED <<retry, connVars, server, batch, roundVars, ends>>

\* stop; stopInLoop does nothing
Stop ==
    /\ Running
    /\ connector.connecting
    /\ connector' = [connector EXCEPT !.connecting = FALSE]
    /\ UNCHANGED <<retry, connVars, channelMap, sock, server, pending, batch,
                   roundVars, starts, ends, failed>>

\* loop() has returned, ~TcpClient removes the connection, and the Connector is
\* destroyed with its channel
Destroy ==
    /\ Running
    /\ phase = "functors"
    /\ batch = <<>>
    /\ phase' = "over"
    /\ \/ /\ conn # None /\ channelMap[conn] # "connection"
          /\ RemoveInPoller
       \/ /\ conn # None => channelMap[conn] = "connection"
          /\ channelMap' = [f \in Fds |-> IF f = conn THEN "none" ELSE channelMap[f]]
          /\ failed' = IF DestroysInPoller(connector) THEN "destroyed inside" ELSE "no"
          /\ UNCHANGED <<connector, sock>>
    /\ UNCHANGED <<retry, connVars, server, pending, batch, active, timerFires,
                   rereads, starts, ends, closedTwice>>

ServerChanges ==
    /\ Running
    /\ server' = IF server = "up" THEN "down" ELSE "up"
    /\ UNCHANGED <<retry, connector, connVars, channelMap, sock, pending, batch,
                   roundVars, starts, ends, failed>>

\* the kernel completes a connect or gives it up (a socket that has connected to
\* itself is treated alike)
Resolve(f) ==
    /\ Running
    /\ sock[f] = "trying"
    /\ sock' = [sock EXCEPT ![f] = IF server = "up" THEN "connected" ELSE "refused"]
    /\ UNCHANGED <<retry, connector, connVars, channelMap, server, pending, batch,
                   roundVars, starts, ends, failed>>

\* the peer ends its stream, and may have reset the connection by the time it is
\* looked at
PeerEnds ==
    /\ Running
    /\ ends < MaxEnds
    /\ ends' = ends + 1
    /\ conn # None
    /\ sock[conn] = "connected"
    /\ \E s \in {"ended", "reset"} : sock' = [sock EXCEPT ![conn] = s]
    /\ UNCHANGED <<retry, connector, connVars, channelMap, server, pending, batch,
                   roundVars, starts, failed>>

LoopStep ==
    \/ Poll
    \/ \E f \in Fds : HandleEvent(f)
    \/ ReadAgain
    \/ RetryTimer
    \/ BeginBatch
    \/ RunFunctor
    \/ EndBatch

Next ==
    \/ LoopStep
    \/ Start
    \/ Stop
    \/ Destroy
    \/ ServerChanges
    \/ \E f \in Fds : Resolve(f)
    \/ PeerEnds

Spec == Init /\ [][Next]_vars

\* The loop's thread keeps running until loop() returns, timers fire (TimerQueue.tla)
\* and the kernel decides about every connect.
Fairness == WF_vars(LoopStep) /\ \A f \in Fds : WF_vars(Resolve(f))

FairSpec == Spec /\ Fairness

-----------------------------------------------------------------------------
(* Properties.                                                             *)

InProgress(f) == channelMap[f] = "connector"

\* ~TcpClient finds a connection that was closed, and removed from the poller, or a
\* connect in progress, whose channel nobody removes
LeftToDestructor ==
    phase = "over" /\ (connState = "DisConnected" \/ \E f \in Fds : InProgress(f))

\* The poller is told of each channel once, and forgets it once, before the
\* channel is destroyed: the assertions of Poll.cpp:87 and Epoll.cpp hold though
\* a socket changes hands and descriptors are reused (removeAndReset, resetChannel,
\* OnConnection, removeConnection), until a reset connection is closed twice, or
\* the destructor meets what LeftToDestructor says.
NothingFails == failed # "no" => closedTwice \/ LeftToDestructor

\* A Connector that has been started once and not stopped makes one attempt at a
\* time: a connect in progress, in the poller and in state Connecting, or a retry
\* scheduled, never both; its channel is the one in the poller (startInLoop, retry,
\* restart).  So it is until a reset connection is closed twice, and with retry_
\* restarted twice.
OneAttempt ==
    closedTwice
    \/ /\ \A f \in Fds : InProgress(f) => f = connector.channel /\ connector.timers = 0
       /\ connector.connecting =>
             (connector.state = "Connecting" <=> \E f \in Fds : InProgress(f))
       /\ connector.timers <= 1

\* a socket is open that neither the Connector nor a connection has
Abandoned ==
    \E f \in Fds : sock[f] # "closed" /\ f # conn /\ ~InProgress(f)

\* While the server accepts, a Connector that has been started gets a connection,
\* unless it is stopped, connect() itself returns something it passes over, or a
\* reset connection is closed twice, which ends the process or leaves two attempts
\* (retry, startInLoop, restart after the connection has ended).
KeepsTrying ==
    <>[](server = "up") =>
        ((connector.connecting /\ connector.state # "Connected")
            ~> \/ connector.state = "Connected"
               \/ ~connector.connecting
               \/ Abandoned
               \/ closedTwice
               \/ phase = "over")

-----------------------------------------------------------------------------
(* Three claims of the pollers' assertions that do not hold of this client.  *)

\* Poll.cpp:87, while the loop runs: a channel that is removed is in channelMap_.
\* A reset connection without retry_ is removed twice.
RemovedOnce == failed = "removed twice" => phase = "over"

\* Poll.cpp:87, when the client is destroyed: so is the channel of its connection,
\* which ~TcpClient removes whether or not it has been closed.
RemovedAtTheEnd == failed = "removed twice" => phase # "over"

\* Epoll.cpp:84: a channel is added under a descriptor that the poller has
\* forgotten.  With retry_, nobody takes the closed connection off the poller.
AddedFresh == failed # "added twice"
=============================================================================
