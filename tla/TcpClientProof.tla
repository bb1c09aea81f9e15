--------------------------- MODULE TcpClientProof ---------------------------
(***************************************************************************)
(* A client whose user calls start once makes one attempt at a time, for   *)
(* any number of descriptors and of connections that end; and as long as   *)
(* at most one of them ends, the poller is told of each channel once.  So  *)
(* it is until a reset connection has been closed twice.                   *)
(***************************************************************************)
EXTENDS TcpClient, TLAPS

-----------------------------------------------------------------------------
(* Types.                                                                  *)

Delays == kInitretryDelay..kMaxRetryDelay

Connector ==
    [connecting : BOOLEAN, state : ConnectorStates, retryDelay : Delays,
     channel : Fds \cup {None}, timers : Nat]

\* A timer that fires has been scheduled.
TypeInv == TypeOK /\ (timerFires => connector.timers > 0)

-----------------------------------------------------------------------------
(* The functors that are queued.                                           *)

Has(q, x) == \E i \in 1..Len(q) : q[i] = x
HasOnce(q, x) == \A i, j \in 1..Len(q) : q[i] = x /\ q[j] = x => i = j

Queued(x) == Has(batch, x) \/ Has(pending, x)
QueuedOnce(x) ==
    /\ HasOnce(batch, x) /\ HasOnce(pending, x)
    /\ ~(Has(batch, x) /\ Has(pending, x))

\* Reported channels are handled before functors run, and a channel is reset in the
\* round that has reported it.
Round ==
    /\ batch # <<>> => phase = "functors"
    /\ Has(pending, "resetChannel") => phase = "handle"
    /\ active # {} => phase = "handle"
    /\ QueuedOnce("startInLoop") /\ QueuedOnce("removeInPoller")

-----------------------------------------------------------------------------
(* One attempt at a time: the Connector has a connect in progress, a timer *)
(* scheduled, a functor queued or a connection, and never two of them.     *)

Unused ==
    /\ connector.state = "DisConnected" /\ connector.timers = 0
    /\ connState = "none"
    /\ active = {}
    /\ \A f \in Fds : ~InProgress(f)
    /\ \A x \in Functors : ~Queued(x)

ConnectPlace ==
    /\ \A f \in Fds : InProgress(f) =>
          /\ f = connector.channel
          /\ connector.state = "Connecting" /\ connector.timers = 0
          /\ connState # "Connected"
          /\ ~Queued("startInLoop")
    /\ connector.connecting /\ connector.state = "Connecting" =>
          connector.channel \in Fds /\ InProgress(connector.channel)

TimerPlace ==
    /\ connector.timers <= 1
    /\ connector.timers = 1 =>
          /\ connector.state = "DisConnected"
          /\ connState # "Connected"
          /\ ~Queued("startInLoop")

FunctorPlace ==
    /\ Queued("startInLoop") => connector.state = "DisConnected" /\ connState = "none"
    /\ Queued("resetChannel") =>
          /\ \A f \in Fds : ~InProgress(f)
          /\ ~timerFires /\ active = {} /\ ~Queued("startInLoop")
    /\ Queued("removeInPoller") =>
          connector.state = "Connected" /\ connState = "DisConnected"

\* The connection has a socket of its own, and is the only one that is reported.
ConnectionPlace ==
    /\ conn = None <=> connState = "none"
    /\ connState = "Connected" => connector.state = "Connected"
    /\ conn # None => sock[conn] \in {"connected", "ended", "reset"} /\ ~InProgress(conn)
    /\ \A f \in Fds : channelMap[f] = "connection" => f = conn
    /\ \A f \in active :
          IF InProgress(f) THEN sock[f] \in {"connected", "refused"}
          ELSE f = conn /\ connState = "Connected" /\ sock[f] \in {"ended", "reset"}

Attempts ==
    /\ starts = 0 => Unused
    /\ ConnectPlace /\ TimerPlace /\ FunctorPlace /\ ConnectionPlace

AttemptInv == TypeInv /\ Round /\ Attempts

-----------------------------------------------------------------------------
(* What the poller has.                                                    *)

\* The connection is the last one.
Settled == ends = MaxEnds /\ connState = "Connected" /\ sock[conn] = "connected"

Registered ==
    /\ \A f \in Fds : sock[f] = "closed" => channelMap[f] = "none" \/ Settled
    /\ connState = "Connected" \/ Queued("removeInPoller") =>
          channelMap[conn] = "connection"
    /\ connState = "DisConnected" => ends >= 1
    /\ conn # None /\ sock[conn] \in {"ended", "reset"} => ends >= 1

PollerInv == IF phase = "over" THEN NothingFails ELSE failed = "no" /\ Registered

\* What holds until a reset connection has been closed twice.
AttemptsUntilReset == TypeInv /\ (closedTwice \/ AttemptInv)
PollerUntilReset == closedTwice \/ PollerInv

-----------------------------------------------------------------------------
(* TypeCorrect.                                                            *)

\* The delay stays within its bounds.
LEMMA DelaysBounded ==
  /\ kInitretryDelay \in Delays
  /\ \A d \in Delays : NextDelay(d) \in Delays
  BY DelaysAssumption DEF NextDelay, Delays

SockType == [Fds -> {"closed", "trying", "connected", "refused", "ended", "reset"}]
MapType == [Fds -> {"none", "connector", "connection", "destroyed"}]
FailedType == {"no", "added twice", "removed twice", "destroyed inside"}

\* What retry makes of the Connector and the socket.
LEMMA RetryTypes ==
  ASSUME TypeOK, NEW k \in Connector, NEW f \in Fds, Retry(k, f)
  PROVE  /\ connector' \in Connector /\ sock' \in SockType
         /\ connector'.timers >= k.timers
  <1>1. sock' \in SockType
    BY DEF Retry, TypeOK, SockType
  <1>2. CASE k.connecting
    <2>1. connector' = [k EXCEPT !.state = "DisConnected", !.timers = @ + 1,
                                 !.retryDelay = NextDelay(@)]
      BY <1>2 DEF Retry
    <2>2. NextDelay(k.retryDelay) \in Delays
      BY DelaysBounded DEF Connector
    <2>3. connector' \in Connector
      <3> DEFINE d == NextDelay(k.retryDelay)
                 n == k.timers + 1
      <3>1. connector' = [k EXCEPT !.state = "DisConnected", !.timers = n,
                                   !.retryDelay = d]
        BY <2>1
      <3>2. d \in Delays /\ n \in Nat
        BY <2>2 DEF Connector
      <3> HIDE DEF d, n
      <3> QED BY <3>1, <3>2 DEF Connector, ConnectorStates
    <2>4. connector'.timers = k.timers + 1 /\ k.timers \in Nat
      BY <2>1 DEF Connector
    <2> QED BY <1>1, <2>3, <2>4
  <1>3. CASE ~k.connecting
    BY <1>1, <1>3 DEF Retry, Connector
  <1> QED BY <1>2, <1>3

\* What startInLoop makes of the Connector, the sockets and the poller.
LEMMA StartTypes ==
  ASSUME TypeOK, failed = "no", NEW k \in Connector, StartInLoop(k)
  PROVE  /\ connector' \in Connector /\ sock' \in SockType
         /\ channelMap' \in MapType /\ failed' \in FailedType
         /\ connector'.timers >= k.timers
  <1> USE DEF SockType, MapType, FailedType
  <1>0. /\ sock \in SockType /\ channelMap \in MapType /\ k.timers \in Nat
    BY DEF TypeOK, Connector
  <1>1. ASSUME NEW f \in Fds, Connecting(k, f)
        PROVE  /\ connector' \in Connector /\ sock' \in SockType
               /\ channelMap' \in MapType /\ failed' \in FailedType
               /\ connector'.timers >= k.timers
    <2>1. connector' \in Connector /\ connector'.timers >= k.timers
      <3>1. CASE k.connecting
        <4>1. connector' = [k EXCEPT !.state = "Connecting", !.channel = f]
          BY <1>1, <3>1 DEF Connecting
        <4>2. connector' \in Connector
          BY <4>1 DEF Connector, ConnectorStates
        <4>3. connector'.timers = k.timers
          BY <4>1 DEF Connector
        <4> QED BY <1>0, <4>2, <4>3
      <3>2. CASE ~k.connecting
        BY <1>0, <1>1, <3>2 DEF Connecting
      <3> QED BY <3>1, <3>2
    <2>2. sock' \in SockType
      BY <1>0, <1>1 DEF Connecting
    <2>3. channelMap' \in MapType
      BY <1>0, <1>1 DEF Connecting
    <2>4. failed' \in FailedType
      BY <1>1 DEF Connecting
    <2> QED BY <2>1, <2>2, <2>3, <2>4
  <1>2. ASSUME NEW f \in Fds, Retry(k, f), UNCHANGED <<channelMap, failed>>
        PROVE  /\ connector' \in Connector /\ sock' \in SockType
               /\ channelMap' \in MapType /\ failed' \in FailedType
               /\ connector'.timers >= k.timers
    BY <1>0, <1>2, RetryTypes
  <1>3. ASSUME NEW f \in Fds, NEW s \in {"refused", "connected"},
               connector' = k, sock' = [sock EXCEPT ![f] = s],
               UNCHANGED <<channelMap, failed>>
        PROVE  /\ connector' \in Connector /\ sock' \in SockType
               /\ channelMap' \in MapType /\ failed' \in FailedType
               /\ connector'.timers >= k.timers
    BY <1>0, <1>3
  <1>4. CASE Connect(k)
    <2>1. PICK f \in Fds :
             \/ Connecting(k, f)
             \/ Retry(k, f) /\ UNCHANGED <<channelMap, failed>>
             \/ /\ connector' = k /\ UNCHANGED <<channelMap, failed>>
                /\ \E s \in {"refused", "connected"} : sock' = [sock EXCEPT ![f] = s]
      BY <1>4 DEF Connect
    <2> QED BY <1>1, <1>2, <1>3, <2>1
  <1>5. CASE connector' = k /\ UNCHANGED <<sock, channelMap, failed>>
    BY <1>0, <1>5
  <1> QED BY <1>4, <1>5 DEF StartInLoop

\* Queues stay queues.
LEMMA QueueTypes ==
  ASSUME NEW S, NEW q \in Seq(S)
  PROVE  /\ \A x \in S : Append(q, x) \in Seq(S)
         /\ q # <<>> => Tail(q) \in Seq(S) /\ Head(q) \in S
  OBVIOUS

\* The members of TypeOK that a step may disturb.
RoundType ==
    /\ phase \in {"poll", "handle", "functors", "over"}
    /\ active \subseteq Fds
    /\ timerFires \in BOOLEAN
    /\ timerFires => connector.timers > 0
    /\ rereads \in Fds \cup {None} /\ closedTwice \in BOOLEAN

OwnType ==
    /\ connector \in Connector
    /\ conn \in Fds \cup {None}
    /\ connState \in {"none", "Connected", "DisConnected"}
    /\ channelMap \in MapType
    /\ sock \in SockType
    /\ failed \in FailedType

QueueType == pending \in Seq(Functors) /\ batch \in Seq(Functors)

CountType == starts \in 0..MaxStarts /\ ends \in 0..MaxEnds

LEMMA TypeParts ==
  /\ TypeInv <=> /\ retry \in BOOLEAN /\ server \in {"up", "down"}
                 /\ RoundType /\ OwnType /\ QueueType /\ CountType
  /\ TypeInv' <=> /\ retry' \in BOOLEAN /\ server' \in {"up", "down"}
                  /\ RoundType' /\ OwnType' /\ QueueType' /\ CountType'
  BY DEF TypeInv, TypeOK, RoundType, OwnType, QueueType, CountType, Connector, Delays,
         MapType, SockType, FailedType

LEMMA InitTypes == Init => TypeInv
  <1> SUFFICES ASSUME Init PROVE TypeInv
    OBVIOUS
  <1>1. OwnType
    <2>1. connector \in Connector
      BY DelaysBounded DEF Init, Connector, ConnectorStates
    <2> QED BY <2>1 DEF Init, OwnType, MapType, SockType, FailedType
  <1>2. QueueType
    <2>1. pending = <<>> /\ batch = <<>>
      BY DEF Init
    <2> QED BY <2>1 DEF QueueType
  <1>3. RoundType /\ CountType
    <2>1. starts = 0 /\ ends = 0 /\ ~timerFires /\ phase = "functors" /\ active = {}
          /\ timerFires \in BOOLEAN /\ rereads = None /\ closedTwice \in BOOLEAN
      BY DEF Init
    <2> QED BY <2>1, BoundsAssumption DEF RoundType, CountType
  <1> QED BY <1>1, <1>2, <1>3, TypeParts DEF Init

LEMMA NextTypes == TypeInv /\ [Next]_vars => TypeInv'
  <1> SUFFICES ASSUME TypeInv, [Next]_vars PROVE TypeInv'
    OBVIOUS
  <1>0. /\ TypeOK /\ retry \in BOOLEAN /\ server \in {"up", "down"}
        /\ RoundType /\ OwnType /\ QueueType /\ CountType
    BY TypeParts DEF TypeInv
  <1>f. \A x \in {"startInLoop", "resetChannel", "removeInPoller"} :
           Append(pending, x) \in Seq(Functors)
    BY <1>0, QueueTypes DEF QueueType, Functors
  <1>1. CASE Poll
    <2>1. timerFires' \in BOOLEAN /\ (timerFires' => connector.timers > 0)
      <3>1. timerFires' = FALSE \/ timerFires' = (connector.timers > 0)
        BY <1>1, Zenon DEF Poll
      <3>2. CASE timerFires' = FALSE
        BY <3>2
      <3>3. CASE timerFires' = (connector.timers > 0)
        <4>1. (connector.timers > 0) \in BOOLEAN
          OBVIOUS
        <4> QED BY <3>3, <4>1, Zenon
      <3> QED BY <3>1, <3>2, <3>3
    <2>2. /\ phase' = "handle" /\ active' \subseteq Fds
          /\ UNCHANGED <<retry, connector, conn, connState, channelMap, sock, server,
                         pending, batch, rereads, starts, ends, failed, closedTwice>>
      BY <1>1 DEF Poll, connVars
    <2>3. RoundType'
      <3>1. rereads' \in Fds \cup {None} /\ closedTwice' \in BOOLEAN
        BY <1>0, <2>2 DEF RoundType
      <3> QED BY <2>1, <2>2, <3>1 DEF RoundType
    <2> QED BY <1>0, <2>2, <2>3, TypeParts DEF OwnType, QueueType, CountType
  <1>c. ASSUME NEW f \in Fds, HandleClose(f), failed = "no"
        PROVE  /\ connector' \in Connector /\ connector'.timers >= connector.timers
               /\ sock' \in SockType /\ channelMap' \in MapType /\ failed' \in FailedType
               /\ conn' \in Fds \cup {None}
               /\ connState' \in {"none", "Connected", "DisConnected"}
               /\ pending' \in Seq(Functors)
    <2>1. CASE retry
      <3>1. Restarted(connector) \in Connector
            /\ Restarted(connector).timers = connector.timers
        BY <1>0, DelaysBounded DEF Restarted, OwnType, Connector, ConnectorStates
      <3>2. StartInLoop(Restarted(connector))
            /\ UNCHANGED <<pending, conn>> /\ connState' = "DisConnected"
        BY <1>c, <2>1 DEF HandleClose
      <3> QED BY <1>0, <1>c, <3>1, <3>2, StartTypes DEF OwnType, QueueType
    <2>2. CASE ~retry
      BY <1>0, <1>f, <1>c, <2>2 DEF HandleClose, OwnType, QueueType, Connector
    <2> QED BY <2>1, <2>2
  <1>2. ASSUME NEW f \in Fds, HandleEvent(f)
        PROVE  TypeInv'
    <2>1. /\ failed = "no" /\ active' = active \ {f}
          /\ rereads' \in Fds \cup {None}
          /\ UNCHANGED <<retry, server, batch, phase, timerFires, starts, ends, closedTwice>>
      BY <1>2 DEF HandleEvent, Running
    <2>2. /\ connector' \in Connector /\ connector'.timers >= connector.timers
          /\ sock' \in SockType /\ channelMap' \in MapType /\ failed' \in FailedType
          /\ conn' \in Fds \cup {None}
          /\ connState' \in {"none", "Connected", "DisConnected"}
          /\ pending' \in Seq(Functors)
      <3>1. CASE HandleConnect(f) /\ UNCHANGED <<connector, connVars, sock, channelMap,
                                                 failed, pending>>
        BY <1>0, <3>1 DEF connVars, OwnType, QueueType, Connector
      <3>2. CASE Retry(connector, f) /\ channelMap' = RemoveAndReset(channelMap, f)
                 /\ UNCHANGED <<connVars, failed>>
                 /\ pending' = Append(pending, "resetChannel")
        BY <1>0, <1>f, <3>2, RetryTypes
           DEF connVars, OwnType, QueueType, RemoveAndReset, MapType
      <3>3. CASE /\ connector' = [connector EXCEPT !.state = "Connected"]
                 /\ OnConnection(f, RemoveAndReset(channelMap, f))
                 /\ pending' = Append(pending, "resetChannel")
        <4>1. connector' \in Connector /\ connector'.timers = connector.timers
          BY <1>0, <3>3 DEF OwnType, Connector, ConnectorStates
        <4>2. connector.timers \in Nat
          BY <1>0 DEF OwnType, Connector
        <4>3. pending' \in Seq(Functors)
          BY <1>f, <3>3
        <4>4. RemoveAndReset(channelMap, f) \in MapType
          BY <1>0 DEF OwnType, RemoveAndReset, MapType
        <4>5. /\ conn' = f /\ connState' = "Connected"
              /\ sock' \in SockType
              /\ channelMap' \in MapType
              /\ failed' \in FailedType
          <5> DEFINE m == RemoveAndReset(channelMap, f)
          <5> HIDE DEF m
          <5>1. OnConnection(f, m) /\ m \in MapType
            BY <3>3, <4>4 DEF m
          <5>2. sock' \in SockType
            BY <1>0, <5>1 DEF OnConnection, OwnType, SockType
          <5>3. channelMap' \in MapType
            BY <5>1 DEF OnConnection, MapType
          <5> QED BY <5>1, <5>2, <5>3 DEF OnConnection, FailedType
        <4> QED BY <4>1, <4>2, <4>3, <4>5
      <3>4. CASE HandleClose(f)
        BY <1>c, <2>1, <3>4
      <3> QED BY <1>2, <3>1, <3>2, <3>3, <3>4 DEF HandleEvent, HandleConnect
    <2>3. connector.timers \in Nat
      BY <1>0 DEF OwnType, Connector
    <2> QED BY <1>0, <2>1, <2>2, <2>3, TypeParts
            DEF RoundType, OwnType, QueueType, CountType, Connector
  <1>3. CASE RetryTimer
    <2>1. /\ timerFires /\ ~timerFires' /\ timerFires' \in BOOLEAN /\ failed = "no"
          /\ UNCHANGED <<retry, conn, connState, server, pending, batch, phase, active,
                         rereads, starts, ends, closedTwice>>
          /\ StartInLoop([connector EXCEPT !.timers = @ - 1])
      BY <1>3 DEF RetryTimer, Running, connVars
    <2>2. [connector EXCEPT !.timers = @ - 1] \in Connector
      BY <1>0, <2>1 DEF RoundType, OwnType, Connector
    <2>3. /\ connector' \in Connector /\ sock' \in SockType
          /\ channelMap' \in MapType /\ failed' \in FailedType
      BY <1>0, <2>1, <2>2, StartTypes
    <2> QED BY <1>0, <2>1, <2>3, TypeParts DEF RoundType, OwnType, QueueType, CountType
  <1>4. CASE BeginBatch
    <2>1. pending' = <<>> /\ batch' = pending /\ phase' = "functors"
      BY <1>4 DEF BeginBatch
    <2>2. QueueType'
      BY <1>0, <2>1 DEF QueueType
    <2> QED BY <1>0, <1>4, <2>1, <2>2, TypeParts
            DEF BeginBatch, connVars, RoundType, OwnType, CountType
  <1>5. CASE RunFunctor
    <2>1. /\ batch' = Tail(batch) /\ batch # <<>> /\ failed = "no"
          /\ UNCHANGED <<retry, conn, connState, server, pending, phase, active, timerFires,
                         rereads, starts, ends, closedTwice>>
      BY <1>5 DEF RunFunctor, Running, connVars, roundVars
    <2>2. QueueType'
      BY <1>0, <2>1, QueueTypes DEF QueueType
    <2>3. connector \in Connector /\ connector.timers \in Nat
      BY <1>0 DEF OwnType, Connector
    <2>4. /\ connector' \in Connector /\ connector'.timers >= connector.timers
          /\ sock' \in SockType /\ channelMap' \in MapType /\ failed' \in FailedType
      <3>1. CASE StartInLoop(connector)
        BY <1>0, <2>1, <2>3, <3>1, StartTypes
      <3>2. CASE ResetChannel
        <4>1. connector' = [connector EXCEPT !.channel = None]
          BY <3>2 DEF ResetChannel
        <4>2. connector' \in Connector /\ connector'.timers = connector.timers
          BY <2>3, <4>1 DEF Connector
        <4>3. sock' = sock /\ channelMap' = channelMap /\ failed' \in FailedType
          BY <3>2 DEF ResetChannel, FailedType
        <4> QED BY <1>0, <2>3, <4>2, <4>3 DEF OwnType
      <3>3. CASE RemoveInPoller
        <4>1. channelMap' \in MapType
          BY <1>0, <3>3 DEF RemoveInPoller, OwnType, MapType
        <4>2. connector' = connector /\ sock' = sock /\ failed' \in FailedType
          BY <3>3 DEF RemoveInPoller, FailedType
        <4> QED BY <1>0, <2>3, <4>1, <4>2 DEF OwnType
      <3> QED BY <1>5, <3>1, <3>2, <3>3 DEF RunFunctor
    <2>5. connector'.timers \in Nat
      BY <2>4 DEF Connector
    <2> QED BY <1>0, <2>1, <2>2, <2>3, <2>4, <2>5, TypeParts
            DEF RoundType, OwnType, CountType
  <1>6. CASE EndBatch
    BY <1>0, <1>6, TypeParts
       DEF EndBatch, connVars, RoundType, OwnType, QueueType, CountType
  <1>7. CASE Start
    <2> DEFINE k == [connector EXCEPT !.connecting = TRUE]
    <2>1. k \in Connector /\ k.timers = connector.timers /\ connector.timers \in Nat
      BY <1>0 DEF OwnType, Connector
    <2>2. /\ failed = "no"
          /\ starts < MaxStarts /\ starts' = starts + 1
          /\ UNCHANGED <<retry, conn, connState, server, batch, phase, active, timerFires,
                         rereads, ends, closedTwice>>
          /\ \/ StartInLoop(k) /\ UNCHANGED pending
             \/ /\ connector' = k
                /\ pending' = Append(pending, "startInLoop")
                /\ UNCHANGED <<sock, channelMap, failed>>
      BY <1>7 DEF Start, Running, connVars, roundVars
    <2> HIDE DEF k
    <2>3. /\ connector' \in Connector /\ connector'.timers >= connector.timers
          /\ sock' \in SockType /\ channelMap' \in MapType /\ failed' \in FailedType
          /\ pending' \in Seq(Functors)
      <3>1. CASE StartInLoop(k) /\ UNCHANGED pending
        BY <1>0, <2>1, <2>2, <3>1, StartTypes DEF QueueType
      <3>2. CASE /\ connector' = k
                 /\ pending' = Append(pending, "startInLoop")
                 /\ UNCHANGED <<sock, channelMap, failed>>
        BY <1>0, <1>f, <2>1, <3>2 DEF OwnType
      <3> QED BY <2>2, <3>1, <3>2
    <2>4. connector'.timers \in Nat
      BY <2>3 DEF Connector
    <2>5. starts' \in 0..MaxStarts
      BY <1>0, <2>2, BoundsAssumption DEF CountType
    <2> QED BY <1>0, <2>1, <2>2, <2>3, <2>4, <2>5, TypeParts
            DEF RoundType, OwnType, QueueType, CountType
  <1>8. CASE Stop
    <2>1. connector' = [connector EXCEPT !.connecting = FALSE]
      BY <1>8 DEF Stop
    <2>2. connector' \in Connector /\ connector'.timers = connector.timers
      BY <1>0, <2>1 DEF OwnType, Connector
    <2> QED BY <1>0, <1>8, <2>2, TypeParts
            DEF Stop, connVars, roundVars, RoundType, OwnType, QueueType, CountType
  <1>9. CASE Destroy
    <2>1. /\ failed = "no" /\ phase' = "over"
          /\ UNCHANGED <<retry, conn, connState, server, pending, batch, active,
                         timerFires, rereads, starts, ends, closedTwice>>
          /\ UNCHANGED <<connector, sock>>
          /\ \/ RemoveInPoller
             \/ /\ channelMap' = [f \in Fds |-> IF f = conn THEN "none" ELSE channelMap[f]]
                /\ failed' \in FailedType
      BY <1>9 DEF Destroy, Running, connVars, RemoveInPoller, FailedType
    <2>2. UNCHANGED connector /\ sock' \in SockType /\ channelMap' \in MapType
          /\ failed' \in FailedType
      BY <1>0, <2>1 DEF RemoveInPoller, OwnType, MapType, FailedType
    <2> QED BY <1>0, <2>1, <2>2, TypeParts DEF RoundType, OwnType, QueueType, CountType
  <1>10. CASE ServerChanges
    BY <1>0, <1>10, TypeParts
       DEF ServerChanges, connVars, roundVars, RoundType, OwnType, QueueType, CountType
  <1>11. ASSUME NEW f \in Fds, Resolve(f)
         PROVE  TypeInv'
    <2>1. sock' \in SockType
      BY <1>0, <1>11 DEF Resolve, OwnType, SockType
    <2> QED BY <1>0, <1>11, <2>1, TypeParts
            DEF Resolve, connVars, roundVars, RoundType, OwnType, QueueType, CountType
  <1>12. CASE PeerEnds
    <2>1. sock' \in SockType
      BY <1>0, <1>12 DEF PeerEnds, OwnType, SockType
    <2>2. ends' \in 0..MaxEnds
      BY <1>0, <1>12, BoundsAssumption DEF PeerEnds, CountType
    <2> QED BY <1>0, <1>12, <2>1, <2>2, TypeParts
            DEF PeerEnds, connVars, roundVars, RoundType, OwnType, QueueType, CountType
  <1>13. CASE ReadAgain
    <2>1. /\ failed = "no" /\ rereads \in Fds /\ HandleClose(rereads)
          /\ rereads' = None /\ closedTwice' \in BOOLEAN
          /\ UNCHANGED <<retry, server, batch, phase, active, timerFires, starts, ends>>
      BY <1>0, <1>13 DEF ReadAgain, Running, RoundType
    <2>2. connector.timers \in Nat /\ connector'.timers \in Nat
      BY <1>0, <1>c, <2>1 DEF OwnType, Connector
    <2> QED BY <1>0, <1>c, <2>1, <2>2, TypeParts
            DEF RoundType, OwnType, QueueType, CountType
  <1>14. CASE UNCHANGED vars
    BY <1>0, <1>14, TypeParts
       DEF vars, connVars, roundVars, RoundType, OwnType, QueueType, CountType
  <1> QED BY <1>1, <1>2, <1>3, <1>4, <1>5, <1>6, <1>7, <1>8, <1>9, <1>10, <1>11, <1>12,
             <1>13, <1>14 DEF Next, LoopStep

\* TypeOK is an invariant for any descriptors, delays and numbers of calls: in
\* particular the delay grows within its bounds, and no timer fires that was not
\* scheduled.
THEOREM TypeCorrect == Spec => []TypeOK
  <1>1. Spec => []TypeInv
    BY InitTypes, NextTypes, PTL DEF Spec
  <1>2. TypeInv => TypeOK
    BY DEF TypeInv
  <1> QED BY <1>1, <1>2, PTL

-----------------------------------------------------------------------------
(* What happens to the queued functors.                                    *)

LEMMA HasEmpty == \A y : ~Has(<<>>, y) /\ HasOnce(<<>>, y)
  BY DEF Has, HasOnce

LEMMA HasAppend ==
  ASSUME NEW S, NEW q \in Seq(S), NEW x \in S, NEW y
  PROVE  /\ Has(Append(q, x), y) <=> Has(q, y) \/ y = x
         /\ HasOnce(q, y) /\ (y = x => ~Has(q, y)) => HasOnce(Append(q, x), y)
  <1> DEFINE a == Append(q, x)
  <1>1. /\ Len(a) = Len(q) + 1 /\ Len(q) \in Nat
        /\ a[Len(q) + 1] = x
        /\ \A i \in 1..Len(q) : a[i] = q[i]
    OBVIOUS
  <1>2. \A i \in 1..Len(a) : i = Len(q) + 1 \/ i \in 1..Len(q)
    BY <1>1
  <1>3. 1..Len(q) \subseteq 1..Len(a) /\ Len(q) + 1 \in 1..Len(a)
    BY <1>1
  <1> HIDE DEF a
  <1>4. Has(a, y) <=> Has(q, y) \/ y = x
    BY <1>1, <1>2, <1>3 DEF Has
  <1>5. HasOnce(q, y) /\ (y = x => ~Has(q, y)) => HasOnce(a, y)
    BY <1>1, <1>2, <1>3 DEF Has, HasOnce
  <1> QED BY <1>4, <1>5 DEF a

LEMMA HasTail ==
  ASSUME NEW S, NEW q \in Seq(S), q # <<>>
  PROVE  /\ Has(q, Head(q))
         /\ \A y : Has(Tail(q), y) => Has(q, y)
         /\ \A y : HasOnce(q, y) => HasOnce(Tail(q), y)
         /\ HasOnce(q, Head(q)) => ~Has(Tail(q), Head(q))
  <1> DEFINE t == Tail(q)
  <1>1. /\ Len(t) = Len(q) - 1 /\ Len(q) \in Nat /\ Len(q) >= 1
        /\ Head(q) = q[1]
        /\ \A i \in 1..Len(t) : t[i] = q[i + 1]
    OBVIOUS
  <1>2. 1 \in 1..Len(q) /\ \A i \in 1..Len(t) : i + 1 \in 1..Len(q) /\ i + 1 # 1
    BY <1>1
  <1> HIDE DEF t
  <1>3. Has(q, Head(q)) /\ \A y : Has(t, y) => Has(q, y)
    BY <1>1, <1>2 DEF Has
  <1>4. ASSUME NEW y, HasOnce(q, y) PROVE HasOnce(t, y)
    <2> SUFFICES ASSUME NEW i \in 1..Len(t), NEW j \in 1..Len(t), t[i] = y, t[j] = y
                 PROVE  i = j
      BY DEF HasOnce
    <2>1. i + 1 = j + 1
      BY <1>1, <1>2, <1>4 DEF HasOnce
    <2> QED BY <2>1
  <1>5. HasOnce(q, Head(q)) => ~Has(t, Head(q))
    BY <1>1, <1>2 DEF Has, HasOnce
  <1> QED BY <1>3, <1>4, <1>5 DEF t

\* A functor is queued.
LEMMA QueueGrows ==
  ASSUME QueueType, NEW x \in Functors, pending' = Append(pending, x), batch' = batch,
         NEW y
  PROVE  /\ Queued(y)' <=> Queued(y) \/ y = x
         /\ QueuedOnce(y) /\ (y = x => ~Queued(y)) => QueuedOnce(y)'
         /\ Has(pending', y) <=> Has(pending, y) \/ y = x
  BY HasAppend DEF QueueType, Queued, QueuedOnce

\* One is run.
LEMMA QueueShrinks ==
  ASSUME QueueType, batch # <<>>, batch' = Tail(batch), pending' = pending
  PROVE  /\ Queued(Head(batch))
         /\ \A y : Queued(y)' => Queued(y)
         /\ \A y : QueuedOnce(y) => QueuedOnce(y)'
         /\ QueuedOnce(Head(batch)) => ~Has(batch', Head(batch)) /\ ~Has(pending, Head(batch))
  BY HasTail DEF QueueType, Queued, QueuedOnce

\* The pending ones are swapped out.
LEMMA QueueTurns ==
  ASSUME batch' = pending, pending' = <<>>
  PROVE  /\ \A y : Queued(y)' => Queued(y)
         /\ \A y : QueuedOnce(y) => QueuedOnce(y)'
  BY HasEmpty DEF Queued, QueuedOnce

\* Nothing happens to them.
LEMMA QueueRests ==
  ASSUME UNCHANGED <<pending, batch>>
  PROVE  \A y : (Queued(y)' <=> Queued(y)) /\ (QueuedOnce(y)' <=> QueuedOnce(y))
  BY DEF Queued, QueuedOnce

-----------------------------------------------------------------------------
(* One attempt at a time.                                                  *)

\* What startInLoop does with a Connector that has no connect in progress: it makes one
\* in the poller, or leaves the poller alone.
LEMMA StartOutcome ==
  ASSUME TypeOK, NEW k \in Connector, k.state = "DisConnected", StartInLoop(k)
  PROVE  \E f \in Fds :
            /\ sock[f] = "closed"
            /\ \A g \in Fds : g # f => sock'[g] = sock[g]
            /\ \/ /\ k.connecting
                  /\ connector' = [k EXCEPT !.state = "Connecting", !.channel = f]
                  /\ sock'[f] = "trying"
                  /\ channelMap' = [channelMap EXCEPT ![f] = "connector"]
                  /\ failed' = IF channelMap[f] # "none" THEN "added twice"
                               ELSE IF DestroysInPoller(k) THEN "destroyed inside"
                               ELSE "no"
               \/ /\ UNCHANGED <<channelMap, failed>>
                  /\ connector'.state = "DisConnected"
                  /\ connector'.timers \in {k.timers, k.timers + 1}
  <1>1. Connect(k)
    BY DEF StartInLoop
  <1>2. PICK f \in Fds :
           /\ sock[f] = "closed"
           /\ \/ Connecting(k, f)
              \/ Retry(k, f) /\ UNCHANGED <<channelMap, failed>>
              \/ /\ connector' = k /\ UNCHANGED <<channelMap, failed>>
                 /\ \E s \in {"refused", "connected"} : sock' = [sock EXCEPT ![f] = s]
    BY <1>1 DEF Connect
  <1>3. \A g \in Fds : g # f => sock'[g] = sock[g]
    BY <1>2 DEF Connecting, Retry, TypeOK
  <1>4. CASE Connecting(k, f)
    BY <1>2, <1>3, <1>4 DEF Connecting, TypeOK
  <1>5. CASE Retry(k, f) /\ UNCHANGED <<channelMap, failed>>
    <2>1. connector'.state = "DisConnected" /\ connector'.timers \in {k.timers, k.timers + 1}
      BY <1>5 DEF Retry, Connector
    <2> QED BY <1>2, <1>3, <1>5, <2>1
  <1>6. CASE connector' = k /\ UNCHANGED <<channelMap, failed>>
    BY <1>2, <1>3, <1>6
  <1> QED BY <1>2, <1>4, <1>5, <1>6

\* After startInLoop there is one attempt, if there was nothing before.
LEMMA StartKeeps ==
  ASSUME TypeOK, NEW k \in Connector, k.state = "DisConnected", k.timers = 0,
         StartInLoop(k),
         \A f \in Fds : ~InProgress(f),
         conn = None <=> connState = "none", conn # None => sock[conn] \in {"connected", "ended", "reset"},
         \A f \in Fds : channelMap[f] = "connection" => f = conn,
         conn' = conn, conn' = None <=> connState' = "none", connState' # "Connected",
         active' = {}, starts' # 0,
         \A x \in Functors : ~Queued(x)'
  PROVE  Attempts'
  <1>1. PICK f \in Fds :
           /\ sock[f] = "closed"
           /\ \A g \in Fds : g # f => sock'[g] = sock[g]
           /\ \/ /\ k.connecting
                 /\ connector' = [k EXCEPT !.state = "Connecting", !.channel = f]
                 /\ channelMap' = [channelMap EXCEPT ![f] = "connector"]
              \/ /\ UNCHANGED channelMap
                 /\ connector'.state = "DisConnected"
                 /\ connector'.timers \in {k.timers, k.timers + 1}
    BY StartOutcome
  <1>2. /\ ~Queued("startInLoop")' /\ ~Queued("resetChannel")' /\ ~Queued("removeInPoller")'
    BY DEF Functors
  <1>3. conn' # None => conn' \in Fds /\ conn' # f /\ sock'[conn'] \in {"connected", "ended", "reset"}
    BY <1>1 DEF TypeOK
  <1>4. CASE /\ k.connecting
             /\ connector' = [k EXCEPT !.state = "Connecting", !.channel = f]
             /\ channelMap' = [channelMap EXCEPT ![f] = "connector"]
    <2>1. /\ connector'.state = "Connecting" /\ connector'.channel = f
          /\ connector'.timers = 0
      BY <1>4 DEF Connector
    <2>2. \A g \in Fds : /\ InProgress(g)' <=> g = f
                         /\ channelMap'[g] = "connection" => g = conn'
      BY <1>4 DEF InProgress, TypeOK
    <2> QED BY <1>2, <1>3, <2>1, <2>2
            DEF Attempts, ConnectPlace, TimerPlace, FunctorPlace, ConnectionPlace
  <1>5. CASE /\ UNCHANGED channelMap
             /\ connector'.state = "DisConnected"
             /\ connector'.timers \in {k.timers, k.timers + 1}
    <2>1. \A g \in Fds : ~InProgress(g)'
      BY <1>5 DEF InProgress
    <2>2. connector'.timers \in {0, 1}
      BY <1>5
    <2> QED BY <1>2, <1>3, <1>5, <2>1, <2>2
            DEF Attempts, ConnectPlace, TimerPlace, FunctorPlace, ConnectionPlace
  <1> QED BY <1>1, <1>4, <1>5

\* The parts of Attempts do not depend on anything else.
LEMMA AttemptsFrame ==
  ASSUME Attempts,
         UNCHANGED <<connector, conn, connState, channelMap, sock, starts>>,
         active' \subseteq active, timerFires' => timerFires,
         \A x : Queued(x)' => Queued(x)
  PROVE  Attempts'
  BY DEF Attempts, Unused, ConnectPlace, TimerPlace, FunctorPlace, ConnectionPlace, InProgress

LEMMA InitAttempts == Init => Round /\ Attempts
  <1> SUFFICES ASSUME Init PROVE Round /\ Attempts
    OBVIOUS
  <1>1. /\ connector.state = "DisConnected" /\ connector.timers = 0
        /\ ~connector.connecting
        /\ conn = None /\ connState = "none"
        /\ \A f \in Fds : channelMap[f] = "none"
        /\ \A f \in Fds : ~InProgress(f)
        /\ active = {} /\ ~timerFires
        /\ pending = <<>> /\ batch = <<>>
    BY DEF Init, InProgress
  <1>2. \A x : ~Queued(x) /\ QueuedOnce(x) /\ ~Has(pending, x)
    BY <1>1, HasEmpty DEF Queued, QueuedOnce
  <1> QED BY <1>1, <1>2
          DEF Round, Attempts, Unused, ConnectPlace, TimerPlace, FunctorPlace,
              ConnectionPlace

LEMMA PollAttempts == ASSUME AttemptInv, Poll PROVE Round' /\ Attempts'
  <1> USE DEF AttemptInv
  <1>1. /\ phase = "poll" /\ phase' = "handle"
        /\ active' = {f \in Fds : Ready(f)}
        /\ UNCHANGED <<connector, conn, connState, channelMap, sock, starts, pending, batch>>
    BY DEF Poll, connVars
  <1>2. timerFires' => connector.timers > 0
    BY NextTypes DEF Next, LoopStep, TypeInv, Poll
  <1>3. Round'
    BY <1>1, QueueRests DEF Round
  <1>4. ~Queued("resetChannel")
    BY <1>1, HasEmpty DEF Round, Queued
  <1>5. \A x : Queued(x)' <=> Queued(x)
    BY <1>1, QueueRests
  <1>6. \A f \in Fds : InProgress(f)' <=> InProgress(f)
    BY <1>1 DEF InProgress
  <1>7. \A f \in active' :
           IF InProgress(f) THEN sock[f] \in {"connected", "refused"}
           ELSE f = conn /\ connState = "Connected" /\ sock[f] \in {"ended", "reset"}
    BY <1>1 DEF Ready, InProgress, Attempts, ConnectionPlace
  <1>8. starts = 0 => Unused'
    BY <1>1, <1>5, <1>6, <1>7 DEF Attempts, Unused
  <1>9. ConnectPlace' /\ TimerPlace'
    BY <1>1, <1>5, <1>6 DEF Attempts, ConnectPlace, TimerPlace
  <1>10. FunctorPlace'
    BY <1>1, <1>4, <1>5 DEF Attempts, FunctorPlace
  <1>11. ConnectionPlace'
    <2>1. \A f \in active' : f \in Fds
      BY <1>1
    <2>2. conn # None => conn \in Fds
      BY DEF TypeInv, TypeOK
    <2> QED BY <1>1, <1>6, <1>7, <2>1, <2>2 DEF Attempts, ConnectionPlace
  <1> QED BY <1>1, <1>3, <1>8, <1>9, <1>10, <1>11 DEF Attempts

\* What a reported descriptor means, and that no other is reported with it.
LEMMA ReportedAlone ==
  ASSUME AttemptInv, NEW f \in active
  PROVE  /\ active = {f}
         /\ connector.timers = 0
         /\ ~Queued("startInLoop") /\ ~Queued("resetChannel") /\ ~Queued("removeInPoller")
         /\ starts # 0
         /\ IF InProgress(f)
            THEN /\ connector.state = "Connecting" /\ connState # "Connected"
                 /\ \A g \in Fds : InProgress(g) => g = f
                 /\ sock[f] \in {"connected", "refused"}
            ELSE /\ f = conn /\ connState = "Connected" /\ sock[f] \in {"ended", "reset"}
                 /\ connector.state = "Connected"
                 /\ \A g \in Fds : ~InProgress(g)
  <1> USE DEF AttemptInv, Attempts, ConnectPlace, TimerPlace, FunctorPlace, ConnectionPlace
  <1>1. active \subseteq Fds /\ connector.timers \in Nat
    BY DEF TypeInv, TypeOK
  <1>2. starts # 0 /\ ~Queued("resetChannel")
    BY DEF Unused
  <1>3. CASE InProgress(f)
    BY <1>1, <1>2, <1>3
  <1>4. CASE ~InProgress(f)
    <2>1. f = conn /\ connState = "Connected" /\ connector.state = "Connected"
      BY <1>4
    <2>2. \A g \in Fds : ~InProgress(g)
      BY <2>1
    <2>3. connector.timers = 0
      BY <1>1, <2>1
    <2> QED BY <1>1, <1>2, <1>4, <2>1, <2>2, <2>3
  <1> QED BY <1>3, <1>4

\* The connect in progress has come to an end.
LEMMA HandleConnectAttempts ==
  ASSUME AttemptInv, NEW f \in Fds, HandleEvent(f), HandleConnect(f)
  PROVE  Round' /\ Attempts'
  <1> USE DEF AttemptInv
  <1>1. /\ f \in active /\ active' = {}
        /\ phase = "handle"
        /\ UNCHANGED <<batch, phase, timerFires, starts>>
    BY ReportedAlone DEF HandleEvent, Round
  <1>2. InProgress(f)
    BY DEF HandleConnect, InProgress
  <1>3. /\ connector.timers = 0 /\ starts # 0
        /\ ~Queued("startInLoop") /\ ~Queued("resetChannel") /\ ~Queued("removeInPoller")
        /\ connector.state = "Connecting" /\ connState # "Connected"
        /\ \A g \in Fds : InProgress(g) => g = f
        /\ sock[f] \in {"connected", "refused"}
    BY <1>1, <1>2, ReportedAlone
  <1>4. ~timerFires
    BY <1>3 DEF TypeInv
  <1>5. pending' = Append(pending, "resetChannel") /\ batch' = batch
    BY <1>1, <1>3 DEF HandleConnect
  <1>6. /\ \A y : Queued(y)' <=> Queued(y) \/ y = "resetChannel"
        /\ \A y \in {"startInLoop", "removeInPoller"} : QueuedOnce(y)'
    BY <1>5, QueueGrows, TypeParts DEF Functors, Round
  <1>7. Round'
    BY <1>1, <1>6 DEF Round
  <1>8. conn # None => conn \in Fds /\ conn # f
    BY <1>2 DEF TypeInv, TypeOK, Attempts, ConnectionPlace
  <1>9. CASE sock[f] = "refused"
    <2>1. /\ Retry(connector, f) /\ channelMap' = [channelMap EXCEPT ![f] = "none"]
          /\ UNCHANGED <<conn, connState>>
      BY <1>3, <1>9 DEF HandleConnect, RemoveAndReset, connVars
    <2>2. \A g \in Fds : ~InProgress(g)' /\ (channelMap'[g] = "connection" => g = conn')
      BY <1>3, <2>1 DEF InProgress, TypeInv, TypeOK, Attempts, ConnectionPlace
    <2>3. /\ connector'.timers = 0 \/ (connector'.timers = 1 /\ connector'.state = "DisConnected")
          /\ connector'.connecting => connector'.state = "DisConnected"
      <3>0. connector \in Connector
        BY TypeParts DEF OwnType
      <3>1. CASE connector.connecting
        <4>1. connector' = [connector EXCEPT !.state = "DisConnected", !.timers = @ + 1,
                                             !.retryDelay = NextDelay(@)]
          BY <2>1, <3>1 DEF Retry
        <4>2. connector'.state = "DisConnected" /\ connector'.timers = connector.timers + 1
          BY <3>0, <4>1 DEF Connector
        <4> QED BY <1>3, <4>2
      <3>2. CASE ~connector.connecting
        <4>1. connector' = connector
          BY <2>1, <3>2 DEF Retry
        <4> QED BY <1>3, <3>2, <4>1
      <3> QED BY <3>1, <3>2
    <2>4. conn # None => sock'[conn] = sock[conn]
      BY <1>8, <2>1 DEF Retry, TypeInv, TypeOK
    <2>5. ConnectionPlace'
      BY <1>1, <1>3, <1>8, <2>1, <2>2, <2>4 DEF Attempts, ConnectionPlace
    <2>6. ConnectPlace' /\ TimerPlace' /\ FunctorPlace'
      BY <1>1, <1>3, <1>4, <1>6, <2>1, <2>2, <2>3
         DEF ConnectPlace, TimerPlace, FunctorPlace
    <2> QED BY <1>1, <1>3, <1>7, <2>5, <2>6 DEF Attempts
  <1>10. CASE sock[f] = "connected"
    <2>1. /\ connector' = [connector EXCEPT !.state = "Connected"]
          /\ OnConnection(f, RemoveAndReset(channelMap, f))
      BY <1>3, <1>10 DEF HandleConnect
    <2>2. connector'.state = "Connected" /\ connector'.timers = 0
      BY <1>3, <2>1 DEF TypeInv, TypeOK
    <2>3. conn' = f /\ connState' = "Connected" /\ sock'[f] = "connected"
      BY <1>8, <1>10, <2>1, NoneIsNoFd DEF OnConnection
    <2>4. \A g \in Fds : ~InProgress(g)' /\ (channelMap'[g] = "connection" => g = f)
      <3> SUFFICES ASSUME NEW g \in Fds
                   PROVE  ~InProgress(g)' /\ (channelMap'[g] = "connection" => g = f)
        OBVIOUS
      <3>1. channelMap'[g] = IF g = f THEN "connection"
                             ELSE IF g = conn /\ channelMap[g] = "connection"
                             THEN "destroyed" ELSE channelMap[g]
        BY <2>1 DEF OnConnection, RemoveAndReset, TypeInv, TypeOK
      <3> QED BY <1>3, <3>1 DEF InProgress, Attempts, ConnectionPlace
    <2>5. f # None
      BY NoneIsNoFd
    <2> QED BY <1>1, <1>3, <1>4, <1>6, <1>7, <2>2, <2>3, <2>4, <2>5
            DEF Attempts, ConnectPlace, TimerPlace, FunctorPlace, ConnectionPlace
  <1> QED BY <1>3, <1>9, <1>10

\* The connection has ended.
LEMMA HandleCloseAttempts ==
  ASSUME AttemptInv, NEW f \in Fds, HandleEvent(f), HandleClose(f)
  PROVE  Round' /\ Attempts'
  <1> USE DEF AttemptInv
  <1>1. /\ f \in active /\ active' = {}
        /\ phase = "handle"
        /\ UNCHANGED <<batch, phase, timerFires, starts>>
    BY ReportedAlone DEF HandleEvent, Round
  <1>2. ~InProgress(f)
    BY DEF HandleClose, InProgress
  <1>3. /\ connector.timers = 0 /\ starts # 0
        /\ ~Queued("startInLoop") /\ ~Queued("resetChannel") /\ ~Queued("removeInPoller")
        /\ connector.state = "Connected" /\ connState = "Connected"
        /\ \A g \in Fds : ~InProgress(g)
        /\ f = conn /\ conn # None
    BY <1>1, <1>2, ReportedAlone, NoneIsNoFd
  <1>4. conn' = conn /\ connState' = "DisConnected"
    BY DEF HandleClose
  <1>5. /\ conn = None <=> connState = "none"
        /\ sock[conn] \in {"connected", "ended", "reset"}
        /\ \A g \in Fds : channelMap[g] = "connection" => g = conn
    BY <1>3 DEF Attempts, ConnectionPlace
  <1>6. CASE retry
    <2>1. StartInLoop(Restarted(connector)) /\ UNCHANGED pending
      BY <1>6 DEF HandleClose
    <2>2. \A x : Queued(x)' <=> Queued(x)
      BY <1>1, <2>1, QueueRests
    <2>3. Round'
      BY <1>1, <2>1, QueueRests DEF Round
    <2>4. /\ Restarted(connector) \in Connector
          /\ Restarted(connector).state = "DisConnected" /\ Restarted(connector).timers = 0
      BY <1>3, DelaysBounded, TypeParts DEF OwnType, Restarted, Connector, ConnectorStates
    <2>5. Attempts'
      BY <1>1, <1>3, <1>4, <1>5, <2>1, <2>2, <2>4, StartKeeps DEF TypeInv, Functors
    <2> QED BY <2>3, <2>5
  <1>7. CASE ~retry
    <2>1. /\ pending' = Append(pending, "removeInPoller")
          /\ UNCHANGED <<connector, sock, channelMap>>
      BY <1>7 DEF HandleClose
    <2>2. /\ \A y : Queued(y)' <=> Queued(y) \/ y = "removeInPoller"
          /\ \A y \in {"startInLoop", "removeInPoller"} : QueuedOnce(y)'
      BY <1>1, <1>3, <2>1, QueueGrows, TypeParts DEF Functors, Round
    <2>3. Round'
      BY <1>1, <2>2 DEF Round
    <2>4. \A g \in Fds : ~InProgress(g)'
      BY <1>3, <2>1 DEF InProgress
    <2>5. conn \in Fds
      BY <1>3 DEF TypeInv, TypeOK
    <2> QED BY <1>1, <1>3, <1>4, <1>5, <2>1, <2>2, <2>3, <2>4, <2>5
            DEF Attempts, ConnectPlace, TimerPlace, FunctorPlace, ConnectionPlace
  <1> QED BY <1>6, <1>7

\* The retry that was scheduled, when nothing else is under way.
LEMMA RetryTimerAttempts == ASSUME AttemptInv, RetryTimer PROVE Round' /\ Attempts'
  <1> USE DEF AttemptInv
  <1> DEFINE k == [connector EXCEPT !.timers = @ - 1]
  <1>1. /\ timerFires /\ ~timerFires'
        /\ StartInLoop(k)
        /\ UNCHANGED <<conn, connState, pending, batch, phase, active, starts>>
    BY DEF RetryTimer, connVars
  <1>2. connector \in Connector /\ connector.timers \in Nat
    BY TypeParts DEF OwnType, Connector
  <1>3. connector.timers = 1
    BY <1>1, <1>2 DEF TypeInv, Attempts, TimerPlace
  <1>4. /\ k \in Connector /\ k.timers = 0 /\ k.state = "DisConnected"
    BY <1>2, <1>3 DEF Connector, Attempts, TimerPlace
  <1>5. /\ \A f \in Fds : ~InProgress(f)
        /\ connState # "Connected"
        /\ ~Queued("startInLoop") /\ ~Queued("resetChannel") /\ ~Queued("removeInPoller")
        /\ starts # 0
    BY <1>1, <1>3 DEF Attempts, Unused, ConnectPlace, TimerPlace, FunctorPlace
  <1>6. active = {}
    <2>1. active \subseteq Fds
      BY DEF TypeInv, TypeOK
    <2> QED BY <1>5, <2>1 DEF Attempts, ConnectionPlace
  <1>7. \A x : (Queued(x)' <=> Queued(x)) /\ (QueuedOnce(x)' <=> QueuedOnce(x))
    BY <1>1, QueueRests
  <1>8. Round'
    BY <1>1, <1>7 DEF Round
  <1>9. Attempts'
    <2> HIDE DEF k
    <2> QED BY <1>1, <1>4, <1>5, <1>6, <1>7, StartKeeps
            DEF TypeInv, Functors, Attempts, ConnectionPlace
  <1> QED BY <1>8, <1>9

\* start, the first one.
LEMMA StartAttempts ==
  ASSUME MaxStarts <= 1, AttemptInv, Start
  PROVE  Round' /\ Attempts'
  <1> USE DEF AttemptInv
  <1> DEFINE k == [connector EXCEPT !.connecting = TRUE]
  <1>1. /\ starts < MaxStarts /\ starts' = starts + 1
        /\ UNCHANGED <<conn, connState, batch, phase, active, timerFires>>
        /\ \/ StartInLoop(k) /\ UNCHANGED pending
           \/ /\ connector' = k
              /\ pending' = Append(pending, "startInLoop")
              /\ UNCHANGED <<sock, channelMap>>
    BY DEF Start, connVars, roundVars
  <1>2. starts = 0
    BY <1>1, TypeParts, BoundsAssumption DEF CountType
  <1>3. Unused /\ starts' # 0
    BY <1>1, <1>2 DEF Attempts
  <1>4. connector \in Connector
    BY TypeParts DEF OwnType
  <1>5. k \in Connector /\ k.timers = 0 /\ k.state = "DisConnected"
    BY <1>3, <1>4 DEF Unused, Connector
  <1> HIDE DEF k
  <1>6. CASE StartInLoop(k) /\ UNCHANGED pending
    <2>1. \A x : (Queued(x)' <=> Queued(x)) /\ (QueuedOnce(x)' <=> QueuedOnce(x))
      BY <1>1, <1>6, QueueRests
    <2>2. Round'
      BY <1>1, <1>6, <2>1 DEF Round
    <2>3. Attempts'
      BY <1>1, <1>3, <1>5, <1>6, <2>1, StartKeeps
         DEF TypeInv, Unused, Attempts, ConnectionPlace
    <2> QED BY <2>2, <2>3
  <1>7. CASE /\ connector' = k
             /\ pending' = Append(pending, "startInLoop")
             /\ UNCHANGED <<sock, channelMap>>
    <2>1. /\ \A y : Queued(y)' <=> Queued(y) \/ y = "startInLoop"
          /\ \A y : Has(pending', y) <=> Has(pending, y) \/ y = "startInLoop"
          /\ \A y \in {"startInLoop", "removeInPoller"} : QueuedOnce(y)'
      BY <1>1, <1>3, <1>7, QueueGrows, TypeParts DEF Functors, Round, Unused
    <2>2. Round'
      BY <1>1, <1>3, <2>1 DEF Round, Unused
    <2>3. ~Queued("resetChannel")' /\ ~Queued("removeInPoller")'
      BY <1>3, <2>1 DEF Unused, Functors
    <2>4. \A f \in Fds : ~InProgress(f)'
      BY <1>3, <1>7 DEF Unused, InProgress
    <2>5. connector'.timers = 0 /\ connector'.state = "DisConnected"
      BY <1>5, <1>7
    <2>6. conn = None /\ active' = {} /\ connState' = "none"
      BY <1>1, <1>3 DEF Unused, Attempts, ConnectionPlace
    <2> QED BY <1>1, <1>3, <1>7, <2>1, <2>2, <2>3, <2>4, <2>5, <2>6
            DEF Attempts, ConnectPlace, TimerPlace, FunctorPlace, ConnectionPlace
  <1> QED BY <1>1, <1>6, <1>7

\* A functor of the batch.
LEMMA FunctorAttempts == ASSUME AttemptInv, RunFunctor PROVE Round' /\ Attempts'
  <1> USE DEF AttemptInv
  <1>1. /\ batch # <<>> /\ batch' = Tail(batch)
        /\ UNCHANGED <<conn, connState, pending, phase, active, timerFires, starts>>
    BY DEF RunFunctor, connVars, roundVars
  <1>2. /\ Queued(Head(batch))
        /\ \A y : Queued(y)' => Queued(y)
        /\ \A y : QueuedOnce(y) => QueuedOnce(y)'
        /\ \A x : x = Head(batch) /\ QueuedOnce(x) => ~Queued(x)'
    BY <1>1, QueueShrinks, TypeParts DEF Queued
  <1>3. Round'
    BY <1>1, <1>2 DEF Round
  <1>4. starts # 0
    BY <1>1, <1>2 DEF Attempts, Unused, RunFunctor, Functors
  <1>5. connector \in Connector /\ connector.timers \in Nat
    BY TypeParts DEF OwnType, Connector
  <1>6. CASE Head(batch) = "startInLoop" /\ StartInLoop(connector)
    <2>1. Queued("startInLoop") /\ ~Queued("startInLoop")'
      BY <1>2, <1>6 DEF Round
    <2>2. connector.state = "DisConnected" /\ connState = "none"
      BY <2>1 DEF Attempts, FunctorPlace
    <2>3. connector.timers = 0
      BY <1>5, <2>1 DEF Attempts, TimerPlace
    <2>4. \A f \in Fds : ~InProgress(f)
      BY <2>1 DEF Attempts, ConnectPlace
    <2>5. ~Queued("resetChannel")' /\ ~Queued("removeInPoller")'
      BY <1>2, <2>1, <2>2 DEF Attempts, FunctorPlace
    <2>6. active = {}
      <3>1. active \subseteq Fds
        BY DEF TypeInv, TypeOK
      <3> QED BY <2>2, <2>4, <3>1 DEF Attempts, ConnectionPlace
    <2>7. Attempts'
      BY <1>1, <1>4, <1>5, <1>6, <2>1, <2>2, <2>3, <2>4, <2>5, <2>6, StartKeeps
         DEF TypeInv, Functors, Attempts, ConnectionPlace
    <2> QED BY <1>3, <2>7
  <1>7. CASE Head(batch) = "resetChannel" /\ ResetChannel
    <2>1. connector' = [connector EXCEPT !.channel = None] /\ UNCHANGED <<sock, channelMap>>
      BY <1>7 DEF ResetChannel
    <2>2. /\ connector'.state = connector.state /\ connector'.timers = connector.timers
          /\ connector'.connecting = connector.connecting
      BY <1>5, <2>1 DEF Connector
    <2>3. \A f \in Fds : ~InProgress(f) /\ ~InProgress(f)'
      BY <1>2, <1>7, <2>1 DEF Attempts, FunctorPlace, InProgress
    <2>4. ConnectPlace'
      <3>1. connector.connecting => connector.state # "Connecting"
        BY <2>3 DEF Attempts, ConnectPlace
      <3>2. ~(connector'.connecting /\ connector'.state = "Connecting")
        BY <1>5, <2>2, <3>1
      <3> QED BY <2>3, <3>2 DEF ConnectPlace
    <2>5. TimerPlace' /\ FunctorPlace' /\ ConnectionPlace'
      <3>1. conn # None => conn \in Fds
        BY DEF TypeInv, TypeOK
      <3>2. active \subseteq Fds
        BY DEF TypeInv, TypeOK
      <3> QED BY <1>1, <1>2, <2>1, <2>2, <2>3, <3>1, <3>2
              DEF Attempts, TimerPlace, FunctorPlace, ConnectionPlace
    <2> QED BY <1>1, <1>3, <1>4, <2>4, <2>5 DEF Attempts
  <1>8. CASE Head(batch) = "removeInPoller" /\ RemoveInPoller
    <2>1. /\ channelMap' = [channelMap EXCEPT ![conn] = "none"]
          /\ UNCHANGED <<connector, sock>>
      BY <1>8 DEF RemoveInPoller
    <2>2. \A f \in Fds : /\ InProgress(f)' <=> InProgress(f)
                         /\ channelMap'[f] = "connection" => f = conn
      <3>1. channelMap \in [Fds -> {"none", "connector", "connection", "destroyed"}]
        BY DEF TypeInv, TypeOK
      <3>2. \A f \in Fds : channelMap'[f] = IF f = conn THEN "none" ELSE channelMap[f]
        BY <2>1, <3>1
      <3> QED BY <3>2, NoneIsNoFd DEF InProgress, Attempts, ConnectionPlace
    <2>3. conn # None => conn \in Fds
      BY DEF TypeInv, TypeOK
    <2>4. active \subseteq Fds
      BY DEF TypeInv, TypeOK
    <2>5. ConnectionPlace'
      BY <1>1, <2>1, <2>2, <2>3, <2>4 DEF Attempts, ConnectionPlace
    <2>6. ConnectPlace' /\ TimerPlace' /\ FunctorPlace'
      BY <1>1, <1>2, <2>1, <2>2 DEF Attempts, ConnectPlace, TimerPlace, FunctorPlace
    <2> QED BY <1>1, <1>3, <1>4, <2>5, <2>6 DEF Attempts
  <1> QED BY <1>6, <1>7, <1>8 DEF RunFunctor

\* loop() has returned: the connection is taken off the poller, and nothing else.
LEMMA DestroyAttempts == ASSUME AttemptInv, Destroy PROVE Round' /\ Attempts'
  <1> USE DEF AttemptInv
  <1>1. /\ phase = "functors" /\ batch = <<>>
        /\ UNCHANGED <<conn, connState, pending, batch, active, timerFires, starts>>
        /\ UNCHANGED <<connector, sock>>
        /\ \/ conn # None /\ channelMap' = [channelMap EXCEPT ![conn] = "none"]
           \/ channelMap' = [f \in Fds |-> IF f = conn THEN "none" ELSE channelMap[f]]
    BY DEF Destroy, connVars, RemoveInPoller
  <1>2. \A x : (Queued(x)' <=> Queued(x)) /\ (QueuedOnce(x)' <=> QueuedOnce(x))
    BY <1>1, QueueRests
  <1>3. Round'
    BY <1>1, <1>2 DEF Round
  <1>4. \A f \in Fds : /\ InProgress(f)' <=> InProgress(f)
                       /\ channelMap'[f] = "connection" => channelMap[f] = "connection"
    <2>1. channelMap \in [Fds -> {"none", "connector", "connection", "destroyed"}]
      BY DEF TypeInv, TypeOK
    <2>2. \A f \in Fds : channelMap'[f] = channelMap[f]
                            \/ (f = conn /\ conn # None /\ channelMap'[f] = "none")
      BY <1>1, <2>1, NoneIsNoFd
    <2> QED BY <2>2 DEF InProgress, Attempts, ConnectionPlace
  <1>5. (conn # None => conn \in Fds) /\ active = {}
    BY <1>1 DEF TypeInv, TypeOK, Round
  <1>6. Attempts'
    BY <1>1, <1>2, <1>4, <1>5
       DEF Attempts, Unused, ConnectPlace, TimerPlace, FunctorPlace, ConnectionPlace
  <1> QED BY <1>3, <1>6

\* The kernel and the peer change sockets, not the connection's, nor one that has been
\* reported, except that the connection may end.
LEMMA SocketAttempts ==
  ASSUME AttemptInv, PeerEnds \/ \E f \in Fds : Resolve(f)
  PROVE  Round' /\ Attempts'
  <1> USE DEF AttemptInv
  <1>1. UNCHANGED <<connector, conn, connState, channelMap, pending, batch, phase, active,
                    timerFires, starts>>
    BY DEF PeerEnds, Resolve, connVars, roundVars
  <1>2. \A x : (Queued(x)' <=> Queued(x)) /\ (QueuedOnce(x)' <=> QueuedOnce(x))
    BY <1>1, QueueRests
  <1>3. Round'
    BY <1>1, <1>2 DEF Round
  <1>4. \A f \in Fds : \/ sock'[f] = sock[f]
                       \/ sock[f] = "trying"
                       \/ /\ f = conn /\ sock[f] = "connected"
                          /\ sock'[f] \in {"ended", "reset"}
    <2>1. sock \in [Fds -> {"closed", "trying", "connected", "refused", "ended", "reset"}]
      BY DEF TypeInv, TypeOK
    <2> QED BY <2>1 DEF PeerEnds, Resolve
  <1>5. /\ \A f \in Fds : InProgress(f)' <=> InProgress(f)
        /\ conn # None => conn \in Fds
        /\ active \subseteq Fds
    BY <1>1 DEF InProgress, TypeInv, TypeOK
  <1>6. ConnectionPlace'
    <2>1. ASSUME NEW f \in active
          PROVE  IF InProgress(f) THEN sock'[f] \in {"connected", "refused"}
                 ELSE f = conn /\ connState = "Connected" /\ sock'[f] \in {"ended", "reset"}
      <3>1. f \in Fds /\ (InProgress(f) => f # conn)
        BY <1>5, NoneIsNoFd DEF Attempts, ConnectionPlace
      <3> QED BY <1>4, <3>1 DEF Attempts, ConnectionPlace
    <2>2. conn # None => sock'[conn] \in {"connected", "ended", "reset"} /\ ~InProgress(conn)
      BY <1>4, <1>5 DEF Attempts, ConnectionPlace
    <2> QED BY <1>1, <1>5, <2>1, <2>2 DEF Attempts, ConnectionPlace
  <1>7. ConnectPlace' /\ TimerPlace' /\ FunctorPlace' /\ (starts = 0 => Unused')
    BY <1>1, <1>2, <1>5 DEF Attempts, Unused, ConnectPlace, TimerPlace, FunctorPlace
  <1> QED BY <1>1, <1>3, <1>6, <1>7 DEF Attempts

\* Everything else leaves the Connector and the connection alone, or stops the former.
LEMMA QuietAttempts ==
  ASSUME AttemptInv, BeginBatch \/ EndBatch \/ Stop \/ ServerChanges \/ UNCHANGED vars
  PROVE  Round' /\ Attempts'
  <1> USE DEF AttemptInv
  <1>1. CASE BeginBatch
    <2>1. /\ phase = "handle" /\ phase' = "functors" /\ active = {} /\ ~timerFires
          /\ batch' = pending /\ pending' = <<>>
          /\ UNCHANGED <<connector, conn, connState, channelMap, sock, active, timerFires,
                         starts>>
      BY <1>1 DEF BeginBatch, connVars
    <2>2. Round'
      BY <2>1, QueueTurns, HasEmpty DEF Round
    <2>3. Attempts'
      BY <2>1, QueueTurns, AttemptsFrame
    <2> QED BY <2>2, <2>3
  <1>2. CASE EndBatch
    <2>1. /\ phase = "functors" /\ batch = <<>>
          /\ UNCHANGED <<connector, conn, connState, channelMap, sock, active, timerFires,
                         starts, batch, pending>>
      BY <1>2 DEF EndBatch, connVars
    <2>2. Round'
      BY <2>1, QueueRests DEF Round
    <2>3. Attempts'
      BY <2>1, QueueRests, AttemptsFrame
    <2> QED BY <2>2, <2>3
  <1>3. CASE ServerChanges \/ UNCHANGED vars
    <2>1. UNCHANGED <<connector, conn, connState, channelMap, sock, active, timerFires,
                      starts, batch, pending, phase>>
      BY <1>3 DEF ServerChanges, vars, connVars, roundVars
    <2>2. Round'
      BY <2>1, QueueRests DEF Round
    <2>3. Attempts'
      BY <2>1, QueueRests, AttemptsFrame
    <2> QED BY <2>2, <2>3
  <1>4. CASE Stop
    <2>1. /\ connector' = [connector EXCEPT !.connecting = FALSE]
          /\ UNCHANGED <<conn, connState, channelMap, sock, active, timerFires,
                         starts, batch, pending, phase>>
      BY <1>4 DEF Stop, connVars, roundVars
    <2>2. /\ connector'.state = connector.state /\ connector'.timers = connector.timers
          /\ connector'.channel = connector.channel /\ ~connector'.connecting
      BY <2>1, TypeParts DEF OwnType, Connector
    <2>3. Round'
      BY <2>1, QueueRests DEF Round
    <2>4. \A x : Queued(x)' <=> Queued(x)
      BY <2>1, QueueRests
    <2>5. Attempts'
      BY <2>1, <2>2, <2>4
         DEF Attempts, Unused, ConnectPlace, TimerPlace, FunctorPlace, ConnectionPlace,
             InProgress
    <2> QED BY <2>3, <2>5
  <1> QED BY <1>1, <1>2, <1>3, <1>4

LEMMA NextAttempts ==
  ASSUME MaxStarts <= 1, AttemptInv, [Next]_vars, ~ReadAgain
  PROVE  AttemptInv'
  <1> SUFFICES Round' /\ Attempts'
    BY NextTypes DEF AttemptInv
  <1>1. ASSUME NEW f \in Fds, HandleEvent(f) PROVE Round' /\ Attempts'
    <2>1. HandleConnect(f) \/ HandleClose(f)
      BY <1>1 DEF HandleEvent
    <2> QED BY <1>1, <2>1, HandleConnectAttempts, HandleCloseAttempts
  <1> QED BY <1>1, PollAttempts, RetryTimerAttempts, StartAttempts, FunctorAttempts,
             DestroyAttempts, SocketAttempts, QuietAttempts DEF Next, LoopStep

\* closedTwice is set by ReadAgain, and never cleared.
LEMMA ClosedTwiceStays ==
  ASSUME [Next]_vars
  PROVE  (closedTwice => closedTwice') /\ (ReadAgain => closedTwice')
  <1>1. ASSUME NEW f \in Fds, HandleEvent(f) \/ Resolve(f) PROVE closedTwice' = closedTwice
    BY <1>1 DEF HandleEvent, Resolve, roundVars
  <1>2. ReadAgain => closedTwice'
    BY Zenon DEF ReadAgain
  <1>3. Poll \/ RetryTimer \/ BeginBatch \/ RunFunctor \/ EndBatch
           => closedTwice' = closedTwice
    BY DEF Poll, RetryTimer, BeginBatch, RunFunctor, EndBatch, roundVars
  <1>4. Start \/ Stop \/ Destroy \/ ServerChanges \/ PeerEnds \/ UNCHANGED vars
           => closedTwice' = closedTwice
    BY DEF Start, Stop, Destroy, ServerChanges, PeerEnds, vars, roundVars
  <1>5. closedTwice => closedTwice'
    BY <1>1, <1>2, <1>3, <1>4, Zenon DEF Next, LoopStep
  <1> QED BY <1>2, <1>5

LEMMA SpecAttempts == ASSUME MaxStarts <= 1 PROVE Spec => []AttemptsUntilReset
  <1>1. Init => AttemptsUntilReset
    BY InitTypes, InitAttempts DEF AttemptsUntilReset, AttemptInv
  <1>2. AttemptsUntilReset /\ [Next]_vars => AttemptsUntilReset'
    BY NextTypes, NextAttempts, ClosedTwiceStays DEF AttemptsUntilReset
  <1> QED BY <1>1, <1>2, PTL DEF Spec

\* OneAttempt is an invariant of a client that is started once, for any descriptors and
\* however many connections end: a connect in progress, a timer, a functor and a
\* connection exclude one another, through stop, retry and restart, until a reset
\* connection has been closed twice.
THEOREM AttemptsOnce == ASSUME MaxStarts <= 1 PROVE Spec => []OneAttempt
  <1>1. AttemptsUntilReset => OneAttempt
    <2> SUFFICES ASSUME AttemptInv PROVE OneAttempt
      BY DEF AttemptsUntilReset, OneAttempt
    <2>1. \A f \in Fds : InProgress(f) => f = connector.channel /\ connector.timers = 0
      BY DEF AttemptInv, Attempts, ConnectPlace
    <2>2. connector.connecting =>
             (connector.state = "Connecting" <=> \E f \in Fds : InProgress(f))
      BY DEF AttemptInv, Attempts, ConnectPlace
    <2>3. connector.timers <= 1
      BY DEF AttemptInv, Attempts, TimerPlace
    <2> QED BY <2>1, <2>2, <2>3 DEF OneAttempt
  <1> QED BY <1>1, SpecAttempts, PTL

-----------------------------------------------------------------------------
(* The poller is used well.                                                *)

\* Nothing that Registered speaks of changes, and no functor is queued.
LEMMA RegisteredFrame ==
  ASSUME Registered, UNCHANGED <<conn, connState, channelMap, sock, ends>>,
         \A x : Queued(x)' => Queued(x)
  PROVE  Registered'
  BY DEF Registered, Settled

\* startInLoop adds a channel under a descriptor the poller has forgotten.
LEMMA StartRegistered ==
  ASSUME TypeOK, failed = "no", Registered, ~Settled,
         NEW k \in Connector, k.state = "DisConnected", StartInLoop(k),
         \A f \in Fds : ~InProgress(f),
         conn # None => sock[conn] \in {"connected", "ended", "reset"},
         conn' = conn, ends' = ends, connState' # "Connected",
         connState' = "DisConnected" => ends >= 1,
         ~Queued("removeInPoller")'
  PROVE  failed' = "no" /\ Registered'
  <1>1. PICK f \in Fds :
           /\ sock[f] = "closed"
           /\ \A g \in Fds : g # f => sock'[g] = sock[g]
           /\ \/ /\ sock'[f] = "trying"
                 /\ channelMap' = [channelMap EXCEPT ![f] = "connector"]
                 /\ failed' = IF channelMap[f] # "none" THEN "added twice"
                              ELSE IF DestroysInPoller(k) THEN "destroyed inside"
                              ELSE "no"
              \/ UNCHANGED <<channelMap, failed>>
    BY StartOutcome
  <1>2. channelMap[f] = "none"
    BY <1>1 DEF Registered
  <1>3. ~DestroysInPoller(k)
    BY DEF DestroysInPoller, InProgress, Connector
  <1>4. failed' = "no"
    BY <1>1, <1>2, <1>3
  <1>5. \A g \in Fds : sock'[g] = "closed" => channelMap'[g] = "none"
    <2>1. \A g \in Fds : sock[g] = "closed" => channelMap[g] = "none"
      BY DEF Registered
    <2> QED BY <1>1, <2>1 DEF TypeOK
  <1>6. conn # None => conn \in Fds /\ conn # f
    BY <1>1 DEF TypeOK
  <1>7. conn' # None /\ sock'[conn'] \in {"ended", "reset"} => ends' >= 1
    BY <1>1, <1>6 DEF Registered
  <1> QED BY <1>4, <1>5, <1>7 DEF Registered

LEMMA HandleRegistered ==
  ASSUME MaxEnds <= 1, AttemptInv, PollerInv, NEW f \in Fds, HandleEvent(f)
  PROVE  failed' = "no" /\ Registered'
  <1>1. /\ failed = "no" /\ Registered /\ f \in active
        /\ UNCHANGED <<batch, ends>>
    BY DEF HandleEvent, Running, PollerInv
  <1>2. TypeOK /\ ends \in 0..MaxEnds
    BY DEF AttemptInv, TypeInv, TypeOK
  <1>3. \A y \in Functors : pending' = Append(pending, y) =>
           (Queued("removeInPoller")' <=> Queued("removeInPoller") \/ y = "removeInPoller")
    BY <1>1, QueueGrows, TypeParts DEF AttemptInv
  <1>4. conn # None => conn \in Fds /\ sock[conn] \in {"connected", "ended", "reset"}
    BY <1>2 DEF AttemptInv, Attempts, ConnectionPlace, TypeOK
  <1>5. CASE HandleConnect(f)
    <2>1. InProgress(f)
      BY <1>5 DEF HandleConnect, InProgress
    <2>2. /\ ~Queued("removeInPoller")
          /\ connector.state = "Connecting" /\ connState # "Connected"
          /\ \A g \in Fds : InProgress(g) => g = f
          /\ sock[f] \in {"connected", "refused"}
      BY <1>1, <2>1, ReportedAlone
    <2>3. ~Queued("removeInPoller")'
      BY <1>3, <1>5, <2>2 DEF HandleConnect, Functors
    <2>4. conn # None => conn # f
      BY <2>1 DEF AttemptInv, Attempts, ConnectionPlace
    <2>5. \A g \in Fds : sock[g] = "closed" => channelMap[g] = "none"
      BY <1>1, <2>2 DEF Registered, Settled
    <2>6. CASE sock[f] = "refused"
      <3>1. /\ Retry(connector, f)
            /\ channelMap' = RemoveAndReset(channelMap, f)
            /\ UNCHANGED <<conn, connState, failed>>
        BY <1>5, <2>2, <2>6 DEF HandleConnect, connVars
      <3>2. \A g \in Fds : channelMap'[g] = IF g = f THEN "none" ELSE channelMap[g]
        BY <1>2, <3>1 DEF RemoveAndReset, TypeOK
      <3>3. \A g \in Fds : g # f => sock'[g] = sock[g]
        BY <1>2, <3>1 DEF Retry, TypeOK
      <3> QED BY <1>1, <1>4, <2>2, <2>3, <2>4, <2>5, <3>1, <3>2, <3>3 DEF Registered
    <2>7. CASE sock[f] = "connected"
      <3>1. OnConnection(f, RemoveAndReset(channelMap, f))
        BY <1>5, <2>2, <2>7 DEF HandleConnect
      <3>2. /\ conn' = f /\ connState' = "Connected" /\ failed' = "no"
            /\ \A g \in Fds : sock'[g] = IF g = conn THEN "closed" ELSE sock[g]
            /\ channelMap'[f] = "connection"
            /\ \A g \in Fds : g # f /\ g # conn => channelMap'[g] = channelMap[g]
        BY <1>2, <3>1 DEF OnConnection, RemoveAndReset, TypeOK
      <3>3. f # conn /\ sock'[f] = "connected"
        BY <2>4, <2>7, <3>2, NoneIsNoFd
      <3>4. ASSUME conn # None PROVE Settled'
        <4>1. connState = "DisConnected"
          BY <1>2, <2>2, <3>4 DEF AttemptInv, Attempts, ConnectionPlace, TypeOK
        <4>2. ends = MaxEnds
          BY <1>1, <1>2, <4>1, BoundsAssumption DEF Registered
        <4> QED BY <1>1, <3>2, <3>3, <4>2 DEF Settled
      <3>5. ASSUME NEW g \in Fds, sock'[g] = "closed" PROVE channelMap'[g] = "none" \/ Settled'
        <4>1. CASE g = conn
          BY <3>4, <4>1, NoneIsNoFd
        <4>2. CASE g # conn
          BY <2>5, <3>2, <3>3, <3>5, <4>2
        <4> QED BY <4>1, <4>2
      <3> QED BY <2>3, <3>2, <3>3, <3>5 DEF Registered
    <2> QED BY <2>2, <2>6, <2>7
  <1>6. CASE HandleClose(f)
    <2>1. ~InProgress(f)
      BY <1>6 DEF HandleClose, InProgress
    <2>2. /\ ~Queued("removeInPoller")
          /\ connector.state = "Connected" /\ connState = "Connected"
          /\ \A g \in Fds : ~InProgress(g)
          /\ f = conn /\ conn # None /\ sock[conn] \in {"ended", "reset"}
      BY <1>1, <2>1, ReportedAlone, NoneIsNoFd
    <2>3. /\ ends >= 1 /\ ~Settled
          /\ channelMap[conn] = "connection"
          /\ conn' = conn /\ connState' = "DisConnected"
      BY <1>1, <1>6, <2>2 DEF Registered, Settled, HandleClose
    <2>4. CASE retry
      <3>1. StartInLoop(Restarted(connector)) /\ UNCHANGED pending
        BY <1>6, <2>4 DEF HandleClose
      <3>2. Restarted(connector) \in Connector /\ Restarted(connector).state = "DisConnected"
        BY DelaysBounded, TypeParts DEF AttemptInv, OwnType, Restarted, Connector, ConnectorStates
      <3>3. ~Queued("removeInPoller")'
        BY <1>1, <2>2, <3>1, QueueRests
      <3> QED BY <1>1, <1>2, <1>4, <2>2, <2>3, <3>1, <3>2, <3>3, StartRegistered
    <2>5. CASE ~retry
      <3>1. /\ UNCHANGED <<sock, channelMap, failed>>
        BY <1>6, <2>5 DEF HandleClose
      <3>2. \A g \in Fds : sock[g] = "closed" => channelMap[g] = "none"
        BY <1>1, <2>3 DEF Registered
      <3> QED BY <1>1, <2>2, <2>3, <3>1, <3>2 DEF Registered
    <2> QED BY <2>4, <2>5
  <1> QED BY <1>5, <1>6 DEF HandleEvent

LEMMA RetryTimerRegistered ==
  ASSUME AttemptInv, PollerInv, RetryTimer
  PROVE  failed' = "no" /\ Registered'
  <1> DEFINE k == [connector EXCEPT !.timers = @ - 1]
  <1>1. /\ timerFires /\ failed = "no" /\ Registered
        /\ StartInLoop(k)
        /\ UNCHANGED <<conn, connState, pending, batch, ends>>
    BY DEF RetryTimer, connVars, Running, PollerInv
  <1>2. connector \in Connector /\ connector.timers = 1
    BY <1>1, TypeParts
       DEF AttemptInv, OwnType, TypeInv, Connector, Attempts, TimerPlace
  <1>3. k \in Connector /\ k.state = "DisConnected"
    BY <1>2 DEF Connector, AttemptInv, Attempts, TimerPlace
  <1>4. /\ \A f \in Fds : ~InProgress(f)
        /\ connState # "Connected"
        /\ ~Queued("removeInPoller")
    BY <1>2 DEF AttemptInv, Attempts, ConnectPlace, TimerPlace, FunctorPlace
  <1>5. ~Queued("removeInPoller")'
    BY <1>1, <1>4, QueueRests
  <1> HIDE DEF k
  <1> QED BY <1>1, <1>3, <1>4, <1>5, StartRegistered
          DEF AttemptInv, TypeInv, Attempts, ConnectionPlace, Registered, Settled

LEMMA StartCallRegistered ==
  ASSUME MaxStarts <= 1, AttemptInv, PollerInv, Start
  PROVE  failed' = "no" /\ Registered'
  <1> DEFINE k == [connector EXCEPT !.connecting = TRUE]
  <1>1. /\ starts < MaxStarts
        /\ failed = "no" /\ Registered
        /\ UNCHANGED <<conn, connState, batch, ends>>
        /\ \/ StartInLoop(k) /\ UNCHANGED pending
           \/ /\ pending' = Append(pending, "startInLoop")
              /\ UNCHANGED <<sock, channelMap, failed>>
    BY DEF Start, connVars, roundVars, Running, PollerInv
  <1>2. Unused
    BY <1>1, TypeParts, BoundsAssumption DEF AttemptInv, CountType, Attempts
  <1>3. k \in Connector /\ k.state = "DisConnected"
    BY <1>2, TypeParts DEF AttemptInv, OwnType, Unused, Connector
  <1> HIDE DEF k
  <1>4. CASE StartInLoop(k) /\ UNCHANGED pending
    <2>1. ~Queued("removeInPoller")'
      BY <1>1, <1>2, <1>4, QueueRests DEF Unused, Functors
    <2>2. conn = None /\ connState = "none"
      BY <1>2 DEF Unused, AttemptInv, Attempts, ConnectionPlace
    <2> QED BY <1>1, <1>2, <1>3, <1>4, <2>1, <2>2, StartRegistered
            DEF AttemptInv, TypeInv, Unused, Settled
  <1>5. CASE /\ pending' = Append(pending, "startInLoop")
             /\ UNCHANGED <<sock, channelMap, failed>>
    <2>1. Queued("removeInPoller")' <=> Queued("removeInPoller")
      BY <1>1, <1>5, QueueGrows, TypeParts DEF Functors, AttemptInv
    <2> QED BY <1>1, <1>5, <2>1 DEF Registered, Settled
  <1> QED BY <1>1, <1>4, <1>5

LEMMA FunctorRegistered ==
  ASSUME AttemptInv, PollerInv, RunFunctor
  PROVE  failed' = "no" /\ Registered'
  <1>1. /\ batch # <<>> /\ batch' = Tail(batch)
        /\ failed = "no" /\ Registered
        /\ UNCHANGED <<conn, connState, pending, ends>>
    BY DEF RunFunctor, connVars, roundVars, Running, PollerInv
  <1>2. /\ Queued(Head(batch))
        /\ \A y : Queued(y)' => Queued(y)
        /\ \A x : x = Head(batch) /\ QueuedOnce(x) => ~Queued(x)'
    BY <1>1, QueueShrinks, TypeParts DEF AttemptInv, Queued
  <1>3. CASE Head(batch) = "startInLoop" /\ StartInLoop(connector)
    <2>1. Queued("startInLoop")
      BY <1>2, <1>3
    <2>2. /\ connector.state = "DisConnected" /\ connState = "none"
          /\ \A f \in Fds : ~InProgress(f)
      BY <2>1 DEF AttemptInv, Attempts, FunctorPlace, ConnectPlace
    <2>3. ~Queued("removeInPoller")'
      BY <1>2, <2>2 DEF AttemptInv, Attempts, FunctorPlace
    <2>4. conn = None /\ connector \in Connector
      BY <2>2, TypeParts DEF AttemptInv, Attempts, ConnectionPlace, OwnType
    <2> QED BY <1>1, <1>3, <2>2, <2>3, <2>4, StartRegistered DEF AttemptInv, TypeInv, Settled
  <1>4. CASE Head(batch) = "resetChannel" /\ ResetChannel
    <2>1. \A f \in Fds : ~InProgress(f)
      BY <1>2, <1>4 DEF AttemptInv, Attempts, FunctorPlace
    <2>2. ~DestroysInPoller(connector)
      BY <2>1, TypeParts DEF AttemptInv, OwnType, DestroysInPoller, InProgress, Connector
    <2>3. failed' = "no" /\ UNCHANGED <<sock, channelMap>>
      BY <1>4, <2>2 DEF ResetChannel
    <2> QED BY <1>1, <1>2, <2>3, RegisteredFrame
  <1>5. CASE Head(batch) = "removeInPoller" /\ RemoveInPoller
    <2>1. Queued("removeInPoller") /\ ~Queued("removeInPoller")'
      BY <1>2, <1>5 DEF AttemptInv, Round
    <2>2. channelMap[conn] = "connection" /\ connState = "DisConnected"
      BY <1>1, <2>1 DEF Registered, AttemptInv, Attempts, FunctorPlace
    <2>3. /\ channelMap' = [channelMap EXCEPT ![conn] = "none"]
          /\ failed' = "no" /\ UNCHANGED sock
      BY <1>5, <2>2 DEF RemoveInPoller
    <2>4. \A f \in Fds : channelMap[f] = "none" => channelMap'[f] = "none"
      BY <2>3 DEF AttemptInv, TypeInv, TypeOK
    <2> QED BY <1>1, <2>1, <2>2, <2>3, <2>4 DEF Registered, Settled
  <1> QED BY <1>3, <1>4, <1>5 DEF RunFunctor

\* ~TcpClient fails only on a closed connection or a connect in progress.
LEMMA DestroyRegistered ==
  ASSUME AttemptInv, PollerInv, Destroy
  PROVE  PollerInv'
  <1>1. /\ failed = "no" /\ Registered
        /\ phase' = "over" /\ UNCHANGED <<conn, connState>>
    BY DEF Destroy, Running, PollerInv, connVars
  <1>2. CASE conn # None /\ channelMap[conn] # "connection"
    <2>1. connState # "Connected"
      BY <1>1, <1>2 DEF Registered
    <2>2. connState = "DisConnected"
      BY <1>2, <2>1 DEF AttemptInv, TypeInv, TypeOK, Attempts, ConnectionPlace
    <2> QED BY <1>1, <2>2 DEF PollerInv, NothingFails, LeftToDestructor
  <1>3. CASE /\ conn # None => channelMap[conn] = "connection"
             /\ channelMap' = [f \in Fds |-> IF f = conn THEN "none" ELSE channelMap[f]]
             /\ failed' = IF DestroysInPoller(connector) THEN "destroyed inside" ELSE "no"
    <2>1. CASE ~DestroysInPoller(connector)
      BY <1>1, <1>3, <2>1 DEF PollerInv, NothingFails
    <2>2. CASE DestroysInPoller(connector)
      <3>1. connector.channel \in Fds /\ channelMap[connector.channel] = "connector"
        BY <2>2 DEF DestroysInPoller, AttemptInv, TypeInv, TypeOK
      <3>2. connector.channel # conn
        BY <1>3, <3>1, NoneIsNoFd
      <3>3. channelMap'[connector.channel] = "connector"
        BY <1>3, <3>1, <3>2
      <3> QED BY <1>1, <3>1, <3>3 DEF PollerInv, NothingFails, LeftToDestructor, InProgress
    <2> QED BY <2>1, <2>2
  <1> QED BY <1>2, <1>3 DEF Destroy

LEMMA SocketRegistered ==
  ASSUME AttemptInv, PollerInv, Running, PeerEnds \/ \E f \in Fds : Resolve(f)
  PROVE  failed' = "no" /\ Registered'
  <1>1. /\ failed = "no" /\ Registered
        /\ UNCHANGED <<conn, connState, channelMap, pending, batch, failed>>
    BY DEF PeerEnds, Resolve, connVars, roundVars, Running, PollerInv
  <1>2. \A x : Queued(x)' <=> Queued(x)
    BY <1>1, QueueRests
  <1>3. /\ sock \in [Fds -> {"closed", "trying", "connected", "refused", "ended", "reset"}]
        /\ ends \in Nat /\ MaxEnds \in Nat
    <2>1. OwnType /\ CountType
      BY TypeParts DEF AttemptInv
    <2>2. ends \in Nat /\ MaxEnds \in Nat
      BY <2>1, BoundsAssumption DEF CountType
    <2> QED BY <2>1, <2>2 DEF OwnType, SockType
  <1>4. conn # None => conn \in Fds /\ sock[conn] \in {"connected", "ended", "reset"}
    BY DEF AttemptInv, TypeInv, TypeOK, Attempts, ConnectionPlace
  <1>5. connState = "Connected" => conn # None
    BY DEF AttemptInv, Attempts, ConnectionPlace
  <1>6. CASE PeerEnds
    <2>1. /\ ends < MaxEnds /\ ends' = ends + 1
          /\ \E x \in {"ended", "reset"} : sock' = [sock EXCEPT ![conn] = x]
      BY <1>6 DEF PeerEnds
    <2>2. \A f \in Fds : sock'[f] = "closed" => channelMap[f] = "none"
      BY <1>1, <1>3, <2>1 DEF Registered, Settled
    <2> QED BY <1>1, <1>2, <1>3, <2>1, <2>2 DEF Registered
  <1>7. ASSUME NEW f \in Fds, Resolve(f)
        PROVE  failed' = "no" /\ Registered'
    <2>1. /\ ends' = ends /\ sock[f] = "trying"
          /\ sock'[f] \in {"connected", "refused"}
          /\ \A g \in Fds : g # f => sock'[g] = sock[g]
      BY <1>3, <1>7 DEF Resolve, roundVars
    <2>2. conn # None => conn # f /\ sock'[conn] = sock[conn]
      BY <1>4, <2>1
    <2>3. Settled' <=> Settled
      BY <1>1, <1>5, <2>1, <2>2 DEF Settled
    <2>4. \A g \in Fds : sock'[g] = "closed" => channelMap[g] = "none" \/ Settled
      BY <1>1, <2>1 DEF Registered
    <2> QED BY <1>1, <1>2, <2>1, <2>2, <2>3, <2>4 DEF Registered
  <1> QED BY <1>6, <1>7

LEMMA QuietRegistered ==
  ASSUME AttemptInv, PollerInv,
         \/ Poll \/ BeginBatch \/ EndBatch \/ Stop \/ ServerChanges
  PROVE  failed' = "no" /\ Registered' /\ phase' # "over"
  <1>1. /\ UNCHANGED <<conn, connState, channelMap, sock, ends, failed>>
        /\ \/ UNCHANGED <<pending, batch>>
           \/ (pending' = <<>> /\ batch' = pending)
        /\ Running /\ phase' # "over"
    BY DEF Poll, BeginBatch, EndBatch, Stop, ServerChanges, connVars, roundVars, Running
  <1>2. \A x : Queued(x)' => Queued(x)
    BY <1>1, QueueRests, QueueTurns
  <1> QED BY <1>1, <1>2, RegisteredFrame DEF PollerInv, Running

\* NothingFails is an invariant of a client that is started once and of whose
\* connections at most one ends: whatever the order of stop, timers, functors and
\* events, the poller has no channel under a descriptor that is added, has the one that
\* is removed, and has none that is destroyed, until a reset connection has been closed
\* twice, or the client is destroyed with a closed connection or a connect in progress.
THEOREM PollerUsedWell ==
  ASSUME MaxStarts <= 1, MaxEnds <= 1
  PROVE  Spec => []NothingFails
  <1>1. Init => PollerUntilReset
    <2> SUFFICES ASSUME Init PROVE PollerInv
      BY DEF PollerUntilReset
    <2>1. /\ \A f \in Fds : channelMap[f] = "none"
          /\ connState = "none" /\ failed = "no" /\ conn = None /\ phase = "functors"
      BY DEF Init
    <2>2. ~Queued("removeInPoller")
      <3>1. pending = <<>> /\ batch = <<>>
        BY DEF Init
      <3> QED BY <3>1, HasEmpty DEF Queued
    <2> QED BY <2>1, <2>2 DEF PollerInv, Registered
  <1>2. AttemptsUntilReset /\ PollerUntilReset /\ [Next]_vars => PollerUntilReset'
    <2> SUFFICES ASSUME AttemptInv, PollerInv, [Next]_vars, ~ReadAgain PROVE PollerInv'
      BY ClosedTwiceStays DEF AttemptsUntilReset, PollerUntilReset
    <2>1. ASSUME NEW f \in Fds, HandleEvent(f) PROVE PollerInv'
      <3>1. Running /\ phase' = phase
        BY <2>1 DEF HandleEvent
      <3> QED BY <2>1, <3>1, HandleRegistered DEF PollerInv, Running
    <2>2. CASE RetryTimer \/ Start \/ RunFunctor
      <3>1. Running /\ phase' = phase
        BY <2>2 DEF RetryTimer, Start, RunFunctor, roundVars
      <3> QED BY <2>2, <3>1, RetryTimerRegistered, StartCallRegistered, FunctorRegistered
              DEF PollerInv, Running
    <2>3. CASE Destroy
      BY <2>3, DestroyRegistered
    <2>4. CASE PeerEnds \/ \E f \in Fds : Resolve(f)
      <3>1. Running /\ phase' = phase
        BY <2>4 DEF PeerEnds, Resolve, roundVars
      <3> QED BY <2>4, <3>1, SocketRegistered DEF PollerInv, Running
    <2>5. CASE Poll \/ BeginBatch \/ EndBatch \/ Stop \/ ServerChanges
      BY <2>5, QuietRegistered DEF PollerInv
    <2>6. CASE UNCHANGED vars
      <3>1. /\ UNCHANGED <<conn, connState, channelMap, sock, ends, failed, phase, pending,
                           batch, closedTwice>>
        BY <2>6 DEF vars, connVars, roundVars
      <3>2. \A x : Queued(x)' => Queued(x)
        BY <3>1, QueueRests
      <3>3. Registered => Registered'
        BY <3>1, <3>2, RegisteredFrame
      <3>4. NothingFails => NothingFails'
        BY <3>1 DEF NothingFails, LeftToDestructor, InProgress
      <3> QED BY <3>1, <3>3, <3>4 DEF PollerInv
    <2> QED BY <2>1, <2>2, <2>3, <2>4, <2>5, <2>6 DEF Next, LoopStep
  <1>3. PollerUntilReset => NothingFails
    BY DEF PollerUntilReset, PollerInv, NothingFails
  <1> QED BY <1>1, <1>2, <1>3, SpecAttempts, PTL DEF Spec
=============================================================================
