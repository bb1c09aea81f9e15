------------------------------ MODULE Channel ------------------------------
(***************************************************************************)
(* net::Channel (include/Channel.h, src/Channel.cpp) as the pollers see    *)
(* it: the events a channel is interested in, and the calls its owners     *)
(* (TcpConnection, Connector, Acceptor, TimerQueue, Signal, EventLoop)     *)
(* make on it.  Every call but remove ends in Poller::update, and remove   *)
(* in Poller::remove; Poll.tla and Epoll.tla add what those do.            *)
(*                                                                         *)
(* A channel object belongs to one descriptor for life, and descriptors    *)
(* are reused: the kernel hands a closed one out again, and Connector      *)
(* passes its descriptor on to a TcpConnection.  phase follows an object   *)
(* through its owner's calls.                                              *)
(***************************************************************************)
EXTENDS Integers

CONSTANTS
    Channels,               \* the channel objects
    Fds,                    \* descriptors
    FdOf,                   \* fd_ of each channel
    Permanent,              \* never removed: wakeup, timer, signal, acceptor
    Connectors              \* Connector's; the others are TcpConnections'

ASSUME ChannelAssumption ==
    /\ Fds \subseteq Nat
    /\ FdOf \in [Channels -> Fds]
    /\ Permanent \subseteq Channels
    /\ Connectors \subseteq Channels \ Permanent

VARIABLES
    events,                 \* events_
    phase,                  \* where the owner is with the channel
    misused                 \* history: what owners have done that the pollers
                            \* are not written for

kRead == "read"
kWrite == "write"
Events == {kRead, kWrite}
Phases == {"new", "open", "closed", "removed", "gone"}

\* a send enables a removed channel; a channel that wants events is removed; it is
\* disabled twice; its descriptor is closed though it has not been removed
Misuses == {"sent", "kept", "twice", "lost"}

ChannelTypeOK ==
    /\ events \in [Channels -> SUBSET Events]
    /\ phase \in [Channels -> Phases]
    /\ misused \subseteq Misuses

ChannelInit ==
    /\ events = [c \in Channels |-> {}]
    /\ phase = [c \in Channels |-> "new"]
    /\ misused = {}

\* in the hands of its owner and, as far as the owner knows, of the poller
Live(c) == phase[c] \in {"open", "closed"}

SameFd(c) == {d \in Channels \ {c} : FdOf[d] = FdOf[c]}

SetEvents(c, evs) == events' = [events EXCEPT ![c] = evs]

Misuse(how, happens) == misused' = IF happens THEN misused \cup {how} ELSE misused

Connections == Channels \ (Permanent \cup Connectors)

\* the channels that removeAndReset has disabled, and removes before it returns
Resetting == {k \in Connectors : phase[k] = "closed"}

\* the first call on a channel: enableReading (connectEstablished, listen, the
\* loop's own channels) or enableWriting (Connector::connecting); the descriptor
\* is new, or one a Connector passes on; the loop opens its own channels first
Open(c) ==
    /\ phase[c] = "new"
    /\ c \notin Permanent => \A d \in Permanent : phase[d] = "open"
    /\ \A d \in SameFd(c) :
          \/ phase[d] \in {"new", "gone"}
          \/ phase[d] = "removed" /\ d \in Connectors
    /\ phase' = [d \in Channels |->
                    IF d = c THEN "open"
                    ELSE IF d \in SameFd(c) /\ phase[d] = "removed" THEN "gone"
                    ELSE phase[d]]
    /\ SetEvents(c, IF c \in Connectors THEN {kWrite} ELSE {kRead})
    /\ UNCHANGED misused

\* sendInLoop after a short write; it looks at isWriting, not at the state, so the
\* connection may have closed, or been removed
EnableWriting(c) ==
    /\ phase[c] \in {"open", "closed", "removed"}
    /\ c \in Connections
    /\ kWrite \notin events[c]
    /\ SetEvents(c, events[c] \cup {kWrite})
    /\ Misuse("sent", phase[c] = "removed")
    /\ UNCHANGED phase

\* handleWrite with nothing left to write
DisableWrite(c) ==
    /\ Live(c)
    /\ c \in Connections
    /\ kWrite \in events[c]
    /\ SetEvents(c, events[c] \ {kWrite})
    /\ UNCHANGED <<phase, misused>>

\* handleClose, which a reset connection calls twice, and removeAndReset
DisableAll(c) ==
    /\ \/ phase[c] = "open" /\ c \notin Permanent
       \/ phase[c] = "closed" /\ c \in Connections /\ events[c] = {}
    /\ phase' = [phase EXCEPT ![c] = "closed"]
    /\ SetEvents(c, {})
    /\ Misuse("twice", phase[c] = "closed")

\* every call that ends in Poller::update
Change(c) ==
    /\ Resetting = {}
    /\ Open(c) \/ EnableWriting(c) \/ DisableWrite(c) \/ DisableAll(c)

\* removeConnectionInPoller, removeAndReset
RemoveChannel(c) ==
    /\ phase[c] = "closed"
    /\ Resetting \subseteq {c}
    /\ phase' = [phase EXCEPT ![c] = "removed"]
    /\ Misuse("kept", events[c] # {})
    /\ UNCHANGED events

\* the channel's owner closes the descriptor; a TcpClient with retry_ replaces a
\* connection that has closed without removing its channel
CloseFd(c) ==
    /\ \/ phase[c] = "removed"
       \/ phase[c] = "closed" /\ c \in Connections
    /\ Resetting = {}
    /\ phase' = [phase EXCEPT ![c] = "gone"]
    /\ Misuse("lost", phase[c] = "closed")
    /\ UNCHANGED events

\* what the kernel should watch on behalf of c
Wanted(c) == IF Live(c) THEN events[c] ELSE {}
=============================================================================
