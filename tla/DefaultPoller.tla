--------------------------- MODULE DefaultPoller ---------------------------
(***************************************************************************)
(* newDefaultPoller (src/DefaultPoller.cpp) makes a Poll, or an Epoll when *)
(* the environment has MY_POLLER_POLL.  Whichever it is, the rest of the   *)
(* library uses it as the Poller of Poller.tla.                            *)
(***************************************************************************)
EXTENDS Channel, Sequences

CONSTANT None               \* no channel, no kernel entry

ASSUME NoneIsNothing ==
    None \notin Channels \cup [events : SUBSET Events, ptr : Channels]

VARIABLES
    kind,                   \* "poll" or "epoll"
    pollfds,                \* of Poll
    kernel,                 \* of Epoll
    channelMap, index, active, failed       \* of either

vars == <<kind, events, phase, misused, pollfds, kernel, channelMap, index, active,
          failed>>

P == INSTANCE Poll
E == INSTANCE Epoll

\* newDefaultPoller
Init ==
    \/ kind = "poll" /\ P!Init /\ kernel = [fd \in Fds |-> None]
    \/ kind = "epoll" /\ E!Init /\ pollfds = <<>>

Next ==
    \/ kind = "poll" /\ P!Next /\ UNCHANGED <<kind, kernel>>
    \/ kind = "epoll" /\ E!Next /\ UNCHANGED <<kind, pollfds>>

Spec == Init /\ [][Next]_vars

-----------------------------------------------------------------------------
(* Properties.                                                             *)

TypeOK ==
    /\ kind = "poll" => P!TypeOK
    /\ kind = "epoll" => E!TypeOK

\* What the kernel is asked to watch is what the live channels want, and each is
\* found again, after any sequence of calls; no assertion of Poll.cpp or Epoll.cpp
\* fails on the way, and no epoll_ctl is refused.  For Poll it is so until a removed
\* channel is enabled, or a descriptor closed whose channel is not removed; for
\* Epoll, until any misuse.
MatchesChannels ==
    /\ kind = "poll" => P!ArrayMatchesChannels /\ P!AssertionsHold
    /\ kind = "epoll" => E!KernelMatchesChannels /\ E!NothingFails

\* remove leaves the moved channel "set to the index of the deleted channel"
\* (Poll.cpp:83), and finds that channel.
MovedChannelFound == kind = "poll" => P!MovedChannelFound

\* "assert(pos!=channelMap_.end())" (Epoll.cpp:136): a channel that epoll_wait hands
\* back is in channelMap_.  A send, or the second disableAll of a reset connection,
\* puts a channel that has closed back on the kernel's list, where remove leaves it.
ReportedIsKnown == kind = "epoll" => E!ReportedIsKnown

\* Both classes are Pollers: until a channel is misused they report live channels
\* that want events, and none else, though closed descriptors are reused by others.
Abstract == INSTANCE Poller
PollerSpec == Abstract!Spec
=============================================================================
