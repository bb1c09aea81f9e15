------------------------------- MODULE Poller -------------------------------
(***************************************************************************)
(* What a net::Poller (include/Poller.h) promises: unless an owner misuses *)
(* a channel, poll reports channels that want events and no others.  How   *)
(* it keeps track of them, and of descriptors that are reused, is left to  *)
(* Poll.tla and Epoll.tla.                                                 *)
(***************************************************************************)
EXTENDS Channel

VARIABLE active             \* what poll reported, when it was the last call

vars == <<events, phase, misused, active>>

Init == ChannelInit /\ active = {}

Call(c) ==
    /\ Change(c) \/ RemoveChannel(c) \/ CloseFd(c)
    /\ active' = {}

Report(A) ==
    /\ misused = {} => \A c \in A : Wanted(c) # {}
    /\ active' = A
    /\ UNCHANGED <<events, phase, misused>>

Next ==
    \/ \E c \in Channels : Call(c)
    \/ \E A \in SUBSET Channels : Report(A)

Spec == Init /\ [][Next]_vars
=============================================================================
