------------------------------- MODULE Epoll -------------------------------
(***************************************************************************)
(* net::Epoll (src/Epoll.cpp), the poller used when MY_POLLER_POLL is set: *)
(* the kernel holds the interest list, and a channel's index says whether  *)
(* the channel is unknown (kNew), in the kernel's list (kAdded) or only in *)
(* channelMap_ (kDeleted).                                                 *)
(***************************************************************************)
EXTENDS Channel

CONSTANT None               \* no channel, no kernel entry

VARIABLES
    kernel,                 \* epollfd_'s list: what epoll_ctl set for each fd
    channelMap,             \* channelMap_
    index,                  \* index_ of each channel
    active,                 \* what epoll_wait reported, when it was the last call
    failed                  \* how the process died: "no" while it runs

vars == <<events, phase, misused, kernel, channelMap, index, active, failed>>

kNew == -1
kAdded == 0
kDeleted == 2

TypeOK ==
    /\ ChannelTypeOK
    /\ kernel \in [Fds -> [events : SUBSET Events, ptr : Channels] \cup {None}]
    /\ channelMap \in [Fds -> Channels \cup {None}]
    /\ index \in [Channels -> {kNew, kAdded, kDeleted}]
    /\ misused = {} => \A c \in Channels : index[c] = kNew <=> phase[c] = "new"
    /\ active \subseteq Channels
    /\ failed \in {"no", "assert", "unknown", "epoll_ctl"}

Init ==
    /\ ChannelInit
    /\ kernel = [fd \in Fds |-> None]
    /\ channelMap = [fd \in Fds |-> None]
    /\ index = [c \in Channels |-> kNew]
    /\ active = {}
    /\ failed = "no"

Fail(how) == failed' = how /\ UNCHANGED <<kernel, channelMap, index>>

-----------------------------------------------------------------------------
(* update                                                                  *)

\* epoll_ctl: ADD wants a descriptor that is not in the list, MOD and DEL one
\* that is; an error ends the process (LOG_SYSFATAL)
Ctl(c, op, entry) ==
    IF (op = "ADD") = (kernel[FdOf[c]] = None)
    THEN kernel' = [kernel EXCEPT ![FdOf[c]] = entry] /\ UNCHANGED failed
    ELSE failed' = "epoll_ctl" /\ UNCHANGED kernel

EntryOf(c) == [events |-> events'[c], ptr |-> c]

Add(c) ==
    /\ index[c] \in {kNew, kDeleted}
    /\ IF (index[c] = kNew) = (channelMap[FdOf[c]] = None)
       THEN /\ channelMap' = [channelMap EXCEPT ![FdOf[c]] =
                                 IF index[c] = kNew THEN c ELSE @]
            /\ index' = [index EXCEPT ![c] = kAdded]
            /\ Ctl(c, "ADD", EntryOf(c))
       ELSE Fail("assert")

\* mutant: a channel without events is only modified
ModifyNeverDeletes(c) ==
    /\ index[c] = kAdded
    /\ channelMap[FdOf[c]] # None
    /\ Ctl(c, "MOD", EntryOf(c))
    /\ UNCHANGED <<channelMap, index>>

Modify(c) ==
    /\ index[c] = kAdded
    /\ IF channelMap[FdOf[c]] = None
       THEN Fail("assert")
       ELSE /\ IF events'[c] = {}
               THEN /\ Ctl(c, "DEL", None)
                    /\ index' = [index EXCEPT ![c] = kDeleted]
               ELSE /\ Ctl(c, "MOD", EntryOf(c))
                    /\ UNCHANGED index
            /\ UNCHANGED channelMap

Update(c) ==
    /\ failed = "no"
    /\ Change(c)
    /\ Add(c) \/ Modify(c)
    /\ active' = {}

\* remove forgets the channel; the kernel's list and the index stay as they are
Remove(c) ==
    /\ failed = "no"
    /\ RemoveChannel(c)
    /\ IF channelMap[FdOf[c]] = None \/ index[c] = kNew
       THEN Fail("assert")
       ELSE /\ channelMap' = [channelMap EXCEPT ![FdOf[c]] = None]
            /\ UNCHANGED <<kernel, index, failed>>
    /\ active' = {}

\* closing a descriptor takes it off the kernel's list
Close(c) ==
    /\ failed = "no"
    /\ CloseFd(c)
    /\ kernel' = [kernel EXCEPT ![FdOf[c]] = None]
    /\ active' = {}
    /\ UNCHANGED <<channelMap, index, failed>>

\* epoll_wait reports the ready descriptors R, with the channels they were
\* added with, which fillActiveChannel expects to find in channelMap_
EpollWait(R) ==
    /\ failed = "no"
    /\ Resetting = {}
    /\ \A fd \in R : kernel[fd] # None
    /\ IF \E fd \in R : channelMap[FdOf[kernel[fd].ptr]] = None
       THEN failed' = "unknown" /\ active' = {}
       ELSE active' = {kernel[fd].ptr : fd \in R} /\ UNCHANGED failed
    /\ UNCHANGED <<events, phase, misused, kernel, channelMap, index>>

Next ==
    \/ \E c \in Channels : Update(c) \/ Remove(c) \/ Close(c)
    \/ \E R \in SUBSET Fds : EpollWait(R)

Spec == Init /\ [][Next]_vars

-----------------------------------------------------------------------------
(* Properties.                                                             *)

\* After any sequence of calls the kernel watches exactly what the live channels
\* want, and will hand back the channel that wants it (update, remove, and the
\* index that decides between ADD, MOD and DEL).
KernelMatchesChannels ==
    misused = {} =>
        /\ \A c \in Channels : Wanted(c) # {} =>
              kernel[FdOf[c]] = [events |-> Wanted(c), ptr |-> c]
        /\ \A fd \in Fds : kernel[fd] # None => Wanted(kernel[fd].ptr) # {}

\* No assertion of Epoll.cpp fails and no epoll_ctl is refused (Epoll.cpp:64, 66,
\* 69, 84, 88, 97, 115, 123, 136).
NothingFails == misused = {} => failed = "no"

\* Epoll.cpp:136, however the channels are used: channelMap_ has what epoll_wait
\* hands back.
ReportedIsKnown == failed # "unknown"
=============================================================================
