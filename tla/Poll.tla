-------------------------------- MODULE Poll --------------------------------
(***************************************************************************)
(* net::Poll (src/Poll.cpp), the default poller: a dense array of pollfd   *)
(* entries, the index of its entry in each channel, and a map from         *)
(* descriptors to channels.  remove keeps the array dense by moving the    *)
(* last entry into the hole.                                               *)
(***************************************************************************)
EXTENDS Channel, Sequences, FiniteSets

CONSTANT None               \* no channel

VARIABLES
    pollfds,                \* pollfds_: [fd |-> , events |-> ]; fd -1 if disabled
    channelMap,             \* channelMap_
    index,                  \* index_ of each channel
    active,                 \* what poll reported, when poll was the last call
    failed                  \* how the process died: "no" while it runs

vars == <<events, phase, misused, pollfds, channelMap, index, active, failed>>

Entry == [fd : Fds \cup {-1}, events : SUBSET Events]

TypeOK ==
    /\ ChannelTypeOK
    /\ pollfds \in Seq(Entry)
    /\ channelMap \in [Fds -> Channels \cup {None}]
    /\ index \in [Channels -> Int]
    /\ misused = {} => \A c \in Channels : Live(c) => index[c] + 1 \in 1..Len(pollfds)
    /\ active \subseteq Channels
    /\ failed \in {"no", "assert", "nullChannel", "outOfRange"}

Init ==
    /\ ChannelInit
    /\ pollfds = <<>>
    /\ channelMap = [fd \in Fds |-> None]
    /\ index = [c \in Channels |-> -1]
    /\ active = {}
    /\ failed = "no"

-----------------------------------------------------------------------------
(* update                                                                  *)

\* a channel the poller has not seen; insert keeps an entry the map has
Add(c) ==
    /\ index[c] < 0
    /\ pollfds' = Append(pollfds, [fd |-> FdOf[c], events |-> events'[c]])
    /\ index' = [index EXCEPT ![c] = Len(pollfds)]
    /\ channelMap' = IF channelMap[FdOf[c]] = None
                     THEN [channelMap EXCEPT ![FdOf[c]] = c] ELSE channelMap
    /\ UNCHANGED failed

Modify(c) ==
    /\ index[c] >= 0
    /\ IF index[c] < Len(pollfds)
       THEN /\ pollfds' = [pollfds EXCEPT ![index[c] + 1] =
                              [fd |-> IF events'[c] = {} THEN -1 ELSE FdOf[c],
                               events |-> events'[c]]]
            /\ UNCHANGED failed
       ELSE /\ failed' = "outOfRange"
            /\ UNCHANGED pollfds
    /\ UNCHANGED <<channelMap, index>>

Update(c) ==
    /\ failed = "no"
    /\ Change(c)
    /\ Add(c) \/ Modify(c)
    /\ active' = {}

-----------------------------------------------------------------------------
(* remove                                                                  *)

\* erase and assert(n==1)
Erase(c) ==
    /\ channelMap' = [channelMap EXCEPT ![FdOf[c]] = None]
    /\ failed' = IF channelMap[FdOf[c]] = None THEN "assert" ELSE failed

\* swap with the last entry and pop_back
MoveLastTo(i) ==
    SubSeq([pollfds EXCEPT ![i] = pollfds[Len(pollfds)]], 1, Len(pollfds) - 1)

\* mutant: the last entry is popped without erasing its channel
RemoveLastKeepsChannel(c) ==
    /\ index[c] = Len(pollfds) - 1
    /\ pollfds' = SubSeq(pollfds, 1, Len(pollfds) - 1)
    /\ UNCHANGED <<channelMap, index, failed>>

RemoveLast(c) ==
    /\ index[c] = Len(pollfds) - 1
    /\ pollfds' = SubSeq(pollfds, 1, Len(pollfds) - 1)
    /\ Erase(c)
    /\ UNCHANGED index

\* mutant: the channel of the moved entry keeps its old index
RemoveInnerKeepsIndex(c) ==
    /\ index[c] < Len(pollfds) - 1
    /\ pollfds' = MoveLastTo(index[c] + 1)
    /\ Erase(c)
    /\ UNCHANGED index

\* the entry moved into the hole is looked up by its descriptor, which is -1,
\* and in no map, when its channel is disabled
RemoveInner(c) ==
    LET endfd == pollfds[Len(pollfds)].fd IN
    /\ index[c] < Len(pollfds) - 1
    /\ \/ /\ endfd \in Fds /\ channelMap[endfd] # None
          /\ pollfds' = MoveLastTo(index[c] + 1)
          /\ index' = [index EXCEPT ![channelMap[endfd]] = index[c]]
          /\ Erase(c)
       \/ /\ endfd \in Fds => channelMap[endfd] = None
          /\ failed' = "nullChannel"
          /\ UNCHANGED <<pollfds, channelMap, index>>

\* the swap reaches beyond the array
RemoveBeyond(c) ==
    /\ index[c] >= Len(pollfds)
    /\ failed' = "outOfRange"
    /\ UNCHANGED <<pollfds, channelMap, index>>

Remove(c) ==
    /\ failed = "no"
    /\ RemoveChannel(c)
    /\ IF pollfds # <<>> THEN RemoveLast(c) \/ RemoveInner(c) \/ RemoveBeyond(c)
       ELSE UNCHANGED <<pollfds, channelMap, index, failed>>
    /\ active' = {}

Close(c) ==
    /\ failed = "no"
    /\ CloseFd(c)
    /\ active' = {}
    /\ UNCHANGED <<pollfds, channelMap, index, failed>>

-----------------------------------------------------------------------------
(* poll                                                                    *)

\* the kernel sets revents in the entries E; it ignores those with fd -1
PollFds(E) ==
    /\ failed = "no"
    /\ Resetting = {}
    /\ \A i \in E : pollfds[i].fd \in Fds
    /\ LET found == {channelMap[pollfds[i].fd] : i \in E} IN
       IF None \in found
       THEN failed' = "assert" /\ active' = {}
       ELSE active' = found /\ UNCHANGED failed
    /\ UNCHANGED <<events, phase, misused, pollfds, channelMap, index>>

Next ==
    \/ \E c \in Channels : Update(c) \/ Remove(c) \/ Close(c)
    \/ \E E \in SUBSET (1..Len(pollfds)) : PollFds(E)

Spec == Init /\ [][Next]_vars

-----------------------------------------------------------------------------
(* Properties.                                                             *)

\* what the kernel is asked to watch for c
Watched(c) ==
    UNION {pollfds[i].events : i \in {j \in 1..Len(pollfds) :
                                        pollfds[j].fd = FdOf[c]}}

\* What this poller is not written for: an update of a channel that was removed,
\* whose index is that of another's entry, and one that is never removed.  A channel
\* may be disabled twice, and removed while it wants events.
UsedWell == misused \cap {"sent", "lost"} = {}

\* After any sequence of calls the array asks the kernel for exactly what the
\* live channels want, each through its own entry, and finds the channel again
\* by the descriptor (update, the swap in remove, fillActiveChannel).
ArrayMatchesChannels ==
    UsedWell /\ failed = "no" =>
        /\ \A c \in Channels : Live(c) =>
              /\ Watched(c) = events[c]
              /\ channelMap[FdOf[c]] = c
              /\ pollfds[index[c] + 1].fd = IF events[c] = {} THEN -1 ELSE FdOf[c]
        /\ \A c, d \in Channels : Live(c) /\ Live(d) /\ index[c] = index[d]
              => c = d
        /\ Len(pollfds) = Cardinality({c \in Channels : Live(c)})

\* Neither assertion of Poll.cpp fails (Poll.cpp:87, 99, 101), and no index is out
\* of the array's range.
AssertionsHold == UsedWell => failed \notin {"assert", "outOfRange"}

\* remove leaves the moved channel "set to the index of the deleted channel"
\* (Poll.cpp:83): the channel of every entry is found, so remove never
\* dereferences an entry operator[] made for descriptor -1.
MovedChannelFound == misused = {} => failed # "nullChannel"
=============================================================================
