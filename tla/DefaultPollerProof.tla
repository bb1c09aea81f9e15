------------------------- MODULE DefaultPollerProof -------------------------
(***************************************************************************)
(* Both pollers keep track of their channels, for any number of channels   *)
(* and descriptors and however descriptors are reused, and both implement  *)
(* Poller, until an owner misuses a channel in a way its poller is not     *)
(* written for; the types are kept whatever the owners do.                 *)
(***************************************************************************)
EXTENDS DefaultPoller, FiniteSetTheorems, SequenceTheorems, TLAPS

-----------------------------------------------------------------------------
(* The inductive invariants.                                               *)

LiveChannels == {c \in Channels : Live(c)}

\* One channel at a time uses a descriptor, until its owner closes or passes it on.
OneOwner ==
    \A c, d \in Channels :
        c # d /\ FdOf[c] = FdOf[d] /\ phase[c] \in {"open", "closed", "removed"}
            => phase[d] \in {"new", "gone"}

\* channelMap_ has the live channels under their descriptors, and no others.
MapMatches ==
    /\ \A c \in LiveChannels : channelMap[FdOf[c]] = c
    /\ \A f \in Fds : channelMap[f] # None =>
          channelMap[f] \in LiveChannels /\ FdOf[channelMap[f]] = f

Entries == [fd : Fds \cup {-1}, events : SUBSET Events]

\* The types of Poll, which hold whatever is misused.
PollBasics ==
    /\ ChannelTypeOK
    /\ pollfds \in Seq(Entries)
    /\ channelMap \in [Fds -> Channels \cup {None}]
    /\ index \in [Channels -> Int]
    /\ active \subseteq Channels
    /\ failed \in {"no", "assert", "nullChannel", "outOfRange"}

\* index_ is an index from the first call on, also after remove.
PollTypes ==
    /\ PollBasics
    /\ \A c \in Channels : IF phase[c] = "new" THEN index[c] = -1 ELSE index[c] >= 0
    /\ failed \in {"no", "nullChannel"}

EntryFor(c) ==
    [fd |-> IF events[c] = {} THEN -1 ELSE FdOf[c], events |-> events[c]]

\* The entries and the live channels correspond one to one.
EntriesMatch ==
    /\ \A c \in LiveChannels :
          index[c] + 1 \in 1..Len(pollfds) /\ pollfds[index[c] + 1] = EntryFor(c)
    /\ \A i \in 1..Len(pollfds) : \E c \in LiveChannels : index[c] + 1 = i
    /\ \A c, d \in LiveChannels : index[c] = index[d] => c = d
    /\ IsFiniteSet(LiveChannels)
    /\ Len(pollfds) = Cardinality(LiveChannels)

PollInv ==
    /\ PollTypes
    /\ \A c \in LiveChannels : index[c] + 1 \in 1..Len(pollfds)
    /\ failed = "no" => OneOwner /\ MapMatches /\ EntriesMatch

\* A connection that is open reads, and every open channel wants something.
WantsRightly(c) ==
    phase[c] = "open" => events[c] # {} /\ (c \in Connections => kRead \in events[c])

\* The kernel has a descriptor while its channel wants events, and index_ says so.
KernelMatches ==
    /\ \A c \in LiveChannels :
          IF events[c] = {}
          THEN index[c] = E!kDeleted /\ kernel[FdOf[c]] = None
          ELSE index[c] = E!kAdded /\ kernel[FdOf[c]] = [events |-> events[c], ptr |-> c]
    /\ \A f \in Fds : kernel[f] # None =>
          kernel[f].ptr \in LiveChannels /\ FdOf[kernel[f].ptr] = f
    /\ \A c \in Channels : WantsRightly(c)

\* The types of Epoll, which hold whatever is misused.
EpollBasics ==
    /\ ChannelTypeOK
    /\ kernel \in [Fds -> [events : SUBSET Events, ptr : Channels] \cup {None}]
    /\ channelMap \in [Fds -> Channels \cup {None}]
    /\ index \in [Channels -> {E!kNew, E!kAdded, E!kDeleted}]
    /\ active \subseteq Channels
    /\ failed \in {"no", "assert", "unknown", "epoll_ctl"}

EpollInv ==
    /\ EpollBasics
    /\ \A c \in Channels : index[c] = E!kNew <=> phase[c] = "new"
    /\ failed = "no" /\ OneOwner /\ MapMatches /\ KernelMatches

IInv ==
    /\ kind \in {"poll", "epoll"}
    /\ kind = "poll" => PollBasics /\ (P!UsedWell => PollInv)
    /\ kind = "epoll" => EpollBasics /\ (misused = {} => EpollInv)

-----------------------------------------------------------------------------
(* The calls on a channel.                                                 *)

\* The definitions of Channel are the same in both pollers.
LEMMA SameChannel ==
  /\ P!ChannelTypeOK = ChannelTypeOK /\ E!ChannelTypeOK = ChannelTypeOK
  /\ P!Events = Events /\ E!Events = Events
  /\ \A c : P!Live(c) = Live(c) /\ E!Live(c) = Live(c)
  /\ \A c : P!Wanted(c) = Wanted(c) /\ E!Wanted(c) = Wanted(c)
  /\ \A c : P!Change(c) = Change(c) /\ E!Change(c) = Change(c)
  /\ \A c : P!RemoveChannel(c) = RemoveChannel(c) /\ E!RemoveChannel(c) = RemoveChannel(c)
  /\ \A c : P!CloseFd(c) = CloseFd(c) /\ E!CloseFd(c) = CloseFd(c)
  BY Zenon DEF P!ChannelTypeOK, E!ChannelTypeOK, ChannelTypeOK, P!Events, E!Events, Events,
        P!kRead, E!kRead, kRead, P!kWrite, E!kWrite, kWrite,
        P!Phases, E!Phases, Phases, P!Misuses, E!Misuses, Misuses,
        P!Misuse, E!Misuse, Misuse, P!Resetting, E!Resetting, Resetting,
        P!Live, E!Live, Live, P!Wanted, E!Wanted, Wanted,
        P!Change, E!Change, Change, P!Open, E!Open, Open,
        P!EnableWriting, E!EnableWriting, EnableWriting,
        P!DisableWrite, E!DisableWrite, DisableWrite, P!DisableAll, E!DisableAll, DisableAll,
        P!SameFd, E!SameFd, SameFd, P!SetEvents, E!SetEvents, SetEvents,
        P!Connections, E!Connections, Connections,
        P!RemoveChannel, E!RemoveChannel, RemoveChannel,
        P!CloseFd, E!CloseFd, CloseFd

LEMMA SameCardinality == \A S : P!Cardinality(S) = Cardinality(S)
  BY DEF P!Cardinality, Cardinality

\* Every call keeps the types, and what has been misused stays so.
LEMMA ChannelTypesKept ==
  ASSUME ChannelTypeOK, NEW c \in Channels,
         Change(c) \/ RemoveChannel(c) \/ CloseFd(c)
  PROVE  ChannelTypeOK' /\ misused \subseteq misused'
  <1> USE DEF ChannelTypeOK, Phases, Misuses, Misuse
  <1>1. ASSUME Open(c) PROVE ChannelTypeOK' /\ misused \subseteq misused'
    <2>1. phase' \in [Channels -> Phases]
      BY <1>1 DEF Open
    <2>2. events' \in [Channels -> SUBSET Events] /\ misused' = misused
      BY <1>1 DEF Open, SetEvents, Events
    <2> QED BY <2>1, <2>2
  <1>2. EnableWriting(c) => ChannelTypeOK' /\ misused \subseteq misused'
    BY DEF EnableWriting, SetEvents, Events
  <1>3. DisableWrite(c) => ChannelTypeOK' /\ misused \subseteq misused'
    BY DEF DisableWrite, SetEvents
  <1>4. DisableAll(c) => ChannelTypeOK' /\ misused \subseteq misused'
    BY DEF DisableAll, SetEvents
  <1>5. RemoveChannel(c) => ChannelTypeOK' /\ misused \subseteq misused'
    BY DEF RemoveChannel
  <1>6. CloseFd(c) => ChannelTypeOK' /\ misused \subseteq misused'
    BY DEF CloseFd
  <1> QED BY <1>1, <1>2, <1>3, <1>4, <1>5, <1>6 DEF Change

\* What a call that ends in update does to the channels: c is alive afterwards, and
\* if it was not before, then no live channel had its descriptor.
LEMMA ChangeEffect ==
  ASSUME ChannelTypeOK, OneOwner, NEW c \in Channels, Change(c), "sent" \notin misused'
  PROVE  /\ ChannelTypeOK' /\ OneOwner'
         /\ events' = [events EXCEPT ![c] = events'[c]]
         /\ LiveChannels' = LiveChannels \cup {c}
         /\ \A d \in Channels : phase'[d] = "new" <=> phase[d] = "new" /\ d # c
         /\ c \notin LiveChannels =>
               /\ phase[c] = "new"
               /\ events'[c] # {}
               /\ \A d \in LiveChannels : FdOf[d] # FdOf[c]
  <1> USE DEF ChannelTypeOK
  <1>1. CASE Open(c)
    <2>1. /\ phase[c] = "new"
          /\ \A d \in Channels : d # c /\ FdOf[d] = FdOf[c] =>
                phase[d] \in {"new", "gone", "removed"}
          /\ \A d \in Channels :
                phase'[d] = IF d = c THEN "open"
                            ELSE IF FdOf[d] = FdOf[c] /\ phase[d] = "removed" THEN "gone"
                            ELSE phase[d]
      BY <1>1 DEF Open, SameFd
    <2>2. ChannelTypeOK'
      BY ChannelTypesKept
    <2>3. OneOwner'
      BY <2>1 DEF OneOwner
    <2>4. events' = [events EXCEPT ![c] = events'[c]] /\ events'[c] # {}
      BY <1>1 DEF Open, SetEvents
    <2>5. LiveChannels' = LiveChannels \cup {c}
      BY <2>1 DEF LiveChannels, Live
    <2>6. \A d \in LiveChannels : FdOf[d] # FdOf[c]
      BY <2>1 DEF LiveChannels, Live
    <2>7. \A d \in Channels : phase'[d] = "new" <=> phase[d] = "new" /\ d # c
      BY <2>1
    <2> QED BY <2>1, <2>2, <2>3, <2>4, <2>5, <2>6, <2>7
  <1>2. CASE ~Open(c)
    <2>1. /\ phase[c] \in {"open", "closed"}
          /\ phase' \in {phase, [phase EXCEPT ![c] = "closed"]}
          /\ events' = [events EXCEPT ![c] = events'[c]]
          /\ events' \in [Channels -> SUBSET Events]
      <3>1. CASE EnableWriting(c)
        <4>1. phase[c] \in {"open", "closed"}
          BY <3>1 DEF EnableWriting, Misuse
        <4> QED BY <3>1, <4>1 DEF EnableWriting, SetEvents, Events
      <3>2. CASE DisableWrite(c)
        BY <3>2 DEF DisableWrite, SetEvents, Live
      <3>3. CASE DisableAll(c)
        BY <3>3 DEF DisableAll, SetEvents
      <3> QED BY <1>2, <3>1, <3>2, <3>3 DEF Change
    <2>2. ChannelTypeOK'
      BY ChannelTypesKept
    <2>3. \A d \in Channels :
             \/ phase'[d] = phase[d]
             \/ phase[d] \in {"open", "closed"} /\ phase'[d] = "closed"
      BY <2>1
    <2>4. OneOwner'
      BY <2>3 DEF OneOwner
    <2>5. LiveChannels' = LiveChannels \cup {c} /\ c \in LiveChannels
      BY <2>1, <2>3 DEF LiveChannels, Live
    <2> QED BY <2>1, <2>2, <2>3, <2>4, <2>5
  <1> QED BY <1>1, <1>2

\* What remove does to the channels.
LEMMA RemoveEffect ==
  ASSUME ChannelTypeOK, OneOwner, NEW c \in Channels, RemoveChannel(c)
  PROVE  /\ ChannelTypeOK' /\ OneOwner'
         /\ events' = events
         /\ c \in LiveChannels
         /\ LiveChannels' = LiveChannels \ {c}
         /\ \A d \in Channels : phase'[d] = "new" <=> phase[d] = "new"
  <1>1. /\ phase[c] = "closed" /\ phase' = [phase EXCEPT ![c] = "removed"]
        /\ events' = events
    BY DEF RemoveChannel
  <1>2. ChannelTypeOK'
    BY ChannelTypesKept
  <1>3. \A d \in Channels : phase'[d] = IF d = c THEN "removed" ELSE phase[d]
    BY <1>1 DEF ChannelTypeOK
  <1>4. OneOwner'
    BY <1>1, <1>3 DEF OneOwner
  <1>5. c \in LiveChannels /\ LiveChannels' = LiveChannels \ {c}
    BY <1>1, <1>3 DEF LiveChannels, Live
  <1> QED BY <1>1, <1>2, <1>3, <1>4, <1>5

\* What close does to the channels.
LEMMA CloseEffect ==
  ASSUME ChannelTypeOK, OneOwner, NEW c \in Channels, CloseFd(c), "lost" \notin misused'
  PROVE  /\ ChannelTypeOK' /\ OneOwner'
         /\ events' = events
         /\ LiveChannels' = LiveChannels
         /\ \A d \in Channels : phase'[d] = "new" <=> phase[d] = "new"
         /\ \A d \in Channels : phase'[d] = "closed" <=> phase[d] = "closed"
         /\ \A d \in LiveChannels : FdOf[d] # FdOf[c]
  <1>1. /\ phase[c] = "removed" /\ phase' = [phase EXCEPT ![c] = "gone"]
        /\ events' = events
    BY DEF CloseFd, Misuse
  <1>2. ChannelTypeOK'
    BY ChannelTypesKept
  <1>3. \A d \in Channels : phase'[d] = IF d = c THEN "gone" ELSE phase[d]
    BY <1>1 DEF ChannelTypeOK
  <1>4. OneOwner'
    BY <1>1, <1>3 DEF OneOwner
  <1>5. LiveChannels' = LiveChannels
    BY <1>1, <1>3 DEF LiveChannels, Live
  <1>6. \A d \in LiveChannels : FdOf[d] # FdOf[c]
    BY <1>1 DEF OneOwner, LiveChannels, Live
  <1> QED BY <1>1, <1>2, <1>3, <1>4, <1>5, <1>6

-----------------------------------------------------------------------------
(* Poll.                                                                   *)

\* A channel's first update appends its entry.
LEMMA PollAddKeeps ==
  ASSUME PollInv, P!UsedWell', NEW c \in Channels,
         failed = "no", Change(c), P!Add(c), active' = {}
  PROVE  PollInv'
  <1> USE DEF PollInv, PollTypes, PollBasics
  <1> DEFINE entry == [fd |-> FdOf[c], events |-> events'[c]]
             n == Len(pollfds)
  <1>1. /\ ChannelTypeOK' /\ OneOwner'
        /\ events' = [events EXCEPT ![c] = events'[c]]
        /\ LiveChannels' = LiveChannels \cup {c}
        /\ \A d \in Channels : phase'[d] = "new" <=> phase[d] = "new" /\ d # c
    BY ChangeEffect DEF P!UsedWell
  <1>2. phase[c] = "new" /\ c \notin LiveChannels
    BY DEF P!Add, LiveChannels, Live
  <1>3. events'[c] # {} /\ \A d \in LiveChannels : FdOf[d] # FdOf[c]
    BY <1>2, ChangeEffect DEF P!UsedWell
  <1>4. /\ pollfds' = Append(pollfds, entry)
        /\ index' = [index EXCEPT ![c] = n]
        /\ failed' = "no"
        /\ n \in Nat
    BY DEF P!Add
  <1>5. channelMap' = [channelMap EXCEPT ![FdOf[c]] = c]
    <2>1. channelMap[FdOf[c]] = None
      BY <1>3, ChannelAssumption DEF MapMatches
    <2> QED BY <2>1 DEF P!Add
  <1>6. \A d \in LiveChannels : d \in Channels /\ d # c /\ events'[d] = events[d]
    BY <1>1, <1>2 DEF ChannelTypeOK, LiveChannels
  <1>7. PollTypes'
    <2>1. entry \in Entries
      BY <1>1, ChannelAssumption DEF ChannelTypeOK, Entries
    <2>2. pollfds' \in Seq(Entries)
      BY <1>4, <2>1
    <2>3. channelMap' \in [Fds -> Channels \cup {None}]
      BY <1>5, ChannelAssumption
    <2>4. index' \in [Channels -> Int]
      BY <1>4
    <2>5. \A d \in Channels : IF phase'[d] = "new" THEN index'[d] = -1 ELSE index'[d] >= 0
      BY <1>1, <1>4
    <2> QED BY <1>1, <1>4, <2>2, <2>3, <2>4, <2>5
  <1>8. MapMatches'
    <2>1. \A d \in LiveChannels' : channelMap'[FdOf[d]] = d
      BY <1>1, <1>3, <1>5, <1>6, ChannelAssumption DEF MapMatches
    <2>2. \A f \in Fds : channelMap'[f] # None =>
             channelMap'[f] \in LiveChannels' /\ FdOf[channelMap'[f]] = f
      BY <1>1, <1>5, ChannelAssumption DEF MapMatches
    <2> QED BY <2>1, <2>2 DEF MapMatches
  <1>9. EntriesMatch'
    <2>1. /\ Len(pollfds') = n + 1
          /\ \A i \in 1..n : pollfds'[i] = pollfds[i]
          /\ pollfds'[n + 1] = entry
      BY <1>4
    <2>2. \A d \in LiveChannels : index'[d] = index[d]
      BY <1>4, <1>6
    <2>3. index'[c] = n
      BY <1>4
    <2>4. \A d \in LiveChannels' : /\ index'[d] + 1 \in 1..Len(pollfds')
                                   /\ pollfds'[index'[d] + 1] = EntryFor(d)'
      <3>1. EntryFor(c)' = entry
        BY <1>3 DEF EntryFor
      <3>2. \A d \in LiveChannels : EntryFor(d)' = EntryFor(d)
        BY <1>6 DEF EntryFor
      <3> QED BY <1>1, <1>4, <2>1, <2>2, <2>3, <3>1, <3>2 DEF EntriesMatch
    <2>5. ASSUME NEW i \in 1..Len(pollfds')
          PROVE  \E d \in LiveChannels' : index'[d] + 1 = i
      <3>1. CASE i = n + 1
        BY <1>1, <2>3, <3>1
      <3>2. CASE i # n + 1
        <4>1. i \in 1..n
          BY <1>4, <2>1, <3>2
        <4>2. PICK d \in LiveChannels : index[d] + 1 = i
          BY <4>1 DEF EntriesMatch
        <4> QED BY <1>1, <2>2, <4>2
      <3> QED BY <3>1, <3>2
    <2>6. \A d, e \in LiveChannels' : index'[d] = index'[e] => d = e
      BY <1>1, <1>4, <1>6, <2>2, <2>3 DEF EntriesMatch
    <2>7. IsFiniteSet(LiveChannels') /\ Cardinality(LiveChannels') = n + 1
      BY <1>1, <1>2, FS_AddElement DEF EntriesMatch
    <2> QED BY <2>1, <2>4, <2>5, <2>6, <2>7 DEF EntriesMatch
  <1>10. \A d \in LiveChannels' : index'[d] + 1 \in 1..Len(pollfds')
    BY <1>9 DEF EntriesMatch
  <1> QED BY <1>1, <1>7, <1>8, <1>9, <1>10

\* Every other update rewrites the channel's entry.
LEMMA PollModifyKeeps ==
  ASSUME PollInv, P!UsedWell', NEW c \in Channels,
         failed = "no", Change(c), P!Modify(c), active' = {}
  PROVE  PollInv'
  <1> USE DEF PollInv, PollTypes, PollBasics
  <1> DEFINE entry == [fd |-> IF events'[c] = {} THEN -1 ELSE FdOf[c],
                       events |-> events'[c]]
  <1>1. /\ ChannelTypeOK' /\ OneOwner'
        /\ events' = [events EXCEPT ![c] = events'[c]]
        /\ LiveChannels' = LiveChannels \cup {c}
        /\ \A d \in Channels : phase'[d] = "new" <=> phase[d] = "new" /\ d # c
    BY ChangeEffect DEF P!UsedWell
  <1>2. c \in LiveChannels
    BY ChangeEffect DEF P!Modify, P!UsedWell
  <1>3. LiveChannels' = LiveChannels
    BY <1>1, <1>2
  <1>4. /\ pollfds' = [pollfds EXCEPT ![index[c] + 1] = entry]
        /\ failed' = "no"
        /\ UNCHANGED <<channelMap, index>>
        /\ index[c] + 1 \in 1..Len(pollfds)
    BY <1>2 DEF P!Modify, EntriesMatch
  <1>5. entry \in Entries
    BY <1>1, ChannelAssumption DEF ChannelTypeOK, Entries
  <1>6. /\ pollfds' \in Seq(Entries)
        /\ Len(pollfds') = Len(pollfds)
        /\ \A i \in 1..Len(pollfds) :
              pollfds'[i] = IF i = index[c] + 1 THEN entry ELSE pollfds[i]
    BY <1>4, <1>5, ExceptSeq
  <1>7. PollTypes'
    BY <1>1, <1>4, <1>6, <1>2 DEF LiveChannels, Live
  <1>8. MapMatches'
    BY <1>3, <1>4 DEF MapMatches
  <1>9. EntriesMatch'
    <2>1. ASSUME NEW d \in LiveChannels
          PROVE  /\ index[d] + 1 \in 1..Len(pollfds)
                 /\ pollfds'[index[d] + 1] = EntryFor(d)'
      <3>1. CASE d = c
        BY <1>4, <1>6, <3>1 DEF EntryFor
      <3>2. CASE d # c
        <4>1. EntryFor(d)' = EntryFor(d)
          BY <1>1, <3>2 DEF EntryFor, ChannelTypeOK, LiveChannels
        <4>2. index[d] + 1 # index[c] + 1
          BY <1>2, <3>2 DEF EntriesMatch, LiveChannels
        <4> QED BY <1>6, <4>1, <4>2 DEF EntriesMatch
      <3> QED BY <3>1, <3>2
    <2> QED BY <1>3, <1>4, <1>6, <2>1 DEF EntriesMatch
  <1> QED BY <1>1, <1>4, <1>7, <1>8, <1>9 DEF EntriesMatch

\* pop_back keeps all entries but the last.
LEMMA AllButLast ==
  ASSUME NEW S, NEW s \in Seq(S), Len(s) > 0
  PROVE  LET t == SubSeq(s, 1, Len(s) - 1) IN
         /\ t \in Seq(S)
         /\ Len(t) = Len(s) - 1
         /\ \A i \in 1..Len(s) - 1 : t[i] = s[i]
  <1> DEFINE m == Len(s) - 1
  <1>1. m \in Nat /\ \A i \in 1..m : s[i] \in S
    BY ElementOfSeq
  <1> HIDE DEF m
  <1>2. /\ SubSeq(s, 1, m) \in Seq(S)
        /\ Len(SubSeq(s, 1, m)) = IF 1 <= m THEN m - 1 + 1 ELSE 0
        /\ \A i \in 1..m - 1 + 1 : SubSeq(s, 1, m)[i] = s[1 + i - 1]
    BY <1>1, SubSeqProperties
  <1>3. Len(SubSeq(s, 1, m)) = m /\ \A i \in 1..m : SubSeq(s, 1, m)[i] = s[i]
    BY <1>1, <1>2
  <1> QED BY <1>2, <1>3 DEF m

\* remove moves the last entry into the hole, or ends the process.
LEMMA PollRemoveKeeps ==
  ASSUME PollInv, NEW c \in Channels, P!Remove(c)
  PROVE  PollInv'
  <1> USE DEF PollInv, PollTypes, PollBasics
  <1> DEFINE n == Len(pollfds)
  <1>1. /\ ChannelTypeOK' /\ OneOwner'
        /\ events' = events
        /\ c \in LiveChannels
        /\ LiveChannels' = LiveChannels \ {c}
        /\ \A d \in Channels : phase'[d] = "new" <=> phase[d] = "new"
    BY RemoveEffect, SameChannel DEF P!Remove
  <1>2. /\ failed = "no" /\ active' = {}
        /\ n \in Nat /\ index[c] + 1 \in 1..n
        /\ P!RemoveLast(c) \/ P!RemoveInner(c)
    BY <1>1 DEF P!Remove, P!RemoveBeyond
  <1>3. channelMap[FdOf[c]] = c /\ FdOf[c] \in Fds /\ c # None
    BY <1>1, <1>2, NoneIsNothing, ChannelAssumption DEF MapMatches
  <1>4. P!Erase(c) =>
           /\ channelMap' = [channelMap EXCEPT ![FdOf[c]] = None]
           /\ failed' = "no"
           /\ channelMap' \in [Fds -> Channels \cup {None}]
           /\ MapMatches'
    <2> SUFFICES ASSUME P!Erase(c)
                 PROVE  /\ channelMap' = [channelMap EXCEPT ![FdOf[c]] = None]
                        /\ failed' = "no"
                        /\ channelMap' \in [Fds -> Channels \cup {None}]
                        /\ MapMatches'
      OBVIOUS
    <2>1. channelMap' = [channelMap EXCEPT ![FdOf[c]] = None] /\ failed' = "no"
      BY <1>2, <1>3 DEF P!Erase
    <2>2. \A d \in LiveChannels' : d \in LiveChannels /\ FdOf[d] # FdOf[c]
      BY <1>1, <1>2, <1>3 DEF MapMatches
    <2>3. \A d \in LiveChannels' : channelMap'[FdOf[d]] = d
      BY <1>2, <2>1, <2>2, ChannelAssumption DEF MapMatches, LiveChannels
    <2>4. \A f \in Fds : channelMap'[f] # None =>
             channelMap'[f] \in LiveChannels' /\ FdOf[channelMap'[f]] = f
      BY <1>1, <1>2, <1>3, <2>1 DEF MapMatches
    <2> QED BY <2>1, <2>3, <2>4 DEF MapMatches
  <1>5. Cardinality(LiveChannels') = n - 1 /\ IsFiniteSet(LiveChannels')
    BY <1>1, <1>2, FS_RemoveElement DEF EntriesMatch
  <1>6. \A d \in LiveChannels : EntryFor(d)' = EntryFor(d)
    BY <1>1 DEF EntryFor
  <1>7. CASE P!RemoveLast(c)
    <2>1. /\ index[c] = n - 1
          /\ pollfds' = SubSeq(pollfds, 1, n - 1)
          /\ P!Erase(c)
          /\ index' = index
      BY <1>7 DEF P!RemoveLast
    <2>2. /\ Len(pollfds') = n - 1
          /\ pollfds' \in Seq(Entries)
          /\ \A i \in 1..n - 1 : pollfds'[i] = pollfds[i]
      <3>1. Len(pollfds) > 0
        BY <1>2
      <3> QED BY <2>1, <3>1, AllButLast
    <2>3. PollTypes'
      BY <1>1, <1>2, <1>4, <2>1, <2>2
    <2>4. EntriesMatch'
      <3>1. ASSUME NEW d \in LiveChannels'
            PROVE  index[d] + 1 \in 1..n - 1 /\ pollfds'[index[d] + 1] = EntryFor(d)'
        <4>1. index[d] + 1 \in 1..n /\ index[d] # index[c]
          BY <1>1, <1>2 DEF EntriesMatch
        <4>2. index[d] + 1 \in 1..n - 1
          BY <1>1, <1>2, <2>1, <4>1 DEF LiveChannels
        <4> QED BY <1>1, <1>2, <1>6, <2>2, <4>2 DEF EntriesMatch
      <3>2. ASSUME NEW i \in 1..n - 1
            PROVE  \E d \in LiveChannels' : index[d] + 1 = i
        <4>1. PICK d \in LiveChannels : index[d] + 1 = i
          BY <1>2 DEF EntriesMatch
        <4> QED BY <1>1, <1>2, <2>1, <4>1
      <3> QED BY <1>1, <1>2, <1>5, <2>1, <2>2, <3>1, <3>2 DEF EntriesMatch
    <2> QED BY <1>1, <1>4, <2>1, <2>3, <2>4 DEF EntriesMatch
  <1>8. CASE P!RemoveInner(c) /\ failed' = "nullChannel"
    <2>1. UNCHANGED <<pollfds, channelMap, index>>
      BY <1>2, <1>4, <1>8 DEF P!RemoveInner
    <2> QED BY <1>1, <1>2, <1>8, <2>1
  <1>9. CASE P!RemoveInner(c) /\ failed' # "nullChannel"
    <2> DEFINE m == channelMap[pollfds[n].fd]
    <2>1. /\ index[c] # n - 1
          /\ pollfds[n].fd \in Fds /\ m # None
          /\ pollfds' = P!MoveLastTo(index[c] + 1)
          /\ index' = [index EXCEPT ![m] = index[c]]
          /\ P!Erase(c)
      BY <1>9 DEF P!RemoveInner
    <2>2. PICK d \in LiveChannels : index[d] + 1 = n
      BY <1>2 DEF EntriesMatch
    <2>3. pollfds[n] = EntryFor(d) /\ d \in Channels
      BY <1>2, <2>2 DEF EntriesMatch, LiveChannels
    <2>4. pollfds[n].fd = FdOf[d]
      BY <2>1, <2>3, ChannelAssumption DEF EntryFor
    <2>5. m = d /\ d # c /\ m \in LiveChannels'
      BY <1>1, <1>2, <2>1, <2>2, <2>4 DEF MapMatches
    <2>6. /\ Len(pollfds') = n - 1
          /\ pollfds' \in Seq(Entries)
          /\ \A i \in 1..n - 1 :
                pollfds'[i] = IF i = index[c] + 1 THEN pollfds[n] ELSE pollfds[i]
      <3> DEFINE moved == [pollfds EXCEPT ![index[c] + 1] = pollfds[n]]
      <3>1. pollfds[n] \in Entries
        BY <1>2, ElementOfSeq
      <3>2. /\ moved \in Seq(Entries)
            /\ Len(moved) = n
            /\ \A i \in 1..n :
                  moved[i] = IF i = index[c] + 1 THEN pollfds[n] ELSE pollfds[i]
        BY <1>2, <3>1, ExceptSeq
      <3>3. pollfds' = SubSeq(moved, 1, n - 1)
        BY <2>1 DEF P!MoveLastTo
      <3> HIDE DEF moved
      <3> QED BY <1>2, <3>2, <3>3, AllButLast
    <2>7. \A e \in Channels : index'[e] = IF e = d THEN index[c] ELSE index[e]
      BY <2>1, <2>5
    <2>8. PollTypes'
      <3>1. \A e \in Channels : IF phase'[e] = "new" THEN index'[e] = -1
                                ELSE index'[e] >= 0
        BY <1>1, <2>5, <2>7 DEF LiveChannels, Live
      <3> QED BY <1>1, <1>2, <1>4, <2>1, <2>6, <3>1
    <2>9. EntriesMatch'
      <3>1. ASSUME NEW e \in LiveChannels'
            PROVE  index'[e] + 1 \in 1..n - 1 /\ pollfds'[index'[e] + 1] = EntryFor(e)'
        <4>1. e \in LiveChannels /\ e \in Channels /\ e # c
          BY <1>1 DEF LiveChannels
        <4>2. CASE e = d
          <5>1. index'[e] = index[c] /\ index[c] + 1 \in 1..n - 1
            BY <1>2, <2>1, <2>7, <4>1, <4>2
          <5>2. pollfds'[index[c] + 1] = pollfds[n]
            BY <2>6, <5>1
          <5> QED BY <1>6, <2>3, <4>1, <4>2, <5>1, <5>2
        <4>3. CASE e # d
          <5>1. index[e] # index[c] /\ index[e] # index[d]
            BY <1>1, <1>2, <2>2, <4>1, <4>3 DEF EntriesMatch
          <5>2. index[e] + 1 \in 1..n - 1
            BY <1>2, <2>2, <2>3, <4>1, <5>1
          <5>3. index[e] + 1 # index[c] + 1
            BY <4>1, <5>1
          <5> QED BY <1>2, <1>6, <2>6, <2>7, <4>1, <4>3, <5>2, <5>3 DEF EntriesMatch
        <4> QED BY <4>2, <4>3
      <3>2. ASSUME NEW i \in 1..n - 1
            PROVE  \E e \in LiveChannels' : index'[e] + 1 = i
        <4>1. CASE i = index[c] + 1
          BY <2>3, <2>5, <2>7, <4>1
        <4>2. CASE i # index[c] + 1
          <5>0. i \in 1..n
            BY <1>2
          <5>1. PICK e \in LiveChannels : index[e] + 1 = i
            BY <1>2, <5>0 DEF EntriesMatch
          <5>2. e # c /\ e # d /\ e \in Channels
            BY <1>2, <2>2, <4>2, <5>1 DEF LiveChannels
          <5> QED BY <1>1, <2>7, <5>1, <5>2
        <4> QED BY <4>1, <4>2
      <3>3. ASSUME NEW e \in LiveChannels', NEW g \in LiveChannels',
                   index'[e] = index'[g]
            PROVE  e = g
        <4>1. /\ e \in LiveChannels /\ e \in Channels /\ e # c
              /\ g \in LiveChannels /\ g \in Channels /\ g # c
          BY <1>1 DEF LiveChannels
        <4> QED BY <1>1, <1>2, <2>7, <3>3, <4>1 DEF EntriesMatch
      <3> QED BY <1>2, <1>5, <2>6, <3>1, <3>2, <3>3 DEF EntriesMatch
    <2> QED BY <1>1, <1>4, <2>1, <2>8, <2>9 DEF EntriesMatch
  <1> QED BY <1>2, <1>7, <1>8, <1>9

\* What poll reports are live channels that want events.
LEMMA PollReports ==
  ASSUME PollInv, NEW A \in SUBSET (1..Len(pollfds)), P!PollFds(A)
  PROVE  /\ failed' = "no"
         /\ active' \subseteq Channels
         /\ \A c \in active' : Wanted(c) # {}
  <1> USE DEF PollInv, PollTypes, PollBasics
  <1>1. failed = "no"
    BY DEF P!PollFds
  <1>2. ASSUME NEW i \in A
        PROVE  /\ channelMap[pollfds[i].fd] \in Channels
               /\ channelMap[pollfds[i].fd] # None
               /\ Wanted(channelMap[pollfds[i].fd]) # {}
    <2>1. pollfds[i].fd \in Fds
      BY DEF P!PollFds
    <2>2. PICK c \in LiveChannels : index[c] + 1 = i
      BY <1>1 DEF EntriesMatch
    <2>3. pollfds[i] = EntryFor(c) /\ c \in Channels
      BY <1>1, <2>2 DEF EntriesMatch, LiveChannels
    <2>4. events[c] # {} /\ pollfds[i].fd = FdOf[c]
      BY <2>1, <2>3, ChannelAssumption DEF EntryFor
    <2>5. channelMap[pollfds[i].fd] = c
      BY <1>1, <2>2, <2>4 DEF MapMatches
    <2> QED BY <2>2, <2>3, <2>4, <2>5, NoneIsNothing DEF Wanted, LiveChannels
  <1>3. None \notin {channelMap[pollfds[i].fd] : i \in A}
    BY <1>2
  <1>4. active' = {channelMap[pollfds[i].fd] : i \in A} /\ failed' = failed
    BY <1>3 DEF P!PollFds
  <1> QED BY <1>1, <1>2, <1>4

\* Closing a descriptor leaves the array alone, and poll finds every channel.
LEMMA PollRestKeeps ==
  ASSUME PollInv, P!UsedWell',
         \/ \E c \in Channels : P!Close(c)
         \/ \E A \in SUBSET (1..Len(pollfds)) : P!PollFds(A)
  PROVE  PollInv'
  <1> USE DEF PollInv, PollTypes, PollBasics
  <1>1. ASSUME NEW c \in Channels, P!Close(c)
        PROVE  PollInv'
    <2>1. /\ ChannelTypeOK' /\ OneOwner'
          /\ events' = events
          /\ LiveChannels' = LiveChannels
          /\ \A d \in Channels : phase'[d] = "new" <=> phase[d] = "new"
      BY <1>1, CloseEffect, SameChannel DEF P!Close, P!UsedWell
    <2>2. UNCHANGED <<pollfds, channelMap, index, failed>> /\ active' = {} /\ failed = "no"
      BY <1>1 DEF P!Close
    <2>3. \A d \in Channels : EntryFor(d)' = EntryFor(d)
      BY <2>1 DEF EntryFor
    <2>4. EntriesMatch'
      BY <2>1, <2>2, <2>3 DEF EntriesMatch, LiveChannels
    <2>5. MapMatches'
      BY <2>1, <2>2 DEF MapMatches
    <2> QED BY <2>1, <2>2, <2>4, <2>5
  <1>2. ASSUME NEW A \in SUBSET (1..Len(pollfds)), P!PollFds(A)
        PROVE  PollInv'
    <2>1. UNCHANGED <<events, phase, misused, pollfds, channelMap, index>> /\ failed = "no"
      BY <1>2 DEF P!PollFds
    <2>2. failed' = "no" /\ active' \subseteq Channels
      BY <1>2, PollReports
    <2>3. UNCHANGED <<LiveChannels, ChannelTypeOK, OneOwner, MapMatches, EntriesMatch>>
      BY <2>1 DEF LiveChannels, Live, ChannelTypeOK, OneOwner, MapMatches, EntriesMatch,
                  EntryFor
    <2> QED BY <2>1, <2>2, <2>3
  <1> QED BY <1>1, <1>2

-----------------------------------------------------------------------------
(* Epoll.                                                                  *)

\* Without misuse, an update of a live channel concerns one that wants events, or
\* comes to want some.
LEMMA EpollChange ==
  ASSUME ChannelTypeOK, NEW c \in Channels, Change(c), misused' = {}, WantsRightly(c)
  PROVE  /\ Live(c) => events[c] # {} \/ events'[c] # {}
         /\ WantsRightly(c)'
         /\ \A d \in Channels \ {c} : phase'[d] = "open" <=> phase[d] = "open"
  <1> USE DEF SetEvents, Connections, kWrite, kRead, ChannelTypeOK, WantsRightly
  <1>1. CASE Open(c)
    BY <1>1 DEF Open, SameFd, Live
  <1>2. CASE EnableWriting(c)
    BY <1>2 DEF EnableWriting
  <1>3. CASE DisableWrite(c)
    BY <1>3 DEF DisableWrite
  <1>4. CASE DisableAll(c)
    BY <1>4 DEF DisableAll, Misuse
  <1> QED BY <1>1, <1>2, <1>3, <1>4 DEF Change

\* update adds a descriptor to the kernel's list when the channel starts to want
\* events, and deletes it when it wants none any more.
LEMMA EpollUpdateKeeps ==
  ASSUME EpollInv, misused' = {}, NEW c \in Channels, E!Update(c)
  PROVE  EpollInv'
  <1> USE DEF EpollInv, EpollBasics, E!kNew, E!kAdded, E!kDeleted
  <1>1. /\ Change(c)
        /\ c \in LiveChannels => events[c] # {} \/ events'[c] # {}
        /\ \A d \in Channels : WantsRightly(d)'
    <2>1. /\ Change(c)
          /\ Live(c) => events[c] # {} \/ events'[c] # {}
          /\ WantsRightly(c)'
          /\ \A d \in Channels \ {c} : phase'[d] = "open" <=> phase[d] = "open"
      BY EpollChange, SameChannel DEF E!Update, KernelMatches
    <2>2. events' = [events EXCEPT ![c] = events'[c]]
      BY <2>1, ChangeEffect
    <2>3. \A d \in Channels \ {c} : WantsRightly(d)'
      BY <2>1, <2>2 DEF KernelMatches, WantsRightly, ChannelTypeOK
    <2> QED BY <2>1, <2>3 DEF KernelMatches, WantsRightly, LiveChannels
  <1>2. /\ ChannelTypeOK' /\ OneOwner'
        /\ events' = [events EXCEPT ![c] = events'[c]]
        /\ LiveChannels' = LiveChannels \cup {c}
        /\ \A d \in Channels : phase'[d] = "new" <=> phase[d] = "new" /\ d # c
        /\ c \notin LiveChannels =>
              /\ phase[c] = "new"
              /\ events'[c] # {}
              /\ \A d \in LiveChannels : FdOf[d] # FdOf[c]
    BY <1>1, ChangeEffect
  <1>3. /\ FdOf[c] \in Fds /\ c # None
        /\ \A d \in LiveChannels : d \in Channels /\ FdOf[d] \in Fds
        /\ \A d \in LiveChannels : d # c => FdOf[d] # FdOf[c]
        /\ \A d \in LiveChannels : d # c => events'[d] = events[d]
        /\ active' = {}
        /\ E!EntryOf(c) = [events |-> events'[c], ptr |-> c]
        /\ E!EntryOf(c) \in [events : SUBSET Events, ptr : Channels]
        /\ E!EntryOf(c) # None
    <2>1. E!EntryOf(c) \in [events : SUBSET Events, ptr : Channels]
      BY <1>2 DEF E!EntryOf, ChannelTypeOK
    <2>2. \A d \in LiveChannels : d # c => FdOf[d] # FdOf[c]
      <3>1. CASE c \in LiveChannels
        BY <3>1 DEF MapMatches
      <3> QED BY <1>2, <3>1
    <2> QED BY <1>2, <2>1, <2>2, ChannelAssumption, NoneIsNothing
            DEF E!EntryOf, E!Update, LiveChannels, ChannelTypeOK
  <1>4. CASE c \notin LiveChannels
    <2>1. index[c] = -1 /\ events'[c] # {}
      BY <1>2, <1>4
    <2>2. channelMap[FdOf[c]] = None /\ kernel[FdOf[c]] = None
      BY <1>2, <1>3, <1>4 DEF MapMatches, KernelMatches
    <2>3. /\ channelMap' = [channelMap EXCEPT ![FdOf[c]] = c]
          /\ index' = [index EXCEPT ![c] = 0]
          /\ kernel' = [kernel EXCEPT ![FdOf[c]] = E!EntryOf(c)]
          /\ failed' = "no"
      BY <2>1, <2>2 DEF E!Update, E!Add, E!Modify, E!Ctl
    <2>4. MapMatches'
      BY <1>2, <1>3, <2>3 DEF MapMatches
    <2>5. KernelMatches'
      BY <1>1, <1>2, <1>3, <1>4, <2>1, <2>3 DEF KernelMatches
    <2> QED BY <1>2, <1>3, <2>3, <2>4, <2>5
  <1>5. CASE c \in LiveChannels
    <2>1. LiveChannels' = LiveChannels
      BY <1>2, <1>5
    <2>2. channelMap[FdOf[c]] # None
      BY <1>3, <1>5 DEF MapMatches
    <2>3. /\ channelMap' = channelMap
          /\ index' = [index EXCEPT ![c] = IF events'[c] = {} THEN 2 ELSE 0]
          /\ kernel' = [kernel EXCEPT ![FdOf[c]] =
                           IF events'[c] = {} THEN None ELSE E!EntryOf(c)]
          /\ failed' = "no"
      <3>1. [events |-> events[c], ptr |-> c] \in [events : SUBSET Events, ptr : Channels]
        BY DEF ChannelTypeOK
      <3>2. CASE events[c] # {}
        <4>1. index[c] = 0 /\ kernel[FdOf[c]] # None
          BY <1>5, <3>1, <3>2, NoneIsNothing DEF KernelMatches
        <4> QED BY <2>2, <4>1 DEF E!Update, E!Add, E!Modify, E!Ctl
      <3>3. CASE events[c] = {}
        <4>1. index[c] = 2 /\ kernel[FdOf[c]] = None /\ events'[c] # {}
          BY <1>1, <1>5, <3>3 DEF KernelMatches
        <4> QED BY <2>2, <4>1 DEF E!Update, E!Add, E!Modify, E!Ctl
      <3> QED BY <3>2, <3>3
    <2>4. MapMatches'
      BY <2>1, <2>3 DEF MapMatches
    <2>5. KernelMatches'
      BY <1>1, <1>2, <1>3, <1>5, <2>1, <2>3 DEF KernelMatches
    <2> QED BY <1>2, <1>3, <2>1, <2>3, <2>4, <2>5
  <1> QED BY <1>4, <1>5

\* What epoll_wait reports are live channels that want events.
LEMMA EpollReports ==
  ASSUME EpollInv, NEW R \in SUBSET Fds, E!EpollWait(R)
  PROVE  /\ failed' = "no"
         /\ active' \subseteq Channels
         /\ \A c \in active' : Wanted(c) # {}
  <1>1. ASSUME NEW fd \in R
        PROVE  /\ kernel[fd].ptr \in LiveChannels
               /\ Wanted(kernel[fd].ptr) # {}
               /\ channelMap[FdOf[kernel[fd].ptr]] # None
    <2>1. kernel[fd] # None
      BY DEF E!EpollWait
    <2>2. kernel[fd].ptr \in LiveChannels /\ FdOf[kernel[fd].ptr] = fd
      BY <2>1 DEF EpollInv, KernelMatches
    <2>3. kernel[fd].ptr \in Channels /\ kernel[fd].ptr # None
      BY <2>2, NoneIsNothing DEF LiveChannels
    <2>4. channelMap[FdOf[kernel[fd].ptr]] = kernel[fd].ptr
      BY <2>2 DEF EpollInv, MapMatches
    <2>5. events[kernel[fd].ptr] # {}
      BY <2>1, <2>2 DEF EpollInv, KernelMatches
    <2> QED BY <2>2, <2>3, <2>4, <2>5 DEF Wanted, LiveChannels
  <1>2. active' = {kernel[fd].ptr : fd \in R} /\ failed' = "no"
    BY <1>1 DEF E!EpollWait, EpollInv
  <1> QED BY <1>1, <1>2 DEF LiveChannels

\* The other calls keep it too: remove leaves no descriptor in the kernel's list,
\* since a channel that is removed wants nothing any more.
LEMMA EpollRestKeeps ==
  ASSUME EpollInv, misused' = {},
         \/ \E c \in Channels : E!Remove(c) \/ E!Close(c)
         \/ \E R \in SUBSET Fds : E!EpollWait(R)
  PROVE  EpollInv'
  <1> USE DEF EpollInv, EpollBasics, E!kNew, E!kAdded, E!kDeleted
  <1>1. ASSUME NEW c \in Channels, E!Remove(c)
        PROVE  EpollInv'
    <2>1. /\ ChannelTypeOK' /\ OneOwner'
          /\ events' = events
          /\ c \in LiveChannels
          /\ LiveChannels' = LiveChannels \ {c}
          /\ \A d \in Channels : phase'[d] = "new" <=> phase[d] = "new"
          /\ phase[c] = "closed" /\ phase' = [phase EXCEPT ![c] = "removed"]
          /\ events[c] = {}
      BY <1>1, SameChannel, RemoveEffect DEF E!Remove, RemoveChannel, Misuse
    <2>2. /\ events[c] = {}
          /\ kernel[FdOf[c]] = None
          /\ channelMap[FdOf[c]] = c
          /\ index[c] # -1
          /\ FdOf[c] \in Fds /\ c # None
      <3>2. kernel[FdOf[c]] = None /\ index[c] = 2
        BY <2>1 DEF KernelMatches
      <3>3. FdOf[c] \in Fds /\ c # None
        BY ChannelAssumption, NoneIsNothing
      <3> QED BY <2>1, <3>2, <3>3 DEF MapMatches
    <2>3. /\ channelMap' = [channelMap EXCEPT ![FdOf[c]] = None]
          /\ UNCHANGED <<kernel, index, failed>>
          /\ active' = {}
      BY <1>1, <2>2 DEF E!Remove
    <2>4. MapMatches'
      BY <2>1, <2>2, <2>3, ChannelAssumption DEF MapMatches, LiveChannels
    <2>5. \A d \in Channels : WantsRightly(d)'
      BY <2>1 DEF KernelMatches, WantsRightly, ChannelTypeOK
    <2>6. \A f \in Fds : kernel[f] # None => kernel[f].ptr # c
      BY <2>2 DEF KernelMatches
    <2>7. KernelMatches'
      BY <2>1, <2>3, <2>5, <2>6 DEF KernelMatches
    <2> QED BY <2>1, <2>3, <2>4, <2>7
  <1>2. ASSUME NEW c \in Channels, E!Close(c)
        PROVE  EpollInv'
    <2>1. /\ ChannelTypeOK' /\ OneOwner'
          /\ events' = events
          /\ LiveChannels' = LiveChannels
          /\ \A d \in Channels : phase'[d] = "new" <=> phase[d] = "new"
          /\ \A d \in Channels : phase'[d] = "closed" <=> phase[d] = "closed"
          /\ \A d \in LiveChannels : FdOf[d] # FdOf[c]
          /\ phase[c] = "removed" /\ phase' = [phase EXCEPT ![c] = "gone"]
      BY <1>2, SameChannel, CloseEffect DEF E!Close, CloseFd, Misuse
    <2>2. kernel[FdOf[c]] = None
      <3>1. FdOf[c] \in Fds
        BY ChannelAssumption
      <3>2. \A d \in LiveChannels : FdOf[d] # FdOf[c]
        BY <2>1
      <3> QED BY <3>1, <3>2 DEF KernelMatches
    <2>3. /\ kernel' = kernel
          /\ UNCHANGED <<channelMap, index, failed>>
          /\ active' = {}
      BY <1>2, <2>2, ChannelAssumption DEF E!Close
    <2>4. MapMatches'
      BY <2>1, <2>3 DEF MapMatches
    <2>5. \A d \in Channels : WantsRightly(d)'
      BY <2>1 DEF KernelMatches, WantsRightly, ChannelTypeOK
    <2>6. KernelMatches'
      BY <2>1, <2>3, <2>5 DEF KernelMatches
    <2> QED BY <2>1, <2>3, <2>4, <2>6
  <1>3. ASSUME NEW R \in SUBSET Fds, E!EpollWait(R)
        PROVE  EpollInv'
    <2>1. UNCHANGED <<events, phase, misused, kernel, channelMap, index>>
      BY <1>3 DEF E!EpollWait
    <2>2. failed' = "no" /\ active' \subseteq Channels
      BY <1>3, EpollReports
    <2>3. UNCHANGED <<LiveChannels, ChannelTypeOK, OneOwner, MapMatches, KernelMatches>>
      BY <2>1 DEF LiveChannels, Live, ChannelTypeOK, OneOwner, MapMatches, KernelMatches,
                  WantsRightly
    <2> QED BY <2>1, <2>2, <2>3
  <1> QED BY <1>1, <1>2, <1>3

-----------------------------------------------------------------------------
(* The theorems.                                                           *)

LEMMA InitIInv == Init => IInv
  <1> SUFFICES ASSUME Init PROVE IInv
    OBVIOUS
  <1>1. /\ ChannelTypeOK
        /\ LiveChannels = {}
        /\ OneOwner
        /\ \A c \in Channels : WantsRightly(c)
    BY DEF Init, P!Init, E!Init, P!ChannelInit, E!ChannelInit, ChannelTypeOK, Events, Phases,
           Misuses, LiveChannels, Live, OneOwner, WantsRightly
  <1>2. CASE kind = "poll" /\ P!Init
    <2>1. PollTypes
      BY <1>1, <1>2 DEF P!Init, P!ChannelInit, PollTypes, PollBasics
    <2>2. MapMatches /\ EntriesMatch
      BY <1>1, <1>2, FS_EmptySet DEF P!Init, MapMatches, EntriesMatch
    <2> QED BY <1>1, <1>2, <2>1, <2>2 DEF IInv, PollInv, PollTypes
  <1>3. CASE kind = "epoll" /\ E!Init
    <2>1. EpollBasics /\ \A c \in Channels : index[c] = E!kNew <=> phase[c] = "new"
      BY <1>1, <1>3 DEF E!Init, E!ChannelInit, EpollBasics
    <2>2. MapMatches /\ KernelMatches /\ failed = "no"
      BY <1>1, <1>3 DEF E!Init, MapMatches, KernelMatches
    <2> QED BY <1>1, <1>3, <2>1, <2>2 DEF IInv, EpollInv
  <1> QED BY <1>2, <1>3 DEF Init

\* Whatever is misused, every step of a Poll keeps the types.
LEMMA PollBasicsKept ==
  ASSUME PollBasics, P!Next
  PROVE  PollBasics' /\ misused \subseteq misused'
  <1> USE DEF PollBasics
  <1>1. ASSUME NEW c \in Channels, P!Update(c)
        PROVE  PollBasics' /\ misused \subseteq misused'
    <2>1. ChannelTypeOK' /\ misused \subseteq misused' /\ active' = {}
      BY <1>1, SameChannel, ChannelTypesKept DEF P!Update
    <2>2. FdOf[c] \in Fds /\ events'[c] \in SUBSET Events /\ Len(pollfds) \in Nat
      BY <2>1, ChannelAssumption DEF ChannelTypeOK
    <2>3. ASSUME P!Add(c)
          PROVE  PollBasics'
      <3>1. [fd |-> FdOf[c], events |-> events'[c]] \in Entries
        BY <2>2 DEF Entries
      <3>2. pollfds' \in Seq(Entries)
        BY <2>3, <3>1 DEF P!Add
      <3>3. /\ index' \in [Channels -> Int]
            /\ channelMap' \in [Fds -> Channels \cup {None}]
            /\ failed' = failed
        BY <2>2, <2>3 DEF P!Add
      <3> QED BY <2>1, <3>2, <3>3
    <2>4. ASSUME P!Modify(c)
          PROVE  PollBasics'
      <3>1. CASE index[c] < Len(pollfds)
        <4> DEFINE entry == [fd |-> IF events'[c] = {} THEN -1 ELSE FdOf[c],
                             events |-> events'[c]]
        <4>1. entry \in Entries /\ index[c] + 1 \in 1..Len(pollfds)
          BY <2>2, <2>4, <3>1 DEF Entries, P!Modify
        <4>2. pollfds' = [pollfds EXCEPT ![index[c] + 1] = entry] /\ failed' = failed
          BY <2>4, <3>1 DEF P!Modify
        <4> HIDE DEF entry
        <4>3. pollfds' \in Seq(Entries)
          BY <4>1, <4>2, ExceptSeq
        <4> QED BY <2>1, <2>4, <4>2, <4>3 DEF P!Modify
      <3>2. CASE ~(index[c] < Len(pollfds))
        BY <2>1, <2>4, <3>2 DEF P!Modify
      <3> QED BY <3>1, <3>2
    <2> QED BY <1>1, <2>1, <2>3, <2>4 DEF P!Update
  <1>2. ASSUME NEW c \in Channels, P!Remove(c)
        PROVE  PollBasics' /\ misused \subseteq misused'
    <2>1. ChannelTypeOK' /\ misused \subseteq misused' /\ active' = {}
      BY <1>2, SameChannel, ChannelTypesKept DEF P!Remove
    <2>2. P!Erase(c) => /\ channelMap' \in [Fds -> Channels \cup {None}]
                        /\ failed' \in {"no", "assert", "nullChannel", "outOfRange"}
      BY DEF P!Erase
    <2>3. CASE pollfds = <<>>
      BY <1>2, <2>1, <2>3 DEF P!Remove
    <2>4. CASE pollfds # <<>>
      <3>1. Len(pollfds) \in Nat /\ Len(pollfds) > 0
        BY <2>4, EmptySeq
      <3>2. ASSUME P!RemoveLast(c) PROVE PollBasics'
        <4>1. pollfds' \in Seq(Entries)
          BY <3>1, <3>2, AllButLast DEF P!RemoveLast
        <4> QED BY <2>1, <2>2, <3>2, <4>1 DEF P!RemoveLast
      <3>3. ASSUME P!RemoveInner(c) PROVE PollBasics'
        <4>1. CASE UNCHANGED <<pollfds, channelMap, index>> /\ failed' = "nullChannel"
          BY <2>1, <4>1
        <4>2. CASE /\ pollfds' = P!MoveLastTo(index[c] + 1)
                   /\ P!Erase(c)
                   /\ \E d : index' = [index EXCEPT ![d] = index[c]]
          <5> DEFINE moved == [pollfds EXCEPT ![index[c] + 1] = pollfds[Len(pollfds)]]
          <5>1. pollfds[Len(pollfds)] \in Entries
            BY <3>1, ElementOfSeq
          <5>2. moved \in Seq(Entries) /\ Len(moved) = Len(pollfds)
            <6>1. CASE index[c] + 1 \in 1..Len(pollfds)
              BY <5>1, <6>1, ExceptSeq
            <6>2. CASE index[c] + 1 \notin 1..Len(pollfds)
              <7>1. DOMAIN pollfds = 1..Len(pollfds)
                BY LenProperties
              <7>2. moved = pollfds
                BY <6>2, <7>1
              <7> QED BY <7>2
            <6> QED BY <6>1, <6>2
          <5>3. pollfds' = SubSeq(moved, 1, Len(pollfds) - 1)
            BY <4>2 DEF P!MoveLastTo
          <5>4. index' \in [Channels -> Int]
            BY <4>2
          <5> HIDE DEF moved
          <5>5. pollfds' \in Seq(Entries)
            BY <3>1, <5>2, <5>3, AllButLast
          <5> QED BY <2>1, <2>2, <4>2, <5>4, <5>5
        <4> QED BY <3>3, <4>1, <4>2 DEF P!RemoveInner
      <3>4. ASSUME P!RemoveBeyond(c) PROVE PollBasics'
        BY <2>1, <3>4 DEF P!RemoveBeyond
      <3> QED BY <1>2, <2>1, <2>4, <3>2, <3>3, <3>4 DEF P!Remove
    <2> QED BY <2>1, <2>3, <2>4
  <1>3. ASSUME NEW c \in Channels, P!Close(c)
        PROVE  PollBasics' /\ misused \subseteq misused'
    BY <1>3, SameChannel, ChannelTypesKept DEF P!Close
  <1>4. ASSUME NEW A \in SUBSET (1..Len(pollfds)), P!PollFds(A)
        PROVE  PollBasics' /\ misused \subseteq misused'
    <2>1. UNCHANGED <<events, phase, misused, pollfds, channelMap, index>> /\ failed = "no"
      BY <1>4 DEF P!PollFds
    <2>2. \A i \in A : channelMap[pollfds[i].fd] \in Channels \cup {None}
      BY <1>4 DEF P!PollFds
    <2>3. active' \subseteq Channels /\ failed' \in {"no", "assert"}
      BY <1>4, <2>1, <2>2 DEF P!PollFds
    <2> QED BY <2>1, <2>3 DEF ChannelTypeOK
  <1> QED BY <1>1, <1>2, <1>3, <1>4 DEF P!Next

\* Whatever is misused, every step of an Epoll keeps the types.
LEMMA EpollBasicsKept ==
  ASSUME EpollBasics, E!Next
  PROVE  EpollBasics' /\ misused \subseteq misused'
  <1> USE DEF EpollBasics, E!kNew, E!kAdded, E!kDeleted, E!Fail
  <1>1. ASSUME NEW c \in Channels, E!Update(c)
        PROVE  EpollBasics' /\ misused \subseteq misused'
    <2>1. ChannelTypeOK' /\ misused \subseteq misused' /\ active' = {}
      BY <1>1, SameChannel, ChannelTypesKept DEF E!Update
    <2>2. /\ FdOf[c] \in Fds
          /\ E!EntryOf(c) \in [events : SUBSET Events, ptr : Channels]
      BY <2>1, ChannelAssumption DEF ChannelTypeOK, E!EntryOf
    <2>3. \A op, e : E!Ctl(c, op, e) /\ e \in [events : SUBSET Events, ptr : Channels] \cup {None}
             => /\ kernel' \in [Fds -> [events : SUBSET Events, ptr : Channels] \cup {None}]
                /\ failed' \in {"no", "assert", "unknown", "epoll_ctl"}
      BY DEF E!Ctl
    <2>4. E!Add(c) => EpollBasics'
      BY <2>1, <2>2, <2>3 DEF E!Add
    <2>5. E!Modify(c) => EpollBasics'
      BY <2>1, <2>2, <2>3 DEF E!Modify
    <2> QED BY <1>1, <2>1, <2>4, <2>5 DEF E!Update
  <1>2. ASSUME NEW c \in Channels, E!Remove(c)
        PROVE  EpollBasics' /\ misused \subseteq misused'
    <2>1. ChannelTypeOK' /\ misused \subseteq misused' /\ active' = {}
      BY <1>2, SameChannel, ChannelTypesKept DEF E!Remove
    <2> QED BY <1>2, <2>1 DEF E!Remove
  <1>3. ASSUME NEW c \in Channels, E!Close(c)
        PROVE  EpollBasics' /\ misused \subseteq misused'
    BY <1>3, SameChannel, ChannelTypesKept DEF E!Close
  <1>4. ASSUME NEW R \in SUBSET Fds, E!EpollWait(R)
        PROVE  EpollBasics' /\ misused \subseteq misused'
    <2>1. UNCHANGED <<events, phase, misused, kernel, channelMap, index>> /\ failed = "no"
      BY <1>4 DEF E!EpollWait
    <2>2. \A f \in R : kernel[f].ptr \in Channels
      BY <1>4 DEF E!EpollWait
    <2>3. active' \subseteq Channels /\ failed' \in {"no", "unknown"}
      BY <1>4, <2>1, <2>2 DEF E!EpollWait
    <2> QED BY <2>1, <2>3 DEF ChannelTypeOK
  <1> QED BY <1>1, <1>2, <1>3, <1>4 DEF E!Next

LEMMA NextIInv == IInv /\ [Next]_vars => IInv'
  <1> SUFFICES ASSUME IInv, [Next]_vars PROVE IInv'
    OBVIOUS
  <1>1. CASE kind = "poll" /\ P!Next /\ kind' = kind
    <2>1. PollBasics /\ PollBasics' /\ misused \subseteq misused'
      BY <1>1, PollBasicsKept DEF IInv
    <2>2. ASSUME P!UsedWell'
          PROVE  PollInv'
      <3>1. PollInv
        BY <1>1, <2>1, <2>2 DEF IInv, P!UsedWell
      <3>2. ASSUME NEW c \in Channels, P!Update(c)
            PROVE  PollInv'
        BY <2>2, <3>1, <3>2, SameChannel, PollAddKeeps, PollModifyKeeps DEF P!Update
      <3>3. ASSUME NEW c \in Channels, P!Remove(c)
            PROVE  PollInv'
        BY <3>1, <3>3, PollRemoveKeeps
      <3>4. ASSUME \/ \E c \in Channels : P!Close(c)
                   \/ \E A \in SUBSET (1..Len(pollfds)) : P!PollFds(A)
            PROVE  PollInv'
        BY <2>2, <3>1, <3>4, PollRestKeeps
      <3> QED BY <1>1, <3>2, <3>3, <3>4 DEF P!Next
    <2> QED BY <1>1, <2>1, <2>2 DEF IInv
  <1>2. CASE kind = "epoll" /\ E!Next /\ kind' = kind
    <2>1. EpollBasics /\ EpollBasics' /\ misused \subseteq misused'
      BY <1>2, EpollBasicsKept DEF IInv
    <2>2. ASSUME misused' = {}
          PROVE  EpollInv'
      <3>1. EpollInv
        BY <1>2, <2>1, <2>2 DEF IInv
      <3> QED BY <1>2, <2>2, <3>1, EpollUpdateKeeps, EpollRestKeeps DEF E!Next
    <2> QED BY <1>2, <2>1, <2>2 DEF IInv
  <1>3. CASE UNCHANGED vars
    BY <1>3 DEF vars, IInv, PollInv, PollTypes, PollBasics, EpollInv, EpollBasics,
                P!UsedWell, ChannelTypeOK, LiveChannels, Live, OneOwner, MapMatches,
                EntriesMatch, EntryFor, KernelMatches, WantsRightly
  <1> QED BY <1>1, <1>2, <1>3 DEF Next

LEMMA SpecIInv == Spec => []IInv
  <1>1. IInv /\ [Next]_vars => IInv'
    BY NextIInv
  <1> QED BY <1>1, InitIInv, PTL DEF Spec

\* TypeOK is an invariant, whatever is misused; in particular, until something is,
\* every live channel's index points into the array, so that update and remove
\* never reach beyond it.
THEOREM TypeCorrect == Spec => []TypeOK
  <1>1. IInv => TypeOK
    <2> SUFFICES ASSUME IInv PROVE TypeOK
      OBVIOUS
    <2>1. ASSUME kind = "poll" PROVE P!TypeOK
      <3>1. PollBasics /\ (misused = {} => PollInv)
        BY <2>1 DEF IInv, P!UsedWell
      <3>2. P!Entry = Entries
        BY SameChannel DEF P!Entry, Entries
      <3> QED BY <3>1, <3>2, SameChannel DEF PollBasics, PollInv, P!TypeOK, LiveChannels
    <2>2. ASSUME kind = "epoll" PROVE E!TypeOK
      BY <2>2, SameChannel DEF IInv, EpollBasics, EpollInv, E!TypeOK
    <2> QED BY <2>1, <2>2 DEF TypeOK
  <1> QED BY <1>1, SpecIInv, PTL

\* What the kernel watches for c, when c is live: the entries with its descriptor
\* are those of no other channel.
LEMMA WatchedEvents ==
  ASSUME PollInv, failed = "no", NEW c \in LiveChannels
  PROVE  P!Watched(c) = events[c]
  <1> DEFINE mine == {j \in 1..Len(pollfds) : pollfds[j].fd = FdOf[c]}
  <1>0. c \in Channels /\ FdOf[c] \in Fds /\ FdOf[c] # -1
    BY ChannelAssumption DEF LiveChannels
  <1>1. ASSUME NEW j \in mine
        PROVE  j = index[c] + 1 /\ events[c] # {}
    <2>1. PICK d \in LiveChannels : index[d] + 1 = j
      BY DEF PollInv, EntriesMatch
    <2>2. pollfds[j] = EntryFor(d)
      BY <2>1 DEF PollInv, EntriesMatch
    <2>3. FdOf[d] = FdOf[c] /\ events[d] # {}
      BY <1>0, <2>2 DEF EntryFor
    <2> QED BY <2>1, <2>3 DEF PollInv, MapMatches
  <1>2. /\ pollfds[index[c] + 1] = EntryFor(c)
        /\ index[c] + 1 \in 1..Len(pollfds)
    BY DEF PollInv, EntriesMatch
  <1>3. CASE events[c] = {}
    BY <1>1, <1>3 DEF P!Watched
  <1>4. CASE events[c] # {}
    <2>1. mine = {index[c] + 1}
      BY <1>1, <1>2, <1>4 DEF EntryFor
    <2> QED BY <1>2, <2>1 DEF P!Watched, EntryFor
  <1> QED BY <1>3, <1>4

\* MatchesChannels is an invariant: whatever the order of the calls, and whichever
\* descriptors are reused, the kernel is asked for what the live channels want, a
\* channel is found again through its descriptor, no epoll_ctl is refused and no
\* assertion of either class fails, until a channel is misused.
THEOREM PollersMatch == Spec => []MatchesChannels
  <1>1. ASSUME IInv, kind = "poll", P!UsedWell
        PROVE  P!ArrayMatchesChannels /\ P!AssertionsHold
    <2>1. PollInv
      BY <1>1 DEF IInv
    <2>2. ASSUME failed = "no", NEW c \in Channels, P!Live(c)
          PROVE  /\ P!Watched(c) = events[c]
                 /\ channelMap[FdOf[c]] = c
                 /\ pollfds[index[c] + 1].fd = IF events[c] = {} THEN -1 ELSE FdOf[c]
      <3>1. c \in LiveChannels
        BY <2>2, SameChannel DEF LiveChannels
      <3>2. pollfds[index[c] + 1] = EntryFor(c) /\ channelMap[FdOf[c]] = c
        BY <2>1, <2>2, <3>1 DEF PollInv, EntriesMatch, MapMatches
      <3> QED BY <2>1, <2>2, <3>1, <3>2, WatchedEvents DEF EntryFor
    <2>3. ASSUME failed = "no"
          PROVE  /\ \A c, d \in Channels :
                       P!Live(c) /\ P!Live(d) /\ index[c] = index[d] => c = d
                 /\ Len(pollfds) = P!Cardinality({c \in Channels : P!Live(c)})
      <3>1. LiveChannels = {c \in Channels : P!Live(c)}
        BY SameChannel DEF LiveChannels
      <3> QED BY <2>1, <2>3, <3>1, SameCardinality DEF PollInv, EntriesMatch
    <2> QED BY <2>1, <2>2, <2>3
            DEF P!ArrayMatchesChannels, P!AssertionsHold, PollInv, PollTypes
  <1>2. ASSUME IInv, kind = "epoll", misused = {}
        PROVE  E!KernelMatchesChannels /\ E!NothingFails
    <2>1. EpollInv
      BY <1>2 DEF IInv
    <2>2. ASSUME NEW c \in Channels, E!Wanted(c) # {}
          PROVE  kernel[FdOf[c]] = [events |-> E!Wanted(c), ptr |-> c]
      <3>1. c \in LiveChannels /\ events[c] # {} /\ E!Wanted(c) = events[c]
        BY <2>2, SameChannel DEF Wanted, LiveChannels
      <3> QED BY <2>1, <3>1 DEF EpollInv, KernelMatches
    <2>3. ASSUME NEW f \in Fds, kernel[f] # None
          PROVE  E!Wanted(kernel[f].ptr) # {}
      <3>1. kernel[f].ptr \in LiveChannels /\ FdOf[kernel[f].ptr] = f
        BY <2>1, <2>3 DEF EpollInv, KernelMatches
      <3>2. events[kernel[f].ptr] # {}
        BY <2>1, <2>3, <3>1 DEF EpollInv, KernelMatches
      <3> QED BY <3>1, <3>2, SameChannel DEF Wanted, LiveChannels
    <2> QED BY <2>1, <2>2, <2>3 DEF E!KernelMatchesChannels, E!NothingFails, EpollInv
  <1>3. IInv => MatchesChannels
    BY <1>1, <1>2 DEF MatchesChannels, P!ArrayMatchesChannels, P!AssertionsHold,
                      E!KernelMatchesChannels, E!NothingFails
  <1> QED BY <1>3, SpecIInv, PTL

-----------------------------------------------------------------------------
(* The refinement of Poller.                                               *)

\* The definitions of Channel are the same in Poller.
LEMMA SameAbstractChannel ==
  /\ Abstract!ChannelInit = ChannelInit
  /\ P!ChannelInit = ChannelInit /\ E!ChannelInit = ChannelInit
  /\ \A c : Abstract!Change(c) = Change(c)
  /\ \A c : Abstract!RemoveChannel(c) = RemoveChannel(c)
  /\ \A c : Abstract!CloseFd(c) = CloseFd(c)
  /\ \A c : Abstract!Wanted(c) = Wanted(c)
  BY Zenon DEF Abstract!ChannelInit, P!ChannelInit, E!ChannelInit, ChannelInit,
        Abstract!kRead, kRead, Abstract!kWrite, kWrite,
        Abstract!Live, Live, Abstract!Wanted, Wanted,
        Abstract!Change, Change, Abstract!Open, Open,
        Abstract!EnableWriting, EnableWriting,
        Abstract!DisableWrite, DisableWrite, Abstract!DisableAll, DisableAll,
        Abstract!SameFd, SameFd, Abstract!SetEvents, SetEvents,
        Abstract!Connections, Connections,
        Abstract!Misuse, Misuse, Abstract!Resetting, Resetting,
        Abstract!RemoveChannel, RemoveChannel, Abstract!CloseFd, CloseFd

\* Every call is a call, and every report is one of channels that want events.
LEMMA StepRefines ==
  ASSUME IInv, Next
  PROVE  Abstract!Next
  <1>1. ASSUME NEW c \in Channels, active' = {},
               Change(c) \/ RemoveChannel(c) \/ CloseFd(c)
        PROVE  Abstract!Next
    BY <1>1, SameAbstractChannel DEF Abstract!Next, Abstract!Call
  <1>2. ASSUME active' \subseteq Channels,
               misused = {} => \A c \in active' : Wanted(c) # {},
               UNCHANGED <<events, phase, misused>>
        PROVE  Abstract!Next
    <2>1. Abstract!Report(active')
      BY <1>2, SameAbstractChannel DEF Abstract!Report
    <2> QED BY <1>2, <2>1 DEF Abstract!Next
  <1>3. CASE kind = "poll" /\ P!Next
    <2>1. misused = {} => PollInv
      BY <1>3 DEF IInv, P!UsedWell
    <2>2. ASSUME NEW c \in Channels, P!Update(c) \/ P!Remove(c) \/ P!Close(c)
          PROVE  Abstract!Next
      BY <1>1, <2>2, SameChannel DEF P!Update, P!Remove, P!Close
    <2>3. ASSUME NEW A \in SUBSET (1..Len(pollfds)), P!PollFds(A)
          PROVE  Abstract!Next
      <3>1. active' \subseteq Channels
        BY <1>3, <2>3, PollBasicsKept DEF IInv, PollBasics
      <3> QED BY <1>2, <2>1, <2>3, <3>1, PollReports DEF P!PollFds
    <2> QED BY <1>3, <2>2, <2>3 DEF P!Next
  <1>4. CASE kind = "epoll" /\ E!Next
    <2>1. misused = {} => EpollInv
      BY <1>4 DEF IInv
    <2>3. ASSUME NEW c \in Channels, E!Update(c) \/ E!Remove(c) \/ E!Close(c)
          PROVE  Abstract!Next
      BY <1>1, <2>3, SameChannel DEF E!Update, E!Remove, E!Close
    <2>4. ASSUME NEW R \in SUBSET Fds, E!EpollWait(R)
          PROVE  Abstract!Next
      <3>1. active' \subseteq Channels
        BY <1>4, <2>4, EpollBasicsKept DEF IInv, EpollBasics
      <3> QED BY <1>2, <2>1, <2>4, <3>1, EpollReports DEF E!EpollWait
    <2> QED BY <1>4, <2>3, <2>4 DEF E!Next
  <1> QED BY <1>3, <1>4 DEF Next

\* Both classes implement Poller: an owner that misuses no channel sees no difference
\* between them, and none of the bookkeeping with array positions and reused
\* descriptors shows.
THEOREM ImplementsPoller == Spec => PollerSpec
  <1>1. Init => Abstract!Init
    BY SameAbstractChannel DEF Init, P!Init, E!Init, Abstract!Init
  <1>2. IInv /\ [Next]_vars => [Abstract!Next]_(Abstract!vars)
    BY StepRefines DEF vars, Abstract!vars
  <1> QED BY <1>1, <1>2, SpecIInv, PTL DEF Spec, PollerSpec, Abstract!Spec
=============================================================================
