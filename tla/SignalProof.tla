----------------------------- MODULE SignalProof -----------------------------
(***************************************************************************)
(* A signal that is set stays blocked in its loop's thread and is reported *)
(* by its signalfd, and the read behind a report always finds a signal and *)
(* its callback, for any loops, any signals and any number of sends.       *)
(***************************************************************************)
EXTENDS Signal, TLAPS

\* mask_ and signalMap_ agree, so the mask that delSignal sets leaves out no
\* signal of the map; a thread that does not exist has set none.
IInv ==
    /\ TypeOK
    /\ SetIsBlocked
    /\ \A l \in Loops \ threads : map[l] = {}

LEMMA InitIInv == Init => IInv
  BY FirstIsLoop, MaxSendsIsNat DEF Init, IInv, TypeOK, SetIsBlocked

\* What ends the process is one of the ways listed.
LEMMA DeliverTyped ==
  ASSUME NEW S, TypeOK, Deliver(S)
  PROVE  over' \in {"no", "killed", "assertion", "noCallback"}
  BY DEF TypeOK, Deliver

LEMMA NewThreadKeepsIInv ==
  ASSUME IInv, NEW l \in Loops, NewThread(l)
  PROVE  IInv'
  <1> USE DEF IInv, TypeOK, SetIsBlocked, NewThread, Up
  <1>1. First \in Loops /\ map[l] = {}
    BY FirstIsLoop
  <1>2. TypeOK'
    BY <1>1
  <1>3. SetIsBlocked'
    BY <1>1
  <1> QED BY <1>2, <1>3

LEMMA SetKeepsIInv ==
  ASSUME IInv, NEW l \in Loops, NEW s \in Signos, SetSignal(l, s)
  PROVE  IInv'
  <1> USE DEF IInv, TypeOK, SetIsBlocked, SetSignal, TellSignalFd, Up
  <1>1. /\ mask' = [mask EXCEPT ![l] = @ \cup {s}]
        /\ map' = mask'
        /\ blocked' = [blocked EXCEPT ![l] = @ \cup mask[l] \cup {s}]
        /\ fdMask' = [fdMask EXCEPT ![l] = mask[l] \cup {s}]
    OBVIOUS
  <1>2. TypeOK'
    BY <1>1
  <1>3. SetIsBlocked'
    BY <1>1
  <1> QED BY <1>2, <1>3

LEMMA DelKeepsIInv ==
  ASSUME IInv, NEW l \in Loops, NEW s \in Signos, DelSignal(l, s)
  PROVE  IInv'
  <1> USE DEF IInv, TypeOK, SetIsBlocked, DelSignal, Clear, SetMask, Up
  <1>1. /\ mask' = [mask EXCEPT ![l] = @ \ {s}]
        /\ map' = mask'
        /\ blocked' = [blocked EXCEPT ![l] = mask[l] \ {s}]
        /\ pending' = pending \cap blocked'[l]
        /\ UNCHANGED <<threads, fdMask, active, sends>>
    OBVIOUS
  <1>2. TypeOK'
    BY <1>1, DeliverTyped
  <1>3. SetIsBlocked'
    BY <1>1
  <1> QED BY <1>1, <1>2, <1>3

LEMMA NextIInv == IInv /\ [Next]_vars => IInv'
  <1> SUFFICES ASSUME IInv, [Next]_vars PROVE IInv'
    OBVIOUS
  <1>1. ASSUME NEW l \in Loops, NewThread(l) PROVE IInv'
    BY <1>1, NewThreadKeepsIInv
  <1>2. ASSUME NEW l \in Loops, PollReports(l) PROVE IInv'
    BY <1>2 DEF PollReports, IInv, TypeOK, SetIsBlocked
  <1>3. ASSUME NEW l \in Loops, HandleRead(l) PROVE IInv'
    BY <1>3 DEF HandleRead, Up, Readable, IInv, TypeOK, SetIsBlocked
  <1>4. ASSUME NEW l \in Loops, NEW s \in Signos, SetSignal(l, s) PROVE IInv'
    BY <1>4, SetKeepsIInv
  <1>5. ASSUME NEW l \in Loops, NEW s \in Signos, DelSignal(l, s) PROVE IInv'
    BY <1>5, DelKeepsIInv
  <1>6. ASSUME NEW s \in Signos, Send(s) PROVE IInv'
    <2>1. over' \in {"no", "killed", "assertion", "noCallback"}
      BY <1>6, DeliverTyped DEF Send, IInv, TypeOK
    <2> QED
      BY <1>6, <2>1, MaxSendsIsNat DEF Send, IInv, TypeOK, SetIsBlocked
  <1>7. CASE UNCHANGED vars
    BY <1>7 DEF vars, IInv, TypeOK, SetIsBlocked
  <1> QED
    BY <1>1, <1>2, <1>3, <1>4, <1>5, <1>6, <1>7 DEF Next

\* A signal set on a loop never ends the process by way of the loop's thread, and
\* is reported by the signalfd, however signals are set, deleted and sent.
THEOREM StaysBlocked == Spec => []SetIsBlocked
  <1>1. IInv => SetIsBlocked
    BY DEF IInv
  <1> QED BY <1>1, InitIInv, NextIInv, PTL DEF Spec

\* The sets of signals, masks and loops keep their types, and mask_ and signalMap_
\* have the same signals.
THEOREM TypeCorrect == Spec => []TypeOK
  <1>1. IInv => TypeOK
    BY DEF IInv
  <1> QED BY <1>1, InitIInv, NextIInv, PTL DEF Spec

-----------------------------------------------------------------------------
(* The read behind a report.                                               *)

\* Who has a signal: only its owner sets it, tells a signalfd of it, and passes it on
\* to new threads; where the owner's thread blocks it, it is set.
Owned ==
    /\ \A l \in Loops : \A s \in map[l] \cup fdMask[l] : Owner[s] = l
    /\ \A s \in blocked[First] : Owner[s] = First
    /\ \A l \in Loops : \A s \in blocked[l] : Owner[s] = l => s \in map[l]

\* Every thread blocks what is pending, and a signalfd that has been reported can
\* still be read.
Reported ==
    over = "no" =>
        /\ \A l \in threads : pending \subseteq blocked[l]
        /\ \A l \in Loops : active[l] => l \in threads /\ Readable(l) # {}

ReadInv == IInv /\ Owned /\ Reported /\ NothingFails

\* No step gives a loop another loop's signal.
LEMMA NextOwned ==
  ASSUME ReadInv, [Next]_vars
  PROVE  Owned'
  <1> USE DEF ReadInv, IInv, TypeOK, Owned
  <1>1. ASSUME NEW l \in Loops, NewThread(l) PROVE Owned'
    <2>1. l # First
      BY <1>1 DEF NewThread, Up
    <2> QED BY <1>1, <2>1 DEF NewThread
  <1>2. ASSUME NEW l \in Loops, PollReports(l) \/ HandleRead(l) PROVE Owned'
    BY <1>2 DEF PollReports, HandleRead
  <1>3. ASSUME NEW l \in Loops, NEW s \in Signos, SetSignal(l, s) PROVE Owned'
    BY <1>3 DEF SetSignal, TellSignalFd
  <1>4. ASSUME NEW l \in Loops, NEW s \in Signos, DelSignal(l, s) PROVE Owned'
    BY <1>4 DEF DelSignal, Clear, SetMask
  <1>5. ASSUME NEW s \in Signos, Send(s) PROVE Owned'
    BY <1>5 DEF Send
  <1>6. CASE UNCHANGED vars
    BY <1>6 DEF vars
  <1> QED
    BY <1>1, <1>2, <1>3, <1>4, <1>5, <1>6 DEF Next

\* What a signalfd can be read for has been set.
LEMMA ReadableIsSet ==
  ASSUME ReadInv, over = "no", NEW l \in threads
  PROVE  Readable(l) \subseteq map[l]
  BY DEF ReadInv, IInv, TypeOK, Owned, Reported, Readable

\* What is pending and reported can be read until it is read: a deleted signal was
\* not pending, or its delivery has ended the process.
LEMMA NextReported ==
  ASSUME ReadInv, Ignored = {}, [Next]_vars
  PROVE  Reported' /\ NothingFails'
  <1> USE DEF ReadInv, IInv, TypeOK, Reported, Readable, NothingFails
  <1>1. ASSUME NEW l \in Loops, NewThread(l) PROVE Reported' /\ NothingFails'
    BY <1>1 DEF NewThread, Up
  <1>2. ASSUME NEW l \in Loops, PollReports(l) PROVE Reported' /\ NothingFails'
    BY <1>2 DEF PollReports, Up
  <1>3. ASSUME NEW l \in Loops, HandleRead(l) PROVE Reported' /\ NothingFails'
    <2>1. PICK s \in Readable(l) :
            pending' = pending \ {s} /\ over' = IF s \in map[l] THEN over ELSE "noCallback"
      BY <1>3 DEF HandleRead, Up
    <2>2. s \in map[l] /\ over' = "no"
      BY <1>3, <2>1, ReadableIsSet DEF HandleRead, Up
    <2>3. ASSUME NEW k \in Loops, active'[k] PROVE k \in threads /\ Readable(k)' # {}
      <3>1. k # l /\ active[k]
        BY <1>3, <2>3 DEF HandleRead
      <3>2. s \notin fdMask[k]
        BY <2>1, <3>1 DEF Owned
      <3> QED BY <1>3, <2>1, <3>1, <3>2 DEF HandleRead, Up
    <2> QED BY <1>3, <2>1, <2>2, <2>3 DEF HandleRead, Up
  <1>4. ASSUME NEW l \in Loops, NEW s \in Signos, SetSignal(l, s)
        PROVE  Reported' /\ NothingFails'
    <2>1. Readable(l) \subseteq map[l]
      BY <1>4, ReadableIsSet DEF SetSignal, Up
    <2> QED BY <1>4, <2>1 DEF SetSignal, TellSignalFd, Up
  <1>5. ASSUME NEW l \in Loops, NEW s \in Signos, DelSignal(l, s)
        PROVE  Reported' /\ NothingFails'
    <2>1. CASE pending \subseteq blocked'[l]
      BY <1>5, <2>1 DEF DelSignal, Clear, SetMask, Deliver, Up
    <2>2. CASE ~(pending \subseteq blocked'[l])
      BY <1>5, <2>2 DEF DelSignal, Deliver
    <2> QED BY <2>1, <2>2
  <1>6. ASSUME NEW s \in Signos, Send(s) PROVE Reported' /\ NothingFails'
    BY <1>6 DEF Send, Deliver
  <1>7. CASE UNCHANGED vars
    BY <1>7 DEF vars
  <1> QED
    BY <1>1, <1>2, <1>3, <1>4, <1>5, <1>6, <1>7 DEF Next

\* If no signal is ignored by default, the read behind poll's report always finds a
\* signal, and signalMap_ its callback, for any loops and signals: what other
\* callbacks of the round delete was not pending, or has ended the process.
THEOREM ReadFindsSignal ==
  ASSUME Ignored = {}
  PROVE  Spec => []NothingFails
  <1>1. Init => ReadInv
    BY InitIInv DEF Init, ReadInv, IInv, TypeOK, Owned, Reported, NothingFails
  <1>2. ReadInv /\ [Next]_vars => ReadInv'
    BY NextIInv, NextOwned, NextReported DEF ReadInv
  <1>3. ReadInv => NothingFails
    BY DEF ReadInv
  <1> QED BY <1>1, <1>2, <1>3, PTL DEF Spec
=============================================================================
