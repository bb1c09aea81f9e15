--------------------------- MODULE EventLoopProof ---------------------------
(***************************************************************************)
(* Proofs about EventLoop, for any set of functors, calling threads and    *)
(* channels and for both poll intervals, and about TimerQueue, for any     *)
(* timers, delays and any time.                                            *)
(***************************************************************************)
EXTENDS EventLoop, TimerQueue, SequenceTheorems, WellFoundedInduction, TLAPS

(***************************************************************************)
(* Type correctness: every variable keeps its type, whatever the threads   *)
(* and the poller do (EventLoop.h's members).                              *)
(***************************************************************************)
LEMMA TypeStep == TypeOK /\ [Next]_vars => TypeOK'
<1> SUFFICES ASSUME TypeOK, [Next]_vars PROVE TypeOK'
  OBVIOUS
<1> USE DEF TypeOK, loopVars, history
<1>1. ASSUME NEW t \in Threads, NEW f \in Functors, QueueInLoop(t, f)
      PROVE  TypeOK'
  BY <1>1 DEF QueueInLoop, Push
<1>2. ASSUME NEW t \in Threads, NEW f \in Functors, RunInLoop(t, f)
      PROVE  TypeOK'
  <2>1. CASE Push(t, f)
    BY <1>2, <2>1 DEF Push
  <2>2. CASE t = Loop
    BY <1>2, <2>2 DEF RunInLoop
  <2>3. QED
    BY <1>2, <2>1, <2>2 DEF RunInLoop
<1>3. ASSUME NEW t \in Threads, QueueWake(t) PROVE TypeOK'
  BY <1>3 DEF QueueWake, QueueWakes
<1>4. ASSUME NEW t \in Threads, Stop(t) PROVE TypeOK'
  BY <1>4 DEF Stop
<1>5. ASSUME NEW t \in Threads, StopWake(t) PROVE TypeOK'
  BY <1>5 DEF StopWake, StopWakes
<1>6. CASE EnterLoop
  BY <1>6 DEF EnterLoop, PCs
<1>7. CASE TestStart
  BY <1>7 DEF TestStart, PCs
<1>8. CASE ReadEventFd
  BY <1>8 DEF ReadEventFd
<1>9. ASSUME NEW c \in Ios, HandleEvent(c) PROVE TypeOK'
  BY <1>9 DEF HandleEvent
<1>10. CASE EndHandling
  BY <1>10 DEF EndHandling, PCs
<1>11. CASE SwapPending
  BY <1>11 DEF SwapPending, TakePending, PCs
<1>12. CASE MarkCalling
  BY <1>12 DEF MarkCalling, PCs
<1>13. CASE CallFunctor
  <2>1. /\ Head(functors) \in Functors
        /\ Tail(functors) \in Seq(Functors)
    BY <1>13, HeadTailProperties DEF CallFunctor
  <2>2. Append(ran, Head(functors)) \in Seq(Functors)
    BY <2>1, AppendProperties
  <2>3. QED
    BY <1>13, <2>1, <2>2 DEF CallFunctor
<1>14. CASE EndFunctors
  BY <1>14 DEF EndFunctors, AllCalled, PCs
<1>15. ASSUME NEW A \in SUBSET Channels, PollReturn(A) PROVE TypeOK'
  BY <1>15 DEF PollReturn, PCs
<1>16. CASE EndCallback
  BY <1>16 DEF EndCallback
<1>17. CASE UNCHANGED vars
  BY <1>17 DEF vars
<1>18. QED
  BY <1>1, <1>2, <1>3, <1>4, <1>5, <1>6, <1>7, <1>8, <1>9, <1>10, <1>11,
     <1>12, <1>13, <1>14, <1>15, <1>16, <1>17 DEF Next, CallStep, LoopStep

\* The type invariant holds in every reachable state.
THEOREM TypeCorrect == Spec => []TypeOK
<1>1. Init => TypeOK
  <2>1. <<>> \in Seq(Functors)
    OBVIOUS
  <2>2. QED
    BY <2>1 DEF Init, TypeOK, PCs
<1>2. QED
  BY <1>1, TypeStep, PTL DEF Spec

(***************************************************************************)
(* No wakeup and no stop is lost.  Where the loop thread is tells what it  *)
(* still owes: the functors that need a wakeup while it is past poll are   *)
(* swapped out later in the same round, and a push it makes itself inside  *)
(* a functor is followed by its own wakeup, since callingPendFunctors_ is  *)
(* set exactly while functors run.                                         *)
(***************************************************************************)
LEMMA WakeStep == TypeOK /\ WakeInv /\ [Next]_vars => WakeInv'
<1> SUFFICES ASSUME TypeOK, WakeInv, [Next]_vars PROVE WakeInv'
  OBVIOUS
<1> USE LoopIsNoCaller DEF TypeOK, WakeInv, CallbackPlace, CallingPlace,
        WakeupOwed, NoLostStop, NeedsWakeup, loopVars, history, Threads
<1>1. ASSUME NEW t \in Threads, NEW f \in Functors, InUserCode(t), Push(t, f)
      PROVE  WakeInv'
  <2>1. CASE t = Loop
    <3>1. pc # "run" => pc \in {"handle", "outside"}
      BY <1>1, <2>1 DEF InUserCode
    <3>2. CASE pc = "outside"
      <4>1. NeedsWakeup' => NeedsWakeup
        <5> SUFFICES ASSUME NEW i \in 1..Len(pending'), pending'[i] \notin early'
                     PROVE  NeedsWakeup
          BY <1>1, <2>1, <3>2
        <5>1. early' = early \cup {f} /\ pending' = Append(pending, f)
          BY <1>1, <2>1, <3>2 DEF Push
        <5>2. i # Len(pending) + 1
          BY <5>1
        <5>3. i \in 1..Len(pending) /\ pending[i] \notin early
          BY <5>1, <5>2
        <5>4. QED
          BY <5>3
      <4>2. QED
        BY <1>1, <2>1, <3>2, <4>1 DEF Push, InUserCode
    <3>3. CASE pc # "outside"
      BY <1>1, <2>1, <3>1, <3>3 DEF Push, InUserCode
    <3>4. QED
      BY <3>2, <3>3
  <2>2. CASE t # Loop
    BY <1>1, <2>2 DEF Push, InUserCode
  <2>3. QED
    BY <2>1, <2>2
<1>2. ASSUME NEW t \in Threads, NEW f \in Functors, QueueInLoop(t, f)
      PROVE  WakeInv'
  BY <1>1, <1>2 DEF QueueInLoop
<1>3. ASSUME NEW t \in Threads, NEW f \in Functors, RunInLoop(t, f)
      PROVE  WakeInv'
  BY <1>1, <1>3 DEF RunInLoop
<1>4. ASSUME NEW t \in Threads, QueueWake(t) PROVE WakeInv'
  BY <1>4 DEF QueueWake, QueueWakes
<1>5. ASSUME NEW t \in Threads, Stop(t) PROVE WakeInv'
  BY <1>5 DEF Stop, InUserCode
<1>6. ASSUME NEW t \in Threads, StopWake(t) PROVE WakeInv'
  BY <1>6 DEF StopWake, StopWakes
<1>7. CASE EnterLoop
  BY <1>7 DEF EnterLoop
<1>8. CASE TestStart
  BY <1>8 DEF TestStart
<1>9. CASE ReadEventFd
  BY <1>9 DEF ReadEventFd
<1>10. ASSUME NEW c \in Ios, HandleEvent(c) PROVE WakeInv'
  BY <1>10 DEF HandleEvent
<1>11. CASE EndHandling
  BY <1>11 DEF EndHandling
<1>12. CASE SwapPending
  BY <1>12 DEF SwapPending, TakePending
<1>13. CASE MarkCalling
  BY <1>13 DEF MarkCalling
<1>14. CASE CallFunctor
  BY <1>14 DEF CallFunctor
<1>15. CASE EndFunctors
  BY <1>15 DEF EndFunctors, AllCalled
<1>16. ASSUME NEW A \in SUBSET Channels, PollReturn(A) PROVE WakeInv'
  BY <1>16 DEF PollReturn
<1>17. CASE EndCallback
  BY <1>17 DEF EndCallback
<1>18. CASE UNCHANGED vars
  BY <1>18 DEF vars
<1>19. QED
  BY <1>2, <1>3, <1>4, <1>5, <1>6, <1>7, <1>8, <1>9, <1>10, <1>11, <1>12,
     <1>13, <1>14, <1>15, <1>16, <1>17, <1>18 DEF Next, CallStep, LoopStep

LEMMA WakeInvariant == Spec => []WakeInv
<1>1. Init => WakeInv
  BY DEF Init, WakeInv, CallbackPlace, CallingPlace, WakeupOwed, NoLostStop,
         NeedsWakeup, Threads
<1>2. QED
  BY <1>1, TypeCorrect, WakeStep, PTL DEF Spec

\* A functor queued from another thread, or from a functor, is never left
\* pending in a blocking poll that nobody will end, and a stop() that finds the
\* loop running never leaves it in such a poll.
THEOREM PollIsAlwaysWoken == Spec => []PollIsWoken
<1>1. WakeInv => PollIsWoken
  BY DEF WakeInv, WakeupOwed, NoLostWakeup, PollIsWoken
<1>2. QED
  BY <1>1, WakeInvariant, PTL

(***************************************************************************)
(* The loop implements the abstract queue: the waiting functors are those  *)
(* doPendingFunctors has swapped out and not called, followed by           *)
(* pendingFunctors_.  A push appends, a call takes the head, and the swap  *)
(* is a stuttering step.                                                   *)
(***************************************************************************)
\* The head and the tail of a concatenation come from its nonempty first part.
LEMMA ConcatHeadTail ==
  ASSUME NEW S, NEW s \in Seq(S), NEW u \in Seq(S), s # <<>>
  PROVE  /\ s \o u # <<>>
         /\ Head(s \o u) = Head(s)
         /\ Tail(s \o u) = Tail(s) \o u
<1>1. Len(s) \in Nat \ {0} /\ Len(u) \in Nat
  BY EmptySeq, LenProperties
<1>2. s \o u \in Seq(S) /\ Len(s \o u) = Len(s) + Len(u)
  BY ConcatProperties
<1>3. s \o u # <<>> /\ Head(s \o u) = Head(s)
  BY <1>1, <1>2, ConcatProperties, HeadTailProperties
<1>4. Tail(s) \in Seq(S) /\ Len(Tail(s)) = Len(s) - 1
  BY HeadTailProperties
<1>5. Tail(s \o u) = Tail(s) \o u
  <2>1. Tail(s \o u) \in Seq(S) /\ Tail(s) \o u \in Seq(S)
    BY <1>2, <1>3, <1>4, HeadTailProperties, ConcatProperties
  <2>2. Len(Tail(s \o u)) = Len(Tail(s) \o u)
    BY <1>1, <1>2, <1>3, <1>4, HeadTailProperties, ConcatProperties
  <2>3. ASSUME NEW i \in 1..Len(Tail(s \o u))
        PROVE  Tail(s \o u)[i] = (Tail(s) \o u)[i]
    BY <1>1, <1>2, <1>3, <1>4, HeadTailProperties, ConcatProperties
  <2>4. QED
    BY <2>1, <2>2, <2>3, SeqEqual
<1>6. QED
  BY <1>3, <1>5

LEMMA QueueStep ==
  TypeOK /\ [Next]_vars => [Queue!Next]_(Queue!vars)
<1> SUFFICES ASSUME TypeOK, [Next]_vars PROVE [Queue!Next]_(Queue!vars)
  OBVIOUS
<1> USE DEF TypeOK, loopVars, history
<1>1. ASSUME NEW t \in Threads, NEW f \in Functors, Push(t, f)
      PROVE  Queue!Submit(f)
  <2>1. functors \o Append(pending, f) = Append(functors \o pending, f)
    BY ConcatProperties, AppendProperties
  <2>2. QED
    BY <1>1, <2>1 DEF Push, Queue!Submit
<1>2. ASSUME NEW t \in Threads, NEW f \in Functors, QueueInLoop(t, f)
      PROVE  Queue!Next
  BY <1>1, <1>2 DEF QueueInLoop, Queue!Next
<1>3. ASSUME NEW t \in Threads, NEW f \in Functors, RunInLoop(t, f)
      PROVE  Queue!Next
  <2>1. CASE t = Loop
    BY <1>3, <2>1 DEF RunInLoop, Queue!CallNow, Queue!Next
  <2>2. CASE t # Loop
    BY <1>1, <1>3, <2>2 DEF RunInLoop, Queue!Next
  <2>3. QED
    BY <2>1, <2>2
<1>4. CASE CallFunctor
  BY <1>4, ConcatHeadTail DEF CallFunctor, Queue!CallNext, Queue!Next
<1>5. CASE SwapPending
  <2>1. functors = <<>>
    BY <1>5 DEF SwapPending, TakePending
  <2>2. functors' \o pending' = functors \o pending
    BY <1>5, <2>1, ConcatEmptySeq DEF SwapPending, TakePending
  <2>3. QED
    BY <1>5, <2>2 DEF SwapPending, TakePending, Queue!vars
<1>6. ASSUME NEW t \in Threads, QueueWake(t) \/ Stop(t) \/ StopWake(t)
      PROVE  UNCHANGED Queue!vars
  BY <1>6 DEF QueueWake, Stop, StopWake, Queue!vars
<1>7. CASE EnterLoop \/ TestStart \/ ReadEventFd \/ EndHandling \/ MarkCalling
           \/ EndFunctors \/ EndCallback
  BY <1>7 DEF EnterLoop, TestStart, ReadEventFd, EndHandling, MarkCalling,
              EndFunctors, EndCallback, Queue!vars
<1>8. ASSUME NEW c \in Ios, HandleEvent(c) PROVE UNCHANGED Queue!vars
  BY <1>8 DEF HandleEvent, Queue!vars
<1>9. ASSUME NEW A \in SUBSET Channels, PollReturn(A) PROVE UNCHANGED Queue!vars
  BY <1>9 DEF PollReturn, Queue!vars
<1>10. CASE UNCHANGED vars
  BY <1>10 DEF vars, Queue!vars
<1>11. QED
  BY <1>2, <1>3, <1>4, <1>5, <1>6, <1>7, <1>8, <1>9, <1>10
     DEF Next, CallStep, LoopStep

\* queueInLoop, runInLoop and doPendingFunctors keep the promise of TaskQueue:
\* functors are called in the order they were pushed, none twice, none lost
\* between the push and the call.
THEOREM ImplementsQueue == Spec => QueueSpec
<1>1. Init => Queue!Init
  <2>1. <<>> \o <<>> = <<>>
    OBVIOUS
  <2>2. QED
    BY <2>1 DEF Init, Queue!Init
<1>2. QED
  BY <1>1, TypeCorrect, QueueStep, PTL
     DEF Spec, QueueSpec, Queue!Spec

(***************************************************************************)
(* The loop's timers, for any number of them, any delays and any time: the *)
(* timerfd is armed in time, no deleted timer is touched, and a cancelled  *)
(* one stays away.                                                         *)
(***************************************************************************)
\* A timer is in one place; one cancelled while its round is under way has been
\* remembered; only timers that have been added are cancelled.
Places ==
    /\ timers \cap expired = {}
    /\ expired \cap cancelled \subseteq cancelTimers
    /\ \A t \in cancelled : state[t] # "new"

TimerInv == TimerTypeOK /\ NothingDangles /\ CancelledIsGone /\ ArmedInTime /\ Places

LessThan == {ss \in Nat \X Nat : ss[1] < ss[2]}

LEMMA LessThanWellFounded == IsWellFoundedOn(LessThan, Nat)
  BY NatLessThanWellFounded, Zenon DEF OpToRel, LessThan

\* Of the timers in a set one has the least time: begin() finds it.
LEMMA LeastExists ==
  ASSUME NEW S, S # {}, NEW at, \A t \in S : at[t] \in Nat
  PROVE  \E t \in First(S, at) : TRUE
  <1> DEFINE T == {at[t] : t \in S}
  <1>1. T \subseteq Nat /\ T # {}
    OBVIOUS
  <1>2. PICK x \in T : \A y \in T : <<y, x>> \notin LessThan
    <2> HIDE DEF T
    <2> QED BY <1>1, LessThanWellFounded, WFMin
  <1>3. \A y \in T : x <= y
    <2> HIDE DEF T
    <2>1. ASSUME NEW y \in T PROVE x \in Nat /\ y \in Nat /\ ~(y < x)
      <3>1. <<y, x>> \notin LessThan /\ <<y, x>> \in Nat \X Nat
        BY <1>1, <1>2
      <3>2. ~(<<y, x>>[1] < <<y, x>>[2])
        BY <3>1, Zenon DEF LessThan
      <3> QED BY <3>1, <3>2
    <2> QED BY <2>1
  <1>4. PICK t \in S : x = at[t]
    OBVIOUS
  <1> QED BY <1>3, <1>4 DEF First

LEMMA InitTimerInv == TimerInit => TimerInv
  <1> SUFFICES ASSUME TimerInit PROVE TimerInv
    OBVIOUS
  <1> USE DEF TimerInit
  <1>1. TimerTypeOK
    BY NeverIsNoTime DEF TimerTypeOK
  <1>2. NothingDangles
    BY DEF NothingDangles
  <1>3. CancelledIsGone /\ ArmedInTime /\ Places
    BY DEF CancelledIsGone, ArmedInTime, Places
  <1> QED BY <1>1, <1>2, <1>3 DEF TimerInv

\* A timer that comes first arms the timerfd for itself, and others leave it armed
\* for an earlier one.
LEMMA AddKeepsTimerInv ==
  ASSUME TimerInv, NEW t \in Timers, NEW delay \in Delays, NEW every \in BOOLEAN,
         AddTimer(t, delay, every)
  PROVE  TimerInv'
  <1> USE DEF TimerInv, TimerTypeOK
  <1>1. delay \in Nat /\ now + delay \in Nat
    BY DelaysAreNat
  <1>2. /\ t \notin timers /\ t \notin expired /\ t \notin cancelled
        /\ state' = [state EXCEPT ![t] = "live"]
        /\ time' = [time EXCEPT ![t] = now + delay]
        /\ timers' = timers \cup {t}
        /\ armed' = IF Earliest(now + delay) THEN now + delay ELSE armed
        /\ UNCHANGED <<now, callingExpired, stamp, expired, toRun, running, cancelTimers,
                       cancelled>>
    BY DEF AddTimer, Insert, NothingDangles, Places
  <1>3. TimerTypeOK'
    BY <1>1, <1>2 DEF AddTimer
  <1>4. NothingDangles' /\ CancelledIsGone' /\ Places'
    BY <1>2 DEF NothingDangles, CancelledIsGone, Places
  <1>5. ArmedInTime'
    <2>1. CASE Earliest(now + delay)
      BY <1>1, <1>2, <2>1, NeverIsNoTime DEF ArmedInTime, Earliest
    <2>2. CASE ~Earliest(now + delay)
      BY <1>1, <1>2, <2>2 DEF ArmedInTime, Earliest
    <2> QED BY <2>1, <2>2
  <1> QED BY <1>3, <1>4, <1>5

\* A cancelled timer is in timers_, which it leaves, or in the round, which remembers
\* it.
LEMMA CancelKeepsTimerInv ==
  ASSUME TimerInv, NEW t \in Timers, Cancel(t)
  PROVE  TimerInv'
  <1> USE DEF TimerInv, TimerTypeOK
  <1>1. TimerTypeOK'
    BY DEF Cancel, AfterCancel, Remember
  <1>2. NothingDangles' /\ CancelledIsGone' /\ ArmedInTime'
    BY DEF Cancel, AfterCancel, NothingDangles, CancelledIsGone, ArmedInTime, Places
  <1>3. Places'
    BY DEF Cancel, AfterCancel, Remember, NothingDangles, Places
  <1> QED BY <1>1, <1>2, <1>3

\* The timers of the round leave timers_, and none of them has been cancelled.
LEMMA StartKeepsTimerInv ==
  ASSUME TimerInv, StartHandling
  PROVE  TimerInv'
  <1> USE DEF TimerInv, TimerTypeOK
  <1>1. expired = {} /\ running = None
    BY DEF StartHandling
  <1>2. TimerTypeOK'
    BY <1>1 DEF StartHandling
  <1>3. NothingDangles' /\ CancelledIsGone' /\ ArmedInTime' /\ Places'
    BY <1>1 DEF StartHandling, NothingDangles, CancelledIsGone, ArmedInTime, Places
  <1> QED BY <1>2, <1>3

\* At the end of the round the timers that are not inserted again are deleted, and
\* the timerfd is armed for the first.
LEMMA ResetKeepsTimerInv ==
  ASSUME TimerInv, Reset
  PROVE  TimerInv'
  <1> USE DEF TimerInv, TimerTypeOK
  <1> DEFINE again == {t \in expired : repeat[t] /\ t \notin cancelTimers}
  <1>1. /\ time' = [t \in Timers |->
                      IF t \in again THEN stamp + interval[t] ELSE time[t]]
        /\ timers' = timers \cup again
        /\ state' = [t \in Timers |->
                       IF t \in expired \ again THEN "deleted" ELSE state[t]]
        /\ armed' = IF timers' = {} THEN armed
                    ELSE time'[CHOOSE t \in First(timers', time') : TRUE]
        /\ callingExpired' = FALSE /\ expired' = {} /\ running = None /\ toRun = {}
        /\ UNCHANGED <<now, interval, repeat, stamp, toRun, running, cancelTimers,
                       cancelled>>
    BY DEF Reset, EndRound, ResetTimer
  <1>2. again \subseteq expired /\ again \cap cancelled = {}
    BY DEF Places
  <1> HIDE DEF again
  <1>3. timers' \subseteq Timers /\ time' \in [Timers -> Nat]
    BY <1>1, <1>2
  <1>4. timers' # {} =>
            armed' \in Nat /\ \A t \in timers' : armed' <= time'[t]
    <2> SUFFICES ASSUME timers' # {}
                 PROVE  armed' \in Nat /\ \A t \in timers' : armed' <= time'[t]
      OBVIOUS
    <2> DEFINE f == CHOOSE t \in First(timers', time') : TRUE
    <2>1. f \in First(timers', time')
      BY <1>3, LeastExists
    <2>2. armed' = time'[f]
      BY <1>1
    <2> QED BY <1>3, <2>1, <2>2 DEF First
  <1>5. ArmedInTime'
    BY <1>4, NeverIsNoTime DEF ArmedInTime
  <1>6. TimerTypeOK'
    BY <1>1, <1>2, <1>3, <1>4
  <1>7. NothingDangles' /\ CancelledIsGone' /\ Places'
    BY <1>1, <1>2 DEF NothingDangles, CancelledIsGone, Places
  <1> QED BY <1>5, <1>6, <1>7

LEMMA NextTimerInv == TimerInv /\ [TimerNext]_timerVars => TimerInv'
  <1> SUFFICES ASSUME TimerInv, [TimerNext]_timerVars PROVE TimerInv'
    OBVIOUS
  <1> USE DEF TimerInv, TimerTypeOK, NothingDangles, CancelledIsGone, ArmedInTime, Places
  <1>1. ASSUME NEW t \in Timers, RunTimer(t) PROVE TimerInv'
    BY <1>1 DEF RunTimer, First
  <1>2. CASE EndTimer
    BY <1>2 DEF EndTimer
  <1>3. CASE Tick
    BY <1>3 DEF Tick
  <1>4. CASE UNCHANGED timerVars
    BY <1>4 DEF timerVars
  <1> QED
    BY <1>1, <1>2, <1>3, <1>4, AddKeepsTimerInv, CancelKeepsTimerInv, StartKeepsTimerInv,
       ResetKeepsTimerInv DEF TimerNext, TimerStep

LEMMA TimerInvHolds == TimerSpec => []TimerInv
  BY InitTimerInv, NextTimerInv, PTL DEF TimerSpec

\* Every timer in expired is still to run, running or has run in this round; outside
\* a round there is none.
THEOREM TimersTypeCorrect == TimerSpec => []TimerTypeOK
  <1>1. TimerInv => TimerTypeOK
    BY DEF TimerInv
  <1> QED BY <1>1, TimerInvHolds, PTL

\* Between two rounds the timerfd is armed no later than any timer in timers_ is due,
\* whatever callbacks have added and cancelled.
THEOREM ArmedBeforeDue == TimerSpec => []ArmedInTime
  <1>1. TimerInv => ArmedInTime
    BY DEF TimerInv
  <1> QED BY <1>1, TimerInvHolds, PTL

\* No deleted or cancelled timer is in timers_ or in the round, and none that is
\* alive is anywhere else.
THEOREM TimersAreLive == TimerSpec => []NothingDangles
  <1>1. TimerInv => NothingDangles
    BY DEF TimerInv
  <1> QED BY <1>1, TimerInvHolds, PTL

\* A timer that has been cancelled is not inserted again, also when it cancels itself
\* or another of its round.
THEOREM CancelledStaysAway == TimerSpec => []CancelledIsGone
  <1>1. TimerInv => CancelledIsGone
    BY DEF TimerInv
  <1> QED BY <1>1, TimerInvHolds, PTL
=============================================================================
