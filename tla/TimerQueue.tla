----------------------------- MODULE TimerQueue -----------------------------
(***************************************************************************)
(* net::TimerQueue (src/TimerQueue.cpp, src/Timer.cpp) as EventLoop's      *)
(* runAfter and runEvery use it: the timers in a set ordered by their time *)
(* and address, and one timerfd armed for the first of them.               *)
(*                                                                         *)
(* Everything runs in the loop thread (addTimer is not guarded), in user   *)
(* code: a timer's callback, or any other while no timer's is running.     *)
(* The clock moves between any two steps.  The timerfd is readable once    *)
(* its time has come, until it is read or armed again.                     *)
(***************************************************************************)
EXTENDS Naturals, FiniteSets

CONSTANTS
    Timers,             \* the Timer objects
    Delays,             \* the delays and intervals asked for
    MaxTime,            \* bound: the clock stops there
    Never,              \* the timerfd is not armed
    None                \* no callback is running

ASSUME DelaysAreNat == Delays \subseteq Nat
ASSUME MaxTimeIsNat == MaxTime \in Nat
ASSUME NeverIsNoTime == Never \notin Nat
ASSUME NoneIsNoTimer == None \notin Timers

VARIABLES
    now,                \* the clock
    state,              \* of each object: "new", "live", "deleted", "leaked"
    time,               \* timer_ of each object
    interval,           \* interval_
    repeat,             \* repeat_
    timers,             \* timers_
    armed,              \* the timerfd's expiration
    callingExpired,     \* callingExpiredTimers_
    stamp,              \* the local variable now of handlerRead
    expired,            \* the local variable expired of handlerRead
    toRun,              \* the part of it whose callbacks are to come
    running,            \* the timer whose callback is running
    cancelTimers,       \* cancelTimers_
    cancelled           \* history: the timers that have been cancelled

timerVars == <<now, state, time, interval, repeat, timers, armed, callingExpired,
               stamp, expired, toRun, running, cancelTimers, cancelled>>

TimerTypeOK ==
    /\ now \in Nat
    /\ state \in [Timers -> {"new", "live", "deleted", "leaked"}]
    /\ time \in [Timers -> Nat]
    /\ interval \in [Timers -> Nat]
    /\ repeat \in [Timers -> BOOLEAN]
    /\ timers \subseteq Timers
    /\ armed \in Nat \cup {Never}
    /\ callingExpired \in BOOLEAN
    /\ stamp \in Nat
    /\ expired \subseteq Timers
    /\ toRun \subseteq expired
    /\ running \in expired \cup {None}
    /\ cancelTimers \subseteq Timers
    /\ cancelled \subseteq Timers
    /\ ~callingExpired => expired = {}

TimerInit ==
    /\ now = 0
    /\ state = [t \in Timers |-> "new"]
    /\ time = [t \in Timers |-> 0]
    /\ interval = [t \in Timers |-> 0]
    /\ repeat = [t \in Timers |-> FALSE]
    /\ timers = {}
    /\ armed = Never
    /\ callingExpired = FALSE
    /\ stamp = 0
    /\ expired = {}
    /\ toRun = {}
    /\ running = None
    /\ cancelTimers = {}
    /\ cancelled = {}

InTimerCode == callingExpired => running # None

\* the timers of S with the least time; the set orders them by address
First(S, at) == {t \in S : \A u \in S : at[t] <= at[u]}

Readable == armed # Never /\ armed <= now

-----------------------------------------------------------------------------
(* The user's calls.                                                       *)

\* mutant: the timerfd is armed for the first timer only
EarliestWhenEmpty(when) == timers = {}

\* what insert returns
Earliest(when) == \A u \in timers : when < time[u]

\* addTimer: a timer that comes first arms the timerfd
Insert(t, when) ==
    /\ timers' = timers \cup {t}
    /\ armed' = IF Earliest(when) THEN when ELSE armed

\* runAfter and runEvery
AddTimer(t, delay, every) ==
    /\ InTimerCode
    /\ state[t] = "new"
    /\ state' = [state EXCEPT ![t] = "live"]
    /\ time' = [time EXCEPT ![t] = now + delay]
    /\ interval' = [interval EXCEPT ![t] = delay]
    /\ repeat' = [repeat EXCEPT ![t] = every]
    /\ Insert(t, now + delay)
    /\ UNCHANGED <<now, callingExpired, stamp, expired, toRun, running, cancelTimers,
                   cancelled>>

\* mutant: a timer that is in expired is not remembered
RememberNot(t) == UNCHANGED cancelTimers

\* a timer that is in expired may be a repeating one
Remember(t) ==
    cancelTimers' = IF callingExpired /\ t \notin timers THEN cancelTimers \cup {t}
                                                         ELSE cancelTimers

\* mutant: a queued timer is deleted, an expired one too
AfterCancelDeleted(t) == "deleted"

\* a timer in timers_ is erased from it and never deleted
AfterCancel(t) == IF t \in timers THEN "leaked" ELSE state[t]

\* cancel, in the loop thread, of a timer that has not been deleted
Cancel(t) ==
    /\ InTimerCode
    /\ state[t] = "live"
    /\ t \notin cancelled
    /\ cancelled' = cancelled \cup {t}
    /\ timers' = timers \ {t}
    /\ state' = [state EXCEPT ![t] = AfterCancel(t)]
    /\ Remember(t)
    /\ UNCHANGED <<now, time, interval, repeat, armed, callingExpired, stamp,
                   expired, toRun, running>>

-----------------------------------------------------------------------------
(* handlerRead.                                                            *)

\* readTimerfd and getExpired
StartHandling ==
    /\ ~callingExpired
    /\ Readable
    /\ armed' = Never
    /\ callingExpired' = TRUE
    /\ cancelTimers' = {}
    /\ stamp' = now
    /\ expired' = {t \in timers : time[t] <= now}
    /\ toRun' = expired'
    /\ timers' = timers \ expired'
    /\ UNCHANGED <<now, state, time, interval, repeat, running, cancelled>>

RunTimer(t) ==
    /\ callingExpired
    /\ running = None
    /\ t \in First(toRun, time)
    /\ toRun' = toRun \ {t}
    /\ running' = t
    /\ UNCHANGED <<now, state, time, interval, repeat, timers, armed, callingExpired,
                   stamp, expired, cancelTimers, cancelled>>

EndTimer ==
    /\ running # None
    /\ running' = None
    /\ UNCHANGED <<now, state, time, interval, repeat, timers, armed, callingExpired,
                   stamp, expired, toRun, cancelTimers, cancelled>>

\* mutant: handlerRead keeps its list
EndRoundKeepsExpired == callingExpired' = FALSE /\ UNCHANGED expired

\* handlerRead returns
EndRound == callingExpired' = FALSE /\ expired' = {}

\* Timer::resetTimer: the next time is counted from the start of handlerRead
ResetTimer(t) == stamp + interval[t]

\* reset: a repeating timer is inserted again, the others are deleted, and the
\* timerfd is armed for the first left
Reset ==
    LET again == {t \in expired : repeat[t] /\ t \notin cancelTimers} IN
    /\ callingExpired
    /\ running = None
    /\ toRun = {}
    /\ EndRound
    /\ time' = [t \in Timers |->
                  IF t \in again THEN ResetTimer(t) ELSE time[t]]
    /\ timers' = timers \cup again
    /\ state' = [t \in Timers |->
                   IF t \in expired \ again THEN "deleted" ELSE state[t]]
    /\ armed' = IF timers' = {} THEN armed
                ELSE time'[CHOOSE t \in First(timers', time') : TRUE]
    /\ UNCHANGED <<now, interval, repeat, stamp, toRun, running, cancelTimers,
                   cancelled>>

Tick ==
    /\ now < MaxTime
    /\ now' = now + 1
    /\ UNCHANGED <<state, time, interval, repeat, timers, armed, callingExpired,
                   stamp, expired, toRun, running, cancelTimers, cancelled>>

-----------------------------------------------------------------------------

TimerStep ==
    \/ StartHandling
    \/ \E t \in Timers : RunTimer(t)
    \/ EndTimer
    \/ Reset

TimerNext ==
    \/ \E t \in Timers, delay \in Delays, every \in BOOLEAN :
          AddTimer(t, delay, every)
    \/ \E t \in Timers : Cancel(t)
    \/ TimerStep
    \/ Tick

TimerSpec == TimerInit /\ [][TimerNext]_timerVars

\* The clock moves on, the loop reports a readable timerfd (EventLoop.tla), and
\* callbacks return.
TimerFairSpec == TimerSpec /\ WF_timerVars(TimerStep) /\ WF_timerVars(Tick)

-----------------------------------------------------------------------------
(* Properties.                                                             *)

\* Between two calls of handlerRead the timerfd is armed for the first timer, or
\* for one before it that has been cancelled (insert's test for the earliest
\* timer, reset's rearming, and nothing in cancelTimer).
ArmedInTime ==
    ~callingExpired => \A t \in timers : armed # Never /\ armed <= time[t]

\* Timers in the set or in expired are alive, and no other is: deleted or
\* cancelled objects are not touched again.
NothingDangles == timers \cup expired = {t \in Timers : state[t] = "live"}

\* A cancelled timer is not scheduled again, though it may cancel itself or
\* another of the same round.  (Its callback may still run once, when it expired
\* in the round that cancels it.)
CancelledIsGone == timers \cap cancelled = {}

\* Every timer whose time comes is run, unless it is cancelled first.
DueIsRun ==
    \A t \in Timers :
        (t \in timers /\ time[t] <= MaxTime) ~> (running = t \/ t \in cancelled)
=============================================================================
