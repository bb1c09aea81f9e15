----------------------------- MODULE EventLoop -----------------------------
(***************************************************************************)
(* net::EventLoop (src/EventLoop.cpp): one thread repeats poll, channel    *)
(* callbacks, pending functors; any thread hands it functors with          *)
(* queueInLoop and runInLoop and ends it with stop.  A thread that is not  *)
(* the loop's wakes a blocked poll by writing the eventfd.                 *)
(*                                                                         *)
(* The interleaving is the code's: taking the mutex to push or to swap is  *)
(* one step, and the wakeup that follows a push, or the write of start_,   *)
(* is another.  A callback or functor is user code: while it runs, the     *)
(* loop thread may make any of the calls itself, and so it may before and  *)
(* after loop().  Channels other than the wakeup channel become ready      *)
(* whenever they like.  The eventfd's counter is kept as "readable or      *)
(* not": poll and readEventFd tell nothing else apart.                     *)
(***************************************************************************)
EXTENDS Naturals, Sequences

CONSTANTS
    Functors,           \* the functors; each is handed over at most once
    Loop,               \* the thread that owns the loop (loopTid_)
    Callers,            \* the other threads
    Wakeup,             \* wakeupChannel_
    Ios,                \* the other channels registered with the poller
    PollBlocks          \* pollInterval_ is -1 (TRUE) or finite (FALSE)

ASSUME LoopIsNoCaller == Loop \notin Callers
ASSUME WakeupIsNoIo == Wakeup \notin Ios
ASSUME PollBlocksIsBool == PollBlocks \in BOOLEAN

Threads == Callers \cup {Loop}
Channels == Ios \cup {Wakeup}

VARIABLES
    start,              \* start_
    calling,            \* callingPendFunctors_
    pending,            \* pendingFunctors_
    functors,           \* what doPendingFunctors swapped out, not called yet
    eventfd,            \* the wakeup descriptor is readable
    active,             \* activeChannel_, the part still to be handled
    pc,                 \* where the loop thread is in loop()
    callback,           \* the loop thread is inside a callback or a functor
    call,               \* what each thread has left to do of its last call
    submitted,          \* history: functors handed over
    ran,                \* history: functors called from the queue, in order
    inlined,            \* history: functors called at once by runInLoop
    early               \* history: queued by the loop thread outside loop()

loopVars == <<start, calling, pending, functors, eventfd, active, pc, callback>>
history == <<submitted, ran, inlined, early>>
vars == <<start, calling, pending, functors, eventfd, active, pc, callback,
          call, submitted, ran, inlined, early>>

PCs == {"outside", "test", "poll", "handle", "swap", "mark", "run"}

\* The types; doPendingFunctors' local vector is only in use while it runs.
TypeOK ==
    /\ start \in BOOLEAN
    /\ calling \in BOOLEAN
    /\ pending \in Seq(Functors)
    /\ functors \in Seq(Functors)
    /\ eventfd \in BOOLEAN
    /\ active \subseteq Channels
    /\ pc \in PCs
    /\ callback \in BOOLEAN
    /\ call \in [Threads -> {"none", "queued", "stopped"}]
    /\ submitted \subseteq Functors
    /\ ran \in Seq(Functors)
    /\ inlined \subseteq Functors
    /\ early \subseteq Functors
    /\ functors # <<>> => pc \in {"mark", "run"}

\* EventLoop::EventLoop
Init ==
    /\ start = FALSE
    /\ calling = FALSE
    /\ pending = <<>>
    /\ functors = <<>>
    /\ eventfd = FALSE
    /\ active = {}
    /\ pc = "outside"
    /\ callback = FALSE
    /\ call = [t \in Threads |-> "none"]
    /\ submitted = {}
    /\ ran = <<>>
    /\ inlined = {}
    /\ early = {}

-----------------------------------------------------------------------------
(* Calls, by any thread that is running user code.                         *)

InUserCode(t) ==
    /\ call[t] = "none"
    /\ t = Loop => callback \/ pc = "outside"

Push(t, f) ==
    /\ f \notin submitted
    /\ submitted' = submitted \cup {f}
    /\ pending' = Append(pending, f)
    /\ call' = [call EXCEPT ![t] = "queued"]
    /\ early' = IF t = Loop /\ pc = "outside" THEN early \cup {f} ELSE early
    /\ UNCHANGED <<start, calling, functors, eventfd, active, pc, callback,
                   ran, inlined>>

\* queueInLoop up to the unlock
QueueInLoop(t, f) == InUserCode(t) /\ Push(t, f)

\* mutant: the functors of doPendingFunctors queue without waking
QueueWakesNotWhileCalling(t) == t # Loop

\* !isInLoop()||callingPendFunctors_: otherwise the loop thread will get to
\* doPendingFunctors by itself
QueueWakes(t) == t # Loop \/ calling

\* the rest of queueInLoop, with wakeup()
QueueWake(t) ==
    /\ call[t] = "queued"
    /\ eventfd' = (eventfd \/ QueueWakes(t))
    /\ call' = [call EXCEPT ![t] = "none"]
    /\ UNCHANGED <<start, calling, pending, functors, active, pc, callback,
                   history>>

\* runInLoop in the loop thread calls the functor; elsewhere it queues it
RunInLoop(t, f) ==
    /\ InUserCode(t)
    /\ \/ /\ t = Loop
          /\ f \notin submitted
          /\ submitted' = submitted \cup {f}
          /\ inlined' = inlined \cup {f}
          /\ UNCHANGED <<loopVars, call, ran, early>>
       \/ /\ t # Loop
          /\ Push(t, f)

\* stop() up to the test of isInLoop
Stop(t) ==
    /\ InUserCode(t)
    /\ start' = FALSE
    /\ call' = [call EXCEPT ![t] = "stopped"]
    /\ UNCHANGED <<calling, pending, functors, eventfd, active, pc, callback,
                   history>>

\* mutant: stop() does not wake the loop
StopWakesNever(t) == FALSE

StopWakes(t) == t # Loop

\* the rest of stop
StopWake(t) ==
    /\ call[t] = "stopped"
    /\ eventfd' = (eventfd \/ StopWakes(t))
    /\ call' = [call EXCEPT ![t] = "none"]
    /\ UNCHANGED <<start, calling, pending, functors, active, pc, callback,
                   history>>

-----------------------------------------------------------------------------
(* The loop thread.                                                        *)

\* the call of loop(), by the loop thread (assertInLoop)
EnterLoop ==
    /\ pc = "outside"
    /\ call[Loop] = "none"
    /\ start' = TRUE
    /\ pc' = "test"
    /\ UNCHANGED <<calling, pending, functors, eventfd, active, callback, call,
                   history>>

\* while(start_): another round, or loop() returns
TestStart ==
    /\ pc = "test"
    /\ pc' = IF start THEN "poll" ELSE "outside"
    /\ UNCHANGED <<start, calling, pending, functors, eventfd, active, callback,
                   call, history>>

\* poll returns the ready channels A: none on a timeout or on EINTR
PollReturn(A) ==
    /\ pc = "poll"
    /\ Wakeup \in A <=> eventfd
    /\ active' = A
    /\ pc' = "handle"
    /\ UNCHANGED <<start, calling, pending, functors, eventfd, callback, call,
                   history>>

\* wakeupChannel_'s callback, readEventFd: the read resets the counter
ReadEventFd ==
    /\ pc = "handle"
    /\ ~callback
    /\ Wakeup \in active
    /\ active' = active \ {Wakeup}
    /\ eventfd' = FALSE
    /\ UNCHANGED <<start, calling, pending, functors, pc, callback, call,
                   history>>

HandleEvent(c) ==
    /\ pc = "handle"
    /\ ~callback
    /\ c \in active
    /\ active' = active \ {c}
    /\ callback' = TRUE
    /\ UNCHANGED <<start, calling, pending, functors, eventfd, pc, call, history>>

EndHandling ==
    /\ pc = "handle"
    /\ ~callback
    /\ active = {}
    /\ pc' = "swap"
    /\ UNCHANGED <<start, calling, pending, functors, eventfd, active, callback,
                   call, history>>

\* mutant: the functors are copied, not swapped out
TakePendingCopy == functors' = pending /\ UNCHANGED pending

\* pendingFunctors_.swap(functors)
TakePending == functors' = pending /\ pending' = <<>>

\* doPendingFunctors, under the lock
SwapPending ==
    /\ pc = "swap"
    /\ TakePending
    /\ pc' = "mark"
    /\ UNCHANGED <<start, calling, eventfd, active, callback, call, history>>

MarkCalling ==
    /\ pc = "mark"
    /\ calling' = TRUE
    /\ pc' = "run"
    /\ UNCHANGED <<start, pending, functors, eventfd, active, callback, call,
                   history>>

CallFunctor ==
    /\ pc = "run"
    /\ ~callback
    /\ functors # <<>>
    /\ ran' = Append(ran, Head(functors))
    /\ functors' = Tail(functors)
    /\ callback' = TRUE
    /\ UNCHANGED <<start, calling, pending, eventfd, active, pc, call,
                   submitted, inlined, early>>

\* mutant: a stopped loop leaves the functors it has not called yet
AllCalledOrStopped == functors = <<>> \/ ~start

AllCalled == functors = <<>>

EndFunctors ==
    /\ pc = "run"
    /\ ~callback
    /\ AllCalled
    /\ calling' = FALSE
    /\ pc' = "test"
    /\ UNCHANGED <<start, pending, functors, eventfd, active, callback, call,
                   history>>

\* a callback or a functor returns to the loop
EndCallback ==
    /\ callback
    /\ call[Loop] = "none"
    /\ callback' = FALSE
    /\ UNCHANGED <<start, calling, pending, functors, eventfd, active, pc, call,
                   history>>

-----------------------------------------------------------------------------

LoopStep ==
    \/ TestStart
    \/ ReadEventFd
    \/ \E c \in Ios : HandleEvent(c)
    \/ EndHandling
    \/ SwapPending
    \/ MarkCalling
    \/ CallFunctor
    \/ EndFunctors

CallStep(t) ==
    \/ \E f \in Functors : QueueInLoop(t, f) \/ RunInLoop(t, f)
    \/ QueueWake(t)
    \/ Stop(t)
    \/ StopWake(t)

Next ==
    \/ \E t \in Threads : CallStep(t)
    \/ EnterLoop
    \/ LoopStep
    \/ \E A \in SUBSET Channels : PollReturn(A)
    \/ EndCallback

Spec == Init /\ [][Next]_vars

(***************************************************************************)
(* Fairness.  The loop thread and a thread inside wakeup() keep running.   *)
(* poll has to return only when the eventfd is readable or when it has a   *)
(* timeout: nothing makes another channel ready.  A callback that keeps    *)
(* making calls still returns (strong fairness).  Nobody has to call       *)
(* anything, loop() included.                                              *)
(***************************************************************************)
PollMustReturn ==
    /\ eventfd \/ ~PollBlocks
    /\ \E A \in SUBSET Channels : PollReturn(A)

Fairness ==
    /\ WF_vars(LoopStep)
    /\ WF_vars(PollMustReturn)
    /\ SF_vars(EndCallback)
    /\ \A t \in Threads : WF_vars(QueueWake(t)) /\ WF_vars(StopWake(t))

FairSpec == Spec /\ Fairness

-----------------------------------------------------------------------------
(* Properties.                                                             *)

\* A functor that needs somebody to end a blocking poll: every pending one but
\* those the loop thread queued itself outside loop(), for which queueInLoop
\* writes no wakeup.
NeedsWakeup == \E i \in 1..Len(pending) : pending[i] \notin early

\* No lost wakeup: whenever the loop is about to poll, or polls, while such a
\* functor is pending, the eventfd is readable or the thread that queued one is
\* still on its way to write it (the order of push, wakeup, readEventFd and
\* swap in queueInLoop, readEventFd and doPendingFunctors).
NoLostWakeup ==
    pc \in {"test", "poll"} /\ NeedsWakeup =>
        eventfd \/ \E t \in Callers : call[t] = "queued"

\* No lost stop: a loop that has been stopped is not left in poll with nobody
\* to wake it (the order of the store to start_ and the wakeup in stop, and of
\* the test of start_ and poll in loop).
NoLostStop ==
    pc = "poll" /\ ~start => eventfd \/ \E t \in Callers : call[t] = "stopped"

\* No blocked poll is left that somebody has reason to end: both of the above.
PollIsWoken == NoLostWakeup /\ NoLostStop

\* The invariant PollIsWoken rests on.  Where the loop thread is tells what it
\* still owes: functors that need a wakeup while it is past poll are swapped out
\* later in the same round, and a push from inside a functor is followed by the
\* loop thread's own wakeup, callingPendFunctors_ being set while functors run.
CallbackPlace ==
    /\ callback => pc \in {"handle", "run"}
    /\ call[Loop] # "none" => callback \/ pc = "outside"

CallingPlace == calling <=> pc = "run"

WakeupOwed ==
    NeedsWakeup =>
        \/ eventfd
        \/ \E t \in Callers : call[t] = "queued"
        \/ pc \in {"handle", "swap"}
        \/ pc = "run" /\ call[Loop] = "queued"

WakeInv == CallbackPlace /\ CallingPlace /\ WakeupOwed /\ NoLostStop

\* The loop calls functors in the order the threads pushed them, each once, and
\* runInLoop in the loop thread is the only way past the queue: queueInLoop,
\* runInLoop and doPendingFunctors implement the abstract queue.
Queue == INSTANCE TaskQueue WITH waiting <- functors \o pending
QueueSpec == Queue!Spec

Ran(f) == \E i \in 1..Len(ran) : ran[i] = f
Pending(f) == \E i \in 1..Len(pending) : pending[i] = f

\* Every functor pending while loop() runs is called, or loop() returns first;
\* with a blocking poll this leaves out what the loop thread queued before loop().
PendingIsRun ==
    \A f \in Functors :
        (pc # "outside" /\ Pending(f) /\ (PollBlocks => f \notin early))
            ~> (Ran(f) \/ pc = "outside")

\* A loop whose start_ has become false leaves loop(), from a blocking poll too.
\* A stop() that comes before loop() is lost: loop() stores start_=true.
StoppedLoopReturns == (pc # "outside" /\ ~start) ~> (pc = "outside")
=============================================================================
