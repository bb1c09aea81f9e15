------------------------------- MODULE Thread -------------------------------
(***************************************************************************)
(* base::Thread (src/Thread.cpp) and the base::CountDownLatch in it: a     *)
(* thread object as a value, changed by what its owner and its new thread  *)
(* do.  AsyncLogging.tla and EventThreadLoop.tla say when.                 *)
(*                                                                         *)
(* The latch counts 1 down once and is never set again: it is closed until *)
(* then and open from then on, also when the object is started again.  The *)
(* owner tests the count and goes to sleep under the latch's mutex, so in  *)
(* one step, and sleeps until it is woken.                                 *)
(***************************************************************************)

Latch ==
    [open : BOOLEAN,            \* count_ is not above 0
     asleep : BOOLEAN]          \* the owner is in condition_.wait()

NewLatch == [open |-> FALSE, asleep |-> FALSE]

ThreadType ==
    [start : BOOLEAN,           \* start_
     latch : Latch,             \* latch_
     life : {"none", "created", "running", "ended"}]

NewThread == [start |-> FALSE, latch |-> NewLatch, life |-> "none"]

\* mutant: the count is changed, and nobody is woken
CountDownSilently(latch) == [latch EXCEPT !.open = TRUE]

\* countDown, with its broadcast: of a thread started again it finds the latch
\* open, and nobody asleep
CountDown(latch) == [open |-> TRUE, asleep |-> FALSE]

\* wait finds the count above 0, and sleeps
MustWait(latch) == ~latch.open /\ ~latch.asleep
Sleep(latch) == [latch EXCEPT !.asleep = TRUE]

\* wait, awake, finds the count at 0 and returns
IsOpen(latch) == latch.open /\ ~latch.asleep

\* start up to the wait for the latch; pthread_create is taken to succeed
Create(t) == [t EXCEPT !.start = TRUE, !.life = "created"]

\* threadfunc up to run()
Announce(t) == [t EXCEPT !.latch = CountDown(@), !.life = "running"]

\* start is in latch_.wait(), which sleeps
StartWaits(t) == t.start /\ MustWait(t.latch)
StartSleeps(t) == [t EXCEPT !.latch = Sleep(@)]

\* latch_.wait() ends
StartReturns(t) == IsOpen(t.latch)

\* run() has returned
End(t) == [t EXCEPT !.life = "ended"]

\* stop, which does nothing unless start_: pthread_join ends
JoinReturns(t) == t.start => t.life = "ended"

Join(t) == IF t.start THEN [t EXCEPT !.start = FALSE, !.life = "none"] ELSE t
=============================================================================
