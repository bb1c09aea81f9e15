----------------------------- MODULE TaskQueue -----------------------------
(***************************************************************************)
(* What EventLoop promises to the callers of queueInLoop and runInLoop:    *)
(* a functor handed over is accepted once, waits its turn behind every     *)
(* functor accepted before it, and is called at most once.  runInLoop from *)
(* the loop's own thread does not wait: it calls the functor at once.      *)
(* Threads, the mutex, the wakeup descriptor and the poller are not part   *)
(* of the promise; EventLoop.tla implements this module.                   *)
(***************************************************************************)
EXTENDS Sequences

CONSTANT Functors           \* the functors; each is handed over at most once

VARIABLES
    submitted,              \* the functors handed over so far
    waiting,                \* accepted, not called yet, oldest first
    ran,                    \* taken from the queue and called, in that order
    inlined                 \* called at once by runInLoop in the loop thread

vars == <<submitted, waiting, ran, inlined>>

Init ==
    /\ submitted = {}
    /\ waiting = <<>>
    /\ ran = <<>>
    /\ inlined = {}

Submit(f) ==
    /\ f \notin submitted
    /\ submitted' = submitted \cup {f}
    /\ waiting' = Append(waiting, f)
    /\ UNCHANGED <<ran, inlined>>

CallNow(f) ==
    /\ f \notin submitted
    /\ submitted' = submitted \cup {f}
    /\ inlined' = inlined \cup {f}
    /\ UNCHANGED <<waiting, ran>>

CallNext ==
    /\ waiting # <<>>
    /\ ran' = Append(ran, Head(waiting))
    /\ waiting' = Tail(waiting)
    /\ UNCHANGED <<submitted, inlined>>

Next ==
    \/ \E f \in Functors : Submit(f) \/ CallNow(f)
    \/ CallNext

Spec == Init /\ [][Next]_vars
=============================================================================
