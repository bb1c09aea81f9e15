--------------------------- MODULE EventThreadLoop ---------------------------
(***************************************************************************)
(* net::EventThreadLoop (src/EventThreadLoop.cpp) as a value: a thread and *)
(* the loop it makes on its stack and runs.  The caller of startLoop waits *)
(* for the thread's latch and then for loop_, which it tests under the     *)
(* mutex before it sleeps in cond_.  TcpServer.tla says when.              *)
(***************************************************************************)
EXTENDS Thread

EventThreadLoop ==
    [thread : ThreadType,
     loop : BOOLEAN,            \* loop_ is set
     asleep : BOOLEAN]          \* the caller of startLoop is in cond_.wait()

NewEventThreadLoop == [thread |-> NewThread, loop |-> FALSE, asleep |-> FALSE]

\* startLoop, up to its waits
StartLoop(e) == [e EXCEPT !.thread = Create(@)]

\* startLoop is past the latch and finds loop_ not set
AwaitsLoop(e) == StartReturns(e.thread) /\ ~e.loop /\ ~e.asleep

\* threadfunc has been called, and sets loop_ before it calls loop()
MakesLoop(e) == e.thread.life = "running" /\ ~e.loop

\* mutant: without cond_.signal()
MakeLoopSilently(e) == [e EXCEPT !.loop = TRUE]

\* it sets loop_ and signals the caller
MakeLoop(e) == [e EXCEPT !.loop = TRUE, !.asleep = FALSE]

\* startLoop returns loop_
LoopReturns(e) == StartReturns(e.thread) /\ e.loop /\ ~e.asleep
=============================================================================
