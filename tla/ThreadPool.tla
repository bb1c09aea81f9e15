----------------------------- MODULE ThreadPool -----------------------------
(***************************************************************************)
(* base::ThreadPool (src/ThreadPool.cpp): worker threads take tasks from a *)
(* deque that dispatchTask fills, up to taskNum_ tasks, and stop joins the *)
(* workers.  emptyCond_ and fullCond_ are the sets of threads that wait on *)
(* them; one critical section of mutex_ is one step, and a wait leaves and *)
(* reenters the mutex.  A wait may end without a signal.                   *)
(*                                                                         *)
(* Tasks are dispatched by other threads and by tasks that are running; a  *)
(* task that does so may have to wait for room.  start is called on a pool *)
(* that does not run, and not at the same time as dispatchTask (threads_   *)
(* is not guarded).  A worker is its thread's position in threads_.        *)
(***************************************************************************)
EXTENDS Naturals, Sequences, FiniteSets

CONSTANTS
    MaxThreads,         \* bound: the size threads_ may grow to
    ThreadNums,         \* the numbers of threads start is called with
    Callers,            \* other threads that call dispatchTask
    Tasks,              \* each is dispatched at most once
    Limits,             \* the values setTaskNum is called with
    None                \* no task

Workers == 1..MaxThreads

ASSUME NumbersAreNat == MaxThreads \in Nat /\ ThreadNums \subseteq Nat
ASSUME CallersAreNoWorkers == Callers \cap Workers = {}
ASSUME CallersAreFinite == IsFiniteSet(Callers)
ASSUME LimitsAreNat == Limits \subseteq Nat
ASSUME NoneIsNoTask == None \notin Tasks

Threads == Workers \cup Callers

VARIABLES
    threads,            \* the size of threads_
    start,              \* start_
    limit,              \* taskNum_
    queue,              \* taskQueue_
    pc,                 \* where each thread is
    item,               \* the task a thread is dispatching
    owner,              \* where the pool's owner is in start and stop
    dispatched,         \* history: the tasks dispatchTask was called with
    ran                 \* history: the tasks that have been called

vars == <<threads, start, limit, queue, pc, item, owner, dispatched, ran>>

PCs == {"none", "idle", "init", "test", "take", "waitEmpty", "run", "dispatch",
        "waitFull", "done"}

TypeOK ==
    /\ threads \in 0..MaxThreads
    /\ start \in BOOLEAN
    /\ limit \in Limits
    /\ queue \in Seq(Tasks)
    /\ pc \in [Threads -> PCs]
    /\ item \in [Threads -> Tasks \cup {None}]
    /\ owner \in {"new", "running", "joining", "stopped"}
    /\ dispatched \subseteq Tasks
    /\ ran \subseteq Tasks
    /\ \A t \in Threads : item[t] # None <=> pc[t] \in {"dispatch", "waitFull"}

Init ==
    /\ threads = 0
    /\ start = FALSE
    /\ limit \in Limits
    /\ queue = <<>>
    /\ pc = [t \in Threads |-> IF t \in Workers THEN "none" ELSE "idle"]
    /\ item = [t \in Threads |-> None]
    /\ owner = "new"
    /\ dispatched = {}
    /\ ran = {}

At(place) == {t \in Threads : pc[t] = place}

\* a condition variable's signal, in the step that moves t to place: one of the
\* threads waiting on it, if any, is awake again
Signal(t, place, waiting, awake) ==
    \/ /\ At(waiting) \ {t} = {}
       /\ pc' = [pc EXCEPT ![t] = place]
    \/ \E u \in At(waiting) \ {t} : pc' = [pc EXCEPT ![t] = place, ![u] = awake]

full == limit > 0 /\ Len(queue) = limit

-----------------------------------------------------------------------------
(* dispatchTask.                                                           *)

\* A thread returns from dispatchTask to its own code or to its task's.
Caller(t) == IF t \in Workers THEN "run" ELSE "idle"

\* the call; a pool whose threads_ is empty runs the task at once
CallDispatch(t, task) ==
    /\ pc[t] = Caller(t)
    /\ task \notin dispatched
    /\ dispatched' = dispatched \cup {task}
    /\ IF threads = 0
       THEN ran' = ran \cup {task} /\ UNCHANGED <<pc, item>>
       ELSE /\ pc' = [pc EXCEPT ![t] = "dispatch"]
            /\ item' = [item EXCEPT ![t] = task]
            /\ UNCHANGED ran
    /\ UNCHANGED <<threads, start, limit, queue, owner>>

\* mutant: a task refused by a stopped pool is not forgotten
DispatchKeepsRefused(t) ==
    /\ pc[t] = "dispatch"
    /\ \/ /\ start /\ full
          /\ pc' = [pc EXCEPT ![t] = "waitFull"]
          /\ UNCHANGED <<queue, item>>
       \/ /\ ~start
          /\ pc' = [pc EXCEPT ![t] = Caller(t)]
          /\ UNCHANGED <<queue, item>>
       \/ /\ start /\ ~full
          /\ queue' = Append(queue, item[t])
          /\ item' = [item EXCEPT ![t] = None]
          /\ Signal(t, Caller(t), "waitEmpty", "take")
    /\ UNCHANGED <<threads, start, limit, owner, dispatched, ran>>

\* mutant: if in place of while: a thread that waited does not look again, and
\* for it the wait and the push are one step
DispatchOnce(t) ==
    /\ pc[t] \in {"dispatch", "waitFull"}
    /\ \/ /\ pc[t] = "dispatch" /\ start /\ full
          /\ pc' = [pc EXCEPT ![t] = "waitFull"]
          /\ UNCHANGED <<queue, item>>
       \/ /\ ~start
          /\ item' = [item EXCEPT ![t] = None]
          /\ pc' = [pc EXCEPT ![t] = Caller(t)]
          /\ UNCHANGED queue
       \/ /\ start /\ (full => pc[t] = "waitFull")
          /\ queue' = Append(queue, item[t])
          /\ item' = [item EXCEPT ![t] = None]
          /\ Signal(t, Caller(t), "waitEmpty", "take")
    /\ UNCHANGED <<threads, start, limit, owner, dispatched, ran>>

\* the critical section, entered first or again after a wait
Dispatch(t) ==
    /\ pc[t] = "dispatch"
    /\ \/ /\ start /\ full
          /\ pc' = [pc EXCEPT ![t] = "waitFull"]
          /\ UNCHANGED <<queue, item>>
       \/ /\ ~start
          /\ item' = [item EXCEPT ![t] = None]
          /\ pc' = [pc EXCEPT ![t] = Caller(t)]
          /\ UNCHANGED queue
       \/ /\ start /\ ~full
          /\ queue' = Append(queue, item[t])
          /\ item' = [item EXCEPT ![t] = None]
          /\ Signal(t, Caller(t), "waitEmpty", "take")
    /\ UNCHANGED <<threads, start, limit, owner, dispatched, ran>>

-----------------------------------------------------------------------------
(* runThread and take.                                                     *)

Advance(w, from, to) ==
    /\ pc[w] = from
    /\ pc' = [pc EXCEPT ![w] = to]

\* threadCallback_ has returned
EndInit(w) ==
    /\ Advance(w, "init", "test")
    /\ UNCHANGED <<threads, start, limit, queue, item, owner, dispatched, ran>>

TestStart(w) ==
    /\ Advance(w, "test", IF start THEN "take" ELSE "done")
    /\ UNCHANGED <<threads, start, limit, queue, item, owner, dispatched, ran>>

\* mutant: the worker that takes a task signals nobody
TakeSilently(w) ==
    /\ pc[w] = "take"
    /\ IF queue # <<>>
       THEN /\ queue' = Tail(queue)
            /\ ran' = ran \cup {Head(queue)}
            /\ pc' = [pc EXCEPT ![w] = "run"]
       ELSE /\ pc' = [pc EXCEPT ![w] = IF start THEN "waitEmpty" ELSE "test"]
            /\ UNCHANGED <<queue, ran>>
    /\ UNCHANGED <<threads, start, limit, item, owner, dispatched>>

\* take's critical section, entered first or again after a wait; a task taken
\* is called next
Take(w) ==
    /\ pc[w] = "take"
    /\ \/ /\ queue # <<>>
          /\ queue' = Tail(queue)
          /\ ran' = ran \cup {Head(queue)}
          /\ Signal(w, "run", "waitFull", "dispatch")
       \/ /\ queue = <<>>
          /\ pc' = [pc EXCEPT ![w] = IF start THEN "waitEmpty" ELSE "test"]
          /\ UNCHANGED <<queue, ran>>
    /\ UNCHANGED <<threads, start, limit, item, owner, dispatched>>

EndTask(w) ==
    /\ w \in Workers
    /\ Advance(w, "run", "test")
    /\ UNCHANGED <<threads, start, limit, queue, item, owner, dispatched, ran>>

\* pthread_cond_wait may return without a signal
WakeUp(t) ==
    /\ Advance(t, "waitEmpty", "take") \/ Advance(t, "waitFull", "dispatch")
    /\ UNCHANGED <<threads, start, limit, queue, item, owner, dispatched, ran>>

-----------------------------------------------------------------------------
(* The owner.                                                              *)

\* start appends threadNum threads to threads_, where those of earlier starts still
\* are, and starts the first threadNum of threads_: none for start(0)
Start ==
    /\ owner \in {"new", "stopped"}
    /\ \A t \in Callers : pc[t] = "idle"
    /\ start' = TRUE
    /\ \E threadNum \in ThreadNums :
          /\ threads + threadNum <= MaxThreads
          /\ threads' = threads + threadNum
          /\ pc' = [t \in Threads |-> IF t \in 1..threadNum THEN "init" ELSE pc[t]]
    /\ owner' = "running"
    /\ UNCHANGED <<limit, queue, item, dispatched, ran>>

\* mutant: stop leaves the threads that wait for room
StopForgetsFull ==
    /\ owner = "running"
    /\ start' = FALSE
    /\ pc' = [t \in Threads |-> IF pc[t] = "waitEmpty" THEN "take" ELSE pc[t]]
    /\ owner' = "joining"
    /\ UNCHANGED <<threads, limit, queue, item, dispatched, ran>>

\* stop's critical section, with its two broadcasts
Stop ==
    /\ owner = "running"
    /\ start' = FALSE
    /\ pc' = [t \in Threads |-> CASE pc[t] = "waitEmpty" -> "take"
                                  [] pc[t] = "waitFull" -> "dispatch"
                                  [] OTHER -> pc[t]]
    /\ owner' = "joining"
    /\ UNCHANGED <<threads, limit, queue, item, dispatched, ran>>

\* the threads that have been started, and not joined
Started == {w \in Workers : pc[w] # "none"}

\* every one of them has been joined; Thread::stop passes the others over
Joined ==
    /\ owner = "joining"
    /\ \A w \in Started : pc[w] = "done"
    /\ owner' = "stopped"
    /\ pc' = [t \in Threads |-> IF t \in Workers THEN "none" ELSE pc[t]]
    /\ UNCHANGED <<threads, start, limit, queue, item, dispatched, ran>>

-----------------------------------------------------------------------------

WorkerStep(w) == EndInit(w) \/ TestStart(w) \/ Take(w) \/ EndTask(w)

Next ==
    \/ \E t \in Threads : \E task \in Tasks : CallDispatch(t, task)
    \/ \E t \in Threads : Dispatch(t) \/ WakeUp(t)
    \/ \E w \in Workers : WorkerStep(w)
    \/ Start
    \/ Stop
    \/ Joined

Spec == Init /\ [][Next]_vars

\* Threads that can run do, and tasks return.  No wait ends by itself, and
\* nobody has to start, stop or dispatch.
Fairness ==
    /\ \A t \in Threads : WF_vars(Dispatch(t))
    /\ \A w \in Workers : WF_vars(WorkerStep(w))
    /\ WF_vars(Joined)

FairSpec == Spec /\ Fairness

-----------------------------------------------------------------------------
(* Properties.                                                             *)

\* The deque never holds more than taskNum_ tasks, though full tests equality
\* and several threads may wait for the same place.
QueueBounded == limit > 0 => Len(queue) <= limit

\* there are workers, and every one of them waits, inside a task, for room that only
\* a worker could make
AllWaitForRoom == Started # {} /\ \A w \in Started : pc[w] = "waitFull"

\* start(0) of a pool that had threads before: threads_ is not empty, so that
\* dispatchTask queues its tasks, and no thread runs
NoWorkers == Started = {}

\* No lost signal: a task is never in the deque while every worker sleeps, unless
\* they all wait for room or there is none; and a thread waits for room only while
\* there is none, or one of the others that waited is on its way to take it.
NoStall ==
    start =>
        /\ queue # <<>> /\ ~AllWaitForRoom /\ ~NoWorkers =>
              \E w \in Started : pc[w] \notin {"waitEmpty", "waitFull"}
        /\ At("waitFull") # {} /\ ~full => At("dispatch") # {}

Outstanding(task) ==
    \/ \E i \in 1..Len(queue) : queue[i] = task
    \/ \E t \in Threads : item[t] = task

\* A task handed to a running pool is called, however often the pool was stopped and
\* started before, unless it is stopped, or its workers all wait for room themselves
\* (the way tasks that dispatch tasks can block a bounded pool for ever), or it was
\* started again with no thread.
DispatchedIsRun ==
    \A task \in Tasks :
        (Outstanding(task) /\ start)
            ~> (task \in ran \/ ~start \/ AllWaitForRoom \/ NoWorkers)

\* stop returns, whatever the workers and the callers were waiting for.
StopReturns == (owner = "joining") ~> (owner = "stopped")
=============================================================================
