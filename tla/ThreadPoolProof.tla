--------------------------- MODULE ThreadPoolProof ---------------------------
(***************************************************************************)
(* ThreadPool's deque stays within taskNum_, and no signal of its two      *)
(* condition variables is lost, for any number of workers, callers and     *)
(* tasks.                                                                  *)
(***************************************************************************)
EXTENDS ThreadPool, FiniteSetTheorems, TLAPS

\* Between two starts no worker is anywhere.
WorkerPlace ==
    \A w \in Workers : owner \in {"new", "stopped"} => pc[w] = "none"

IInv == TypeOK /\ QueueBounded /\ WorkerPlace

LEMMA SignalKeepsPlaces ==
  ASSUME TypeOK, NEW t \in Threads, NEW place \in PCs, NEW waiting \in PCs,
         NEW awake \in PCs, Signal(t, place, waiting, awake)
  PROVE  /\ pc' \in [Threads -> PCs]
         /\ pc'[t] = place
         /\ \A u \in Threads \ {t} :
               pc'[u] = pc[u] \/ (pc[u] = waiting /\ pc'[u] = awake)
  BY DEF TypeOK, Signal, At

LEMMA InitIInv == Init => IInv
  <1> SUFFICES ASSUME Init PROVE IInv
    OBVIOUS
  <1>1. queue \in Seq(Tasks) /\ Len(queue) = 0
    BY DEF Init
  <1>2. pc \in [Threads -> PCs] /\ item \in [Threads -> Tasks \cup {None}]
    BY DEF Init, PCs
  <1>3. \A t \in Threads : item[t] = None /\ pc[t] \in {"none", "idle"}
    BY DEF Init
  <1>4. threads \in 0..MaxThreads
    BY NumbersAreNat DEF Init
  <1>5. TypeOK
    BY <1>1, <1>2, <1>3, <1>4 DEF Init, TypeOK
  <1>6. QueueBounded
    BY <1>1, LimitsAreNat DEF Init, QueueBounded
  <1>7. WorkerPlace
    BY DEF Init, WorkerPlace, Threads
  <1> QED
    BY <1>5, <1>6, <1>7 DEF IInv

LEMMA DispatchKeepsIInv ==
  ASSUME IInv, NEW t \in Threads, Dispatch(t)
  PROVE  IInv'
  <1> USE DEF IInv, Dispatch, WorkerPlace
  <1>0. /\ item[t] \in Tasks
        /\ Caller(t) \in PCs
        /\ Caller(t) \notin {"dispatch", "waitFull"}
    BY DEF TypeOK, Caller, PCs
  <1>1. CASE start /\ full
    <2>1. /\ pc' = [pc EXCEPT ![t] = "waitFull"]
          /\ UNCHANGED <<threads, start, limit, queue, item, owner, dispatched, ran>>
      BY <1>1
    <2>2. TypeOK' /\ QueueBounded'
      BY <1>0, <2>1 DEF TypeOK, QueueBounded, PCs
    <2>3. WorkerPlace'
      BY <2>1 DEF TypeOK, Threads
    <2> QED BY <2>2, <2>3
  <1>2. CASE ~start
    <2>1. /\ item' = [item EXCEPT ![t] = None]
          /\ pc' = [pc EXCEPT ![t] = Caller(t)]
          /\ UNCHANGED <<threads, start, limit, queue, owner, dispatched, ran>>
      BY <1>2
    <2>2. TypeOK' /\ QueueBounded'
      BY <1>0, <2>1 DEF TypeOK, QueueBounded
    <2>3. WorkerPlace'
      BY <2>1 DEF TypeOK, Threads
    <2> QED BY <2>2, <2>3
  <1>3. CASE start /\ ~full
    <2>1. /\ queue' = Append(queue, item[t])
          /\ item' = [item EXCEPT ![t] = None]
          /\ Signal(t, Caller(t), "waitEmpty", "take")
          /\ UNCHANGED <<threads, start, limit, owner, dispatched, ran>>
      BY <1>3
    <2>2. queue' \in Seq(Tasks) /\ Len(queue') = Len(queue) + 1
      BY <1>0, <2>1 DEF TypeOK
    <2>3. QueueBounded'
      BY <1>3, <2>1, <2>2, LimitsAreNat DEF TypeOK, QueueBounded, full
    <2>4. /\ pc' \in [Threads -> PCs]
          /\ pc'[t] = Caller(t)
          /\ \A u \in Threads \ {t} :
                pc'[u] = pc[u] \/ (pc[u] = "waitEmpty" /\ pc'[u] = "take")
      <3>1. "waitEmpty" \in PCs /\ "take" \in PCs
        BY DEF PCs
      <3> QED BY <1>0, <2>1, <3>1, SignalKeepsPlaces
    <2>5. \A u \in Threads :
             item'[u] # None <=> pc'[u] \in {"dispatch", "waitFull"}
      BY <1>0, <2>1, <2>4 DEF TypeOK
    <2>6. item' \in [Threads -> Tasks \cup {None}]
      BY <2>1 DEF TypeOK
    <2>7. WorkerPlace'
      BY <2>1, <2>4 DEF TypeOK, Threads
    <2> QED BY <2>1, <2>2, <2>3, <2>4, <2>5, <2>6, <2>7 DEF TypeOK
  <1> QED BY <1>1, <1>2, <1>3

LEMMA TakeKeepsIInv ==
  ASSUME IInv, NEW w \in Workers, Take(w)
  PROVE  IInv'
  <1> USE DEF IInv, Take, WorkerPlace
  <1>0. w \in Threads
    BY DEF Threads
  <1>1. CASE queue # <<>>
    <2>1. /\ queue' = Tail(queue)
          /\ ran' = ran \cup {Head(queue)}
          /\ Signal(w, "run", "waitFull", "dispatch")
          /\ UNCHANGED <<threads, start, limit, item, owner, dispatched>>
      BY <1>1
    <2>2. /\ queue' \in Seq(Tasks)
          /\ Len(queue') = Len(queue) - 1
          /\ Head(queue) \in Tasks
      BY <1>1, <2>1 DEF TypeOK
    <2>3. QueueBounded'
      <3>1. limit \in Nat /\ limit' = limit /\ Len(queue) \in Nat
        BY <2>1, LimitsAreNat DEF TypeOK
      <3> QED BY <2>2, <3>1 DEF QueueBounded
    <2>4. /\ pc' \in [Threads -> PCs]
          /\ pc'[w] = "run"
          /\ \A u \in Threads \ {w} :
                pc'[u] = pc[u] \/ (pc[u] = "waitFull" /\ pc'[u] = "dispatch")
      <3>1. {"run", "waitFull", "dispatch"} \subseteq PCs
        BY DEF PCs
      <3> QED BY <1>0, <2>1, <3>1, SignalKeepsPlaces
    <2>5. \A u \in Threads :
             item'[u] # None <=> pc'[u] \in {"dispatch", "waitFull"}
      BY <2>1, <2>4 DEF TypeOK
    <2>6. WorkerPlace'
      BY <2>1, <2>4 DEF TypeOK, Threads
    <2> QED BY <2>1, <2>2, <2>3, <2>4, <2>5, <2>6 DEF TypeOK
  <1>2. CASE queue = <<>>
    <2>1. /\ pc' = [pc EXCEPT ![w] = IF start THEN "waitEmpty" ELSE "test"]
          /\ UNCHANGED <<threads, start, limit, queue, item, owner, dispatched, ran>>
      BY <1>2
    <2>2. TypeOK' /\ QueueBounded'
      BY <1>0, <2>1 DEF TypeOK, QueueBounded, PCs
    <2>3. WorkerPlace'
      BY <1>0, <2>1 DEF TypeOK, Threads
    <2> QED BY <2>2, <2>3
  <1> QED BY <1>1, <1>2

LEMMA NextIInv == IInv /\ [Next]_vars => IInv'
  <1> SUFFICES ASSUME IInv, [Next]_vars PROVE IInv'
    OBVIOUS
  <1> USE DEF IInv, TypeOK, QueueBounded, WorkerPlace, PCs, Threads, Advance
  <1> HIDE DEF Workers
  <1>1. ASSUME NEW t \in Threads, NEW task \in Tasks, CallDispatch(t, task)
        PROVE  IInv'
    <2>1. pc[t] = Caller(t) /\ Caller(t) \in {"run", "idle"}
      BY <1>1 DEF CallDispatch, Caller
    <2> QED BY <1>1, <2>1, NoneIsNoTask DEF CallDispatch
  <1>2. ASSUME NEW t \in Threads, Dispatch(t)
        PROVE  IInv'
    BY <1>2, DispatchKeepsIInv
  <1>3. ASSUME NEW t \in Threads, WakeUp(t)
        PROVE  IInv'
    BY <1>3 DEF WakeUp
  <1>4. ASSUME NEW w \in Workers, EndInit(w)
        PROVE  IInv'
    BY <1>4 DEF EndInit
  <1>5. ASSUME NEW w \in Workers, TestStart(w)
        PROVE  IInv'
    BY <1>5 DEF TestStart
  <1>6. ASSUME NEW w \in Workers, Take(w)
        PROVE  IInv'
    BY <1>6, TakeKeepsIInv
  <1>7. ASSUME NEW w \in Workers, EndTask(w)
        PROVE  IInv'
    BY <1>7 DEF EndTask
  <1>8. CASE Start
    <2>1. PICK threadNum \in ThreadNums :
             /\ threads + threadNum <= MaxThreads
             /\ threads' = threads + threadNum
             /\ pc' = [t \in Threads |-> IF t \in 1..threadNum THEN "init" ELSE pc[t]]
      BY <1>8 DEF Start
    <2>2. threads' \in 0..MaxThreads /\ 1..threadNum \subseteq Workers
      BY <2>1, NumbersAreNat DEF Workers
    <2>3. pc' \in [Threads -> PCs]
      BY <2>1
    <2>4. \A t \in Threads : item'[t] # None <=> pc'[t] \in {"dispatch", "waitFull"}
      BY <1>8, <2>1, <2>2 DEF Start
    <2> QED BY <1>8, <2>2, <2>3, <2>4 DEF Start
  <1>9. CASE Stop
    BY <1>9 DEF Stop
  <1>10. CASE Joined
    <2>1. \A w \in Workers : pc[w] \in {"none", "done"}
      BY <1>10 DEF Joined, Started
    <2> QED BY <1>10, <2>1 DEF Joined
  <1>11. CASE UNCHANGED vars
    BY <1>11 DEF vars
  <1> QED
    BY <1>1, <1>2, <1>3, <1>4, <1>5, <1>6, <1>7, <1>8, <1>9, <1>10, <1>11
       DEF Next, WorkerStep

LEMMA Invariant == Spec => []IInv
  BY InitIInv, NextIInv, PTL DEF Spec

\* A thread is inside dispatchTask with a task exactly while it is in its critical
\* section or waits for room.
THEOREM TypeCorrect == Spec => []TypeOK
  <1>1. IInv => TypeOK
    BY DEF IInv
  <1> QED BY <1>1, Invariant, PTL

\* The test for equality suffices: the deque is never longer than taskNum_.
THEOREM DequeIsBounded == Spec => []QueueBounded
  <1>1. IInv => QueueBounded
    BY DEF IInv
  <1> QED BY <1>1, Invariant, PTL

-----------------------------------------------------------------------------
(* No lost signal.                                                         *)

\* While a worker waits for a task, there are no more tasks than workers on their way
\* to take one; while a thread waits for room, there is no more room than threads on
\* their way to use it.  Only start and stop change start_, and nobody waits while it
\* is FALSE.
SignalsMatch ==
    /\ At("waitEmpty") # {} => Len(queue) <= Cardinality(At("take"))
    /\ At("waitFull") # {} =>
          limit > 0 /\ limit <= Len(queue) + Cardinality(At("dispatch"))

WaitPlaces ==
    /\ start <=> owner = "running"
    /\ ~start => At("waitEmpty") = {} /\ At("waitFull") = {}
    /\ \A t \in Callers : pc[t] \in {"idle", "dispatch", "waitFull"}

StallInv == IInv /\ WaitPlaces /\ SignalsMatch

LEMMA ThreadsFinite == IsFiniteSet(Threads)
  <1>1. IsFiniteSet(Workers)
    BY NumbersAreNat, FS_Interval DEF Workers
  <1> QED BY <1>1, CallersAreFinite, FS_Union DEF Threads

\* How many threads are at a place, when one leaves it or one comes to it.
LEMMA CountLoss ==
  ASSUME NEW A \in SUBSET Threads, NEW B \in SUBSET Threads, NEW t, A \ {t} \subseteq B
  PROVE  /\ Cardinality(A) \in Nat /\ Cardinality(B) \in Nat
         /\ Cardinality(A) <= Cardinality(B) + 1
         /\ A \subseteq B => Cardinality(A) <= Cardinality(B)
  <1>1. IsFiniteSet(A) /\ IsFiniteSet(B)
    BY ThreadsFinite, FS_Subset
  <1>2. Cardinality(A) \in Nat /\ Cardinality(B) \in Nat
    BY <1>1, FS_CardinalityType
  <1>3. Cardinality(A \ {t}) <= Cardinality(B)
    BY <1>1, FS_Subset
  <1>4. Cardinality(A \ {t}) = IF t \in A THEN Cardinality(A) - 1 ELSE Cardinality(A)
    BY <1>1, FS_RemoveElement
  <1>5. A \subseteq B => Cardinality(A) <= Cardinality(B)
    BY <1>1, FS_Subset
  <1> QED BY <1>2, <1>3, <1>4, <1>5

LEMMA CountGain ==
  ASSUME NEW A \in SUBSET Threads, NEW B \in SUBSET Threads, NEW u, u \notin A,
         A \cup {u} \subseteq B
  PROVE  /\ Cardinality(A) \in Nat /\ Cardinality(B) \in Nat
         /\ Cardinality(A) + 1 <= Cardinality(B)
  <1>1. IsFiniteSet(A) /\ IsFiniteSet(B)
    BY ThreadsFinite, FS_Subset
  <1>2. Cardinality(A) \in Nat /\ Cardinality(B) \in Nat
    BY <1>1, FS_CardinalityType
  <1>3. Cardinality(A \cup {u}) = Cardinality(A) + 1
    BY <1>1, FS_AddElement
  <1>4. Cardinality(A \cup {u}) <= Cardinality(B)
    BY <1>1, FS_Subset
  <1> QED BY <1>2, <1>3, <1>4

\* A signal moves one thread if afterwards one still waits, and nobody else but t.
LEMMA SignalWakes ==
  ASSUME TypeOK, NEW t \in Threads, NEW place \in PCs, NEW waiting \in PCs,
         NEW awake \in PCs, Signal(t, place, waiting, awake), place # waiting,
         waiting # awake, pc[t] # waiting
  PROVE  /\ At(waiting)' \subseteq At(waiting)
         /\ At(waiting)' # {} =>
               \E u \in Threads \ {t} : pc[u] = waiting /\ pc'[u] = awake
  BY DEF TypeOK, Signal, At

\* A step that moves no thread into or out of a wait, takes none away from where a
\* signal sends it, and leaves the deque, keeps the counts.
LEMMA CountsKept ==
  ASSUME SignalsMatch,
         At("waitEmpty")' \subseteq At("waitEmpty"), At("waitFull")' \subseteq At("waitFull"),
         At("take") \subseteq At("take")', At("dispatch") \subseteq At("dispatch")',
         UNCHANGED <<limit, queue>>, TypeOK
  PROVE  SignalsMatch'
  <1>1. /\ At("take") \in SUBSET Threads /\ At("take")' \in SUBSET Threads
        /\ At("dispatch") \in SUBSET Threads /\ At("dispatch")' \in SUBSET Threads
    BY DEF At
  <1>2. /\ Cardinality(At("take")) \in Nat /\ Cardinality(At("take")') \in Nat
        /\ Cardinality(At("take")) <= Cardinality(At("take")')
    BY <1>1, CountLoss
  <1>3. /\ Cardinality(At("dispatch")) \in Nat /\ Cardinality(At("dispatch")') \in Nat
        /\ Cardinality(At("dispatch")) <= Cardinality(At("dispatch")')
    BY <1>1, CountLoss
  <1>4. Len(queue) \in Nat /\ limit \in Nat /\ limit' = limit /\ Len(queue)' = Len(queue)
    BY LimitsAreNat DEF TypeOK
  <1> QED BY <1>2, <1>3, <1>4 DEF SignalsMatch

LEMMA DispatchKeepsMatch ==
  ASSUME StallInv, NEW t \in Threads, Dispatch(t)
  PROVE  SignalsMatch'
  <1> USE DEF StallInv, IInv
  <1>0. /\ pc[t] = "dispatch" /\ t \in Threads
        /\ pc \in [Threads -> PCs]
        /\ Caller(t) \in PCs /\ Caller(t) \notin {"dispatch", "waitFull", "waitEmpty", "take"}
        /\ Len(queue) \in Nat /\ limit \in Nat /\ item[t] \in Tasks
        /\ UNCHANGED limit
    BY LimitsAreNat DEF Dispatch, TypeOK, Caller, PCs
  <1>a. /\ At("take") \in SUBSET Threads /\ At("take")' \in SUBSET Threads
        /\ At("dispatch") \in SUBSET Threads /\ At("dispatch")' \in SUBSET Threads
    BY DEF At
  <1>1. CASE start /\ full
    <2>1. pc' = [pc EXCEPT ![t] = "waitFull"] /\ UNCHANGED queue
      BY <1>1 DEF Dispatch
    <2>2. At("waitEmpty")' = At("waitEmpty") /\ At("take")' = At("take")
      BY <1>0, <2>1 DEF At
    <2>3. limit > 0 /\ limit = Len(queue)
      BY <1>1 DEF full
    <2>4. Cardinality(At("dispatch")') \in Nat
      BY <1>a, CountLoss
    <2> QED BY <1>0, <2>1, <2>2, <2>3, <2>4 DEF SignalsMatch
  <1>2. CASE ~start
    <2>1. pc' = [pc EXCEPT ![t] = Caller(t)]
      BY <1>2 DEF Dispatch
    <2>2. At("waitEmpty")' = {} /\ At("waitFull")' = {}
      BY <1>0, <1>2, <2>1 DEF At, WaitPlaces
    <2> QED BY <2>2 DEF SignalsMatch
  <1>3. CASE start /\ ~full
    <2>1. /\ queue' = Append(queue, item[t])
          /\ Signal(t, Caller(t), "waitEmpty", "take")
      BY <1>3 DEF Dispatch
    <2>2. Len(queue)' = Len(queue) + 1
      BY <1>0, <2>1 DEF TypeOK
    <2>3. {"waitEmpty", "take"} \subseteq PCs
      BY DEF PCs
    <2>4. /\ pc' \in [Threads -> PCs]
          /\ pc'[t] = Caller(t)
          /\ \A u \in Threads \ {t} :
                pc'[u] = pc[u] \/ (pc[u] = "waitEmpty" /\ pc'[u] = "take")
      BY <1>0, <2>1, <2>3, SignalKeepsPlaces
    <2>5. /\ At("waitFull")' \subseteq At("waitFull")
          /\ At("dispatch") \ {t} \subseteq At("dispatch")'
          /\ At("take") \subseteq At("take")'
      BY <1>0, <2>4 DEF At
    <2>6. /\ Cardinality(At("dispatch")) \in Nat /\ Cardinality(At("dispatch")') \in Nat
          /\ Cardinality(At("dispatch")) <= Cardinality(At("dispatch")') + 1
      BY <1>a, <2>5, CountLoss
    <2>7. /\ At("waitEmpty")' \subseteq At("waitEmpty")
          /\ At("waitEmpty")' # {} =>
                \E u \in Threads \ {t} : pc[u] = "waitEmpty" /\ pc'[u] = "take"
      BY <1>0, <2>1, <2>3, SignalWakes
    <2>8. ASSUME At("waitEmpty")' # {}
          PROVE  Len(queue)' <= Cardinality(At("take")')
      <3>1. PICK u \in Threads : pc[u] = "waitEmpty" /\ pc'[u] = "take"
        BY <2>7, <2>8
      <3>2. u \notin At("take") /\ At("take") \cup {u} \subseteq At("take")'
        BY <2>5, <3>1 DEF At
      <3>3. /\ Cardinality(At("take")) \in Nat /\ Cardinality(At("take")') \in Nat
            /\ Cardinality(At("take")) + 1 <= Cardinality(At("take")')
        BY <1>a, <3>2, CountGain
      <3> QED BY <1>0, <2>2, <2>7, <2>8, <3>3 DEF SignalsMatch
    <2> QED BY <1>0, <2>2, <2>5, <2>6, <2>8 DEF SignalsMatch
  <1> QED BY <1>1, <1>2, <1>3

LEMMA TakeKeepsMatch ==
  ASSUME StallInv, NEW w \in Workers, Take(w)
  PROVE  SignalsMatch'
  <1> USE DEF StallInv, IInv
  <1>0. /\ w \in Threads /\ pc[w] = "take"
        /\ pc \in [Threads -> PCs]
        /\ Len(queue) \in Nat /\ limit \in Nat
        /\ UNCHANGED <<limit, start>>
    BY LimitsAreNat DEF Take, TypeOK, Threads
  <1>a. /\ At("take") \in SUBSET Threads /\ At("take")' \in SUBSET Threads
        /\ At("dispatch") \in SUBSET Threads /\ At("dispatch")' \in SUBSET Threads
    BY DEF At
  <1>1. CASE queue # <<>>
    <2>1. queue' = Tail(queue) /\ Signal(w, "run", "waitFull", "dispatch")
      BY <1>1 DEF Take
    <2>2. Len(queue)' = Len(queue) - 1
      BY <1>1, <2>1 DEF TypeOK
    <2>3. {"run", "waitFull", "dispatch"} \subseteq PCs
      BY DEF PCs
    <2>4. /\ pc' \in [Threads -> PCs]
          /\ pc'[w] = "run"
          /\ \A u \in Threads \ {w} :
                pc'[u] = pc[u] \/ (pc[u] = "waitFull" /\ pc'[u] = "dispatch")
      BY <1>0, <2>1, <2>3, SignalKeepsPlaces
    <2>5. /\ At("waitEmpty")' \subseteq At("waitEmpty")
          /\ At("take") \ {w} \subseteq At("take")'
          /\ At("dispatch") \subseteq At("dispatch")'
      BY <1>0, <2>4 DEF At
    <2>6. /\ Cardinality(At("take")) \in Nat /\ Cardinality(At("take")') \in Nat
          /\ Cardinality(At("take")) <= Cardinality(At("take")') + 1
      BY <1>a, <2>5, CountLoss
    <2>7. /\ At("waitFull")' \subseteq At("waitFull")
          /\ At("waitFull")' # {} =>
                \E u \in Threads \ {w} : pc[u] = "waitFull" /\ pc'[u] = "dispatch"
      BY <1>0, <2>1, <2>3, SignalWakes
    <2>8. ASSUME At("waitFull")' # {}
          PROVE  limit > 0 /\ limit <= Len(queue)' + Cardinality(At("dispatch")')
      <3>1. PICK u \in Threads : pc[u] = "waitFull" /\ pc'[u] = "dispatch"
        BY <2>7, <2>8
      <3>2. u \notin At("dispatch") /\ At("dispatch") \cup {u} \subseteq At("dispatch")'
        BY <2>5, <3>1 DEF At
      <3>3. /\ Cardinality(At("dispatch")) \in Nat /\ Cardinality(At("dispatch")') \in Nat
            /\ Cardinality(At("dispatch")) + 1 <= Cardinality(At("dispatch")')
        BY <1>a, <3>2, CountGain
      <3> QED BY <1>0, <2>2, <2>7, <2>8, <3>3 DEF SignalsMatch
    <2> QED BY <1>0, <2>2, <2>5, <2>6, <2>8 DEF SignalsMatch
  <1>2. CASE queue = <<>>
    <2>1. /\ pc' = [pc EXCEPT ![w] = IF start THEN "waitEmpty" ELSE "test"]
          /\ UNCHANGED queue
      BY <1>2 DEF Take
    <2>2. At("waitFull")' = At("waitFull") /\ At("dispatch")' = At("dispatch")
      BY <1>0, <2>1 DEF At
    <2>3. Len(queue)' = 0 /\ Cardinality(At("take")') \in Nat
      BY <1>a, <1>2, <2>1, CountLoss
    <2> QED BY <1>0, <2>1, <2>2, <2>3 DEF SignalsMatch
  <1> QED BY <1>1, <1>2

LEMMA NextWaitPlaces ==
  ASSUME StallInv, [Next]_vars
  PROVE  WaitPlaces'
  <1> USE DEF StallInv, IInv, TypeOK, WaitPlaces, At, Threads
  <1>1. ASSUME NEW t \in Threads, NEW task \in Tasks, CallDispatch(t, task)
        PROVE  WaitPlaces'
    BY <1>1 DEF CallDispatch, PCs
  <1>2. ASSUME NEW t \in Threads, Dispatch(t)
        PROVE  WaitPlaces'
    <2>1. t \in Callers => Caller(t) = "idle"
      BY CallersAreNoWorkers DEF Caller
    <2>2. t \notin Callers => Caller(t) = "run"
      BY DEF Caller
    <2>3. \A u \in Threads \ {t} :
             pc'[u] = pc[u] \/ (pc[u] = "waitEmpty" /\ pc'[u] = "take")
      BY <1>2 DEF Dispatch, Signal
    <2>4. pc'[t] = Caller(t) \/ (start /\ pc'[t] = "waitFull")
      BY <1>2 DEF Dispatch, Signal
    <2> QED BY <1>2, <2>1, <2>2, <2>3, <2>4 DEF Dispatch
  <1>3. ASSUME NEW t \in Threads, WakeUp(t)
        PROVE  WaitPlaces'
    BY <1>3 DEF WakeUp, Advance
  <1>4. ASSUME NEW w \in Workers, WorkerStep(w)
        PROVE  WaitPlaces'
    <2>1. CASE Take(w)
      <3>1. \A u \in Threads \ {w} :
               pc'[u] = pc[u] \/ (pc[u] = "waitFull" /\ pc'[u] = "dispatch")
        BY <2>1 DEF Take, Signal
      <3>2. pc'[w] \in {"run", "test"} \/ (start /\ pc'[w] = "waitEmpty")
        BY <2>1 DEF Take, Signal
      <3> QED BY <2>1, <3>1, <3>2, CallersAreNoWorkers DEF Take
    <2>2. CASE EndInit(w) \/ TestStart(w) \/ EndTask(w)
      BY <2>2, CallersAreNoWorkers DEF EndInit, TestStart, EndTask, Advance
    <2> QED BY <1>4, <2>1, <2>2 DEF WorkerStep
  <1>5. CASE Start
    <2>1. PICK threadNum \in ThreadNums :
             /\ threads + threadNum <= MaxThreads
             /\ pc' = [t \in Threads |-> IF t \in 1..threadNum THEN "init" ELSE pc[t]]
      BY <1>5 DEF Start
    <2>2. 1..threadNum \subseteq Workers
      BY <2>1, NumbersAreNat DEF Workers
    <2> QED BY <1>5, <2>1, <2>2, CallersAreNoWorkers DEF Start
  <1>6. CASE Stop
    BY <1>6 DEF Stop
  <1>7. CASE Joined
    BY <1>7, CallersAreNoWorkers DEF Joined
  <1>8. CASE UNCHANGED vars
    BY <1>8 DEF vars
  <1> QED BY <1>1, <1>2, <1>3, <1>4, <1>5, <1>6, <1>7, <1>8 DEF Next

LEMMA NextSignalsMatch ==
  ASSUME StallInv, [Next]_vars
  PROVE  SignalsMatch'
  <1> USE DEF StallInv, IInv
  <1>1. ASSUME NEW t \in Threads, NEW task \in Tasks, CallDispatch(t, task)
        PROVE  SignalsMatch'
    <2>1. Caller(t) \in {"run", "idle"}
      BY DEF Caller
    <2>2. /\ At("waitEmpty")' = At("waitEmpty") /\ At("waitFull")' = At("waitFull")
          /\ At("take")' = At("take") /\ At("dispatch") \subseteq At("dispatch")'
      BY <1>1, <2>1 DEF CallDispatch, At, TypeOK
    <2> QED BY <1>1, <2>2, CountsKept DEF CallDispatch
  <1>2. ASSUME NEW t \in Threads, WakeUp(t)
        PROVE  SignalsMatch'
    <2>1. /\ At("waitEmpty")' \subseteq At("waitEmpty")
          /\ At("waitFull")' \subseteq At("waitFull")
          /\ At("take") \subseteq At("take")' /\ At("dispatch") \subseteq At("dispatch")'
      BY <1>2 DEF WakeUp, Advance, At, TypeOK
    <2> QED BY <1>2, <2>1, CountsKept DEF WakeUp
  <1>3. ASSUME NEW w \in Workers, EndInit(w) \/ TestStart(w) \/ EndTask(w)
        PROVE  SignalsMatch'
    <2>1. /\ At("waitEmpty")' \subseteq At("waitEmpty")
          /\ At("waitFull")' \subseteq At("waitFull")
          /\ At("take") \subseteq At("take")' /\ At("dispatch") \subseteq At("dispatch")'
      BY <1>3 DEF EndInit, TestStart, EndTask, Advance, At, TypeOK
    <2> QED BY <1>3, <2>1, CountsKept DEF EndInit, TestStart, EndTask
  <1>4. CASE Start
    <2>1. At("waitEmpty")' = {} /\ At("waitFull")' = {}
      BY <1>4 DEF Start, WaitPlaces, At
    <2> QED BY <2>1 DEF SignalsMatch
  <1>5. CASE Stop
    <2>1. At("waitEmpty")' = {} /\ At("waitFull")' = {}
      BY <1>5 DEF Stop, At
    <2> QED BY <2>1 DEF SignalsMatch
  <1>6. CASE Joined
    <2>1. At("waitEmpty")' = {} /\ At("waitFull")' = {}
      BY <1>6 DEF Joined, WaitPlaces, At
    <2> QED BY <2>1 DEF SignalsMatch
  <1>7. CASE UNCHANGED vars
    BY <1>7 DEF vars, SignalsMatch, At
  <1> QED
    BY <1>1, <1>2, <1>3, <1>4, <1>5, <1>6, <1>7, DispatchKeepsMatch, TakeKeepsMatch
       DEF Next, WorkerStep

\* While there is a task and a worker waits for one, another is on its way to take it;
\* while there is room and a thread waits for it, another is on its way to use it.
LEMMA MatchMeansNoStall ==
  ASSUME StallInv
  PROVE  NoStall
  <1> USE DEF StallInv, IInv
  <1>0. /\ Len(queue) \in Nat /\ limit \in Nat
        /\ At("take") \in SUBSET Threads /\ At("dispatch") \in SUBSET Threads
    BY LimitsAreNat DEF TypeOK, At
  <1>1. /\ Cardinality(At("take")) \in Nat
        /\ At("take") = {} => Cardinality(At("take")) = 0
        /\ Cardinality(At("dispatch")) \in Nat
        /\ At("dispatch") = {} => Cardinality(At("dispatch")) = 0
    BY <1>0, CountLoss, FS_EmptySet
  <1>2. ASSUME start, queue # <<>>, ~AllWaitForRoom, ~NoWorkers
        PROVE  \E w \in Started : pc[w] \notin {"waitEmpty", "waitFull"}
    <2>1. PICK v \in Started : pc[v] # "waitFull"
      BY <1>2 DEF AllWaitForRoom, NoWorkers
    <2>2. CASE pc[v] # "waitEmpty"
      BY <2>1, <2>2
    <2>3. CASE pc[v] = "waitEmpty"
      <3>1. At("waitEmpty") # {}
        BY <2>3 DEF At, TypeOK, Threads, Started
      <3>2. Len(queue) > 0
        BY <1>2 DEF TypeOK
      <3>3. PICK w \in Threads : pc[w] = "take"
        BY <1>0, <1>1, <3>1, <3>2 DEF SignalsMatch, At
      <3>4. w \in Started
        BY <3>3 DEF WaitPlaces, Threads, Started
      <3> QED BY <3>3, <3>4
    <2> QED BY <2>2, <2>3
  <1>3. ASSUME start, At("waitFull") # {}, ~full
        PROVE  At("dispatch") # {}
    <2>1. limit > 0 /\ Len(queue) <= limit /\ Len(queue) # limit
      BY <1>3 DEF SignalsMatch, QueueBounded, full
    <2> QED BY <1>0, <1>1, <1>3, <2>1 DEF SignalsMatch
  <1> QED BY <1>2, <1>3 DEF NoStall

\* No signal is lost on its way between two kinds of waiting threads, for any number
\* of them.
THEOREM NoSignalIsLost == Spec => []NoStall
  <1>1. Init => StallInv
    <2> SUFFICES ASSUME Init PROVE StallInv
      OBVIOUS
    <2>1. \A t \in Threads : pc[t] \in {"none", "idle"}
      BY DEF Init
    <2>2. At("waitEmpty") = {} /\ At("waitFull") = {}
      BY <2>1 DEF At
    <2>3. \A t \in Callers : pc[t] = "idle"
      BY CallersAreNoWorkers DEF Init, Threads
    <2> QED BY <2>2, <2>3, InitIInv DEF Init, StallInv, WaitPlaces, SignalsMatch
  <1>2. StallInv /\ [Next]_vars => StallInv'
    BY NextIInv, NextWaitPlaces, NextSignalsMatch DEF StallInv
  <1> QED BY <1>1, <1>2, MatchMeansNoStall, PTL DEF Spec
=============================================================================
