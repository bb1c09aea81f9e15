--------------------------- MODULE TcpServerProof ---------------------------
(***************************************************************************)
(* Under a server, whatever loops, connections and descriptors there are: *)
(* every variable keeps its type, an open connection keeps its name, and a *)
(* channel never outlives its connection; and as long as no peer resets a  *)
(* connection, it is removed once.                                         *)
(***************************************************************************)
EXTENDS TcpServer, FiniteSetTheorems, TLAPS

-----------------------------------------------------------------------------
(* The queues of functors.                                                 *)

Once(x, s) == \A i, j \in 1..Len(s) : s[i] = x /\ s[j] = x => i = j

Queued(l, x) == InSeq(x, pending[l]) \/ InSeq(x, batch[l])
QueuedOnce(l, x) ==
    /\ Once(x, pending[l]) /\ Once(x, batch[l])
    /\ ~(InSeq(x, pending[l]) /\ InSeq(x, batch[l]))

QueueType ==
    pending \in [Loops -> Seq(Functors)] /\ batch \in [Loops -> Seq(Functors)]

Establish(c) == Functor("connectEstablished", c)
Remove(c) == Functor("removeConnection", c)
Unpoll(c) == Functor("removeInPoller", c)
Shutdown(c) == Functor(Raw, c)

\* Functors of different functions, or of different connections, differ.
LEMMA FunctorsDiffer ==
  /\ \A c \in Conns :
        /\ Establish(c) \in Functors /\ Remove(c) \in Functors
        /\ Unpoll(c) \in Functors /\ Shutdown(c) \in Functors
  /\ \A c, d :
        /\ Establish(c) # Remove(d) /\ Establish(c) # Unpoll(d)
        /\ Establish(c) # Shutdown(d) /\ Remove(c) # Unpoll(d)
        /\ Remove(c) # Shutdown(d) /\ Unpoll(c) # Shutdown(d)
        /\ Establish(c) = Establish(d) => c = d
        /\ Remove(c) = Remove(d) => c = d
        /\ Unpoll(c) = Unpoll(d) => c = d
  BY DEF Functors, Functor, Establish, Remove, Unpoll, Shutdown, Strong, Raw

\* Every functor is one of the four.
LEMMA FunctorCases ==
  ASSUME NEW f \in Functors
  PROVE  /\ f.conn \in Conns
         /\ f.op = "connectEstablished" => f = Establish(f.conn)
         /\ f.op = "removeConnection" => f = Remove(f.conn)
         /\ f.op = "removeInPoller" => f = Unpoll(f.conn)
         /\ f.op = Raw => f = Shutdown(f.conn)
  BY DEF Functors, Functor, Establish, Remove, Unpoll, Shutdown

\* What is in an empty queue, after an Append and after a Tail.
LEMMA InEmpty == \A x : ~InSeq(x, <<>>) /\ Once(x, <<>>)
  BY DEF InSeq, Once

LEMMA InAppend ==
  ASSUME NEW S, NEW q \in Seq(S), NEW x \in S
  PROVE  \A y : /\ InSeq(y, Append(q, x)) <=> InSeq(y, q) \/ y = x
                /\ Once(y, q) /\ (y = x => ~InSeq(y, q)) => Once(y, Append(q, x))
  <1> DEFINE a == Append(q, x)
  <1>1. /\ Len(a) = Len(q) + 1 /\ Len(q) \in Nat
        /\ a[Len(q) + 1] = x
        /\ \A i \in 1..Len(q) : a[i] = q[i]
    OBVIOUS
  <1>2. \A i \in 1..Len(a) : i = Len(q) + 1 \/ i \in 1..Len(q)
    BY <1>1
  <1>3. 1..Len(q) \subseteq 1..Len(a) /\ Len(q) + 1 \in 1..Len(a)
    BY <1>1
  <1> HIDE DEF a
  <1>4. ASSUME NEW y PROVE InSeq(y, a) <=> InSeq(y, q) \/ y = x
    BY <1>1, <1>2, <1>3 DEF InSeq
  <1>5. ASSUME NEW y, Once(y, q), y = x => ~InSeq(y, q) PROVE Once(y, a)
    BY <1>1, <1>2, <1>3, <1>5 DEF InSeq, Once
  <1> QED BY <1>4, <1>5 DEF a

LEMMA InTail ==
  ASSUME NEW S, NEW q \in Seq(S), q # <<>>
  PROVE  /\ Tail(q) \in Seq(S) /\ Head(q) \in S /\ InSeq(Head(q), q)
         /\ \A y : InSeq(y, Tail(q)) => InSeq(y, q)
         /\ \A y : InSeq(y, q) /\ y # Head(q) => InSeq(y, Tail(q))
         /\ \A y : Once(y, q) => Once(y, Tail(q))
         /\ Once(Head(q), q) => ~InSeq(Head(q), Tail(q))
  <1> DEFINE t == Tail(q)
  <1>1. /\ Len(t) = Len(q) - 1 /\ Len(q) \in Nat /\ Len(q) >= 1
        /\ Head(q) = q[1]
        /\ \A i \in 1..Len(t) : t[i] = q[i + 1]
        /\ t \in Seq(S) /\ Head(q) \in S
    OBVIOUS
  <1>2. /\ 1 \in 1..Len(q)
        /\ \A i \in 1..Len(t) : i + 1 \in 1..Len(q) /\ i + 1 # 1
        /\ \A i \in 1..Len(q) : i # 1 => i - 1 \in 1..Len(t) /\ t[i - 1] = q[i]
    BY <1>1
  <1> HIDE DEF t
  <1>3. InSeq(Head(q), q) /\ \A y : InSeq(y, t) => InSeq(y, q)
    BY <1>1, <1>2 DEF InSeq
  <1>4. \A y : InSeq(y, q) /\ y # Head(q) => InSeq(y, t)
    BY <1>1, <1>2 DEF InSeq
  <1>5. ASSUME NEW y, Once(y, q) PROVE Once(y, t)
    <2> SUFFICES ASSUME NEW i \in 1..Len(t), NEW j \in 1..Len(t), t[i] = y, t[j] = y
                 PROVE  i = j
      BY DEF Once
    <2>1. i + 1 = j + 1
      BY <1>1, <1>2, <1>5 DEF Once
    <2> QED BY <2>1
  <1>6. Once(Head(q), q) => ~InSeq(Head(q), t)
    BY <1>1, <1>2 DEF InSeq, Once
  <1> QED BY <1>1, <1>3, <1>4, <1>5, <1>6 DEF t

\* A functor is queued.
LEMMA QueueGrows ==
  ASSUME QueueType, NEW l \in Loops, NEW x \in Functors, Queue(l, x), batch' = batch
  PROVE  /\ QueueType'
         /\ \A m \in Loops : \A y :
               /\ Queued(m, y)' <=> Queued(m, y) \/ (m = l /\ y = x)
               /\ QueuedOnce(m, y) /\ (m = l /\ y = x => ~Queued(m, y))
                     => QueuedOnce(m, y)'
  <1>1. pending[l] \in Seq(Functors) /\ Append(pending[l], x) \in Seq(Functors)
    BY DEF QueueType
  <1>2. QueueType'
    BY <1>1 DEF QueueType, Queue
  <1>3. ASSUME NEW m \in Loops
        PROVE  batch'[m] = batch[m]
               /\ pending'[m] = IF m = l THEN Append(pending[l], x) ELSE pending[m]
    BY DEF QueueType, Queue
  <1> QED BY <1>1, <1>2, <1>3, InAppend DEF Queued, QueuedOnce

\* One is run.
LEMMA QueueShrinks ==
  ASSUME QueueType, NEW l \in Loops, batch[l] # <<>>,
         batch' = [batch EXCEPT ![l] = Tail(@)], pending' = pending
  PROVE  /\ QueueType'
         /\ Head(batch[l]) \in Functors /\ Queued(l, Head(batch[l]))
         /\ \A m \in Loops : \A y :
               /\ Queued(m, y)' => Queued(m, y)
               /\ Queued(m, y) /\ (m = l => y # Head(batch[l])) => Queued(m, y)'
               /\ QueuedOnce(m, y) => QueuedOnce(m, y)'
         /\ \A y : y = Head(batch[l]) /\ QueuedOnce(l, y) => ~Queued(l, y)'
  <1>1. batch[l] \in Seq(Functors)
    BY DEF QueueType
  <1>2. QueueType' /\ Head(batch[l]) \in Functors
    BY <1>1, InTail DEF QueueType
  <1>3. ASSUME NEW m \in Loops
        PROVE  pending'[m] = pending[m]
               /\ batch'[m] = IF m = l THEN Tail(batch[l]) ELSE batch[m]
    BY DEF QueueType
  <1> QED BY <1>1, <1>2, <1>3, InTail DEF Queued, QueuedOnce

TakesHead(l) == batch[l] # <<>> /\ batch' = [batch EXCEPT ![l] = Tail(@)]

\* One is run, and queues another.
LEMMA QueueTurns ==
  ASSUME QueueType, NEW l \in Loops, TakesHead(l),
         NEW k \in Loops, NEW x \in Functors, Queue(k, x)
  PROVE  /\ QueueType'
         /\ \A m \in Loops : \A y :
               /\ Queued(m, y)' => Queued(m, y) \/ (m = k /\ y = x)
               /\ Queued(m, y) /\ (m = l => y # Head(batch[l])) => Queued(m, y)'
               /\ QueuedOnce(m, y) /\ (m = k /\ y = x => ~Queued(m, y))
                     => QueuedOnce(m, y)'
         /\ Queued(k, x)'
         /\ \A y : y = Head(batch[l]) /\ QueuedOnce(l, y) /\ y # x => ~Queued(l, y)'
  <1> USE DEF TakesHead
  <1>1. batch[l] \in Seq(Functors) /\ pending[k] \in Seq(Functors)
        /\ Append(pending[k], x) \in Seq(Functors)
    BY DEF QueueType
  <1>2. QueueType'
    BY <1>1, InTail DEF QueueType, Queue
  <1>3. ASSUME NEW m \in Loops
        PROVE  /\ pending'[m] = IF m = k THEN Append(pending[k], x) ELSE pending[m]
               /\ batch'[m] = IF m = l THEN Tail(batch[l]) ELSE batch[m]
    BY DEF QueueType, Queue
  <1>4. \A m \in Loops : \A y :
           /\ InSeq(y, batch'[m]) => InSeq(y, batch[m])
           /\ InSeq(y, batch[m]) /\ (m = l => y # Head(batch[l])) => InSeq(y, batch'[m])
           /\ Once(y, batch[m]) => Once(y, batch'[m])
    BY <1>1, <1>3, InTail
  <1>5. \A m \in Loops : \A y :
           /\ InSeq(y, pending'[m]) <=> InSeq(y, pending[m]) \/ (m = k /\ y = x)
           /\ Once(y, pending[m]) /\ (m = k /\ y = x => ~InSeq(y, pending[m]))
                 => Once(y, pending'[m])
    BY <1>1, <1>3, InAppend
  <1>6. \A y : y = Head(batch[l]) /\ Once(y, batch[l]) =>
                  InSeq(y, batch[l]) /\ ~InSeq(y, batch'[l])
    BY <1>1, <1>3, InTail
  <1> QED BY <1>2, <1>4, <1>5, <1>6 DEF Queued, QueuedOnce

\* The pending ones are swapped out.
LEMMA QueueBegins ==
  ASSUME QueueType, NEW l \in Loops,
         batch' = [batch EXCEPT ![l] = pending[l]],
         pending' = [pending EXCEPT ![l] = <<>>]
  PROVE  /\ QueueType'
         /\ \A m \in Loops : \A y :
               /\ Queued(m, y)' => Queued(m, y)
               /\ batch[l] = <<>> /\ Queued(m, y) => Queued(m, y)'
               /\ QueuedOnce(m, y) => QueuedOnce(m, y)'
  <1>1. pending[l] \in Seq(Functors) /\ <<>> \in Seq(Functors)
    BY DEF QueueType
  <1>2. QueueType'
    BY <1>1 DEF QueueType
  <1>3. ASSUME NEW m \in Loops
        PROVE  /\ pending'[m] = IF m = l THEN <<>> ELSE pending[m]
               /\ batch'[m] = IF m = l THEN pending[l] ELSE batch[m]
    BY DEF QueueType
  <1> QED BY <1>2, <1>3, InEmpty DEF Queued, QueuedOnce

\* Nothing happens to them.
LEMMA QueueRests ==
  ASSUME QueueType, UNCHANGED <<pending, batch>>
  PROVE  /\ QueueType'
         /\ \A m, y : (Queued(m, y)' <=> Queued(m, y)) /\ (QueuedOnce(m, y)' <=> QueuedOnce(m, y))
  BY DEF QueueType, Queued, QueuedOnce

\* What Alive looks for is what is queued.
LEMMA QueuedIsAlive ==
  ASSUME QueueType, NEW l \in Loops, NEW c, NEW op \in Strong, Queued(l, Functor(op, c))
  PROVE  Alive(c)
  <1> DEFINE x == Functor(op, c)
             p == pending[l]
             b == batch[l]
  <1>1. p \in Seq(Functors) /\ b \in Seq(Functors)
    BY DEF QueueType
  <1>2. InSeq(x, p) \/ InSeq(x, b)
    BY DEF Queued
  <1> HIDE DEF x, p, b
  <1>3. /\ Len(p \o b) = Len(p) + Len(b) /\ Len(p) \in Nat /\ Len(b) \in Nat
        /\ \A i \in 1..Len(p) : (p \o b)[i] = p[i]
        /\ \A i \in 1..Len(b) : (p \o b)[i + Len(p)] = b[i]
    BY <1>1
  <1>4. /\ \A i \in 1..Len(p) : i \in 1..Len(p \o b)
        /\ \A i \in 1..Len(b) : i + Len(p) \in 1..Len(p \o b)
    BY <1>3
  <1>5. InSeq(x, p \o b)
    BY <1>2, <1>3, <1>4 DEF InSeq
  <1> QED BY <1>5 DEF Alive, x, p, b

-----------------------------------------------------------------------------
(* The pool: its loops are those of the threads started, but for the last  *)
(* thread, which start may be waiting for.                                 *)

StartedThreads == {m \in IoLoops : threads[m].thread.start}
InPool == {loops[i] : i \in 1..Len(loops)}

PoolType ==
    /\ threadNums \in 0..Cardinality(IoLoops)
    /\ loops \in Seq(IoLoops) /\ Len(loops) <= threadNums
    /\ loops # <<>> => next \in 0..(Len(loops) - 1)
    /\ threads \in [IoLoops -> EventThreadLoop]
    /\ \A i \in 1..Len(loops) : threads[loops[i]].loop
    /\ started \in BOOLEAN /\ listening \in BOOLEAN
    /\ listening => started /\ Len(loops) = threadNums

PoolInv ==
    /\ PoolType
    /\ loops = <<>> => next = 0
    /\ ~started => loops = <<>> /\ StartedThreads = {}
    /\ \A m \in IoLoops :
          threads[m].loop \/ threads[m].thread.life # "none" => threads[m].thread.start
    /\ \/ StartedThreads = InPool /\ Cardinality(StartedThreads) = Len(loops)
       \/ /\ Len(loops) < threadNums
          /\ Cardinality(StartedThreads) = Len(loops) + 1
          /\ \E m \in IoLoops \ InPool : StartedThreads = InPool \cup {m}

LEMMA CountsAreNat ==
  /\ Cardinality(IoLoops) \in Nat
  /\ IsFiniteSet(StartedThreads) /\ Cardinality(StartedThreads) \in Nat
  BY IoLoopsAreFinite, FS_CardinalityType, FS_Subset DEF StartedThreads

\* What the owner and the thread do to an EventThreadLoop.
LEMMA EventThreadLoopTypes ==
  ASSUME NEW e \in EventThreadLoop
  PROVE  /\ StartLoop(e) \in EventThreadLoop /\ StartLoop(e).thread.start
         /\ StartLoop(e).loop = e.loop
         /\ MakeLoop(e) \in EventThreadLoop /\ MakeLoop(e).thread = e.thread
         /\ [e EXCEPT !.thread = Announce(@)] \in EventThreadLoop
         /\ [e EXCEPT !.thread = Announce(@)].loop = e.loop
         /\ [e EXCEPT !.thread = Announce(@)].thread.start = e.thread.start
  BY DEF EventThreadLoop, ThreadType, Latch, StartLoop, MakeLoop, Create, Announce,
         CountDown

\* Its caller goes to sleep.
LEMMA SleepingTypes ==
  ASSUME NEW e \in EventThreadLoop
  PROVE  /\ [e EXCEPT !.thread = StartSleeps(@)] \in EventThreadLoop
         /\ [e EXCEPT !.thread = StartSleeps(@)].loop = e.loop
         /\ [e EXCEPT !.thread = StartSleeps(@)].thread.start = e.thread.start
         /\ [e EXCEPT !.thread = StartSleeps(@)].thread.life = e.thread.life
         /\ [e EXCEPT !.asleep = TRUE] \in EventThreadLoop
         /\ [e EXCEPT !.asleep = TRUE].loop = e.loop
         /\ [e EXCEPT !.asleep = TRUE].thread = e.thread
  BY DEF EventThreadLoop, ThreadType, Latch, StartSleeps, Sleep

LEMMA InitPool == Init => PoolInv
  <1> SUFFICES ASSUME Init PROVE PoolInv
    OBVIOUS
  <1>1. /\ threadNums = 0 /\ loops = <<>> /\ next = 0 /\ ~started /\ ~listening
        /\ started \in BOOLEAN /\ listening \in BOOLEAN
        /\ threads = [l \in IoLoops |-> NewEventThreadLoop]
    BY DEF Init
  <1>2. /\ NewEventThreadLoop \in EventThreadLoop
        /\ ~NewEventThreadLoop.loop /\ ~NewEventThreadLoop.thread.start
        /\ NewEventThreadLoop.thread.life = "none"
    BY DEF NewEventThreadLoop, EventThreadLoop, NewThread, ThreadType, NewLatch, Latch
  <1>3. StartedThreads = {} /\ InPool = {} /\ Len(loops) = 0
    BY <1>1, <1>2 DEF StartedThreads, InPool
  <1>4. Cardinality(StartedThreads) = Len(loops)
    BY <1>3, FS_EmptySet
  <1> QED BY <1>1, <1>2, <1>3, <1>4, CountsAreNat DEF PoolInv, PoolType

\* A new thread is the one that start waits for.
LEMMA CreateThreadPool ==
  ASSUME PoolInv, NEW l \in IoLoops, CreateThread(l)
  PROVE  PoolInv'
  <1>1. /\ started /\ Cardinality(StartedThreads) = Len(loops) /\ Len(loops) < threadNums
        /\ threads[l] = NewEventThreadLoop
        /\ threads' = [threads EXCEPT ![l] = StartLoop(threads[l])]
        /\ UNCHANGED <<threadNums, loops, next, started, listening>>
    BY DEF CreateThread, StartedThreads
  <1>2. /\ threads \in [IoLoops -> EventThreadLoop] /\ loops \in Seq(IoLoops)
        /\ Len(loops) \in Nat /\ threadNums \in Nat
    BY CountsAreNat DEF PoolInv, PoolType
  <1>3. /\ threads' \in [IoLoops -> EventThreadLoop]
        /\ \A m \in IoLoops : m # l => threads'[m] = threads[m]
        /\ threads'[l].thread.start /\ threads'[l].loop = threads[l].loop
    BY <1>1, <1>2, EventThreadLoopTypes
  <1>4. l \notin StartedThreads
    BY <1>1 DEF StartedThreads, NewEventThreadLoop, NewThread
  <1>5. StartedThreads = InPool
    BY <1>1, <1>2 DEF PoolInv
  <1>6. StartedThreads' = StartedThreads \cup {l} /\ InPool' = InPool
    BY <1>1, <1>3 DEF StartedThreads, InPool
  <1>7. Cardinality(StartedThreads') = Len(loops) + 1
    BY <1>1, <1>4, <1>6, CountsAreNat, FS_AddElement
  <1>8. PoolType'
    <2>1. \A i \in 1..Len(loops) : loops[i] \in IoLoops
      BY <1>2
    <2> QED BY <1>1, <1>3, <2>1 DEF PoolInv, PoolType
  <1>9. \E m \in IoLoops \ InPool' : StartedThreads' = InPool' \cup {m}
    BY <1>4, <1>5, <1>6
  <1>10. \A m \in IoLoops :
           threads'[m].loop \/ threads'[m].thread.life # "none" => threads'[m].thread.start
    BY <1>3 DEF PoolInv
  <1> QED BY <1>1, <1>7, <1>8, <1>9, <1>10 DEF PoolInv

\* The loop that is pushed is that of the thread waited for.
LEMMA PushLoopPool ==
  ASSUME PoolInv, NEW l \in IoLoops, PushLoop(l)
  PROVE  PoolInv'
  <1>1. /\ l \notin InPool /\ threads[l].loop /\ loops' = Append(loops, l)
        /\ UNCHANGED <<threadNums, next, threads, started, listening>>
    BY DEF PushLoop, LoopReturns, InPool
  <1>2. /\ loops \in Seq(IoLoops) /\ Len(loops) \in Nat /\ threadNums \in Nat
    BY CountsAreNat DEF PoolInv, PoolType
  <1>3. l \in StartedThreads /\ StartedThreads' = StartedThreads
    BY <1>1 DEF PoolInv, StartedThreads
  <1>4. /\ Len(loops) < threadNums /\ Cardinality(StartedThreads) = Len(loops) + 1
        /\ StartedThreads = InPool \cup {l}
    BY <1>1, <1>3 DEF PoolInv
  <1>5. /\ loops' \in Seq(IoLoops) /\ Len(loops') = Len(loops) + 1
        /\ loops'[Len(loops) + 1] = l
        /\ \A i \in 1..Len(loops) : loops'[i] = loops[i]
        /\ 1..Len(loops') = 1..Len(loops) \cup {Len(loops) + 1}
        /\ loops' # <<>>
    BY <1>1, <1>2
  <1>6. InPool' = StartedThreads'
    BY <1>3, <1>4, <1>5 DEF InPool
  <1>7. next' \in 0..(Len(loops') - 1)
    BY <1>1, <1>2, <1>5 DEF PoolInv, PoolType
  <1>8. PoolType'
    BY <1>1, <1>2, <1>4, <1>5, <1>7 DEF PoolInv, PoolType
  <1>9. started
    BY <1>3 DEF PoolInv
  <1> QED BY <1>1, <1>3, <1>4, <1>5, <1>6, <1>8, <1>9 DEF PoolInv

LEMMA ThreadRunsPool ==
  ASSUME PoolInv, NEW l \in IoLoops, ThreadRuns(l)
  PROVE  PoolInv'
  <1>1. /\ threads \in [IoLoops -> EventThreadLoop]
        /\ loops \in Seq(IoLoops) /\ \A i \in 1..Len(loops) : loops[i] \in IoLoops
        /\ UNCHANGED <<threadNums, loops, next, started, listening>>
    BY DEF PoolInv, PoolType, ThreadRuns
  <1>2. /\ threads' \in [IoLoops -> EventThreadLoop]
        /\ \A m \in IoLoops : m # l => threads'[m] = threads[m]
        /\ threads'[l].thread.start = threads[l].thread.start
        /\ threads[l].thread.life # "none"
        /\ threads[l].loop => threads'[l].loop
    <2>1. CASE threads[l].thread.life = "created"
               /\ threads' = [threads EXCEPT ![l].thread = Announce(@)]
      <3> DEFINE e == [threads[l] EXCEPT !.thread = Announce(@)]
      <3>1. threads' = [threads EXCEPT ![l] = e]
        BY <1>1, <2>1
      <3>2. /\ e \in EventThreadLoop /\ e.loop = threads[l].loop
            /\ e.thread.start = threads[l].thread.start
        BY <1>1, EventThreadLoopTypes
      <3> HIDE DEF e
      <3> QED BY <1>1, <2>1, <3>1, <3>2
    <2>2. CASE MakesLoop(threads[l]) /\ threads' = [threads EXCEPT ![l] = MakeLoop(@)]
      <3> DEFINE e == MakeLoop(threads[l])
      <3>1. threads' = [threads EXCEPT ![l] = e]
        BY <1>1, <2>2
      <3>2. /\ e \in EventThreadLoop /\ e.thread = threads[l].thread
            /\ threads[l].thread.life = "running" /\ ~threads[l].loop
        BY <1>1, <2>2, EventThreadLoopTypes DEF MakesLoop
      <3> HIDE DEF e
      <3> QED BY <1>1, <3>1, <3>2
    <2> QED BY <2>1, <2>2 DEF ThreadRuns
  <1>3. StartedThreads' = StartedThreads /\ InPool' = InPool
    BY <1>1, <1>2 DEF StartedThreads, InPool
  <1>4. PoolType'
    BY <1>1, <1>2 DEF PoolInv, PoolType
  <1>5. \A m \in IoLoops : threads'[m].thread.start = threads[m].thread.start
    BY <1>2
  <1>6. \A m \in IoLoops :
           threads'[m].loop \/ threads'[m].thread.life # "none" => threads'[m].thread.start
    BY <1>2, <1>5 DEF PoolInv
  <1> QED BY <1>1, <1>3, <1>4, <1>6 DEF PoolInv

\* The caller's sleep starts and ends no thread.
LEMMA AwaitLoopPool ==
  ASSUME PoolInv, NEW l \in IoLoops, AwaitLoop(l)
  PROVE  PoolInv'
  <1>1. /\ threads \in [IoLoops -> EventThreadLoop]
        /\ loops \in Seq(IoLoops) /\ \A i \in 1..Len(loops) : loops[i] \in IoLoops
        /\ UNCHANGED <<threadNums, loops, next, started, listening>>
    BY DEF PoolInv, PoolType, AwaitLoop
  <1>2. PICK e \in EventThreadLoop :
           /\ threads' = [threads EXCEPT ![l] = e]
           /\ e.loop = threads[l].loop
           /\ e.thread.start = threads[l].thread.start
           /\ e.thread.life = threads[l].thread.life
    <2>1. CASE threads' = [threads EXCEPT ![l].thread = StartSleeps(@)]
      <3> DEFINE f == [threads[l] EXCEPT !.thread = StartSleeps(@)]
      <3>1. threads' = [threads EXCEPT ![l] = f]
        BY <1>1, <2>1
      <3>2. /\ f \in EventThreadLoop /\ f.loop = threads[l].loop
            /\ f.thread.start = threads[l].thread.start
            /\ f.thread.life = threads[l].thread.life
        BY <1>1, SleepingTypes
      <3> HIDE DEF f
      <3> QED BY <3>1, <3>2
    <2>2. CASE threads' = [threads EXCEPT ![l].asleep = TRUE]
      <3> DEFINE f == [threads[l] EXCEPT !.asleep = TRUE]
      <3>1. threads' = [threads EXCEPT ![l] = f]
        BY <1>1, <2>2
      <3>2. f \in EventThreadLoop /\ f.loop = threads[l].loop /\ f.thread = threads[l].thread
        BY <1>1, SleepingTypes
      <3> HIDE DEF f
      <3> QED BY <3>1, <3>2
    <2> QED BY <2>1, <2>2 DEF AwaitLoop
  <1>3. /\ threads' \in [IoLoops -> EventThreadLoop]
        /\ \A m \in IoLoops : /\ threads'[m].loop = threads[m].loop
                              /\ threads'[m].thread.start = threads[m].thread.start
                              /\ threads'[m].thread.life = threads[m].thread.life
    BY <1>1, <1>2
  <1>4. StartedThreads' = StartedThreads /\ InPool' = InPool
    BY <1>1, <1>3 DEF StartedThreads, InPool
  <1>5. PoolType'
    BY <1>1, <1>3 DEF PoolInv, PoolType
  <1>6. \A m \in IoLoops :
           threads'[m].loop \/ threads'[m].thread.life # "none" => threads'[m].thread.start
    BY <1>3 DEF PoolInv
  <1> QED BY <1>1, <1>4, <1>5, <1>6 DEF PoolInv

LEMMA StartingPool ==
  ASSUME PoolInv, Starting
  PROVE  PoolInv' /\ (listening => listening')
  <1>1. CASE SetThreadNum
    <2>1. /\ ~started /\ loops = <<>> /\ Len(loops) = 0 /\ ~listening
          /\ threadNums' \in 0..Cardinality(IoLoops) /\ threadNums' >= 0
          /\ UNCHANGED <<loops, next, threads, started, listening>>
      BY <1>1, CountsAreNat DEF SetThreadNum, PoolInv, PoolType
    <2>2. StartedThreads = {} /\ InPool = {} /\ Cardinality(StartedThreads) = 0
      BY <2>1, FS_EmptySet DEF PoolInv, InPool
    <2>3. StartedThreads' = StartedThreads /\ InPool' = InPool
      BY <2>1 DEF StartedThreads, InPool
    <2> QED BY <2>1, <2>2, <2>3 DEF PoolInv, PoolType
  <1>2. CASE StartPool \/ Listen
    <2>1. /\ UNCHANGED <<threadNums, loops, next, threads>>
          /\ started' = TRUE
          /\ listening' = listening \/ (listening' = TRUE /\ Len(loops) = threadNums)
      BY <1>2 DEF StartPool, Listen, PoolInv, PoolType
    <2>0. /\ started' \in BOOLEAN /\ listening' \in BOOLEAN
          /\ listening => listening'
          /\ listening' => Len(loops) = threadNums
      <3>1. /\ listening \in BOOLEAN /\ (listening => Len(loops) = threadNums)
            /\ TRUE \in BOOLEAN
        BY DEF PoolInv, PoolType
      <3>2. CASE listening' = listening
        BY <2>1, <3>1, <3>2, Zenon
      <3>3. CASE listening' = TRUE /\ Len(loops) = threadNums
        BY <2>1, <3>1, <3>3, Zenon
      <3> QED BY <2>1, <3>2, <3>3, Zenon
    <2>2. StartedThreads' = StartedThreads /\ InPool' = InPool
      BY <2>1 DEF StartedThreads, InPool
    <2> QED BY <2>0, <2>1, <2>2 DEF PoolInv, PoolType
  <1>3. ASSUME NEW l \in IoLoops,
               CreateThread(l) \/ AwaitLoop(l) \/ PushLoop(l) \/ ThreadRuns(l)
        PROVE  PoolInv' /\ (listening => listening')
    <2>1. listening' = listening
      BY <1>3 DEF CreateThread, AwaitLoop, PushLoop, ThreadRuns
    <2> QED BY <1>3, <2>1, CreateThreadPool, AwaitLoopPool, PushLoopPool, ThreadRunsPool
  <1> QED BY <1>1, <1>2, <1>3 DEF Starting, StartStep

\* getNextLoop returns one of the loops, and turns to another.
LEMMA NextLoopPool ==
  ASSUME PoolInv, NEW l \in Loops, NextLoop(l),
         UNCHANGED <<threadNums, loops, threads, started, listening>>, listening
  PROVE  PoolInv'
  <1>1. loops # <<>> => next' \in 0..(Len(loops) - 1)
    BY DEF NextLoop, PoolInv, PoolType
  <1>2. loops = <<>> => next' = next
    BY DEF NextLoop
  <1>3. StartedThreads' = StartedThreads /\ InPool' = InPool
    BY DEF StartedThreads, InPool
  <1> QED BY <1>1, <1>2, <1>3 DEF PoolInv, PoolType

LEMMA PoolRests == PoolInv /\ UNCHANGED poolVars => PoolInv'
  BY DEF PoolInv, PoolType, poolVars, StartedThreads, InPool

-----------------------------------------------------------------------------
(* Types, and what they rest on: a connection is established once, by the  *)
(* functor queued when it was accepted, and what is queued after that is   *)
(* queued because it has been closed.                                      *)

Settled(c) == state[c] \notin {"none", "Connecting"}

ConnType ==
    /\ state \in [Conns -> {"none", "Connecting", "Connected", "DisConnecting",
                            "DisConnected"}]
    /\ fd \in [Conns -> Fds \cup {None}]
    /\ loop \in [Conns -> Loops]
    /\ connections \in [Fds -> Conns \cup {None}]
    /\ reading \in [Conns -> BOOLEAN]
    /\ inPoller \in [Conns -> BOOLEAN]
    /\ peer \in [Conns -> {"up", "fin", "rst"}]
    /\ held \in [Conns -> BOOLEAN]
    /\ \A c \in Conns : inPoller[c] => Settled(c)
    /\ \A c \in Conns : reading[c] => inPoller[c] /\ state[c] # "DisConnected"

Callbacks == {<<"read">>, <<"close", "read">>}
Entries == [conn : Conns, callbacks : Callbacks]

RoundType ==
    /\ done \in [Loops -> SUBSET Conns]
    /\ phase \in [Loops -> {"poll", "handle", "functors"}]
    /\ active \in [Loops -> SUBSET Entries]
    /\ handler \in [Loops -> [conn : Conns \cup {None},
                              callbacks : Seq({"close", "read"})]]

HandledInv ==
    /\ \A l \in Loops :
          /\ handler[l].conn \in Conns => Settled(handler[l].conn)
          /\ \A e \in active[l] : Settled(e.conn)
    /\ ~listening => \A l \in Loops : phase[l] = "poll"

WorkInv ==
    \A l \in Loops, c \in Conns :
       /\ Queued(l, Establish(c)) => l = loop[c] /\ state[c] = "Connecting"
       /\ QueuedOnce(l, Establish(c))
       /\ Queued(l, Remove(c)) \/ Queued(l, Unpoll(c)) => state[c] = "DisConnected"

TypeInv ==
    /\ PoolInv /\ ConnType /\ QueueType /\ RoundType /\ failed \in BOOLEAN
    /\ HandledInv /\ WorkInv

\* The two lists of callbacks.
LEMMA CallbackTypes ==
  /\ \A s \in Callbacks : s \in Seq({"close", "read"}) /\ Tail(s) \in Seq({"close", "read"})
  /\ Tail(<<"read">>) = <<>>
  /\ \A s \in Seq({"close", "read"}) : s # <<>> => Tail(s) \in Seq({"close", "read"})
  /\ <<>> \in Seq({"close", "read"})
  BY DEF Callbacks

LEMMA TypesSuffice == TypeInv => TypeOK
  <1> SUFFICES ASSUME TypeInv PROVE TypeOK
    OBVIOUS
  <1>1. ASSUME NEW l \in Loops, NEW e \in active[l]
        PROVE  e.conn \in Conns /\ e.callbacks \in Seq({"close", "read"})
    BY CallbackTypes DEF TypeInv, RoundType, Entries
  <1> QED BY <1>1 DEF TypeInv, PoolInv, PoolType, ConnType, QueueType, RoundType, TypeOK,
                      Settled

LEMMA InitTypes == Init => TypeInv
  <1> SUFFICES ASSUME Init PROVE TypeInv
    OBVIOUS
  <1>1. QueueType
    <2>1. <<>> \in Seq(Functors)
      OBVIOUS
    <2> QED BY <2>1 DEF Init, QueueType
  <1>2. ConnType
    BY DEF Init, ConnType, Settled, Loops
  <1>3. Idle \in [conn : Conns \cup {None}, callbacks : Seq({"close", "read"})]
        /\ Idle.conn \notin Conns
    BY CallbackTypes, NoneIsNoConn DEF Idle
  <1>4. RoundType
    BY <1>3 DEF Init, RoundType
  <1>5. HandledInv
    BY <1>3 DEF Init, HandledInv
  <1>6. WorkInv
    <2>1. \A l \in Loops : pending[l] = <<>> /\ batch[l] = <<>>
      BY DEF Init
    <2> QED BY <2>1, InEmpty DEF WorkInv, Queued, QueuedOnce
  <1>7. failed \in BOOLEAN
    BY DEF Init
  <1> QED BY <1>1, <1>2, <1>4, <1>5, <1>6, <1>7, InitPool DEF TypeInv

\* What a step makes of the functors and of the state of the connections decides
\* whether WorkInv and HandledInv hold.
LEMMA WorkFrame ==
  ASSUME WorkInv, UNCHANGED <<state, loop>>,
         \A l \in Loops, c \in Conns :
            /\ Queued(l, Establish(c))' => Queued(l, Establish(c))
            /\ QueuedOnce(l, Establish(c)) => QueuedOnce(l, Establish(c))'
            /\ Queued(l, Remove(c))' \/ Queued(l, Unpoll(c))'
                  => Queued(l, Remove(c)) \/ Queued(l, Unpoll(c))
  PROVE  WorkInv'
  BY DEF WorkInv, Establish, Remove, Unpoll, Functor

LEMMA StartingTypes ==
  ASSUME TypeInv, Starting
  PROVE  TypeInv'
  <1>1. /\ PoolInv' /\ (listening => listening')
        /\ UNCHANGED <<connVars, peer, functorVars, loopVars, failed>>
    BY StartingPool DEF TypeInv, Starting
  <1>2. /\ ConnType' /\ RoundType' /\ QueueType' /\ failed' \in BOOLEAN
    BY <1>1 DEF TypeInv, ConnType, RoundType, QueueType, connVars, functorVars, loopVars,
                Settled
  <1>3. HandledInv'
    BY <1>1 DEF TypeInv, HandledInv, connVars, loopVars, Settled
  <1>4. WorkInv'
    BY <1>1, QueueRests, WorkFrame DEF TypeInv, connVars, functorVars
  <1> QED BY <1>1, <1>2, <1>3, <1>4 DEF TypeInv

\* What handlerEvent's callbacks start with.
LEMMA CallbackStarts ==
  ASSUME RoundType, NEW l \in Loops, NEW c \in Conns, NextCallback(l, c)
  PROVE  /\ active' \in [Loops -> SUBSET Entries]
         /\ \A m \in Loops : active'[m] \subseteq active[m]
         /\ handler' \in [Loops -> [conn : Conns \cup {None},
                                    callbacks : Seq({"close", "read"})]]
         /\ handler'[l].conn = c
         /\ \A m \in Loops : m # l => handler'[m] = handler[m] /\ active'[m] = active[m]
         /\ \/ /\ [conn |-> c, callbacks |-> <<"read">>] \in active[l]
               /\ active'[l] = active[l] \ {[conn |-> c, callbacks |-> <<"read">>]}
               /\ handler'[l].callbacks = <<>>
               /\ handler[l] = Idle
            \/ /\ [conn |-> c, callbacks |-> <<"close", "read">>] \in active[l]
               /\ handler[l] = Idle
            \/ handler[l].conn = c /\ handler[l].callbacks # <<>>
  <1>1. ASSUME handler[l] = Idle, NEW e \in active[l], e.conn = c,
               active' = [active EXCEPT ![l] = @ \ {e}],
               handler' = [handler EXCEPT ![l] = [e EXCEPT !.callbacks = Tail(@)]]
        PROVE  /\ active' \in [Loops -> SUBSET Entries]
               /\ \A m \in Loops : active'[m] \subseteq active[m]
               /\ handler' \in [Loops -> [conn : Conns \cup {None},
                                          callbacks : Seq({"close", "read"})]]
               /\ handler'[l].conn = c
               /\ \A m \in Loops : m # l => handler'[m] = handler[m] /\ active'[m] = active[m]
               /\ \/ /\ [conn |-> c, callbacks |-> <<"read">>] \in active[l]
                     /\ active'[l] = active[l] \ {[conn |-> c, callbacks |-> <<"read">>]}
                     /\ handler'[l].callbacks = <<>>
                  \/ [conn |-> c, callbacks |-> <<"close", "read">>] \in active[l]
    <2>1. e \in Entries
      BY DEF RoundType
    <2>2. PICK s \in Callbacks : e = [conn |-> c, callbacks |-> s]
      BY <1>1, <2>1 DEF Entries
    <2>3. handler' = [handler EXCEPT ![l] = [conn |-> c, callbacks |-> Tail(s)]]
      <3>1. [e EXCEPT !.callbacks = Tail(@)] = [e EXCEPT !.callbacks = Tail(s)]
        BY <2>2
      <3>2. ASSUME NEW t
            PROVE  [e EXCEPT !.callbacks = t] = [conn |-> c, callbacks |-> t]
        BY <2>2
      <3> QED BY <1>1, <3>1, <3>2, Zenon
    <2>4. Tail(s) \in Seq({"close", "read"})
      BY CallbackTypes
    <2>5. handler' \in [Loops -> [conn : Conns \cup {None},
                                  callbacks : Seq({"close", "read"})]]
      BY <2>3, <2>4 DEF RoundType
    <2>6. /\ handler'[l].conn = c /\ handler'[l].callbacks = Tail(s)
          /\ \A m \in Loops : m # l => handler'[m] = handler[m]
      BY <2>3 DEF RoundType
    <2>7. /\ active' \in [Loops -> SUBSET Entries]
          /\ active'[l] = active[l] \ {e}
          /\ \A m \in Loops : m # l => active'[m] = active[m]
      BY <1>1 DEF RoundType
    <2>8. s = <<"read">> \/ s = <<"close", "read">>
      BY DEF Callbacks
    <2> QED BY <1>1, <2>2, <2>5, <2>6, <2>7, <2>8, CallbackTypes
  <1>2. ASSUME handler[l].conn = c, handler[l].callbacks # <<>>,
               handler' = [handler EXCEPT ![l].callbacks = Tail(@)], active' = active
        PROVE  /\ active' \in [Loops -> SUBSET Entries]
               /\ \A m \in Loops : active'[m] \subseteq active[m]
               /\ handler' \in [Loops -> [conn : Conns \cup {None},
                                          callbacks : Seq({"close", "read"})]]
               /\ handler'[l].conn = c
               /\ \A m \in Loops : m # l => handler'[m] = handler[m] /\ active'[m] = active[m]
    <2> DEFINE h == handler[l]
               s == Tail(handler[l].callbacks)
    <2>1. /\ h \in [conn : Conns \cup {None}, callbacks : Seq({"close", "read"})]
          /\ s \in Seq({"close", "read"})
      BY <1>2, CallbackTypes DEF RoundType
    <2>2. handler' = [handler EXCEPT ![l] = [h EXCEPT !.callbacks = s]]
      BY <1>2 DEF RoundType
    <2>3. h.conn = c
      BY <1>2
    <2> HIDE DEF h, s
    <2>4. [h EXCEPT !.callbacks = s]
             \in [conn : Conns \cup {None}, callbacks : Seq({"close", "read"})]
          /\ [h EXCEPT !.callbacks = s].conn = c
      BY <2>1, <2>3
    <2> DEFINE k == [h EXCEPT !.callbacks = s]
    <2>5. /\ k \in [conn : Conns \cup {None}, callbacks : Seq({"close", "read"})]
          /\ k.conn = c
          /\ handler' = [handler EXCEPT ![l] = k]
      BY <2>2, <2>4
    <2> HIDE DEF k
    <2>6. /\ handler' \in [Loops -> [conn : Conns \cup {None},
                                     callbacks : Seq({"close", "read"})]]
          /\ handler'[l] = k
          /\ \A m \in Loops : m # l => handler'[m] = handler[m]
      BY <2>5 DEF RoundType
    <2>7. /\ active' \in [Loops -> SUBSET Entries]
          /\ \A m \in Loops : active'[m] = active[m]
      BY <1>2 DEF RoundType
    <2> QED BY <2>5, <2>6, <2>7
  <1> QED BY <1>1, <1>2 DEF NextCallback

LEMMA EstablishedTypes ==
  ASSUME ConnType, NEW c \in Conns, ConnectEstablished(c)
  PROVE  /\ state' \in [Conns -> {"none", "Connecting", "Connected", "DisConnecting",
                                  "DisConnected"}]
         /\ reading' \in [Conns -> BOOLEAN] /\ inPoller' \in [Conns -> BOOLEAN]
         /\ held' \in [Conns -> BOOLEAN]
         /\ state'[c] = "Connected" /\ reading'[c] /\ inPoller'[c]
         /\ \A d \in Conns : d # c => /\ state'[d] = state[d] /\ reading'[d] = reading[d]
                                      /\ inPoller'[d] = inPoller[d]
         /\ \A d \in Conns : inPoller'[d] => Settled(d)'
         /\ \A d \in Conns : reading'[d] => inPoller'[d] /\ state'[d] # "DisConnected"
         /\ \A d \in Conns : Settled(d) => Settled(d)'
  BY DEF ConnType, ConnectEstablished, Settled

LEMMA ClosedTypes ==
  ASSUME ConnType, QueueType, NEW c \in Conns, Settled(c), HandleClose(c), failed \in BOOLEAN
  PROVE  /\ state' = [state EXCEPT ![c] = "DisConnected"]
         /\ state' \in [Conns -> {"none", "Connecting", "Connected", "DisConnecting",
                                  "DisConnected"}]
         /\ reading' \in [Conns -> BOOLEAN] /\ inPoller' = inPoller
         /\ connections' \in [Fds -> Conns \cup {None}]
         /\ failed' \in BOOLEAN
         /\ \A d \in Conns : inPoller'[d] => Settled(d)'
         /\ \A d \in Conns : reading'[d] => inPoller'[d] /\ state'[d] # "DisConnected"
         /\ \A d \in Conns : Settled(d) => Settled(d)'
         /\ \/ pending' = pending
            \/ Queue(loop[c], Unpoll(c))
            \/ Queue(Base, Remove(c))
  <1>1. /\ state' = [state EXCEPT ![c] = "DisConnected"]
        /\ reading' = [reading EXCEPT ![c] = FALSE]
        /\ inPoller' = inPoller
        /\ CloseConnection(c)
    BY DEF HandleClose, CloseConnection, RemoveConnection
  <1>2. /\ connections' \in [Fds -> Conns \cup {None}]
        /\ failed' \in BOOLEAN
        /\ \/ pending' = pending
           \/ Queue(loop[c], Unpoll(c))
           \/ Queue(Base, Remove(c))
    <2>1. CASE RemoveConnection(c)
      BY <2>1 DEF RemoveConnection, ConnType, Unpoll
    <2>2. CASE Queue(Base, Remove(c)) /\ UNCHANGED <<connections, failed>>
      BY <2>2 DEF ConnType
    <2> QED BY <1>1, <2>1, <2>2 DEF CloseConnection, Remove
  <1> QED BY <1>1, <1>2 DEF ConnType, Settled

LEMMA ShutdownTypes ==
  ASSUME ConnType, NEW c \in Conns, ShutdownInLoop(c) \/ UNCHANGED state,
         UNCHANGED <<fd, loop, connections, reading, inPoller, peer, held>>
  PROVE  /\ ConnType'
         /\ \A d \in Conns : /\ Settled(d) <=> Settled(d)'
                             /\ state[d] = "none" <=> state'[d] = "none"
                             /\ state[d] = "Connecting" <=> state'[d] = "Connecting"
                             /\ state[d] = "DisConnected" <=> state'[d] = "DisConnected"
  <1>1. state' = state \/ (state[c] = "Connected"
                           /\ state' = [state EXCEPT ![c] = "DisConnecting"])
    BY DEF ShutdownInLoop
  <1>2. \A d \in Conns : /\ Settled(d) <=> Settled(d)'
                         /\ state[d] = "none" <=> state'[d] = "none"
                         /\ state[d] = "Connecting" <=> state'[d] = "Connecting"
                         /\ state[d] = "DisConnected" <=> state'[d] = "DisConnected"
    BY <1>1 DEF ConnType, Settled
  <1>3. state' \in [Conns -> {"none", "Connecting", "Connected", "DisConnecting",
                              "DisConnected"}]
    BY <1>1 DEF ConnType
  <1> QED BY <1>2, <1>3 DEF ConnType

LEMMA LoopsAreLoops == Base \in Loops /\ \A l \in IoLoops : l \in Loops /\ l # Base
  BY BaseIsNoIoLoop DEF Loops

\* Only the members of HandledInv that a step touches are to be looked at.
LEMMA HandledFrame ==
  ASSUME HandledInv, listening => listening',
         ~listening' => \A l \in Loops : phase'[l] = phase[l],
         \A d \in Conns : Settled(d) => Settled(d)',
         RoundType,
         \A l \in Loops : /\ active'[l] \subseteq active[l]
                          /\ handler'[l].conn \in Conns =>
                                handler'[l].conn = handler[l].conn \/ Settled(handler'[l].conn)
  PROVE  HandledInv'
  <1>1. \A l \in Loops : \A e \in active[l] : e.conn \in Conns
    BY DEF RoundType, Entries
  <1>2. \A l \in Loops :
           handler'[l].conn \in Conns => Settled(handler'[l].conn)
    BY DEF HandledInv
  <1>3. \A l \in Loops :
           handler'[l].conn \in Conns => state'[handler'[l].conn] \notin {"none", "Connecting"}
    BY <1>2 DEF Settled
  <1>4. \A l \in Loops : \A e \in active'[l] : state'[e.conn] \notin {"none", "Connecting"}
    BY <1>1 DEF HandledInv, Settled
  <1>5. ~listening' => \A l \in Loops : phase'[l] = "poll"
    BY DEF HandledInv
  <1> QED BY <1>3, <1>4, <1>5 DEF HandledInv, Settled

LEMMA AcceptTypes ==
  ASSUME TypeInv, NEW c \in Conns, NEW f \in Fds, NEW l \in Loops, Accept(c, f, l)
  PROVE  TypeInv'
  <1>1. /\ state[c] = "none" /\ phase[Base] = "handle" /\ OnConnection(c, f, l)
        /\ UNCHANGED <<threadNums, loops, threads, started, listening, peer, batch, done,
                       phase, active, handler, failed>>
        /\ NextLoop(l)
        /\ fd' = [fd EXCEPT ![c] = f] /\ loop' = [loop EXCEPT ![c] = l]
        /\ connections' = [connections EXCEPT ![f] = c]
    BY DEF Accept, OnConnection, loopVars
  <1>2. listening
    BY <1>1, LoopsAreLoops DEF TypeInv, HandledInv
  <1>3. PoolInv'
    BY <1>1, <1>2, NextLoopPool DEF TypeInv
  <1>4. /\ fd' \in [Conns -> Fds \cup {None}]
        /\ loop' \in [Conns -> Loops]
        /\ connections' \in [Fds -> Conns \cup {None}]
        /\ peer' \in [Conns -> {"up", "fin", "rst"}]
    BY <1>1 DEF TypeInv, ConnType
  <1>5. \A m \in Loops : ~Queued(m, Establish(c)) /\ ~Queued(m, Remove(c))
                         /\ ~Queued(m, Unpoll(c))
    BY <1>1 DEF TypeInv, WorkInv
  <1>6. CASE l = Base
    <2>1. ConnectEstablished(c) /\ pending' = pending
      BY <1>1, <1>6 DEF OnConnection
    <2>2. ConnType'
      BY <1>4, <2>1, EstablishedTypes DEF TypeInv, ConnType
    <2>3. QueueType' /\ \A m, y : (Queued(m, y)' <=> Queued(m, y))
                                  /\ (QueuedOnce(m, y)' <=> QueuedOnce(m, y))
      BY <1>1, <2>1, QueueRests DEF TypeInv
    <2>4. \A d \in Conns : d # c => state'[d] = state[d] /\ loop'[d] = loop[d]
      BY <1>1, <2>1, EstablishedTypes DEF TypeInv, ConnType
    <2>5. WorkInv'
      <3> SUFFICES ASSUME NEW m \in Loops, NEW d \in Conns
                   PROVE  /\ Queued(m, Establish(d))' => m = loop'[d] /\ state'[d] = "Connecting"
                          /\ QueuedOnce(m, Establish(d))'
                          /\ Queued(m, Remove(d))' \/ Queued(m, Unpoll(d))'
                                => state'[d] = "DisConnected"
        BY DEF WorkInv, Establish, Remove, Unpoll, Functor
      <3> QED BY <1>5, <2>3, <2>4 DEF TypeInv, WorkInv
    <2>6. HandledInv'
      BY <1>1, <2>1, HandledFrame, EstablishedTypes DEF TypeInv
    <2> QED BY <1>1, <1>3, <2>2, <2>3, <2>5, <2>6 DEF TypeInv, RoundType
  <1>7. CASE l # Base
    <2>1. /\ state' = [state EXCEPT ![c] = "Connecting"]
          /\ Queue(l, Establish(c))
          /\ UNCHANGED <<reading, inPoller, held>>
      BY <1>1, <1>7 DEF OnConnection, Establish
    <2>2. ConnType'
      BY <1>1, <1>4, <2>1 DEF TypeInv, ConnType, Settled
    <2>3. /\ QueueType'
          /\ \A m \in Loops : \A y :
                /\ Queued(m, y)' <=> Queued(m, y) \/ (m = l /\ y = Establish(c))
                /\ QueuedOnce(m, y) /\ (m = l /\ y = Establish(c) => ~Queued(m, y))
                      => QueuedOnce(m, y)'
      BY <1>1, <2>1, QueueGrows, FunctorsDiffer DEF TypeInv
    <2>4. /\ \A d \in Conns : d # c => state'[d] = state[d] /\ loop'[d] = loop[d]
          /\ state'[c] = "Connecting" /\ loop'[c] = l
      BY <1>1, <2>1 DEF TypeInv, ConnType
    <2>5. WorkInv'
      <3> SUFFICES ASSUME NEW m \in Loops, NEW d \in Conns
                   PROVE  /\ Queued(m, Establish(d))' => m = loop'[d] /\ state'[d] = "Connecting"
                          /\ QueuedOnce(m, Establish(d))'
                          /\ Queued(m, Remove(d))' \/ Queued(m, Unpoll(d))'
                                => state'[d] = "DisConnected"
        BY DEF WorkInv, Establish, Remove, Unpoll, Functor
      <3>1. /\ Queued(m, Establish(d))' <=> Queued(m, Establish(d)) \/ (m = l /\ d = c)
            /\ Queued(m, Remove(d))' <=> Queued(m, Remove(d))
            /\ Queued(m, Unpoll(d))' <=> Queued(m, Unpoll(d))
            /\ QueuedOnce(m, Establish(d)) /\ (d = c => ~Queued(m, Establish(d)))
                  => QueuedOnce(m, Establish(d))'
        BY <2>3, FunctorsDiffer
      <3> QED BY <1>5, <2>4, <3>1 DEF TypeInv, WorkInv
    <2>6. HandledInv'
      <3>1. \A d \in Conns : Settled(d) => Settled(d)'
        BY <1>1, <2>4 DEF Settled
      <3> QED BY <1>1, <3>1, HandledFrame DEF TypeInv
    <2> QED BY <1>1, <1>3, <2>2, <2>3, <2>5, <2>6 DEF TypeInv, RoundType
  <1> QED BY <1>6, <1>7

LEMMA MessageTypes ==
  ASSUME TypeInv, NEW l \in Loops, NEW c \in Conns, MessageArrives(l, c)
  PROVE  TypeInv'
  <1>1. /\ NextCallback(l, c) /\ (ShutdownInLoop(c) \/ UNCHANGED state)
        /\ UNCHANGED <<poolVars, fd, loop, connections, reading, inPoller, held, peer,
                       pending, batch, done, phase, failed>>
    BY DEF MessageArrives, functorVars
  <1>2. ConnType' /\ \A d \in Conns : /\ Settled(d) <=> Settled(d)'
                                      /\ state[d] = "Connecting" <=> state'[d] = "Connecting"
                                      /\ state[d] = "DisConnected" <=> state'[d] = "DisConnected"
    BY <1>1, ShutdownTypes DEF TypeInv
  <1>3. Settled(c)
    BY <1>1, CallbackStarts DEF TypeInv, HandledInv
  <1>4. RoundType'
    BY <1>1, CallbackStarts DEF TypeInv, RoundType
  <1>5. HandledInv'
    <2>1. \A m \in Loops : /\ active'[m] \subseteq active[m]
                           /\ handler'[m].conn \in Conns =>
                                 handler'[m].conn = handler[m].conn \/ Settled(handler'[m].conn)
      BY <1>1, <1>3, CallbackStarts DEF TypeInv
    <2> QED BY <1>1, <1>2, <2>1, HandledFrame DEF TypeInv, poolVars
  <1>6. QueueType' /\ WorkInv'
    <2>1. QueueType' /\ \A m, y : (Queued(m, y)' <=> Queued(m, y))
                                  /\ (QueuedOnce(m, y)' <=> QueuedOnce(m, y))
      BY <1>1, QueueRests DEF TypeInv
    <2> SUFFICES ASSUME NEW m \in Loops, NEW d \in Conns
                 PROVE  /\ Queued(m, Establish(d))' => m = loop'[d] /\ state'[d] = "Connecting"
                        /\ QueuedOnce(m, Establish(d))'
                        /\ Queued(m, Remove(d))' \/ Queued(m, Unpoll(d))'
                              => state'[d] = "DisConnected"
      BY <2>1 DEF WorkInv, Establish, Remove, Unpoll, Functor
    <2> QED BY <1>1, <1>2, <2>1 DEF TypeInv, WorkInv
  <1>7. PoolInv'
    BY <1>1, PoolRests DEF TypeInv
  <1> QED BY <1>1, <1>2, <1>4, <1>5, <1>6, <1>7 DEF TypeInv

LEMMA StreamEndsTypes ==
  ASSUME TypeInv, NEW l \in Loops, NEW c \in Conns, StreamEnds(l, c)
  PROVE  TypeInv'
  <1>1. /\ NextCallback(l, c) /\ HandleClose(c)
        /\ UNCHANGED <<poolVars, fd, loop, held, peer, batch, done, phase>>
    BY DEF StreamEnds
  <1>2. Settled(c)
    BY <1>1, CallbackStarts DEF TypeInv, HandledInv
  <1>3. /\ ConnType' /\ failed' \in BOOLEAN
        /\ \A d \in Conns : Settled(d) => Settled(d)'
        /\ state'[c] = "DisConnected" /\ \A d \in Conns : d # c => state'[d] = state[d]
        /\ pending' = pending \/ Queue(loop[c], Unpoll(c)) \/ Queue(Base, Remove(c))
    BY <1>1, <1>2, ClosedTypes DEF TypeInv, ConnType
  <1>4. RoundType'
    BY <1>1, CallbackStarts DEF TypeInv, RoundType
  <1>5. HandledInv'
    <2>1. \A m \in Loops : /\ active'[m] \subseteq active[m]
                           /\ handler'[m].conn \in Conns =>
                                 handler'[m].conn = handler[m].conn \/ Settled(handler'[m].conn)
      BY <1>1, <1>2, CallbackStarts DEF TypeInv
    <2> QED BY <1>1, <1>3, <2>1, HandledFrame DEF TypeInv, poolVars
  <1>6. /\ QueueType'
        /\ \A m \in Loops : \A y :
              /\ Queued(m, y)' => Queued(m, y) \/ y \in {Unpoll(c), Remove(c)}
              /\ QueuedOnce(m, y) /\ y \notin {Unpoll(c), Remove(c)} => QueuedOnce(m, y)'
    <2>1. CASE pending' = pending
      BY <1>1, <2>1, QueueRests DEF TypeInv
    <2>2. CASE Queue(loop[c], Unpoll(c))
      <3>1. loop[c] \in Loops /\ Unpoll(c) \in Functors
        BY FunctorsDiffer DEF TypeInv, ConnType
      <3> QED BY <1>1, <2>2, <3>1, QueueGrows DEF TypeInv
    <2>3. CASE Queue(Base, Remove(c))
      <3>1. Base \in Loops /\ Remove(c) \in Functors
        BY FunctorsDiffer, LoopsAreLoops
      <3> QED BY <1>1, <2>3, <3>1, QueueGrows DEF TypeInv
    <2> QED BY <1>3, <2>1, <2>2, <2>3
  <1>7. WorkInv'
    <2> SUFFICES ASSUME NEW m \in Loops, NEW d \in Conns
                 PROVE  /\ Queued(m, Establish(d))' => m = loop'[d] /\ state'[d] = "Connecting"
                        /\ QueuedOnce(m, Establish(d))'
                        /\ Queued(m, Remove(d))' \/ Queued(m, Unpoll(d))'
                              => state'[d] = "DisConnected"
      BY DEF WorkInv, Establish, Remove, Unpoll, Functor
    <2>1. /\ Queued(m, Establish(d))' => Queued(m, Establish(d))
          /\ QueuedOnce(m, Establish(d)) => QueuedOnce(m, Establish(d))'
          /\ d # c /\ (Queued(m, Remove(d))' \/ Queued(m, Unpoll(d))')
                => Queued(m, Remove(d)) \/ Queued(m, Unpoll(d))
      BY <1>6, FunctorsDiffer
    <2> QED BY <1>1, <1>2, <1>3, <2>1 DEF TypeInv, WorkInv, Settled
  <1>8. PoolInv'
    BY <1>1, PoolRests DEF TypeInv
  <1> QED BY <1>3, <1>4, <1>5, <1>6, <1>7, <1>8 DEF TypeInv

\* What a functor does, one case for each.
LEMMA FunctorRuns ==
  ASSUME TypeInv, NEW l \in Loops, RunFunctor(l)
  PROVE  /\ batch[l] # <<>>
         /\ batch' = [batch EXCEPT ![l] = Tail(@)]
         /\ UNCHANGED <<poolVars, fd, loop, peer, phase, active, handler>>
         /\ done' \in [Loops -> SUBSET Conns]
         /\ \A m \in Loops : done[m] \subseteq done'[m]
         /\ \E c \in Conns :
            \/ /\ Head(batch[l]) = Establish(c) /\ ConnectEstablished(c)
               /\ UNCHANGED <<connections, pending, failed>>
            \/ /\ Head(batch[l]) = Remove(c) /\ RemoveConnection(c)
               /\ UNCHANGED <<state, reading, held, inPoller>>
            \/ /\ Head(batch[l]) = Unpoll(c)
               /\ inPoller' = [inPoller EXCEPT ![c] = FALSE]
               /\ UNCHANGED <<state, reading, connections, pending, held, failed>>
            \/ /\ Head(batch[l]) = Shutdown(c) /\ ShutdownInLoop(c)
               /\ UNCHANGED <<reading, inPoller, connections, pending, held, failed>>
  <1> DEFINE f == Head(batch[l])
  <1>1. /\ batch[l] # <<>> /\ batch' = [batch EXCEPT ![l] = Tail(@)]
        /\ UNCHANGED <<poolVars, fd, loop, peer, phase, active, handler>>
    BY DEF RunFunctor, loopVars
  <1>2. f \in Functors
    BY <1>1, QueueShrinks, InTail DEF TypeInv, QueueType
  <1>3. f.conn \in Conns
    BY <1>2, FunctorCases
  <1>4. done' \in [Loops -> SUBSET Conns] /\ \A m \in Loops : done[m] \subseteq done'[m]
    <2>1. \/ done' = [done EXCEPT ![l] = @ \cup {f.conn}]
          \/ done' = [done EXCEPT ![l] = @]
      BY DEF RunFunctor
    <2> QED BY <1>3, <2>1 DEF TypeInv, RoundType
  <1>5. \/ /\ f.op = "connectEstablished" /\ ConnectEstablished(f.conn)
           /\ UNCHANGED <<connections, pending, failed>>
        \/ /\ f.op = "removeConnection" /\ RemoveConnection(f.conn)
           /\ UNCHANGED <<state, reading, held, inPoller>>
        \/ /\ f.op = "removeInPoller" /\ inPoller' = [inPoller EXCEPT ![f.conn] = FALSE]
           /\ UNCHANGED <<state, reading, connections, pending, held, failed>>
        \/ /\ f.op = Raw /\ ShutdownInLoop(f.conn)
           /\ UNCHANGED <<reading, inPoller, connections, pending, held, failed>>
    BY DEF RunFunctor, RemoveConnection
  <1> HIDE DEF f
  <1>6. \E c \in Conns :
            \/ /\ f = Establish(c) /\ ConnectEstablished(c)
               /\ UNCHANGED <<connections, pending, failed>>
            \/ /\ f = Remove(c) /\ RemoveConnection(c)
               /\ UNCHANGED <<state, reading, held, inPoller>>
            \/ /\ f = Unpoll(c)
               /\ inPoller' = [inPoller EXCEPT ![c] = FALSE]
               /\ UNCHANGED <<state, reading, connections, pending, held, failed>>
            \/ /\ f = Shutdown(c) /\ ShutdownInLoop(c)
               /\ UNCHANGED <<reading, inPoller, connections, pending, held, failed>>
    BY <1>2, <1>3, <1>5, FunctorCases
  <1> QED BY <1>1, <1>4, <1>6 DEF f

LEMMA RunFunctorTypes ==
  ASSUME TypeInv, NEW l \in Loops, RunFunctor(l)
  PROVE  TypeInv'
  <1>1. /\ batch[l] # <<>>
        /\ batch' = [batch EXCEPT ![l] = Tail(@)]
        /\ UNCHANGED <<poolVars, fd, loop, peer, phase, active, handler>>
        /\ done' \in [Loops -> SUBSET Conns]
    BY FunctorRuns
  <1>2. PoolInv' /\ RoundType'
    BY <1>1, PoolRests DEF TypeInv, RoundType
  <1>3. ASSUME NEW c \in Conns,
               \/ Head(batch[l]) = Establish(c) /\ ConnectEstablished(c)
               \/ Head(batch[l]) # Establish(c) /\ UNCHANGED <<reading, held>> /\
                  \/ state' = state /\ UNCHANGED inPoller
                  \/ /\ Head(batch[l]) = Unpoll(c) /\ UNCHANGED state
                     /\ inPoller' = [inPoller EXCEPT ![c] = FALSE]
                  \/ ShutdownInLoop(c) /\ UNCHANGED inPoller,
               connections' \in [Fds -> Conns \cup {None}], failed' \in BOOLEAN,
               QueueType',
               \A m \in Loops : \A y :
                  /\ Queued(m, y)' => Queued(m, y)
                        \/ (Head(batch[l]) = Remove(c) /\ y = Unpoll(c))
                  /\ QueuedOnce(m, y) /\ y # Unpoll(c) => QueuedOnce(m, y)',
               \A y : y = Head(batch[l]) /\ QueuedOnce(l, y) /\ y # Unpoll(c) => ~Queued(l, y)'
        PROVE  TypeInv'
    <2>1. Queued(l, Head(batch[l]))
      BY <1>1, InTail DEF Queued, TypeInv, QueueType
    <2>2. CASE Head(batch[l]) = Establish(c) /\ ConnectEstablished(c)
      <3>1. state[c] = "Connecting" /\ l = loop[c] /\ QueuedOnce(l, Establish(c))
        BY <2>1, <2>2 DEF TypeInv, WorkInv
      <3>2. ~Queued(l, Establish(c))'
        BY <1>3, <2>2, <3>1, FunctorsDiffer
      <3>3. ConnType'
        BY <1>1, <1>3, <2>2, EstablishedTypes DEF TypeInv, ConnType
      <3>4. HandledInv'
        BY <1>1, <2>2, EstablishedTypes, HandledFrame DEF TypeInv, poolVars
      <3>5. \A d \in Conns : d # c => state'[d] = state[d]
        BY <2>2, EstablishedTypes DEF TypeInv
      <3>6. WorkInv'
        <4> SUFFICES ASSUME NEW m \in Loops, NEW d \in Conns
                     PROVE  /\ Queued(m, Establish(d))'
                                  => m = loop'[d] /\ state'[d] = "Connecting"
                            /\ QueuedOnce(m, Establish(d))'
                            /\ Queued(m, Remove(d))' \/ Queued(m, Unpoll(d))'
                                  => state'[d] = "DisConnected"
          BY DEF WorkInv, Establish, Remove, Unpoll, Functor
        <4>1. /\ Queued(m, Establish(d))' => Queued(m, Establish(d))
              /\ QueuedOnce(m, Establish(d)) => QueuedOnce(m, Establish(d))'
              /\ Queued(m, Remove(d))' => Queued(m, Remove(d))
              /\ Queued(m, Unpoll(d))' => Queued(m, Unpoll(d))
          BY <1>3, <2>2, FunctorsDiffer
        <4>2. ~Queued(m, Establish(c))'
          BY <1>3, <3>1, <3>2, FunctorsDiffer DEF TypeInv, WorkInv
        <4> QED BY <1>1, <3>1, <3>5, <4>1, <4>2 DEF TypeInv, WorkInv
      <3> QED BY <1>2, <1>3, <3>3, <3>4, <3>6 DEF TypeInv
    <2>3. CASE Head(batch[l]) # Establish(c)
      <3>1. /\ UNCHANGED <<reading, held>>
            /\ \A d \in Conns : /\ Settled(d) <=> Settled(d)'
                                /\ state[d] = "Connecting" <=> state'[d] = "Connecting"
                                /\ state[d] = "DisConnected" <=> state'[d] = "DisConnected"
            /\ state' \in [Conns -> {"none", "Connecting", "Connected", "DisConnecting",
                                     "DisConnected"}]
        BY <1>3, <2>3 DEF TypeInv, ConnType, ShutdownInLoop, Settled
      <3>2. /\ inPoller' \in [Conns -> BOOLEAN]
            /\ \A d \in Conns : inPoller'[d] => inPoller[d]
            /\ \A d \in Conns : inPoller[d] /\ ~inPoller'[d] => state[d] = "DisConnected"
        <4>1. Head(batch[l]) = Unpoll(c) => state[c] = "DisConnected"
          BY <2>1 DEF TypeInv, WorkInv
        <4> QED BY <1>3, <2>3, <4>1 DEF TypeInv, ConnType
      <3>3. ConnType'
        BY <1>1, <1>3, <3>1, <3>2 DEF TypeInv, ConnType
      <3>4. HandledInv'
        BY <1>1, <3>1, HandledFrame DEF TypeInv, poolVars
      <3>5. WorkInv'
        <4> SUFFICES ASSUME NEW m \in Loops, NEW d \in Conns
                     PROVE  /\ Queued(m, Establish(d))'
                                  => m = loop'[d] /\ state'[d] = "Connecting"
                            /\ QueuedOnce(m, Establish(d))'
                            /\ Queued(m, Remove(d))' \/ Queued(m, Unpoll(d))'
                                  => state'[d] = "DisConnected"
          BY DEF WorkInv, Establish, Remove, Unpoll, Functor
        <4>1. /\ Queued(m, Establish(d))' => Queued(m, Establish(d))
              /\ QueuedOnce(m, Establish(d)) => QueuedOnce(m, Establish(d))'
              /\ Queued(m, Remove(d))' => Queued(m, Remove(d))
              /\ Queued(m, Unpoll(d))' =>
                    Queued(m, Unpoll(d)) \/ (Head(batch[l]) = Remove(c) /\ d = c)
          BY <1>3, FunctorsDiffer
        <4>2. Head(batch[l]) = Remove(c) => state[c] = "DisConnected"
          BY <2>1 DEF TypeInv, WorkInv
        <4> QED BY <1>1, <3>1, <4>1, <4>2 DEF TypeInv, WorkInv
      <3> QED BY <1>2, <1>3, <3>3, <3>4, <3>5 DEF TypeInv
    <2> QED BY <1>3, <2>2, <2>3
  <1>4. ASSUME NEW c \in Conns, Head(batch[l]) = Remove(c), RemoveConnection(c),
               UNCHANGED <<state, reading, held, inPoller>>
        PROVE  TypeInv'
    <2>1. /\ connections' \in [Fds -> Conns \cup {None}] /\ failed' \in BOOLEAN
          /\ pending' = pending \/ Queue(loop[c], Unpoll(c))
      BY <1>4 DEF RemoveConnection, TypeInv, ConnType, Unpoll
    <2>2. Remove(c) # Establish(c) /\ Unpoll(c) \in Functors /\ loop[c] \in Loops
      BY FunctorsDiffer DEF TypeInv, ConnType
    <2>3. CASE pending' = pending
      BY <1>1, <1>3, <1>4, <2>1, <2>2, <2>3, QueueShrinks DEF TypeInv
    <2>4. CASE Queue(loop[c], Unpoll(c))
      <3>1. /\ QueueType'
            /\ \A m \in Loops : \A y :
                  /\ Queued(m, y)' => Queued(m, y) \/ y = Unpoll(c)
                  /\ QueuedOnce(m, y) /\ y # Unpoll(c) => QueuedOnce(m, y)'
            /\ \A y : y = Head(batch[l]) /\ QueuedOnce(l, y) /\ y # Unpoll(c)
                         => ~Queued(l, y)'
        <4>1. PICK k \in Loops : k = loop[c]
          BY <2>2
        <4>2. PICK x \in Functors : x = Unpoll(c)
          BY <2>2
        <4>3. /\ QueueType'
              /\ \A m \in Loops : \A y :
                    /\ Queued(m, y)' => Queued(m, y) \/ (m = k /\ y = x)
                    /\ QueuedOnce(m, y) /\ (m = k /\ y = x => ~Queued(m, y))
                          => QueuedOnce(m, y)'
              /\ \A y : y = Head(batch[l]) /\ QueuedOnce(l, y) /\ y # x => ~Queued(l, y)'
          <5>1. QueueType /\ TakesHead(l)
            BY <1>1 DEF TypeInv, TakesHead
          <5>2. Queue(k, x)
            BY <2>4, <4>1, <4>2
          <5> QED BY <5>1, <5>2, QueueTurns
        <4> QED BY <4>2, <4>3
      <3>2. \A m \in Loops : \A y :
               /\ Queued(m, y)' => Queued(m, y)
                     \/ (Head(batch[l]) = Remove(c) /\ y = Unpoll(c))
               /\ QueuedOnce(m, y) /\ y # Unpoll(c) => QueuedOnce(m, y)'
        BY <1>4, <3>1
      <3>3. Head(batch[l]) # Establish(c) /\ UNCHANGED <<reading, held>>
            /\ state' = state /\ UNCHANGED inPoller
        BY <1>4, <2>2
      <3> QED BY <1>3, <2>1, <3>1, <3>2, <3>3
    <2> QED BY <2>1, <2>3, <2>4
  <1>5. ASSUME NEW c \in Conns,
               \/ Head(batch[l]) = Establish(c) /\ ConnectEstablished(c)
               \/ Head(batch[l]) # Establish(c) /\ UNCHANGED <<reading, held>> /\
                  \/ /\ Head(batch[l]) = Unpoll(c) /\ UNCHANGED state
                     /\ inPoller' = [inPoller EXCEPT ![c] = FALSE]
                  \/ ShutdownInLoop(c) /\ UNCHANGED inPoller,
               UNCHANGED <<connections, pending, failed>>
        PROVE  TypeInv'
    <2>1. connections' \in [Fds -> Conns \cup {None}] /\ failed' \in BOOLEAN
      BY <1>5 DEF TypeInv, ConnType
    <2> QED BY <1>1, <1>3, <1>5, <2>1, QueueShrinks DEF TypeInv
  <1> QED BY <1>4, <1>5, FunctorRuns, FunctorsDiffer

\* Those a poll reports are enabled, and those it can report are settled.
LEMMA PollTypes ==
  ASSUME TypeInv, NEW l \in Loops, Poll(l)
  PROVE  TypeInv'
  <1>1. /\ listening /\ phase' = [phase EXCEPT ![l] = "handle"]
        /\ UNCHANGED <<poolVars, connVars, peer, pending, batch, done, handler, failed>>
    BY DEF Poll, functorVars
  <1>2. PICK A \in SUBSET Conns :
           /\ \A c \in A : reading[c]
           /\ active' = [active EXCEPT ![l] = {Report(c) : c \in A}]
    BY DEF Poll
  <1>3. \A c \in A : Report(c) \in Entries /\ Report(c).conn = c /\ Settled(c)
    BY <1>2 DEF Report, Entries, Callbacks, TypeInv, ConnType
  <1>4. /\ RoundType'
        /\ active'[l] = {Report(c) : c \in A}
        /\ \A m \in Loops : m # l => active'[m] = active[m]
    BY <1>1, <1>2, <1>3 DEF TypeInv, RoundType
  <1>5. ConnType' /\ \A d \in Conns : Settled(d)' <=> Settled(d)
    BY <1>1 DEF TypeInv, ConnType, Settled, connVars
  <1>6. HandledInv'
    <2>1. ASSUME NEW m \in Loops, NEW e \in active'[m]
          PROVE  Settled(e.conn)
      BY <1>3, <1>4 DEF TypeInv, HandledInv
    <2>2. state' = state /\ handler' = handler /\ listening'
      BY <1>1 DEF connVars, poolVars
    <2> QED BY <2>1, <2>2 DEF TypeInv, HandledInv, Settled
  <1>7. QueueType' /\ WorkInv'
    BY <1>1, QueueRests, WorkFrame DEF TypeInv, connVars
  <1> QED BY <1>1, <1>4, <1>5, <1>6, <1>7, PoolRests DEF TypeInv

LEMMA EndHandlingTypes ==
  ASSUME TypeInv, NEW l \in Loops, EndHandling(l)
  PROVE  TypeInv'
  <1>1. /\ handler' = [handler EXCEPT ![l] = Idle]
        /\ UNCHANGED <<poolVars, connVars, peer, pending, batch, done, phase, active, failed>>
    BY DEF EndHandling, functorVars
  <1>2. Idle \in [conn : Conns \cup {None}, callbacks : Seq({"close", "read"})]
        /\ Idle.conn \notin Conns
    BY CallbackTypes, NoneIsNoConn DEF Idle
  <1>3. RoundType' /\ \A m \in Loops : handler'[m] = handler[m] \/ handler'[m] = Idle
    BY <1>1, <1>2 DEF TypeInv, RoundType
  <1>4. ConnType' /\ \A d \in Conns : Settled(d)' <=> Settled(d)
    BY <1>1 DEF TypeInv, ConnType, Settled, connVars
  <1>5. HandledInv'
    BY <1>1, <1>2, <1>3, <1>4, HandledFrame DEF TypeInv, poolVars
  <1>6. QueueType' /\ WorkInv'
    BY <1>1, QueueRests, WorkFrame DEF TypeInv, connVars
  <1> QED BY <1>1, <1>3, <1>4, <1>5, <1>6, PoolRests DEF TypeInv

\* The base loop waits for start to return, so no loop leaves "poll" before it.
LEMMA BatchTypes ==
  ASSUME TypeInv, NEW l \in Loops, BeginBatch(l) \/ EndBatch(l)
  PROVE  TypeInv'
  <1>1. /\ phase[l] # "poll"
        /\ \/ phase' = [phase EXCEPT ![l] = "functors"]
           \/ phase' = [phase EXCEPT ![l] = "poll"]
        /\ done' = done \/ done' = [done EXCEPT ![l] = {}]
        /\ UNCHANGED <<poolVars, connVars, peer, active, handler, failed>>
    BY DEF BeginBatch, EndBatch
  <1>2. listening
    BY <1>1 DEF TypeInv, HandledInv
  <1>3. ConnType' /\ RoundType' /\ \A d \in Conns : Settled(d)' <=> Settled(d)
    <2>1. \A d \in Conns : Settled(d)' <=> Settled(d)
      BY <1>1 DEF Settled, connVars
    <2>2. RoundType'
      <3>1. phase' \in [Loops -> {"poll", "handle", "functors"}]
        BY <1>1 DEF TypeInv, RoundType
      <3>2. done' \in [Loops -> SUBSET Conns]
        BY <1>1 DEF TypeInv, RoundType
      <3> QED BY <1>1, <3>1, <3>2 DEF TypeInv, RoundType
    <2> QED BY <1>1, <2>1, <2>2 DEF TypeInv, ConnType, connVars
  <1>4. HandledInv'
    BY <1>1, <1>2, <1>3, HandledFrame DEF TypeInv, poolVars
  <1>5. /\ QueueType'
        /\ \A m \in Loops : \A y :
              /\ Queued(m, y)' => Queued(m, y)
              /\ QueuedOnce(m, y) => QueuedOnce(m, y)'
    <2>1. CASE BeginBatch(l)
      BY <2>1, QueueBegins DEF TypeInv, BeginBatch
    <2>2. CASE EndBatch(l)
      BY <2>2, QueueRests DEF TypeInv, EndBatch
    <2> QED BY <2>1, <2>2
  <1>6. WorkInv'
    <2>1. \A m \in Loops, d \in Conns :
             /\ Queued(m, Establish(d))' => Queued(m, Establish(d))
             /\ QueuedOnce(m, Establish(d)) => QueuedOnce(m, Establish(d))'
             /\ Queued(m, Remove(d))' => Queued(m, Remove(d))
             /\ Queued(m, Unpoll(d))' => Queued(m, Unpoll(d))
      BY <1>5, FunctorsDiffer
    <2> QED BY <1>1, <2>1, WorkFrame DEF TypeInv, connVars
  <1> QED BY <1>1, <1>3, <1>4, <1>5, <1>6, PoolRests DEF TypeInv

LEMMA UserTypes ==
  ASSUME TypeInv, NEW c \in Conns, UserShutdown(c) \/ Release(c) \/ PeerEnds(c)
  PROVE  TypeInv'
  <1>1. /\ UNCHANGED <<poolVars, state, fd, loop, connections, reading, inPoller, batch, done,
                       phase, active, handler, failed>>
        /\ held' = held \/ held' = [held EXCEPT ![c] = FALSE]
    BY DEF UserShutdown, Release, PeerEnds, connVars, functorVars, loopVars
  <1>2. /\ \/ peer' = peer
           \/ \E p \in {"fin", "rst"} : peer' = [peer EXCEPT ![c] = p]
        /\ pending' = pending \/ Queue(loop[c], Shutdown(c))
    BY DEF UserShutdown, Release, PeerEnds, functorVars, Shutdown
  <1>3. ConnType' /\ RoundType' /\ \A d \in Conns : Settled(d)' <=> Settled(d)
    <2>1. \A d \in Conns : Settled(d)' <=> Settled(d)
      BY <1>1 DEF Settled
    <2>2. /\ held' \in [Conns -> BOOLEAN]
          /\ peer' \in [Conns -> {"up", "fin", "rst"}]
      <3>1. held \in [Conns -> BOOLEAN] /\ peer \in [Conns -> {"up", "fin", "rst"}]
        BY DEF TypeInv, ConnType
      <3>2. held' \in [Conns -> BOOLEAN]
        BY <1>1, <3>1
      <3>3. peer' \in [Conns -> {"up", "fin", "rst"}]
        BY <1>2, <3>1
      <3> QED BY <3>2, <3>3
    <2>3. RoundType'
      BY <1>1 DEF TypeInv, RoundType
    <2> QED BY <1>1, <2>1, <2>2, <2>3 DEF TypeInv, ConnType
  <1>4. HandledInv'
    BY <1>1, <1>3, HandledFrame DEF TypeInv, poolVars
  <1>5. QueueType' /\ WorkInv'
    <2>1. CASE pending' = pending
      BY <1>1, <2>1, QueueRests, WorkFrame DEF TypeInv
    <2>2. CASE Queue(loop[c], Shutdown(c))
      <3>1. PICK k \in Loops : k = loop[c]
        BY DEF TypeInv, ConnType
      <3>2. PICK x \in Functors : x = Shutdown(c)
        BY FunctorsDiffer
      <3>3. QueueType /\ Queue(k, x) /\ batch' = batch
        BY <1>1, <2>2, <3>1, <3>2 DEF TypeInv
      <3>4. /\ QueueType'
            /\ \A m \in Loops : \A y :
                  /\ Queued(m, y)' <=> Queued(m, y) \/ (m = k /\ y = x)
                  /\ QueuedOnce(m, y) /\ (m = k /\ y = x => ~Queued(m, y))
                        => QueuedOnce(m, y)'
        BY <3>3, QueueGrows
      <3>5. \A m \in Loops, d \in Conns :
               /\ Queued(m, Establish(d))' => Queued(m, Establish(d))
               /\ QueuedOnce(m, Establish(d)) => QueuedOnce(m, Establish(d))'
               /\ Queued(m, Remove(d))' => Queued(m, Remove(d))
               /\ Queued(m, Unpoll(d))' => Queued(m, Unpoll(d))
        BY <3>2, <3>4, FunctorsDiffer
      <3> QED BY <1>1, <3>4, <3>5, WorkFrame DEF TypeInv
    <2> QED BY <1>2, <2>1, <2>2
  <1> QED BY <1>1, <1>3, <1>4, <1>5, PoolRests DEF TypeInv

LEMMA StutterTypes == TypeInv /\ UNCHANGED vars => TypeInv'
  <1> SUFFICES ASSUME TypeInv, UNCHANGED vars PROVE TypeInv'
    OBVIOUS
  <1>1. UNCHANGED <<poolVars, connVars, peer, pending, batch, done, phase, active, handler,
                    failed>>
    BY DEF vars, poolVars, connVars
  <1>2. ConnType' /\ RoundType' /\ \A d \in Conns : Settled(d)' <=> Settled(d)
    <2>1. \A d \in Conns : Settled(d)' <=> Settled(d)
      BY <1>1 DEF Settled, connVars
    <2>2. RoundType'
      BY <1>1 DEF TypeInv, RoundType
    <2> QED BY <1>1, <2>1, <2>2 DEF TypeInv, ConnType, connVars
  <1>3. HandledInv'
    BY <1>1, <1>2, HandledFrame DEF TypeInv, poolVars
  <1>4. QueueType' /\ WorkInv'
    BY <1>1, QueueRests, WorkFrame DEF TypeInv, connVars
  <1> QED BY <1>1, <1>2, <1>3, <1>4, PoolRests DEF TypeInv

LEMMA NextTypes ==
  ASSUME TypeInv, [Next]_vars
  PROVE  TypeInv'
  <1>1. ASSUME NEW l \in Loops, LoopStep(l) PROVE TypeInv'
    BY <1>1, PollTypes, MessageTypes, StreamEndsTypes, EndHandlingTypes, BatchTypes,
       RunFunctorTypes DEF LoopStep
  <1> QED BY <1>1, AcceptTypes, StartingTypes, UserTypes, StutterTypes DEF Next

\* Every variable keeps its type, whatever the peers do: a channel is in a
\* poller only after connectEstablished, and enabled only while it is in one and
\* its connection is not closed; start has pushed every loop before it listens.
THEOREM TypeCorrect == Spec => []TypeOK
  <1>1. TypeInv /\ [Next]_vars => TypeInv'
    BY NextTypes
  <1> QED BY InitTypes, <1>1, TypesSuffice, PTL DEF Spec

-----------------------------------------------------------------------------
(* Names and pollers.  A connection that anything keeps has the name of    *)
(* its descriptor to itself, and one that is in a poller is kept by        *)
(* connections_ or by the functor that takes it out.                       *)

Open(c) == state[c] \in {"Connecting", "Connected", "DisConnecting"}
Registered(c) == fd[c] \in Fds /\ connections[fd[c]] = c

Kept(c) ==
    \/ \E f \in Fds : connections[f] = c
    \/ held[c]
    \/ \E l \in Loops :
          c \in done[l] \/ \E op \in Strong : Queued(l, Functor(op, c))

NamesInv ==
    \A c \in Conns :
       /\ Open(c) => Registered(c)
       /\ inPoller[c] => Registered(c) \/ Queued(loop[c], Unpoll(c))
       /\ Kept(c) => fd[c] \in Fds /\ connections[fd[c]] \in {c, None}

Handled(l, c) == phase[l] = "handle" /\ loop[c] = l /\ inPoller[c]

Rounds ==
    \A l \in Loops :
       /\ batch[l] # <<>> => phase[l] = "functors"
       /\ \/ handler[l] = Idle
          \/ handler[l].conn \in Conns /\ Handled(l, handler[l].conn)
       /\ \A e \in active[l] : Handled(l, e.conn)
       /\ \A c \in Conns : Queued(l, Unpoll(c)) => l = loop[c]

KeepInv == TypeInv /\ NamesInv /\ Rounds

\* What is kept is alive.
LEMMA KeptIsAlive ==
  ASSUME QueueType, NEW c, Kept(c)
  PROVE  Alive(c)
  <1>1. CASE \E l \in Loops, op \in Strong : Queued(l, Functor(op, c))
    BY <1>1, QueuedIsAlive
  <1> QED BY <1>1 DEF Kept, Alive

\* One in a poller is kept, and so is one that a queued functor holds.
LEMMA ReasonsToKeep ==
  ASSUME TypeInv, NEW c \in Conns
  PROVE  /\ Registered(c) => Kept(c)
         /\ \A l \in Loops : Queued(l, Unpoll(c)) \/ Queued(l, Remove(c))
                             \/ Queued(l, Establish(c)) => Kept(c)
         /\ NamesInv /\ (inPoller[c] \/ Open(c)) => Kept(c)
  <1>1. Registered(c) => Kept(c)
    BY DEF Registered, Kept
  <1>2. \A l \in Loops : Queued(l, Unpoll(c)) \/ Queued(l, Remove(c))
                             \/ Queued(l, Establish(c)) => Kept(c)
    BY DEF Kept, Unpoll, Remove, Establish, Strong
  <1>3. loop[c] \in Loops
    BY DEF TypeInv, ConnType
  <1> QED BY <1>1, <1>2, <1>3 DEF NamesInv

LEMMA InitKeep == Init => KeepInv
  <1> SUFFICES ASSUME Init PROVE KeepInv
    OBVIOUS
  <1>1. TypeInv
    BY InitTypes
  <1>2. \A l \in Loops : \A y : ~Queued(l, y)
    BY InEmpty DEF Init, Queued
  <1>3. \A c \in Conns : state[c] = "none" /\ ~inPoller[c] /\ ~held[c]
    BY DEF Init
  <1>4. \A c \in Conns : ~Kept(c)
    <2>1. \A f \in Fds, c \in Conns : connections[f] # c
      BY NoneIsNoConn DEF Init
    <2>2. \A l \in Loops : done[l] = {}
      BY DEF Init
    <2> QED BY <1>2, <1>3, <2>1, <2>2 DEF Kept
  <1>5. NamesInv
    BY <1>3, <1>4 DEF NamesInv, Open
  <1>6. Rounds
    BY <1>2 DEF Rounds, Init
  <1> QED BY <1>1, <1>5, <1>6 DEF KeepInv

\* A step that leaves the names alone.
LEMMA NamesFrame ==
  ASSUME NamesInv, UNCHANGED <<fd, loop, connections>>,
         \A c \in Conns :
            /\ Open(c)' => Open(c)
            /\ inPoller'[c] => \/ Open(c)
                               \/ /\ inPoller[c]
                                  /\ Queued(loop[c], Unpoll(c)) => Queued(loop[c], Unpoll(c))'
            /\ Kept(c)' => Kept(c)
  PROVE  NamesInv'
  <1>1. \A c \in Conns : Registered(c)' <=> Registered(c)
    BY DEF Registered
  <1> SUFFICES ASSUME NEW c \in Conns
               PROVE  /\ Open(c)' => Registered(c)'
                      /\ inPoller'[c] => Registered(c)' \/ Queued(loop[c], Unpoll(c))'
                      /\ Kept(c)' => fd[c] \in Fds /\ connections[fd[c]] \in {c, None}
    BY <1>1 DEF NamesInv
  <1> QED BY <1>1 DEF NamesInv

\* A step that keeps nothing more.
LEMMA KeptFrame ==
  ASSUME \A f \in Fds : connections'[f] \in {connections[f], None},
         \A l \in Loops : done'[l] \subseteq done[l] \cup {c \in Conns : Kept(c)},
         \A l \in Loops, c \in Conns, op \in Strong :
            Queued(l, Functor(op, c))' => Queued(l, Functor(op, c)) \/ Kept(c),
         \A c \in Conns : held'[c] => held[c] \/ Kept(c)
  PROVE  \A c \in Conns : Kept(c)' => Kept(c)
  <1> SUFFICES ASSUME NEW c \in Conns, Kept(c)' PROVE Kept(c)
    OBVIOUS
  <1>1. CASE \E f \in Fds : connections'[f] = c
    BY <1>1, NoneIsNoConn DEF Kept
  <1>2. CASE held'[c]
    BY <1>2 DEF Kept
  <1>3. ASSUME NEW l \in Loops, c \in done'[l] PROVE Kept(c)
    BY <1>3 DEF Kept
  <1>4. ASSUME NEW l \in Loops, NEW op \in Strong, Queued(l, Functor(op, c))'
        PROVE  Kept(c)
    BY <1>4 DEF Kept
  <1>5. \/ \E f \in Fds : connections'[f] = c
        \/ held'[c]
        \/ \E l \in Loops : \/ c \in done'[l]
                            \/ \E op \in Strong : Queued(l, Functor(op, c))'
    BY DEF Kept
  <1> QED BY <1>1, <1>2, <1>3, <1>4, <1>5

\* The name of a closed connection is erased, and its functor is queued.
LEMMA NamesErased ==
  ASSUME TypeInv, NamesInv, NEW c \in Conns, Registered(c), ~Open(c)',
         connections' = [connections EXCEPT ![fd[c]] = None], UNCHANGED <<fd, loop>>,
         Queued(loop[c], Unpoll(c))',
         \A d \in Conns :
            /\ Open(d)' => Open(d)
            /\ inPoller'[d] => inPoller[d]
            /\ Queued(loop[d], Unpoll(d)) => Queued(loop[d], Unpoll(d))'
            /\ Kept(d)' => Kept(d)
  PROVE  NamesInv'
  <1>1. \A f \in Fds : connections'[f] = IF f = fd[c] THEN None ELSE connections[f]
    BY DEF TypeInv, ConnType
  <1>2. ASSUME NEW d \in Conns, d # c, Registered(d)
        PROVE  Registered(d)'
    BY <1>1, <1>2 DEF Registered
  <1>3. ASSUME NEW d \in Conns, Kept(d)'
        PROVE  fd[d] \in Fds /\ connections'[fd[d]] \in {d, None}
    BY <1>1, <1>3 DEF NamesInv
  <1> SUFFICES ASSUME NEW d \in Conns
               PROVE  /\ Open(d)' => Registered(d)'
                      /\ inPoller'[d] => Registered(d)' \/ Queued(loop[d], Unpoll(d))'
                      /\ Kept(d)' => fd[d] \in Fds /\ connections'[fd[d]] \in {d, None}
    BY DEF NamesInv
  <1> QED BY <1>2, <1>3 DEF NamesInv

\* Neither functors nor names are touched.
LEMMA QuietNames ==
  ASSUME KeepInv, UNCHANGED <<fd, loop, connections, inPoller, pending, batch, done>>,
         \A c \in Conns : Open(c)' => Open(c),
         \A c \in Conns : held'[c] => held[c]
  PROVE  NamesInv'
  <1>1. \A l, y : Queued(l, y)' <=> Queued(l, y)
    BY DEF Queued
  <1>2. \A c \in Conns : Kept(c)' => Kept(c)
    BY <1>1, KeptFrame
  <1>3. \A c \in Conns : Queued(loop[c], Unpoll(c))' <=> Queued(loop[c], Unpoll(c))
    BY DEF Queued, Unpoll, Functor
  <1> QED BY <1>2, <1>3, NamesFrame DEF KeepInv

LEMMA StartingKeeps ==
  ASSUME KeepInv, Starting \/ (\E c \in Conns : Release(c) \/ PeerEnds(c)) \/ UNCHANGED vars
  PROVE  NamesInv' /\ Rounds'
  <1>1. /\ UNCHANGED <<state, fd, loop, connections, inPoller, pending, batch, done, phase,
                       active, handler>>
        /\ \A c \in Conns : held'[c] => held[c]
    <2>1. CASE Starting \/ UNCHANGED vars
      BY <2>1 DEF Starting, vars, connVars, functorVars, loopVars
    <2>2. ASSUME NEW c \in Conns, Release(c) \/ PeerEnds(c)
          PROVE  /\ UNCHANGED <<state, fd, loop, connections, inPoller, pending, batch, done,
                                phase, active, handler>>
                 /\ \A d \in Conns : held'[d] => held[d]
      BY <2>2 DEF Release, PeerEnds, connVars, functorVars, loopVars, KeepInv, TypeInv, ConnType
    <2> QED BY <2>1, <2>2
  <1>2. NamesInv'
    BY <1>1, QuietNames DEF Open
  <1>3. Rounds'
    BY <1>1 DEF KeepInv, Rounds, Handled, Queued, Idle, Unpoll, Functor
  <1> QED BY <1>2, <1>3

LEMMA PollKeeps ==
  ASSUME KeepInv, NEW l \in Loops, Poll(l)
  PROVE  NamesInv' /\ Rounds'
  <1>1. /\ phase[l] = "poll" /\ phase' = [phase EXCEPT ![l] = "handle"]
        /\ UNCHANGED <<state, fd, loop, connections, reading, inPoller, held, pending, batch,
                       done, handler>>
    BY DEF Poll, functorVars, connVars
  <1>2. PICK A \in SUBSET Conns :
           /\ \A c \in A : reading[c] /\ loop[c] = l
           /\ active' = [active EXCEPT ![l] = {Report(c) : c \in A}]
    BY DEF Poll
  <1>3. NamesInv'
    BY <1>1, QuietNames DEF Open
  <1>4. batch[l] = <<>> /\ handler[l] = Idle
    BY <1>1 DEF KeepInv, Rounds, Handled
  <1>5. /\ phase'[l] = "handle" /\ \A m \in Loops : m # l => phase'[m] = phase[m]
        /\ active'[l] = {Report(c) : c \in A}
        /\ \A m \in Loops : m # l => active'[m] = active[m]
    BY <1>1, <1>2 DEF KeepInv, TypeInv, RoundType
  <1>6. \A e \in active'[l] : loop[e.conn] = l /\ inPoller[e.conn]
    BY <1>2, <1>5 DEF Report, KeepInv, TypeInv, ConnType
  <1>7. \A m, y : Queued(m, y)' <=> Queued(m, y)
    BY <1>1 DEF Queued
  <1> SUFFICES ASSUME NEW m \in Loops
               PROVE  /\ batch'[m] # <<>> => phase'[m] = "functors"
                      /\ \/ handler'[m] = Idle'
                         \/ (handler[m].conn \in Conns /\ Handled(m, handler[m].conn))'
                      /\ \A e \in active'[m] : Handled(m, e.conn)'
                      /\ \A c \in Conns : Queued(m, Unpoll(c))' => m = loop'[c]
    BY <1>3 DEF Rounds
  <1>8. Idle' = Idle /\ \A c \in Conns : Queued(m, Unpoll(c))' => Queued(m, Unpoll(c))
    BY <1>7, FunctorsDiffer DEF Idle
  <1>9. CASE m = l
    BY <1>1, <1>4, <1>5, <1>6, <1>8, <1>9 DEF KeepInv, Rounds, Handled
  <1>10. CASE m # l
    BY <1>1, <1>5, <1>8, <1>10 DEF KeepInv, Rounds, Handled
  <1> QED BY <1>9, <1>10

\* The channel whose callback runs is in this loop's poller.
LEMMA CallbackRounds ==
  ASSUME KeepInv, NEW l \in Loops, NEW c \in Conns, NextCallback(l, c)
  PROVE  /\ Handled(l, c) /\ Kept(c)
         /\ /\ UNCHANGED <<loop, inPoller, batch, phase>>
            /\ \A m \in Loops, d \in Conns :
                  Queued(m, Unpoll(d))' => Queued(m, Unpoll(d)) \/ m = loop[d]
            => Rounds'
  <1>1. Handled(l, c)
    <2>1. Idle.conn # c
      BY NoneIsNoConn DEF Idle
    <2> QED BY <2>1 DEF NextCallback, KeepInv, Rounds
  <1>2. Kept(c)
    BY <1>1, ReasonsToKeep DEF Handled, KeepInv
  <1>3. /\ handler'[l].conn = c
        /\ \A m \in Loops : m # l => handler'[m] = handler[m]
        /\ \A m \in Loops : active'[m] \subseteq active[m]
    BY CallbackStarts DEF KeepInv, TypeInv
  <1>4. ASSUME UNCHANGED <<loop, inPoller, batch, phase>>,
               \A m \in Loops, d \in Conns :
                  Queued(m, Unpoll(d))' => Queued(m, Unpoll(d)) \/ m = loop[d]
        PROVE  Rounds'
    <2> SUFFICES ASSUME NEW m \in Loops
                 PROVE  /\ batch'[m] # <<>> => phase'[m] = "functors"
                        /\ \/ handler'[m] = Idle'
                           \/ (handler[m].conn \in Conns /\ Handled(m, handler[m].conn))'
                        /\ \A e \in active'[m] : Handled(m, e.conn)'
                        /\ \A d \in Conns : Queued(m, Unpoll(d))' => m = loop'[d]
      BY DEF Rounds
    <2>1. \A d : Handled(m, d)' <=> Handled(m, d)
      BY <1>4 DEF Handled
    <2>2. \/ handler'[m] = Idle'
          \/ (handler[m].conn \in Conns /\ Handled(m, handler[m].conn))'
      <3>1. CASE m = l
        BY <1>1, <1>3, <1>4, <3>1 DEF Handled
      <3>2. CASE m # l
        BY <1>3, <1>4, <3>2 DEF KeepInv, Rounds, Handled, Idle
      <3> QED BY <3>1, <3>2
    <2>3. \A e \in active'[m] : Handled(m, e.conn)'
      BY <1>3, <1>4 DEF KeepInv, Rounds, Handled
    <2> QED BY <1>4, <2>2, <2>3 DEF KeepInv, Rounds
  <1> QED BY <1>1, <1>2, <1>4

LEMMA MessageKeeps ==
  ASSUME KeepInv, NEW l \in Loops, NEW c \in Conns, MessageArrives(l, c)
  PROVE  NamesInv' /\ Rounds'
  <1>1. /\ NextCallback(l, c) /\ (ShutdownInLoop(c) \/ UNCHANGED state)
        /\ UNCHANGED <<fd, loop, connections, reading, inPoller, held, peer, pending, batch,
                       done, phase>>
    BY DEF MessageArrives, functorVars
  <1>2. \A d \in Conns : Open(d)' => Open(d)
    BY <1>1 DEF ShutdownInLoop, Open, KeepInv, TypeInv, ConnType
  <1>3. NamesInv'
    BY <1>1, <1>2, QuietNames
  <1>4. \A m \in Loops, d \in Conns : Queued(m, Unpoll(d))' => Queued(m, Unpoll(d))
    BY <1>1 DEF Queued, Unpoll, Functor
  <1> QED BY <1>1, <1>3, <1>4, CallbackRounds

\* removeConnection erases the name of a connection that is kept, or fails.
LEMMA RemovalNames ==
  ASSUME KeepInv, NEW c \in Conns, Kept(c), ~Open(c)', RemoveConnection(c),
         \A d \in Conns : Open(d)' => Open(d),
         \A l \in Loops, d \in Conns : Queued(l, Unpoll(d)) => Queued(l, Unpoll(d))',
         Queue(loop[c], Unpoll(c)) => Queued(loop[c], Unpoll(c))',
         \A l \in Loops, d \in Conns, op \in Strong :
            Queued(l, Functor(op, d))' => Queued(l, Functor(op, d)) \/ d = c,
         \A l \in Loops : done'[l] \subseteq done[l] \cup {d \in Conns : Kept(d)},
         UNCHANGED <<fd, loop, held>>
  PROVE  NamesInv'
  <1>1. UNCHANGED inPoller
    BY DEF RemoveConnection
  <1>2. fd[c] \in Fds /\ connections[fd[c]] \in {c, None}
    BY DEF KeepInv, NamesInv
  <1>3. \A f \in Fds : connections'[f] \in {connections[f], None}
    BY DEF RemoveConnection, KeepInv, TypeInv, ConnType
  <1>4. \A d \in Conns : Kept(d)' => Kept(d)
    BY <1>3, KeptFrame
  <1>5. \A d \in Conns : Queued(loop[d], Unpoll(d)) => Queued(loop[d], Unpoll(d))'
    BY DEF KeepInv, TypeInv, ConnType
  <1>6. CASE connections' = connections
    BY <1>1, <1>4, <1>5, <1>6, NamesFrame DEF KeepInv
  <1>7. CASE /\ connections[fd[c]] # None
             /\ connections' = [connections EXCEPT ![fd[c]] = None]
             /\ Queue(loop[c], Unpoll(c))
    <2>1. Registered(c)
      BY <1>2, <1>7 DEF Registered
    <2> QED BY <1>1, <1>4, <1>5, <1>7, <2>1, NamesErased DEF KeepInv
  <1> QED BY <1>6, <1>7 DEF RemoveConnection, Unpoll

\* What is queued for a connection, and by whom.
LEMMA QueueFrame ==
  ASSUME QueueType, NEW k \in Loops, NEW c \in Conns, NEW x \in Functors,
         x \in {Establish(c), Remove(c), Unpoll(c), Shutdown(c)}, Queue(k, x), batch' = batch
  PROVE  /\ Queued(k, x)'
         /\ \A l \in Loops : \A y \in Functors : Queued(l, y) => Queued(l, y)'
         /\ \A l \in Loops, d \in Conns :
               Queued(l, Unpoll(d))' => Queued(l, Unpoll(d)) \/ (l = k /\ d = c /\ x = Unpoll(c))
         /\ \A l \in Loops, d \in Conns, op \in Strong :
               Queued(l, Functor(op, d))'
                  => Queued(l, Functor(op, d)) \/ (d = c /\ x # Shutdown(c))
  <1>1. \A m \in Loops : \A y : Queued(m, y)' <=> Queued(m, y) \/ (m = k /\ y = x)
    BY QueueGrows
  <1>2. \A d, op : /\ op \in Strong => Functor(op, d) # Shutdown(c)
                   /\ Functor(op, d) = x => d = c
    BY DEF Functor, Establish, Remove, Unpoll, Shutdown, Strong, Raw
  <1>3. \A d \in Conns : Unpoll(d) = x => d = c
    BY FunctorsDiffer
  <1>4. ASSUME NEW l \in Loops, NEW d \in Conns, NEW op \in Strong, Queued(l, Functor(op, d))'
        PROVE  Queued(l, Functor(op, d)) \/ (d = c /\ x # Shutdown(c))
    <2> DEFINE y == Functor(op, d)
    <2>1. y = x => d = c /\ x # Shutdown(c)
      BY <1>2
    <2>2. Queued(l, y)'
      BY <1>4
    <2>3. y' = y
      BY DEF Functor
    <2> HIDE DEF y
    <2>4. Queued(l, y) \/ y = x
      BY <1>1, <2>2, <2>3
    <2> QED BY <2>1, <2>4 DEF y
  <1>5. ASSUME NEW l \in Loops, NEW d \in Conns, Queued(l, Unpoll(d))'
        PROVE  Queued(l, Unpoll(d)) \/ (l = k /\ d = c /\ x = Unpoll(c))
    BY <1>1, <1>3, <1>5, FunctorsDiffer
  <1> QED BY <1>1, <1>4, <1>5

LEMMA StreamEndsKeeps ==
  ASSUME KeepInv, TypeInv', NEW l \in Loops, NEW c \in Conns, StreamEnds(l, c)
  PROVE  NamesInv' /\ Rounds'
  <1>1. /\ NextCallback(l, c) /\ HandleClose(c)
        /\ UNCHANGED <<fd, loop, held, batch, done, phase>>
    BY DEF StreamEnds
  <1>2. Handled(l, c) /\ Kept(c)
    BY <1>1, CallbackRounds
  <1>3. /\ ~Open(c)' /\ inPoller' = inPoller
        /\ \A d \in Conns : Open(d)' => Open(d)
        /\ CloseConnection(c)
    BY <1>1 DEF HandleClose, CloseConnection, RemoveConnection, Open, KeepInv, TypeInv, ConnType
  <1>4. PICK k \in Loops : k = loop[c]
    BY DEF KeepInv, TypeInv, ConnType
  <1>5. QueueType
    BY DEF KeepInv, TypeInv
  <1>6. CASE RemoveConnection(c) /\ pending' = pending
    <2>1. \A m, y : Queued(m, y)' <=> Queued(m, y)
      BY <1>1, <1>6 DEF Queued
    <2>2. \A m \in Loops, d \in Conns : Queued(m, Unpoll(d))' <=> Queued(m, Unpoll(d))
      BY <1>1, <1>6 DEF Queued, Unpoll, Functor
    <2>3. ~Queue(loop[c], Unpoll(c)) \/ Queued(loop[c], Unpoll(c))'
      <3>1. CASE Queue(k, Unpoll(c))
        BY <1>1, <1>4, <1>5, <3>1, QueueFrame, FunctorsDiffer
      <3> QED BY <1>1, <1>4, <3>1
    <2>4. NamesInv'
      BY <1>1, <1>2, <1>3, <1>6, <2>1, <2>2, <2>3, RemovalNames
    <2> QED BY <1>1, <1>3, <2>2, <2>4, CallbackRounds
  <1>7. CASE RemoveConnection(c) /\ Queue(loop[c], Unpoll(c))
    <2>1. Queue(k, Unpoll(c))
      BY <1>4, <1>7
    <2>2. /\ Queued(k, Unpoll(c))'
          /\ \A m \in Loops, d \in Conns : Queued(m, Unpoll(d)) => Queued(m, Unpoll(d))'
          /\ \A m \in Loops, d \in Conns :
                Queued(m, Unpoll(d))' => Queued(m, Unpoll(d)) \/ (m = k /\ d = c)
          /\ \A m \in Loops, d \in Conns, op \in Strong :
                Queued(m, Functor(op, d))' => Queued(m, Functor(op, d)) \/ d = c
      BY <1>1, <1>5, <2>1, QueueFrame, FunctorsDiffer
    <2>3. Queued(loop[c], Unpoll(c))'
      BY <1>1, <1>4, <2>2
    <2>4. NamesInv'
      BY <1>1, <1>2, <1>3, <1>7, <2>2, <2>3, RemovalNames
    <2> QED BY <1>1, <1>3, <1>4, <2>2, <2>4, CallbackRounds
  <1>8. CASE Queue(Base, Remove(c)) /\ UNCHANGED connections
    <2>2. /\ \A m \in Loops, d \in Conns : Queued(m, Unpoll(d)) => Queued(m, Unpoll(d))'
          /\ \A m \in Loops, d \in Conns : Queued(m, Unpoll(d))' => Queued(m, Unpoll(d))
          /\ \A m \in Loops, d \in Conns, op \in Strong :
                Queued(m, Functor(op, d))' => Queued(m, Functor(op, d)) \/ d = c
      BY <1>1, <1>5, <1>8, QueueFrame, FunctorsDiffer, LoopsAreLoops
    <2>3. \A d \in Conns : Kept(d)' => Kept(d)
      BY <1>1, <1>2, <1>8, <2>2, KeptFrame
    <2>4. \A d \in Conns : Queued(loop[d], Unpoll(d)) => Queued(loop[d], Unpoll(d))'
      BY <1>1, <2>2 DEF KeepInv, TypeInv, ConnType
    <2>5. NamesInv'
      BY <1>1, <1>3, <1>8, <2>3, <2>4, NamesFrame DEF KeepInv
    <2> QED BY <1>1, <1>3, <2>2, <2>5, CallbackRounds
  <1> QED BY <1>3, <1>6, <1>7, <1>8 DEF CloseConnection, RemoveConnection, Remove, Unpoll

LEMMA EndHandlingKeeps ==
  ASSUME KeepInv, NEW l \in Loops, EndHandling(l)
  PROVE  NamesInv' /\ Rounds'
  <1>1. /\ handler' = [handler EXCEPT ![l] = Idle]
        /\ UNCHANGED <<state, fd, loop, connections, inPoller, held, pending, batch, done,
                       phase, active>>
    BY DEF EndHandling, functorVars, connVars
  <1>2. NamesInv'
    BY <1>1, QuietNames DEF Open
  <1>3. \A m \in Loops : handler'[m] = Idle \/ handler'[m] = handler[m]
    BY <1>1 DEF KeepInv, TypeInv, RoundType
  <1>4. \A m \in Loops, c \in Conns : Queued(m, Unpoll(c))' <=> Queued(m, Unpoll(c))
    BY <1>1 DEF Queued, Unpoll, Functor
  <1>5. \A m, c : Handled(m, c)' <=> Handled(m, c)
    BY <1>1 DEF Handled
  <1> SUFFICES ASSUME NEW m \in Loops
               PROVE  /\ batch'[m] # <<>> => phase'[m] = "functors"
                      /\ \/ handler'[m] = Idle'
                         \/ (handler[m].conn \in Conns /\ Handled(m, handler[m].conn))'
                      /\ \A e \in active'[m] : Handled(m, e.conn)'
                      /\ \A d \in Conns : Queued(m, Unpoll(d))' => m = loop'[d]
    BY <1>2 DEF Rounds
  <1>6. \/ handler'[m] = Idle'
        \/ (handler[m].conn \in Conns /\ Handled(m, handler[m].conn))'
    BY <1>1, <1>3 DEF KeepInv, Rounds, Idle, Handled
  <1> QED BY <1>1, <1>4, <1>5, <1>6 DEF KeepInv, Rounds

\* A batch begins when everything reported has been handled, and ends when it
\* is empty.
LEMMA BatchKeeps ==
  ASSUME KeepInv, NEW l \in Loops, BeginBatch(l) \/ EndBatch(l)
  PROVE  NamesInv' /\ Rounds'
  <1>1. /\ UNCHANGED <<state, fd, loop, connections, inPoller, held, active, handler>>
        /\ \A m \in Loops : done'[m] \subseteq done[m]
    <2>1. done' = done \/ done' = [done EXCEPT ![l] = {}]
      BY DEF BeginBatch, EndBatch
    <2> QED BY <2>1 DEF BeginBatch, EndBatch, connVars, KeepInv, TypeInv, RoundType
  <1>2. /\ batch[l] = <<>>
        /\ active[l] = {} /\ handler[l] = Idle
        /\ \A m \in Loops : m # l => phase'[m] = phase[m] /\ batch'[m] = batch[m]
        /\ batch'[l] # <<>> => phase'[l] = "functors"
    <2>1. CASE BeginBatch(l)
      BY <2>1 DEF BeginBatch, KeepInv, TypeInv, RoundType, QueueType, Rounds
    <2>2. CASE EndBatch(l)
      BY <2>2 DEF EndBatch, KeepInv, TypeInv, RoundType, Rounds, Handled
    <2> QED BY <2>1, <2>2
  <1>3. \A m \in Loops : \A y :
           (Queued(m, y)' => Queued(m, y)) /\ (Queued(m, y) => Queued(m, y)')
    <2>1. CASE BeginBatch(l)
      BY <1>2, <2>1, QueueBegins DEF BeginBatch, KeepInv, TypeInv
    <2>2. CASE EndBatch(l)
      BY <2>2, QueueRests DEF EndBatch, KeepInv, TypeInv
    <2> QED BY <2>1, <2>2
  <1>4. \A m \in Loops, d \in Conns : Queued(m, Unpoll(d))' <=> Queued(m, Unpoll(d))
    BY <1>3, FunctorsDiffer
  <1>5. \A m \in Loops, d \in Conns, op \in Strong :
           Queued(m, Functor(op, d))' => Queued(m, Functor(op, d))
    BY <1>3 DEF Functor
  <1>6. \A c \in Conns : Kept(c)' => Kept(c)
    BY <1>1, <1>5, KeptFrame
  <1>7. \A d \in Conns : Queued(loop[d], Unpoll(d)) => Queued(loop[d], Unpoll(d))'
    BY <1>1, <1>4 DEF KeepInv, TypeInv, ConnType
  <1>8. NamesInv'
    BY <1>1, <1>6, <1>7, NamesFrame DEF Open, KeepInv
  <1> SUFFICES ASSUME NEW m \in Loops
               PROVE  /\ batch'[m] # <<>> => phase'[m] = "functors"
                      /\ \/ handler'[m] = Idle'
                         \/ (handler[m].conn \in Conns /\ Handled(m, handler[m].conn))'
                      /\ \A e \in active'[m] : Handled(m, e.conn)'
                      /\ \A d \in Conns : Queued(m, Unpoll(d))' => m = loop'[d]
    BY <1>8 DEF Rounds
  <1>9. CASE m = l
    BY <1>1, <1>2, <1>4, <1>9 DEF KeepInv, Rounds, Idle
  <1>10. CASE m # l
    BY <1>1, <1>2, <1>4, <1>10 DEF KeepInv, Rounds, Handled, Idle
  <1> QED BY <1>9, <1>10

LEMMA UserShutdownKeeps ==
  ASSUME KeepInv, NEW c \in Conns, UserShutdown(c)
  PROVE  NamesInv' /\ Rounds'
  <1>1. /\ UNCHANGED <<state, fd, loop, connections, inPoller, held, batch, done, phase, active,
                       handler>>
        /\ Queue(loop[c], Shutdown(c))
    BY DEF UserShutdown, connVars, loopVars, Shutdown
  <1>2. PICK k \in Loops : k = loop[c]
    BY DEF KeepInv, TypeInv, ConnType
  <1>3. Queue(k, Shutdown(c)) /\ QueueType
    BY <1>1, <1>2 DEF KeepInv, TypeInv
  <1>4. /\ \A m \in Loops, d \in Conns : Queued(m, Unpoll(d)) => Queued(m, Unpoll(d))'
        /\ \A m \in Loops, d \in Conns : Queued(m, Unpoll(d))' => Queued(m, Unpoll(d))
        /\ \A m \in Loops, d \in Conns, op \in Strong :
              Queued(m, Functor(op, d))' => Queued(m, Functor(op, d))
    BY <1>1, <1>3, QueueFrame, FunctorsDiffer
  <1>5. \A d \in Conns : Kept(d)' => Kept(d)
    BY <1>1, <1>4, KeptFrame
  <1>6. \A d \in Conns : Queued(loop[d], Unpoll(d)) => Queued(loop[d], Unpoll(d))'
    BY <1>1, <1>4 DEF KeepInv, TypeInv, ConnType
  <1>7. NamesInv'
    BY <1>1, <1>5, <1>6, NamesFrame DEF Open, KeepInv
  <1>8. Rounds'
    <2>1. \A m, d : Handled(m, d)' <=> Handled(m, d)
      BY <1>1 DEF Handled
    <2> QED BY <1>1, <1>4, <2>1 DEF KeepInv, Rounds, Idle, Handled
  <1> QED BY <1>7, <1>8

\* What a functor keeps while it runs, its batch keeps until it ends.
LEMMA DoneKeeps ==
  ASSUME TypeInv, NEW l \in Loops, RunFunctor(l)
  PROVE  \A m \in Loops : done'[m] \subseteq done[m] \cup {d \in Conns : Kept(d)}
  <1> DEFINE f == Head(batch[l])
  <1>1. f \in Functors /\ Queued(l, f)
    BY QueueShrinks, InTail DEF RunFunctor, TypeInv, QueueType, Queued
  <1>2. \/ f.op \in Strong /\ done' = [done EXCEPT ![l] = @ \cup {f.conn}]
        \/ done' = [done EXCEPT ![l] = @]
    BY DEF RunFunctor
  <1>3. f.conn \in Conns /\ f = Functor(f.op, f.conn)
    BY <1>1 DEF Functors, Functor
  <1> HIDE DEF f
  <1>4. f.op \in Strong => Kept(f.conn)
    <2>1. PICK x \in Functors : x = Functor(f.op, f.conn) /\ x = f
      BY <1>1, <1>3
    <2>2. Queued(l, x)
      BY <1>1, <2>1
    <2>3. Queued(l, Functor(f.op, f.conn))
      BY <2>1, <2>2
    <2> QED BY <2>3 DEF Kept
  <1>5. ASSUME NEW m \in Loops, NEW d \in done'[m]
        PROVE  d \in done[m] \/ (d = f.conn /\ f.op \in Strong)
    BY <1>2 DEF TypeInv, RoundType
  <1> QED BY <1>3, <1>4, <1>5

LEMMA ShrinkFrame ==
  ASSUME QueueType, NEW l \in Loops, batch[l] # <<>>,
         batch' = [batch EXCEPT ![l] = Tail(@)], pending' = pending
  PROVE  /\ \A m \in Loops, d \in Conns : Queued(m, Unpoll(d))' => Queued(m, Unpoll(d))
         /\ \A m \in Loops, d \in Conns :
               Queued(m, Unpoll(d)) /\ Head(batch[l]) # Unpoll(d) => Queued(m, Unpoll(d))'
         /\ \A m \in Loops, d \in Conns, op \in Strong :
               Queued(m, Functor(op, d))' => Queued(m, Functor(op, d))
  <1>1. \A m \in Loops : \A y :
           /\ Queued(m, y)' => Queued(m, y)
           /\ Queued(m, y) /\ (m = l => y # Head(batch[l])) => Queued(m, y)'
    BY QueueShrinks
  <1>2. \A m \in Loops, d \in Conns, op \in Strong :
           Queued(m, Functor(op, d))' => Queued(m, Functor(op, d))
    BY <1>1 DEF Functor
  <1> QED BY <1>1, <1>2, FunctorsDiffer

LEMMA TurnFrame ==
  ASSUME QueueType, NEW l \in Loops, TakesHead(l), NEW c \in Conns, Head(batch[l]) = Remove(c),
         NEW k \in Loops, Queue(k, Unpoll(c))
  PROVE  /\ Queued(k, Unpoll(c))'
         /\ \A m \in Loops, d \in Conns :
               Queued(m, Unpoll(d))' => Queued(m, Unpoll(d)) \/ (m = k /\ d = c)
         /\ \A m \in Loops, d \in Conns : Queued(m, Unpoll(d)) => Queued(m, Unpoll(d))'
         /\ \A m \in Loops, d \in Conns, op \in Strong :
               Queued(m, Functor(op, d))' => Queued(m, Functor(op, d)) \/ d = c
  <1>1. PICK x \in Functors : x = Unpoll(c)
    BY FunctorsDiffer
  <1>2. Queue(k, x)
    BY <1>1
  <1>3. /\ Queued(k, x)'
        /\ \A m \in Loops : \A y :
              /\ Queued(m, y)' => Queued(m, y) \/ (m = k /\ y = x)
              /\ Queued(m, y) /\ (m = l => y # Head(batch[l])) => Queued(m, y)'
    BY <1>2, QueueTurns
  <1>4. ASSUME NEW m \in Loops, NEW d \in Conns, NEW op \in Strong, Queued(m, Functor(op, d))'
        PROVE  Queued(m, Functor(op, d)) \/ d = c
    <2>1. Functor(op, d) = x => d = c
      BY <1>1 DEF Functor, Unpoll
    <2> QED BY <1>3, <1>4, <2>1 DEF Functor
  <1> QED BY <1>1, <1>3, <1>4, FunctorsDiffer

LEMMA RunFunctorKeeps ==
  ASSUME KeepInv, NEW l \in Loops, RunFunctor(l)
  PROVE  NamesInv' /\ Rounds'
  <1>1. /\ TakesHead(l) /\ batch[l] # <<>> /\ batch' = [batch EXCEPT ![l] = Tail(@)]
        /\ UNCHANGED <<fd, loop, phase, active, handler>>
        /\ QueueType /\ Queued(l, Head(batch[l]))
        /\ phase[l] = "functors"
    <2>1. /\ batch[l] # <<>> /\ batch' = [batch EXCEPT ![l] = Tail(@)]
          /\ UNCHANGED <<fd, loop, phase, active, handler>>
      BY FunctorRuns DEF KeepInv
    <2>2. QueueType /\ Queued(l, Head(batch[l]))
      BY <2>1, InTail DEF KeepInv, TypeInv, QueueType, Queued
    <2> QED BY <2>1, <2>2 DEF KeepInv, Rounds, TakesHead
  <1>2. \A m \in Loops : done'[m] \subseteq done[m] \cup {d \in Conns : Kept(d)}
    BY DoneKeeps DEF KeepInv
  <1>3. PICK c \in Conns :
            \/ /\ Head(batch[l]) = Establish(c) /\ ConnectEstablished(c)
               /\ UNCHANGED <<connections, pending, failed>>
            \/ /\ Head(batch[l]) = Remove(c) /\ RemoveConnection(c)
               /\ UNCHANGED <<state, reading, held, inPoller>>
            \/ /\ Head(batch[l]) = Unpoll(c)
               /\ inPoller' = [inPoller EXCEPT ![c] = FALSE]
               /\ UNCHANGED <<state, reading, connections, pending, held, failed>>
            \/ /\ Head(batch[l]) = Shutdown(c) /\ ShutdownInLoop(c)
               /\ UNCHANGED <<reading, inPoller, connections, pending, held, failed>>
    BY FunctorRuns DEF KeepInv
  <1>4. ASSUME \A m \in Loops, d \in Conns : Queued(m, Unpoll(d))' => m = loop[d],
               \A d \in Conns : inPoller[d] /\ ~inPoller'[d] => loop[d] = l
        PROVE  Rounds'
    <2>1. \A m \in Loops, d \in Conns : Handled(m, d) => Handled(m, d)'
      BY <1>1, <1>4 DEF Handled
    <2>2. \A m \in Loops : batch'[m] # <<>> => batch[m] # <<>>
      BY <1>1 DEF QueueType
    <2>3. \A m \in Loops : \A e \in active[m] : e.conn \in Conns
      BY DEF KeepInv, TypeInv, RoundType, Entries
    <2> SUFFICES ASSUME NEW m \in Loops
                 PROVE  /\ batch'[m] # <<>> => phase'[m] = "functors"
                        /\ \/ handler'[m] = Idle'
                           \/ (handler[m].conn \in Conns /\ Handled(m, handler[m].conn))'
                        /\ \A e \in active'[m] : Handled(m, e.conn)'
                        /\ \A d \in Conns : Queued(m, Unpoll(d))' => m = loop'[d]
      BY DEF Rounds
    <2>4. \/ handler'[m] = Idle'
          \/ (handler[m].conn \in Conns /\ Handled(m, handler[m].conn))'
      BY <1>1, <2>1 DEF KeepInv, Rounds, Idle, Handled
    <2>5. \A e \in active'[m] : Handled(m, e.conn)'
      BY <1>1, <2>1, <2>3 DEF KeepInv, Rounds
    <2> QED BY <1>1, <1>4, <2>2, <2>4, <2>5 DEF KeepInv, Rounds
  <1>5. CASE Head(batch[l]) = Remove(c) /\ RemoveConnection(c)
             /\ UNCHANGED <<state, reading, held, inPoller>>
    <2>1. ~Open(c)' /\ Kept(c) /\ \A d \in Conns : Open(d)' => Open(d)
      <3>1. Queued(l, Remove(c))
        BY <1>1, <1>5
      <3> QED BY <1>5, <3>1, ReasonsToKeep DEF KeepInv, TypeInv, WorkInv, Open
    <2>2. PICK k \in Loops : k = loop[c]
      BY DEF KeepInv, TypeInv, ConnType
    <2>3. CASE pending' = pending
      <3>1. /\ \A m \in Loops, d \in Conns : Queued(m, Unpoll(d))' => Queued(m, Unpoll(d))
            /\ \A m \in Loops, d \in Conns : Queued(m, Unpoll(d)) => Queued(m, Unpoll(d))'
            /\ \A m \in Loops, d \in Conns, op \in Strong :
                  Queued(m, Functor(op, d))' => Queued(m, Functor(op, d))
        BY <1>1, <1>5, <2>3, ShrinkFrame, FunctorsDiffer
      <3>2. ~Queue(loop[c], Unpoll(c)) \/ Queued(loop[c], Unpoll(c))'
        <4>1. CASE Queue(k, Unpoll(c))
          BY <1>1, <1>5, <2>2, <4>1, TurnFrame
        <4> QED BY <1>1, <2>2, <4>1
      <3>3. NamesInv'
        BY <1>1, <1>2, <1>5, <2>1, <3>1, <3>2, RemovalNames
      <3> QED BY <1>4, <1>5, <3>1, <3>3 DEF KeepInv, Rounds
    <2>4. CASE Queue(loop[c], Unpoll(c))
      <3>1. /\ Queued(k, Unpoll(c))'
            /\ \A m \in Loops, d \in Conns :
                  Queued(m, Unpoll(d))' => Queued(m, Unpoll(d)) \/ (m = k /\ d = c)
            /\ \A m \in Loops, d \in Conns : Queued(m, Unpoll(d)) => Queued(m, Unpoll(d))'
            /\ \A m \in Loops, d \in Conns, op \in Strong :
                  Queued(m, Functor(op, d))' => Queued(m, Functor(op, d)) \/ d = c
        <4>1. Queue(k, Unpoll(c))
          BY <2>2, <2>4
        <4> QED BY <1>1, <1>5, <4>1, TurnFrame
      <3>2. Queued(loop[c], Unpoll(c))'
        BY <1>1, <2>2, <3>1
      <3>3. NamesInv'
        BY <1>1, <1>2, <1>5, <2>1, <3>1, <3>2, RemovalNames
      <3> QED BY <1>4, <1>5, <2>2, <3>1, <3>3 DEF KeepInv, Rounds
    <2> QED BY <1>5, <2>3, <2>4 DEF RemoveConnection, Unpoll
  <1>6. CASE pending' = pending /\ connections' = connections /\ Head(batch[l]) # Remove(c)
    <2>1. /\ \A m \in Loops, d \in Conns : Queued(m, Unpoll(d))' => Queued(m, Unpoll(d))
          /\ \A m \in Loops, d \in Conns :
                Queued(m, Unpoll(d)) /\ Head(batch[l]) # Unpoll(d) => Queued(m, Unpoll(d))'
          /\ \A m \in Loops, d \in Conns, op \in Strong :
                Queued(m, Functor(op, d))' => Queued(m, Functor(op, d))
      BY <1>1, <1>6, ShrinkFrame
    <2>2. /\ \A d \in Conns : held'[d] => held[d] \/ Kept(d)
          /\ \A d \in Conns : Open(d)' => Open(d)
          /\ \A d \in Conns : inPoller'[d] => \/ Open(d)
                                             \/ (inPoller[d] /\ Head(batch[l]) # Unpoll(d))
          /\ \A d \in Conns : inPoller[d] /\ ~inPoller'[d] => loop[d] = l
      <3>1. CASE Head(batch[l]) = Establish(c) /\ ConnectEstablished(c)
        <4>1. Kept(c) /\ state[c] = "Connecting"
          BY <1>1, <3>1, ReasonsToKeep DEF KeepInv, TypeInv, WorkInv
        <4>2. \A d \in Conns : held'[d] => held[d] \/ d = c
          BY <3>1 DEF ConnectEstablished, KeepInv, TypeInv, ConnType
        <4>3. \A d \in Conns : d # c => state'[d] = state[d] /\ inPoller'[d] = inPoller[d]
          BY <3>1, EstablishedTypes DEF KeepInv, TypeInv
        <4>4. inPoller'[c]
          BY <3>1, EstablishedTypes DEF KeepInv, TypeInv
        <4> QED BY <3>1, <4>1, <4>2, <4>3, <4>4, FunctorsDiffer DEF Open
      <3>2. CASE /\ Head(batch[l]) = Unpoll(c)
                 /\ inPoller' = [inPoller EXCEPT ![c] = FALSE]
                 /\ UNCHANGED <<state, held>>
        <4>1. loop[c] = l
          BY <1>1, <3>2 DEF KeepInv, Rounds
        <4>2. \A d \in Conns : inPoller'[d] = IF d = c THEN FALSE ELSE inPoller[d]
          BY <3>2 DEF KeepInv, TypeInv, ConnType
        <4> QED BY <3>2, <4>1, <4>2, FunctorsDiffer DEF Open
      <3>3. CASE Head(batch[l]) = Shutdown(c) /\ ShutdownInLoop(c) /\ UNCHANGED <<inPoller, held>>
        <4>1. \A d \in Conns : Open(d)' => Open(d)
          BY <3>3 DEF ShutdownInLoop, Open, KeepInv, TypeInv, ConnType
        <4> QED BY <3>3, <4>1, FunctorsDiffer
      <3> QED BY <1>3, <1>6, <3>1, <3>2, <3>3
    <2>3. \A d \in Conns : Kept(d)' => Kept(d)
      BY <1>2, <1>6, <2>1, <2>2, KeptFrame
    <2>4. \A d \in Conns : Queued(loop[d], Unpoll(d)) /\ Head(batch[l]) # Unpoll(d)
                              => Queued(loop[d], Unpoll(d))'
      BY <1>1, <2>1 DEF KeepInv, TypeInv, ConnType
    <2>5. NamesInv'
      BY <1>1, <1>6, <2>2, <2>3, <2>4, NamesFrame DEF KeepInv
    <2> QED BY <1>4, <2>1, <2>2, <2>5 DEF KeepInv, Rounds
  <1> QED BY <1>3, <1>5, <1>6, FunctorsDiffer

\* The descriptor accept returns is nobody's name.
LEMMA AcceptKeeps ==
  ASSUME KeepInv, NEW c \in Conns, NEW f \in Fds, NEW l \in Loops, Accept(c, f, l)
  PROVE  NamesInv' /\ Rounds'
  <1>1. /\ state[c] = "none" /\ OnConnection(c, f, l)
        /\ \A d \in Conns : Alive(d) => fd[d] # f
        /\ UNCHANGED <<batch, done, phase, active, handler>>
        /\ fd' = [fd EXCEPT ![c] = f] /\ loop' = [loop EXCEPT ![c] = l]
        /\ connections' = [connections EXCEPT ![f] = c]
    BY DEF Accept, OnConnection, loopVars
  <1>2. \A d \in Conns : Kept(d) => fd[d] # f
    BY <1>1, KeptIsAlive DEF KeepInv, TypeInv
  <1>3. /\ fd'[c] = f /\ loop'[c] = l /\ connections'[f] = c
        /\ \A d \in Conns : d # c => fd'[d] = fd[d] /\ loop'[d] = loop[d]
        /\ \A g \in Fds : g # f => connections'[g] = connections[g]
    BY <1>1 DEF KeepInv, TypeInv, ConnType
  <1>4. /\ ~inPoller[c]
        /\ \A m \in Loops : ~Queued(m, Unpoll(c))
    BY <1>1 DEF KeepInv, TypeInv, ConnType, WorkInv, Settled
  <1>5. /\ \A m \in Loops, d \in Conns : Queued(m, Unpoll(d))' => Queued(m, Unpoll(d))
        /\ \A m \in Loops, d \in Conns : Queued(m, Unpoll(d)) => Queued(m, Unpoll(d))'
        /\ \A m \in Loops, d \in Conns, op \in Strong :
              Queued(m, Functor(op, d))' => Queued(m, Functor(op, d)) \/ d = c
        /\ \A d \in Conns : d # c =>
              held'[d] = held[d] /\ inPoller'[d] = inPoller[d] /\ state'[d] = state[d]
    <2>1. CASE ConnectEstablished(c) /\ pending' = pending
      <3>1. \A m, y : Queued(m, y)' <=> Queued(m, y)
        BY <1>1, <2>1 DEF Queued
      <3>2. /\ \A m \in Loops, d \in Conns : Queued(m, Unpoll(d))' <=> Queued(m, Unpoll(d))
            /\ \A m \in Loops, d \in Conns, op \in Strong :
                  Queued(m, Functor(op, d))' <=> Queued(m, Functor(op, d))
        BY <1>1, <2>1 DEF Queued, Unpoll, Functor
      <3>3. \A d \in Conns : d # c =>
              held'[d] = held[d] /\ inPoller'[d] = inPoller[d] /\ state'[d] = state[d]
        BY <2>1 DEF ConnectEstablished, KeepInv, TypeInv, ConnType
      <3> QED BY <3>2, <3>3
    <2>2. CASE /\ state' = [state EXCEPT ![c] = "Connecting"]
               /\ Queue(l, Establish(c)) /\ UNCHANGED <<inPoller, held>>
      <3>1. \A d \in Conns : d # c => state'[d] = state[d]
        BY <2>2 DEF KeepInv, TypeInv, ConnType
      <3> QED BY <1>1, <2>2, <3>1, QueueFrame, FunctorsDiffer DEF KeepInv, TypeInv
    <2> QED BY <1>1, <2>1, <2>2 DEF OnConnection, Establish
  <1>6. ASSUME NEW d \in Conns, d # c
        PROVE  /\ Open(d)' => Open(d)
               /\ Kept(d)' => Kept(d)
               /\ Registered(d) => Registered(d)'
               /\ Queued(loop[d], Unpoll(d)) => Queued(loop[d], Unpoll(d))'
    <2>1. Open(d)' => Open(d)
      BY <1>5, <1>6 DEF Open
    <2>2. Kept(d)' => Kept(d)
      <3>1. (\E g \in Fds : connections'[g] = d) => \E g \in Fds : connections[g] = d
        BY <1>3, <1>6
      <3>2. \A m \in Loops : (\E op \in Strong : Queued(m, Functor(op, d))')
                                => \E op \in Strong : Queued(m, Functor(op, d))
        BY <1>5, <1>6
      <3> QED BY <1>1, <1>5, <1>6, <3>1, <3>2 DEF Kept
    <2>3. Registered(d) => Registered(d)'
      <3>1. Registered(d) => fd[d] # f
        BY <1>2, ReasonsToKeep DEF KeepInv
      <3> QED BY <1>3, <1>6, <3>1 DEF Registered
    <2>4. Queued(loop[d], Unpoll(d)) => Queued(loop[d], Unpoll(d))'
      BY <1>3, <1>5, <1>6 DEF KeepInv, TypeInv, ConnType
    <2> QED BY <2>1, <2>2, <2>3, <2>4
  <1>7. NamesInv'
    <2> SUFFICES ASSUME NEW d \in Conns
                 PROVE  /\ Open(d)' => Registered(d)'
                        /\ inPoller'[d] => Registered(d)' \/ Queued(loop[d], Unpoll(d))'
                        /\ Kept(d)' => fd'[d] \in Fds /\ connections'[fd'[d]] \in {d, None}
      BY DEF NamesInv
    <2>1. CASE d = c
      BY <1>3, <2>1 DEF Registered
    <2>2. CASE d # c
      <3>1. Kept(d)' => fd'[d] \in Fds /\ connections'[fd'[d]] \in {d, None}
        BY <1>2, <1>3, <1>6, <2>2 DEF KeepInv, NamesInv
      <3> QED BY <1>5, <1>6, <2>2, <3>1 DEF KeepInv, NamesInv
    <2> QED BY <2>1, <2>2
  <1>8. Rounds'
    <2>1. \A m, d : d \in Conns /\ Handled(m, d) => Handled(m, d)'
      BY <1>1, <1>3, <1>4, <1>5 DEF Handled
    <2>2. \A m \in Loops, d \in Conns : Queued(m, Unpoll(d))' => m = loop'[d]
      BY <1>3, <1>4, <1>5 DEF KeepInv, Rounds
    <2>3. \A m \in Loops : \A e \in active[m] : e.conn \in Conns
      BY DEF KeepInv, TypeInv, RoundType, Entries
    <2> SUFFICES ASSUME NEW m \in Loops
                 PROVE  /\ batch'[m] # <<>> => phase'[m] = "functors"
                        /\ \/ handler'[m] = Idle'
                           \/ (handler[m].conn \in Conns /\ Handled(m, handler[m].conn))'
                        /\ \A e \in active'[m] : Handled(m, e.conn)'
      BY <2>2 DEF Rounds
    <2>4. \/ handler'[m] = Idle'
          \/ (handler[m].conn \in Conns /\ Handled(m, handler[m].conn))'
      BY <1>1, <2>1 DEF KeepInv, Rounds, Idle, Handled
    <2>5. \A e \in active'[m] : Handled(m, e.conn)'
      BY <1>1, <2>1, <2>3 DEF KeepInv, Rounds
    <2> QED BY <1>1, <2>4, <2>5 DEF KeepInv, Rounds
  <1> QED BY <1>7, <1>8

LEMMA NextKeeps ==
  ASSUME KeepInv, [Next]_vars
  PROVE  KeepInv'
  <1>1. TypeInv'
    BY NextTypes DEF KeepInv
  <1>2. ASSUME NEW l \in Loops, LoopStep(l) PROVE NamesInv' /\ Rounds'
    BY <1>1, <1>2, PollKeeps, MessageKeeps, StreamEndsKeeps, EndHandlingKeeps, BatchKeeps,
       RunFunctorKeeps DEF LoopStep
  <1>3. NamesInv' /\ Rounds'
    BY <1>2, AcceptKeeps, StartingKeeps, UserShutdownKeeps DEF Next
  <1> QED BY <1>1, <1>3 DEF KeepInv

LEMMA KeepCorrect == Spec => []KeepInv
  <1>1. KeepInv /\ [Next]_vars => KeepInv'
    BY NextKeeps
  <1> QED BY InitKeep, <1>1, PTL DEF Spec

\* Whatever the peers, the user and the loops do, a connection that is not
\* closed has its name in connections_ to itself: the kernel returns a
\* descriptor again only when the connection that had it is destroyed, and
\* removeConnection erases no other's name.
THEOREM NamesAreKept == Spec => []OpenIsRegistered
  <1>1. KeepInv => OpenIsRegistered
    BY DEF KeepInv, NamesInv, OpenIsRegistered, Open, Registered
  <1> QED BY KeepCorrect, <1>1, PTL

\* No channel outlives its connection, whatever the peers, the user and the loops
\* do: a loop runs removeInPoller between its rounds of events, so a channel
\* reported, or in its handlerEvent, is in the poller, and one in a poller is
\* kept by connections_ or by the functor that will take it out.
THEOREM ChannelsAreKept == Spec => []NothingDangles
  <1>1. KeepInv => NothingDangles
    <2> SUFFICES ASSUME KeepInv PROVE NothingDangles
      OBVIOUS
    <2>1. ASSUME NEW c \in Conns, inPoller[c] PROVE Alive(c)
      BY <2>1, KeptIsAlive, ReasonsToKeep DEF KeepInv, TypeInv
    <2>2. \A l \in Loops : \A e \in active[l] : e.conn \in Conns
      BY DEF KeepInv, TypeInv, RoundType, Entries
    <2> QED BY <2>1, <2>2 DEF KeepInv, Rounds, Handled, NothingDangles
  <1> QED BY KeepCorrect, <1>1, PTL

-----------------------------------------------------------------------------
(* Without resets a report is one read callback, so a channel is handled   *)
(* once a round; a closed connection is reported no more, and its name is  *)
(* erased by the one functor queued for it.                                *)

Removals ==
    \A l \in Loops, c \in Conns :
       /\ Queued(l, Remove(c)) => l = Base /\ Registered(c)
       /\ QueuedOnce(l, Remove(c))

Reports ==
    \A l \in Loops :
       /\ handler[l].callbacks = <<>>
       /\ \A e \in active[l] : e.callbacks = <<"read">> /\ reading[e.conn]

ClosedOnce ==
    /\ ~failed
    /\ \A c \in Conns : peer[c] # "rst"
    /\ Removals /\ Reports

CloseInv == KeepInv /\ ClosedOnce

LEMMA InitClosedOnce == Init => ClosedOnce
  <1> SUFFICES ASSUME Init PROVE ClosedOnce
    OBVIOUS
  <1>1. \A l \in Loops : \A y : ~Queued(l, y) /\ QueuedOnce(l, y)
    BY InEmpty DEF Init, Queued, QueuedOnce
  <1>2. Removals
    BY <1>1 DEF Removals
  <1>3. Reports
    BY DEF Init, Reports, Idle
  <1> QED BY <1>2, <1>3 DEF Init, ClosedOnce

\* Neither names nor what is queued for them is touched.
LEMMA RemovalsFrame ==
  ASSUME Removals, UNCHANGED <<fd, connections>>,
         \A l \in Loops, c \in Conns :
            /\ Queued(l, Remove(c))' => Queued(l, Remove(c))
            /\ QueuedOnce(l, Remove(c)) => QueuedOnce(l, Remove(c))'
  PROVE  Removals'
  <1>1. \A c \in Conns : Registered(c)' <=> Registered(c)
    BY DEF Registered
  <1> QED BY <1>1 DEF Removals

LEMMA ReportsFrame ==
  ASSUME TypeInv, Reports,
         \A l \in Loops : /\ active'[l] \subseteq active[l]
                          /\ handler'[l] = handler[l] \/ handler'[l] = Idle,
         \A c \in Conns : reading[c] => reading'[c]
  PROVE  Reports'
  <1>1. \A l \in Loops : \A e \in active[l] : e.conn \in Conns
    BY DEF TypeInv, RoundType, Entries
  <1> QED BY <1>1 DEF Reports, Idle

\* The steps that neither handle a channel nor run a functor.
LEMMA OtherSteps ==
  ASSUME CloseInv, Resets = FALSE,
         \/ Starting \/ UNCHANGED vars
         \/ \E l \in Loops : EndHandling(l) \/ BeginBatch(l) \/ EndBatch(l)
         \/ \E c \in Conns : UserShutdown(c) \/ Release(c) \/ PeerEnds(c)
  PROVE  ClosedOnce'
  <1>1. CASE Starting \/ UNCHANGED vars
    <2>1. UNCHANGED <<fd, connections, pending, batch, reading, active, handler, failed, peer>>
      BY <1>1 DEF Starting, vars, connVars, functorVars, loopVars
    <2>2. Removals'
      BY <2>1, RemovalsFrame DEF CloseInv, ClosedOnce, Queued, QueuedOnce, Remove, Functor
    <2>3. Reports'
      BY <2>1, ReportsFrame DEF CloseInv, KeepInv, ClosedOnce
    <2> QED BY <2>1, <2>2, <2>3 DEF CloseInv, ClosedOnce
  <1>2. ASSUME NEW l \in Loops, EndHandling(l) \/ BeginBatch(l) \/ EndBatch(l)
        PROVE  ClosedOnce'
    <2>1. /\ UNCHANGED <<fd, connections, reading, active, failed, peer>>
          /\ handler' = handler \/ handler' = [handler EXCEPT ![l] = Idle]
      BY <1>2 DEF EndHandling, BeginBatch, EndBatch, connVars
    <2>2. \A m \in Loops : \A y : /\ Queued(m, y)' => Queued(m, y)
                                  /\ QueuedOnce(m, y) => QueuedOnce(m, y)'
      <3>1. CASE BeginBatch(l)
        BY <3>1, QueueBegins DEF BeginBatch, CloseInv, KeepInv, TypeInv
      <3>2. CASE EndBatch(l) \/ EndHandling(l)
        BY <3>2, QueueRests DEF EndBatch, EndHandling, functorVars, CloseInv, KeepInv, TypeInv
      <3> QED BY <1>2, <3>1, <3>2
    <2>3. \A m \in Loops, c \in Conns : /\ Queued(m, Remove(c))' => Queued(m, Remove(c))
                                        /\ QueuedOnce(m, Remove(c)) => QueuedOnce(m, Remove(c))'
      BY <2>2, FunctorsDiffer
    <2>4. Removals'
      BY <2>1, <2>3, RemovalsFrame DEF CloseInv, ClosedOnce
    <2>5. \A m \in Loops : handler'[m] = handler[m] \/ handler'[m] = Idle
      BY <2>1 DEF CloseInv, KeepInv, TypeInv, RoundType
    <2>6. Reports'
      BY <2>1, <2>5, ReportsFrame DEF CloseInv, KeepInv, ClosedOnce
    <2> QED BY <2>1, <2>4, <2>6 DEF CloseInv, ClosedOnce
  <1>3. ASSUME NEW c \in Conns, UserShutdown(c) \/ Release(c) \/ PeerEnds(c)
        PROVE  ClosedOnce'
    <2>1. /\ UNCHANGED <<fd, loop, connections, reading, batch, active, handler, failed>>
          /\ pending' = pending \/ Queue(loop[c], Shutdown(c))
          /\ peer' = peer \/ peer' = [peer EXCEPT ![c] = "fin"]
      BY <1>3 DEF UserShutdown, Release, PeerEnds, connVars, functorVars, loopVars, Shutdown
    <2>2. \A d \in Conns : peer'[d] # "rst"
      BY <2>1 DEF CloseInv, KeepInv, TypeInv, ConnType, ClosedOnce
    <2>3. \A m \in Loops, d \in Conns : /\ Queued(m, Remove(d))' => Queued(m, Remove(d))
                                        /\ QueuedOnce(m, Remove(d)) => QueuedOnce(m, Remove(d))'
      <3>1. CASE pending' = pending
        BY <2>1, <3>1 DEF Queued, QueuedOnce, Remove, Functor
      <3>2. CASE Queue(loop[c], Shutdown(c))
        <4>1. PICK k \in Loops : k = loop[c]
          BY DEF CloseInv, KeepInv, TypeInv, ConnType
        <4>2. PICK x \in Functors : x = Shutdown(c)
          BY FunctorsDiffer
        <4>3. Queue(k, x) /\ QueueType /\ batch' = batch
          BY <2>1, <3>2, <4>1, <4>2 DEF CloseInv, KeepInv, TypeInv
        <4>4. \A m \in Loops : \A y :
                 y # x => /\ Queued(m, y)' => Queued(m, y)
                          /\ QueuedOnce(m, y) => QueuedOnce(m, y)'
          BY <4>3, QueueGrows
        <4> QED BY <4>2, <4>4, FunctorsDiffer
      <3> QED BY <2>1, <3>1, <3>2
    <2>4. Removals'
      BY <2>1, <2>3, RemovalsFrame DEF CloseInv, ClosedOnce
    <2>5. Reports'
      BY <2>1, ReportsFrame DEF CloseInv, KeepInv, ClosedOnce
    <2> QED BY <2>1, <2>2, <2>4, <2>5 DEF CloseInv, ClosedOnce
  <1> QED BY <1>1, <1>2, <1>3

LEMMA PollReports ==
  ASSUME CloseInv, NEW l \in Loops, Poll(l)
  PROVE  ClosedOnce'
  <1>1. UNCHANGED <<fd, connections, reading, pending, batch, handler, failed, peer>>
    BY DEF Poll, functorVars, connVars
  <1>2. PICK A \in SUBSET Conns :
           /\ \A c \in A : reading[c]
           /\ active' = [active EXCEPT ![l] = {Report(c) : c \in A}]
    BY DEF Poll
  <1>3. \A c \in A : Report(c) = [conn |-> c, callbacks |-> <<"read">>]
    BY DEF Report, CloseInv, ClosedOnce
  <1>4. \A m \in Loops : active'[m] = IF m = l THEN {Report(c) : c \in A} ELSE active[m]
    BY <1>2 DEF CloseInv, KeepInv, TypeInv, RoundType
  <1>5. Reports'
    BY <1>1, <1>2, <1>3, <1>4 DEF Reports, CloseInv, ClosedOnce
  <1>6. Removals'
    BY <1>1, RemovalsFrame DEF CloseInv, ClosedOnce, Queued, QueuedOnce, Remove, Functor
  <1> QED BY <1>1, <1>5, <1>6 DEF CloseInv, ClosedOnce

\* A callback is that of a channel reported readable, and the only one.
LEMMA ReadStarts ==
  ASSUME CloseInv, NEW l \in Loops, NEW c \in Conns, NextCallback(l, c)
  PROVE  /\ reading[c] /\ Open(c) /\ loop[c] = l
         /\ \A m \in Loops : handler'[m].callbacks = <<>>
         /\ \A m \in Loops : active'[m] \subseteq active[m]
         /\ \A m \in Loops : \A e \in active'[m] : e.conn # c
  <1> DEFINE r == [conn |-> c, callbacks |-> <<"read">>]
             d == [conn |-> c, callbacks |-> <<"close", "read">>]
  <1>1. /\ \A m \in Loops : active'[m] \subseteq active[m]
        /\ \A m \in Loops : m # l => handler'[m] = handler[m]
        /\ \/ r \in active[l] /\ active'[l] = active[l] \ {r} /\ handler'[l].callbacks = <<>>
           \/ d \in active[l]
           \/ handler[l].callbacks # <<>>
    BY CallbackStarts DEF CloseInv, KeepInv, TypeInv
  <1>2. \A m \in Loops : /\ handler[m].callbacks = <<>>
                         /\ \A e \in active[m] : /\ e.callbacks = <<"read">>
                                                 /\ reading[e.conn] /\ loop[e.conn] = m
                                                 /\ e \in Entries
    BY DEF CloseInv, ClosedOnce, Reports, KeepInv, Rounds, Handled, TypeInv, RoundType
  <1>3. d.callbacks = <<"close", "read">> /\ d.callbacks # <<"read">>
        /\ r.conn = c /\ r.callbacks = <<"read">>
    OBVIOUS
  <1>4. \A e \in Entries : e.conn = c /\ e.callbacks = <<"read">> => e = r
    BY DEF Entries
  <1> HIDE DEF r, d
  <1>5. r \in active[l] /\ active'[l] = active[l] \ {r} /\ handler'[l].callbacks = <<>>
    BY <1>1, <1>2, <1>3
  <1>6. reading[c] /\ loop[c] = l
    BY <1>2, <1>3, <1>5
  <1>7. Open(c)
    BY <1>6 DEF CloseInv, KeepInv, TypeInv, ConnType, Open, Settled
  <1>8. \A m \in Loops : \A e \in active'[m] : e.conn # c
    BY <1>1, <1>2, <1>4, <1>5, <1>6
  <1>9. \A m \in Loops : handler'[m].callbacks = <<>>
    BY <1>1, <1>2, <1>5
  <1> QED BY <1>1, <1>6, <1>7, <1>8, <1>9

LEMMA MessageReports ==
  ASSUME CloseInv, NEW l \in Loops, NEW c \in Conns, MessageArrives(l, c)
  PROVE  ClosedOnce'
  <1>1. /\ NextCallback(l, c)
        /\ UNCHANGED <<fd, connections, reading, pending, batch, failed, peer>>
    BY DEF MessageArrives, functorVars
  <1>2. Removals'
    BY <1>1, RemovalsFrame DEF CloseInv, ClosedOnce, Queued, QueuedOnce, Remove, Functor
  <1>3. Reports'
    BY <1>1, ReadStarts DEF CloseInv, ClosedOnce, Reports
  <1> QED BY <1>1, <1>2, <1>3 DEF CloseInv, ClosedOnce

\* A name that is erased is that of a connection no longer to be removed.
LEMMA RemovalsErased ==
  ASSUME TypeInv, Removals, NEW c \in Conns, Registered(c), fd' = fd,
         connections' = [connections EXCEPT ![fd[c]] = None],
         \A l \in Loops : ~Queued(l, Remove(c))',
         \A l \in Loops, d \in Conns :
            /\ Queued(l, Remove(d))' => Queued(l, Remove(d))
            /\ QueuedOnce(l, Remove(d)) => QueuedOnce(l, Remove(d))'
  PROVE  Removals'
  <1>1. \A f \in Fds : connections'[f] = IF f = fd[c] THEN None ELSE connections[f]
    BY DEF TypeInv, ConnType
  <1>2. \A d \in Conns : d # c /\ Registered(d) => Registered(d)'
    BY <1>1 DEF Registered
  <1> SUFFICES ASSUME NEW l \in Loops, NEW d \in Conns
               PROVE  /\ Queued(l, Remove(d))' => l = Base /\ Registered(d)'
                      /\ QueuedOnce(l, Remove(d))'
    BY DEF Removals
  <1> QED BY <1>2 DEF Removals

LEMMA StreamEndsOnce ==
  ASSUME CloseInv, NEW l \in Loops, NEW c \in Conns, StreamEnds(l, c)
  PROVE  ClosedOnce'
  <1>1. /\ NextCallback(l, c) /\ HandleClose(c) /\ UNCHANGED <<fd, loop, peer, batch>>
    BY DEF StreamEnds
  <1>2. /\ Open(c) /\ Registered(c) /\ CloseConnection(c)
        /\ \A m \in Loops : handler'[m].callbacks = <<>>
        /\ \A m \in Loops : active'[m] \subseteq active[m]
        /\ \A m \in Loops : \A e \in active'[m] : e.conn # c
    BY <1>1, ReadStarts DEF HandleClose, CloseInv, KeepInv, NamesInv
  <1>3. Reports'
    <2>1. \A d \in Conns : d # c => reading'[d] = reading[d]
      BY <1>1 DEF HandleClose, CloseInv, KeepInv, TypeInv, ConnType
    <2>2. \A m \in Loops : \A e \in active[m] : e.conn \in Conns
      BY DEF CloseInv, KeepInv, TypeInv, RoundType, Entries
    <2> QED BY <1>2, <2>1, <2>2 DEF CloseInv, ClosedOnce, Reports
  <1>4. \A m \in Loops : ~Queued(m, Remove(c))
    BY <1>2 DEF CloseInv, KeepInv, TypeInv, WorkInv, Open
  <1>5. CASE RemoveConnection(c)
    <2>1. /\ failed' = failed /\ Queue(loop[c], Unpoll(c))
          /\ connections' = [connections EXCEPT ![fd[c]] = None]
      BY <1>2, <1>5, NoneIsNoConn DEF RemoveConnection, Registered, Unpoll
    <2>2. \A m \in Loops, d \in Conns : /\ Queued(m, Remove(d))' => Queued(m, Remove(d))
                                        /\ QueuedOnce(m, Remove(d)) => QueuedOnce(m, Remove(d))'
      <3>1. PICK k \in Loops : k = loop[c]
        BY DEF CloseInv, KeepInv, TypeInv, ConnType
      <3>2. PICK x \in Functors : x = Unpoll(c)
        BY FunctorsDiffer
      <3>3. Queue(k, x) /\ QueueType /\ batch' = batch
        BY <1>1, <2>1, <3>1, <3>2 DEF CloseInv, KeepInv, TypeInv
      <3>4. \A m \in Loops : \A y :
               y # x => /\ Queued(m, y)' => Queued(m, y)
                        /\ QueuedOnce(m, y) => QueuedOnce(m, y)'
        BY <3>3, QueueGrows
      <3> QED BY <3>2, <3>4, FunctorsDiffer
    <2>3. \A m \in Loops : ~Queued(m, Remove(c))'
      BY <1>4, <2>2
    <2>4. Removals'
      BY <1>1, <1>2, <2>1, <2>2, <2>3, RemovalsErased DEF CloseInv, KeepInv, ClosedOnce
    <2> QED BY <1>1, <1>3, <2>1, <2>4 DEF CloseInv, ClosedOnce
  <1>6. CASE Queue(Base, Remove(c)) /\ UNCHANGED <<connections, failed>>
    <2>1. PICK x \in Functors : x = Remove(c)
      BY FunctorsDiffer
    <2>2. Queue(Base, x) /\ QueueType /\ batch' = batch /\ Base \in Loops
      BY <1>1, <1>6, <2>1, LoopsAreLoops DEF CloseInv, KeepInv, TypeInv
    <2>3. \A m \in Loops : \A y :
             /\ Queued(m, y)' => Queued(m, y) \/ (m = Base /\ y = x)
             /\ QueuedOnce(m, y) /\ (m = Base /\ y = x => ~Queued(m, y)) => QueuedOnce(m, y)'
      BY <2>2, QueueGrows
    <2>4. \A m \in Loops, d \in Conns :
             /\ Queued(m, Remove(d))' => Queued(m, Remove(d)) \/ (m = Base /\ d = c)
             /\ QueuedOnce(m, Remove(d)) /\ (d = c => ~Queued(m, Remove(d)))
                   => QueuedOnce(m, Remove(d))'
      BY <2>1, <2>3, FunctorsDiffer
    <2>5. \A d \in Conns : Registered(d)' <=> Registered(d)
      BY <1>1, <1>6 DEF Registered
    <2>6. Removals'
      BY <1>2, <1>4, <2>4, <2>5 DEF CloseInv, ClosedOnce, Removals
    <2> QED BY <1>1, <1>3, <1>6, <2>6 DEF CloseInv, ClosedOnce
  <1> QED BY <1>2, <1>5, <1>6 DEF CloseConnection, Remove

LEMMA RunFunctorOnce ==
  ASSUME CloseInv, NEW l \in Loops, RunFunctor(l)
  PROVE  ClosedOnce'
  <1>1. /\ TakesHead(l) /\ batch[l] # <<>> /\ batch' = [batch EXCEPT ![l] = Tail(@)]
        /\ UNCHANGED <<fd, loop, peer, active, handler>> /\ QueueType
    BY FunctorRuns DEF CloseInv, KeepInv, TypeInv, TakesHead
  <1>2. PICK c \in Conns :
            \/ /\ Head(batch[l]) = Establish(c) /\ ConnectEstablished(c)
               /\ UNCHANGED <<connections, pending, failed>>
            \/ /\ Head(batch[l]) = Remove(c) /\ RemoveConnection(c)
               /\ UNCHANGED <<state, reading, held, inPoller>>
            \/ /\ Head(batch[l]) = Unpoll(c)
               /\ inPoller' = [inPoller EXCEPT ![c] = FALSE]
               /\ UNCHANGED <<state, reading, connections, pending, held, failed>>
            \/ /\ Head(batch[l]) = Shutdown(c) /\ ShutdownInLoop(c)
               /\ UNCHANGED <<reading, inPoller, connections, pending, held, failed>>
    BY FunctorRuns DEF CloseInv, KeepInv
  <1>3. Reports'
    <2>1. \A d \in Conns : reading[d] => reading'[d]
      BY <1>2 DEF ConnectEstablished, CloseInv, KeepInv, TypeInv, ConnType
    <2> QED BY <1>1, <2>1, ReportsFrame DEF CloseInv, KeepInv, ClosedOnce
  <1>4. CASE UNCHANGED <<connections, pending, failed>>
    <2>1. \A m \in Loops : \A y : /\ Queued(m, y)' => Queued(m, y)
                                  /\ QueuedOnce(m, y) => QueuedOnce(m, y)'
      BY <1>1, <1>4, QueueShrinks
    <2>2. \A m \in Loops, d \in Conns : /\ Queued(m, Remove(d))' => Queued(m, Remove(d))
                                        /\ QueuedOnce(m, Remove(d)) => QueuedOnce(m, Remove(d))'
      BY <2>1, FunctorsDiffer
    <2>3. Removals'
      BY <1>1, <1>4, <2>2, RemovalsFrame DEF CloseInv, ClosedOnce
    <2> QED BY <1>1, <1>3, <1>4, <2>3 DEF CloseInv, ClosedOnce
  <1>5. CASE Head(batch[l]) = Remove(c) /\ RemoveConnection(c)
    <2>1. Queued(l, Remove(c))
      BY <1>1, <1>5, InTail DEF Queued, QueueType
    <2>2. Registered(c) /\ l = Base /\ \A m \in Loops : QueuedOnce(m, Remove(c))
      BY <2>1 DEF CloseInv, ClosedOnce, Removals
    <2>3. /\ failed' = failed /\ Queue(loop[c], Unpoll(c))
          /\ connections' = [connections EXCEPT ![fd[c]] = None]
      BY <1>5, <2>2, NoneIsNoConn DEF RemoveConnection, Registered, Unpoll
    <2>4. PICK k \in Loops : k = loop[c]
      BY DEF CloseInv, KeepInv, TypeInv, ConnType
    <2>5. PICK x \in Functors : x = Unpoll(c)
      BY FunctorsDiffer
    <2>6. Queue(k, x)
      BY <2>3, <2>4, <2>5
    <2>7. /\ \A m \in Loops : \A y :
                y # x => /\ Queued(m, y)' => Queued(m, y)
                         /\ QueuedOnce(m, y) => QueuedOnce(m, y)'
          /\ \A y : y = Head(batch[l]) /\ QueuedOnce(l, y) /\ y # x => ~Queued(l, y)'
      BY <1>1, <2>6, QueueTurns
    <2>8. /\ \A m \in Loops, d \in Conns :
                /\ Queued(m, Remove(d))' => Queued(m, Remove(d))
                /\ QueuedOnce(m, Remove(d)) => QueuedOnce(m, Remove(d))'
          /\ ~Queued(l, Remove(c))'
      BY <1>5, <2>2, <2>5, <2>7, FunctorsDiffer
    <2>9. \A m \in Loops : ~Queued(m, Remove(c))'
      BY <2>2, <2>8 DEF CloseInv, ClosedOnce, Removals
    <2>10. Removals'
      BY <1>1, <2>2, <2>3, <2>8, <2>9, RemovalsErased DEF CloseInv, KeepInv, ClosedOnce
    <2> QED BY <1>1, <1>3, <2>3, <2>10 DEF CloseInv, ClosedOnce
  <1> QED BY <1>2, <1>4, <1>5

LEMMA AcceptOnce ==
  ASSUME CloseInv, NEW c \in Conns, NEW f \in Fds, NEW l \in Loops, Accept(c, f, l)
  PROVE  ClosedOnce'
  <1>1. /\ state[c] = "none" /\ OnConnection(c, f, l)
        /\ \A d \in Conns : Alive(d) => fd[d] # f
        /\ UNCHANGED <<batch, active, handler, peer, failed>>
        /\ fd' = [fd EXCEPT ![c] = f]
        /\ connections' = [connections EXCEPT ![f] = c]
    BY DEF Accept, OnConnection, loopVars
  <1>2. \A d \in Conns : Registered(d) => fd[d] # f
    BY <1>1, KeptIsAlive, ReasonsToKeep DEF CloseInv, KeepInv, TypeInv
  <1>3. \A d \in Conns : d # c /\ Registered(d) => Registered(d)'
    BY <1>1, <1>2 DEF Registered, CloseInv, KeepInv, TypeInv, ConnType
  <1>4. \A m \in Loops : ~Queued(m, Remove(c))
    BY <1>1 DEF CloseInv, KeepInv, TypeInv, WorkInv
  <1>5. \A d \in Conns : reading[d] => reading'[d]
    BY <1>1 DEF OnConnection, ConnectEstablished, CloseInv, KeepInv, TypeInv, ConnType
  <1>6. Reports'
    BY <1>1, <1>5, ReportsFrame DEF CloseInv, KeepInv, ClosedOnce
  <1>7. \A m \in Loops, d \in Conns : /\ Queued(m, Remove(d))' => Queued(m, Remove(d))
                                      /\ QueuedOnce(m, Remove(d)) => QueuedOnce(m, Remove(d))'
    <2>1. CASE pending' = pending
      BY <1>1, <2>1 DEF Queued, QueuedOnce, Remove, Functor
    <2>2. CASE Queue(l, Establish(c))
      <3>1. PICK x \in Functors : x = Establish(c)
        BY FunctorsDiffer
      <3>2. Queue(l, x) /\ QueueType
        BY <2>2, <3>1 DEF CloseInv, KeepInv, TypeInv
      <3>3. \A m \in Loops : \A y :
               y # x => /\ Queued(m, y)' => Queued(m, y)
                        /\ QueuedOnce(m, y) => QueuedOnce(m, y)'
        BY <1>1, <3>2, QueueGrows
      <3> QED BY <3>1, <3>3, FunctorsDiffer
    <2> QED BY <1>1, <2>1, <2>2 DEF OnConnection, Establish
  <1>8. Removals'
    <2> SUFFICES ASSUME NEW m \in Loops, NEW d \in Conns
                 PROVE  /\ Queued(m, Remove(d))' => m = Base /\ Registered(d)'
                        /\ QueuedOnce(m, Remove(d))'
      BY DEF Removals
    <2> QED BY <1>3, <1>4, <1>7 DEF CloseInv, ClosedOnce, Removals
  <1> QED BY <1>1, <1>6, <1>8 DEF CloseInv, ClosedOnce

LEMMA NextCloses ==
  ASSUME Resets = FALSE, CloseInv, [Next]_vars
  PROVE  CloseInv'
  <1>1. KeepInv'
    BY NextKeeps DEF CloseInv
  <1>2. ASSUME NEW l \in Loops, LoopStep(l) PROVE ClosedOnce'
    BY <1>2, PollReports, MessageReports, StreamEndsOnce, RunFunctorOnce, OtherSteps
       DEF LoopStep
  <1>3. ClosedOnce'
    BY <1>2, AcceptOnce, OtherSteps DEF Next
  <1> QED BY <1>1, <1>3 DEF CloseInv

\* assert(n==1) in removeConnection holds as long as no peer resets a connection:
\* a stream that ends is reported as one read callback and no more after it, so
\* one functor is queued to erase the name, which is still there when it runs.
\* With resets it fails (TcpServerReset.cfg).
THEOREM ClosedOnceWithoutResets ==
  ASSUME Resets = FALSE
  PROVE  Spec => []EraseFindsConnection
  <1>1. Init => CloseInv
    BY InitKeep, InitClosedOnce DEF CloseInv
  <1>2. CloseInv /\ [Next]_vars => CloseInv'
    BY NextCloses
  <1>3. CloseInv => EraseFindsConnection
    BY DEF CloseInv, ClosedOnce, EraseFindsConnection
  <1> QED BY <1>1, <1>2, <1>3, PTL DEF Spec

=============================================================================
