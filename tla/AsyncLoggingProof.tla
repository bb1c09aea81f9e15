-------------------------- MODULE AsyncLoggingProof --------------------------
(***************************************************************************)
(* AsyncLogging's pool of buffers never runs out, for every capacity and   *)
(* any number of appends: the types, and the three assertions of           *)
(* threadfunc.  The names that LogFile gives its files differ.  And every  *)
(* message reaches the files once and in order.                            *)
(***************************************************************************)
EXTENDS AsyncLogging, SequenceTheorems, TLAPS

IInv == TypeOK /\ BufferPlace /\ AssertionsHold

-----------------------------------------------------------------------------
(* What the operations on values return.                                   *)

LEMMA EmptyIsBuffer == Empty \in Buffer
  BY CapacityIsPositive DEF Empty, Buffer

\* FixedBuffer::append never writes past the end: Put keeps used within Capacity.
LEMMA PutIsBuffer ==
  ASSUME NEW b \in Buffer, NEW m \in Nat \ {0}, NEW len \in 1..Capacity
  PROVE  Put(b, m, len) \in Buffer
  BY CapacityIsPositive DEF Put, Buffer

\* FileUtil's flush and destructor, and the clock, keep the type of a LogFile.
LEMMA CloseIsLogFile ==
  ASSUME NEW f \in LogFile
  PROVE  /\ Flush(f) \in LogFile
         /\ Close(f) \in LogFile
         /\ SecondPasses(f) \in LogFile
  <1>1. f.disk \o f.stdio \in Seq(Nat \ {0}) /\ <<>> \in Seq(Nat \ {0})
    BY DEF LogFile
  <1>2. ASSUME NEW disk \in Seq(Nat \ {0}), NEW stdio \in Seq(Nat \ {0})
        PROVE  [f EXCEPT !.disk = disk, !.stdio = stdio] \in LogFile
    BY DEF LogFile
  <1>3. Flush(f) \in LogFile
    BY <1>1, <1>2 DEF Flush
  <1> QED BY <1>3 DEF Close, SecondPasses, LogFile

\* rollFile returns a LogFile, whether it rolls or not.
LEMMA RollIsLogFile ==
  ASSUME NEW f \in LogFile
  PROVE  RollFile(f) \in LogFile
  <1>1. Close(f) \in LogFile
    BY CloseIsLogFile
  <1> QED BY <1>1 DEF RollFile, OpenNew, LogFile

\* write returns a LogFile.
LEMMA WriteIsLogFile ==
  ASSUME NEW f \in LogFile, NEW msgs \in Seq(Nat \ {0}), NEW len \in Nat
  PROVE  Write(f, msgs, len) \in LogFile
  <1> DEFINE g == WriteUnlocked(f, msgs, len)
             size == IF f.written + len > FileSize THEN FileSize + 1
                     ELSE f.written + len
  <1>1. f.stdio \o msgs \in Seq(Nat \ {0}) /\ f.written \in Nat
    BY DEF LogFile
  <1>2. size \in Nat
    BY <1>1, LogFileAssumption
  <1>3. ASSUME NEW stdio \in Seq(Nat \ {0}), NEW written \in Nat
        PROVE  [f EXCEPT !.stdio = stdio, !.written = written] \in LogFile
    BY DEF LogFile
  <1>4. g \in LogFile
    BY <1>1, <1>2, <1>3 DEF WriteUnlocked
  <1>5. ASSUME NEW count \in Nat
        PROVE  [g EXCEPT !.count = count] \in LogFile
    BY <1>4 DEF LogFile
  <1>6. g.count + 1 \in Nat /\ g.written \in Nat
    BY <1>4 DEF LogFile
  <1>7. RollFile(g) \in LogFile /\ RollFile([g EXCEPT !.count = 0]) \in LogFile
    BY <1>4, <1>5, RollIsLogFile
  <1>8. [g EXCEPT !.count = g.count + 1] \in LogFile
    BY <1>5, <1>6
  <1> QED BY <1>6, <1>7, <1>8, LogFileAssumption DEF Write

\* The constructor of LogFile returns a LogFile, whatever it finds in memory.
LEMMA ConstructIsLogFile ==
  ASSUME NEW f \in LogFile, NEW stale \in BOOLEAN
  PROVE  Construct(f, stale) \in LogFile
  <1>1. [f EXCEPT !.count = 0, !.rolledNow = stale] \in LogFile
    BY DEF LogFile
  <1> QED BY <1>1, RollIsLogFile DEF Construct

\* What an owner and its thread do keeps the type of a Thread.
LEMMA ThreadTyped ==
  ASSUME NEW t \in ThreadType
  PROVE  /\ Create(t) \in ThreadType
         /\ Announce(t) \in ThreadType
         /\ End(t) \in ThreadType
         /\ Join(t) \in ThreadType
         /\ StartSleeps(t) \in ThreadType
  BY DEF ThreadType, Latch, Create, Announce, End, Join, StartSleeps, CountDown, Sleep

-----------------------------------------------------------------------------
(* The names of the files.                                                 *)

\* getBaseName keeps its cache consistent.
LEMMA RefreshIsConsistent ==
  ASSUME NEW cache, Consistent(cache), NEW now \in Nat
  PROVE  Consistent(Refresh(cache, now))
  BY DEF Consistent, Refresh

\* Two files of one thread never have the same name, though the time in a name
\* may have been cached long before: rollFile opens a file in a second in which it
\* has opened none, and the names of two different seconds differ.
THEOREM NamesDiffer ==
  ASSUME NEW cache, Consistent(cache), NEW later, Consistent(later),
         NEW now \in Nat, NEW then \in Nat,
         BaseName(cache, now) = BaseName(later, then)
  PROVE  now = then
  <1>1. Refresh(cache, now).time \div Period = now \div Period
    BY DEF Consistent, Refresh
  <1>2. Refresh(later, then).time \div Period = then \div Period
    BY DEF Consistent, Refresh
  <1>3. now \div Period = then \div Period /\ now % Period = then % Period
    BY <1>1, <1>2 DEF BaseName
  <1> QED BY <1>3 DEF Period

-----------------------------------------------------------------------------
(* The inductive invariant.                                                *)

LEMMA InitIInv == Init => IInv
  <1> SUFFICES ASSUME Init PROVE IInv
    OBVIOUS
  <1> USE DEF Init
  <1>1. TypeOK
    <2>1. buffers \in Seq(Buffer) /\ toWrite \in Seq(Buffer)
      OBVIOUS
    <2>2. log \in LogFile
      BY DEF NoLogFile, LogFile
    <2>3. thread \in ThreadType
      BY DEF NewThread, ThreadType, NewLatch, Latch
    <2>4. latch \in Latch
      BY DEF NewLatch, Latch
    <2> QED BY <2>1, <2>2, <2>3, <2>4, EmptyIsBuffer DEF TypeOK
  <1>2. BufferPlace
    BY EmptyIsBuffer, NullIsNoBuffer DEF BufferPlace
  <1> QED BY <1>1, <1>2 DEF IInv, AssertionsHold

LEMMA AppendKeepsIInv ==
  ASSUME IInv, NEW len \in 1..Capacity, AppendMessage(len)
  PROVE  IInv'
  <1> USE DEF IInv, TypeOK, BufferPlace, AssertionsHold, AppendMessage, local,
              ownerVars, Missing
  <1>1. appended + 1 \in Nat \ {0} /\ current.used \in Nat
    BY CapacityIsPositive, SMTT(30) DEF Buffer
  <1>2. CASE Capacity - current.used > len
    <2>1. UNCHANGED <<next, buffers>> /\ current' = Put(current, appended + 1, len)
      BY <1>1, <1>2, CapacityIsPositive
    <2>2. current' \in Buffer
      BY <1>1, <2>1, PutIsBuffer
    <2> QED BY <2>1, <2>2
  <1>3. CASE ~(Capacity - current.used > len)
    <2>1. AppendFull(len)
      BY <1>3
    <2>2. current' \in Buffer
      BY <1>1, <2>1, PutIsBuffer, EmptyIsBuffer DEF AppendFull
    <2>3. /\ buffers' \in Seq(Buffer)
          /\ buffers' # <<>>
          /\ next' = Null
      BY <2>1 DEF AppendFull
    <2> QED BY <2>2, <2>3
  <1> QED BY <1>2, <1>3

LEMMA BeginKeepsIInv ==
  ASSUME IInv, Begin
  PROVE  IInv'
  <1> USE DEF IInv, TypeOK, BufferPlace, AssertionsHold, Begin, shared
  <1>1. log.rolledNow \in BOOLEAN
    BY DEF LogFile
  <1>2. log' \in LogFile
    BY <1>1, ConstructIsLogFile
  <1>3. latch' \in Latch
    BY DEF CountDown, Latch
  <1> QED BY <1>2, <1>3, EmptyIsBuffer

LEMMA SwapKeepsIInv ==
  ASSUME IInv, Swap
  PROVE  IInv'
  <1> USE DEF IInv, TypeOK, BufferPlace, AssertionsHold, Swap, HandOver, ownerVars
  <1>1. /\ toWrite' = Append(buffers, current)
        /\ Len(toWrite') = Len(buffers) + 1
        /\ toWrite' \in Seq(Buffer)
        /\ buffers' = <<>>
        /\ current' \in Buffer
        /\ buffer1' = Null /\ n' = 0 /\ pc' = "write"
    OBVIOUS
  <1>2. next' \in Buffer /\ buffer2' \in Buffer \cup {Null}
    OBVIOUS
  <1>3. next' # Null
    BY <1>2, NullIsNoBuffer
  <1>4. Len(toWrite') >= Missing'
    <2>1. CASE next = Null
      <3>1. Len(buffers) >= 1
        BY <2>1
      <3> QED BY <1>1, <3>1 DEF Missing
    <2>2. CASE next # Null
      <3>1. buffer2' # Null
        BY <2>2, NullIsNoBuffer
      <3> QED BY <1>1, <3>1 DEF Missing
    <2> QED BY <2>1, <2>2
  <1> QED BY <1>1, <1>2, <1>3, <1>4

LEMMA WriteKeepsIInv ==
  ASSUME IInv, WriteBuffer
  PROVE  IInv'
  <1> USE DEF IInv, TypeOK, BufferPlace, AssertionsHold, WriteBuffer, shared,
              ownerVars, Missing
  <1>1. toWrite[n + 1] \in Buffer
    OBVIOUS
  <1>2. toWrite[n + 1].msgs \in Seq(Nat \ {0}) /\ toWrite[n + 1].used \in Nat
    BY <1>1, CapacityIsPositive DEF Buffer
  <1>3. log' \in LogFile
    BY <1>2, WriteIsLogFile
  <1> QED BY <1>3

LEMMA RecycleKeepsIInv ==
  ASSUME IInv, Recycle
  PROVE  IInv'
  <1> USE DEF IInv, TypeOK, BufferPlace, AssertionsHold, Recycle, shared, ownerVars
  <1>1. over' = "no"
    BY DEF Missing
  <1>2. log' \in LogFile
    BY CloseIsLogFile
  <1> QED BY <1>1, <1>2, EmptyIsBuffer

\* A thread that begins finds no other, the owner having joined it.
LEMMA NextOneThread == TypeOK /\ OneThread /\ [Next]_vars => OneThread'
  <1> SUFFICES ASSUME TypeOK, OneThread, [Next]_vars PROVE OneThread'
    OBVIOUS
  <1> thread \in ThreadType
    BY DEF TypeOK
  <1> USE DEF OneThread
  <1>1. CASE ThreadBegins
    BY <1>1 DEF ThreadBegins, Announce
  <1>2. CASE TestStart
    BY <1>2 DEF TestStart, End, ThreadType
  <1>3. CASE Start
    BY <1>3 DEF Start, Create, shared, local
  <1>4. CASE Joined
    BY <1>4 DEF Joined, JoinReturns, Join, shared, local
  <1>5. CASE UNCHANGED <<owner, thread>> /\ (pc' # "none" => pc # "none")
    BY <1>5
  <1>6. CASE (\E len \in 1..Capacity : AppendMessage(len)) \/ NextSecond
    BY <1>5, <1>6 DEF AppendMessage, NextSecond, ownerVars
  <1>7. CASE Begin \/ Swap \/ WriteBuffer \/ Recycle
    BY <1>5, <1>7 DEF Begin, Swap, WriteBuffer, Recycle, ownerVars
  <1>8. CASE ThreadStarted \/ Started \/ Stop
    BY <1>8 DEF ThreadStarted, Started, Stop
  <1>9. CASE OwnerSleeps
    BY <1>9 DEF OwnerSleeps, StartSleeps, ThreadType
  <1>10. CASE UNCHANGED vars
    BY <1>5, <1>10 DEF vars
  <1> QED
    BY <1>1, <1>2, <1>3, <1>4, <1>6, <1>7, <1>8, <1>9, <1>10 DEF Next, ThreadStep

LEMMA NextIInv == IInv /\ OneThread /\ [Next]_vars => IInv'
  <1> SUFFICES ASSUME IInv, OneThread, [Next]_vars PROVE IInv'
    OBVIOUS
  <1> USE DEF shared, local, ownerVars
  <1>1. CASE \E len \in 1..Capacity : AppendMessage(len)
    BY <1>1, AppendKeepsIInv
  <1>2. CASE ThreadBegins
    <2>1. /\ thread' \in ThreadType
          /\ pc' = "init" /\ pc = "none"
          /\ UNCHANGED <<start, latch, owner, current, next, buffers, buffer1,
                         buffer2, toWrite, n, log, appended, over>>
      BY <1>2, ThreadTyped DEF ThreadBegins, OneThread, IInv, TypeOK
    <2>2. TypeOK'
      BY <2>1 DEF IInv, TypeOK
    <2>3. BufferPlace'
      BY <2>1 DEF IInv, BufferPlace
    <2> QED
      BY <2>1, <2>2, <2>3 DEF IInv, AssertionsHold
  <1>3. CASE Begin
    BY <1>3, BeginKeepsIInv
  <1>4. CASE TestStart
    <2>1. log' \in LogFile /\ thread' \in ThreadType
      BY <1>4, ThreadTyped, CloseIsLogFile DEF TestStart, IInv, TypeOK
    <2>2. /\ pc' \in {"lock", "none"} /\ pc = "test"
          /\ UNCHANGED <<start, latch, owner, current, next, buffers, buffer1,
                         buffer2, toWrite, n, appended, over>>
      BY <1>4 DEF TestStart
    <2>3. TypeOK'
      BY <2>1, <2>2 DEF IInv, TypeOK
    <2>4. BufferPlace'
      BY <2>2 DEF IInv, BufferPlace
    <2> QED
      BY <2>2, <2>3, <2>4 DEF IInv, AssertionsHold
  <1>5. CASE Swap
    BY <1>5, SwapKeepsIInv
  <1>6. CASE WriteBuffer
    BY <1>6, WriteKeepsIInv
  <1>7. CASE Recycle
    BY <1>7, RecycleKeepsIInv
  <1>8. CASE Start
    BY <1>8, ThreadTyped
       DEF Start, IInv, TypeOK, BufferPlace, AssertionsHold, Missing
  <1>9. CASE ThreadStarted
    BY <1>9 DEF ThreadStarted, IInv, TypeOK, BufferPlace, AssertionsHold, Missing
  <1>10. CASE Started
    BY <1>10 DEF Started, IInv, TypeOK, BufferPlace, AssertionsHold, Missing
  <1>11. CASE Stop
    BY <1>11 DEF Stop, IInv, TypeOK, BufferPlace, AssertionsHold, Missing
  <1>12. CASE Joined
    BY <1>12, ThreadTyped
       DEF Joined, IInv, TypeOK, BufferPlace, AssertionsHold, Missing
  <1>13. CASE NextSecond
    BY <1>13, CloseIsLogFile
       DEF NextSecond, IInv, TypeOK, BufferPlace, AssertionsHold, Missing
  <1>14. CASE OwnerSleeps
    <2>1. latch' \in Latch /\ thread' \in ThreadType
      BY <1>14, ThreadTyped DEF OwnerSleeps, Sleep, Latch, IInv, TypeOK
    <2> QED
      BY <1>14, <2>1
         DEF OwnerSleeps, IInv, TypeOK, BufferPlace, AssertionsHold, Missing
  <1>15. CASE UNCHANGED vars
    BY <1>15 DEF vars, IInv, TypeOK, BufferPlace, AssertionsHold, Missing
  <1> QED
    BY <1>1, <1>2, <1>3, <1>4, <1>5, <1>6, <1>7, <1>8, <1>9, <1>10, <1>11, <1>12,
       <1>13, <1>14, <1>15
       DEF Next, ThreadStep

LEMMA Invariant == Spec => [](IInv /\ OneThread)
  <1>1. Init => OneThread
    BY DEF Init, OneThread, NewThread
  <1>2. IInv => TypeOK
    BY DEF IInv
  <1> QED BY <1>1, <1>2, InitIInv, NextIInv, NextOneThread, PTL DEF Spec

\* Every pointer holds what the code takes it to hold: append and the thread
\* never use an empty currentBuffer_, and no buffer is filled beyond its size.
THEOREM TypeCorrect == Spec => []TypeOK
  <1>1. IInv => TypeOK
    BY DEF IInv
  <1> QED BY <1>1, Invariant, PTL

\* The thread always finds two buffers to recycle when it has handed over two.
THEOREM BuffersSuffice == Spec => []AssertionsHold
  <1>1. IInv => AssertionsHold
    BY DEF IInv
  <1> QED BY <1>1, Invariant, PTL

-----------------------------------------------------------------------------
(* Nothing is lost.  A buffer is abstracted to the set of its messages:    *)
(* what follows says what an append and a write make of a line of buffers  *)
(* that hold the messages after the first w up to a, in order.             *)

AllOf(L) == UNION {Messages(L[i]) : i \in 1..Len(L)}

Consecutive(b) == \A k \in 1..Len(b.msgs) : b.msgs[k] = b.msgs[1] + (k - 1)

InOrder(L, w, a) ==
    /\ w <= a
    /\ \A i \in 1..Len(L) : Consecutive(L[i])
    /\ \A i, j \in 1..Len(L) :
          i < j => \A l \in Messages(L[i]), m \in Messages(L[j]) : l < m
    /\ AllOf(L) = (w + 1)..a

Counts(s) == \A k \in 1..Len(s) : s[k] = k

\* Concatenation is associative.
LEMMA Regroup ==
  \A S : \A s, t, u \in Seq(S) : (s \o t) \o u = s \o (t \o u)
  OBVIOUS

\* An empty buffer holds nothing.
LEMMA NoMessages == Messages(Empty) = {} /\ Consecutive(Empty)
  BY DEF Messages, Empty, Consecutive

\* What a line is, whose last buffer is b.
Ends(M, b, w, a) ==
    /\ w <= a
    /\ Consecutive(b) /\ \A i \in 1..Len(M) : Consecutive(M[i])
    /\ \A i, j \in 1..Len(M) :
          i < j => \A l \in Messages(M[i]), m \in Messages(M[j]) : l < m
    /\ \A i \in 1..Len(M) :
          \A l \in Messages(M[i]), m \in Messages(b) : l < m
    /\ AllOf(M) \cup Messages(b) = (w + 1)..a

LEMMA LineEnd ==
  ASSUME NEW M \in Seq(Buffer), NEW b \in Buffer, NEW w \in Nat, NEW a \in Nat
  PROVE  InOrder(M \o <<b>>, w, a) <=> Ends(M, b, w, a)
  <1> DEFINE L == M \o <<b>>
  <1>1. /\ Len(L) = Len(M) + 1
        /\ \A i \in 1..Len(M) : L[i] = M[i]
        /\ L[Len(M) + 1] = b
        /\ Len(M) \in Nat
    OBVIOUS
  <1> HIDE DEF L
  <1>2. 1..Len(L) = 1..Len(M) \cup {Len(M) + 1}
    BY <1>1
  <1>3. AllOf(L)
           = AllOf(M) \cup Messages(b)
    BY <1>1, <1>2 DEF AllOf
  <1>4. (\A i \in 1..Len(L) : Consecutive(L[i]))
           <=> Consecutive(b) /\ \A i \in 1..Len(M) : Consecutive(M[i])
    BY <1>1, <1>2
  <1>5. (\A i, j \in 1..Len(L) :
            i < j => \A l \in Messages(L[i]), m \in Messages(L[j]) : l < m)
        <=> /\ \A i, j \in 1..Len(M) :
                  i < j => \A l \in Messages(M[i]), m \in Messages(M[j]) : l < m
            /\ \A i \in 1..Len(M) :
                  \A l \in Messages(M[i]), m \in Messages(b) : l < m
    BY <1>1, <1>2
  <1> QED BY <1>3, <1>4, <1>5 DEF InOrder, Ends, L

\* A new buffer is empty.
LEMMA LineExtends ==
  ASSUME NEW L \in Seq(Buffer), NEW w \in Nat, NEW a \in Nat, InOrder(L, w, a)
  PROVE  InOrder(L \o <<Empty>>, w, a)
  BY LineEnd, EmptyIsBuffer, NoMessages DEF InOrder, Ends

\* The next message goes into the last buffer, which has room for it.
LEMMA LineGrows ==
  ASSUME NEW M \in Seq(Buffer), NEW b \in Buffer, NEW w \in Nat, NEW a \in Nat,
         InOrder(M \o <<b>>, w, a), NEW len \in 1..Capacity, Capacity - b.used >= len
  PROVE  InOrder(M \o <<Put(b, a + 1, len)>>, w, a + 1)
  <1> DEFINE c == Put(b, a + 1, len)
  <1>1. c \in Buffer /\ c.msgs = Append(b.msgs, a + 1) /\ b.msgs \in Seq(Nat \ {0})
    <2>1. a + 1 \in Nat \ {0} /\ b.msgs \in Seq(Nat \ {0})
      BY DEF Buffer
    <2>2. c = [msgs |-> Append(b.msgs, a + 1), used |-> b.used + len]
      BY DEF Put
    <2> QED BY <2>1, <2>2, PutIsBuffer
  <1> HIDE DEF c
  <1>2. /\ Len(c.msgs) = Len(b.msgs) + 1 /\ Len(b.msgs) \in Nat
        /\ \A k \in 1..Len(b.msgs) : c.msgs[k] = b.msgs[k] /\ b.msgs[k] \in Nat
        /\ c.msgs[Len(b.msgs) + 1] = a + 1
    BY <1>1
  <1>3. Messages(c) = Messages(b) \cup {a + 1}
    <2>1. 1..Len(c.msgs) = 1..Len(b.msgs) \cup {Len(b.msgs) + 1}
      BY <1>2
    <2> QED BY <1>2, <2>1 DEF Messages
  <1>4. Ends(M, b, w, a)
    BY LineEnd
  <1>5. Consecutive(c)
    <2>1. CASE b.msgs = <<>>
      BY <1>2, <2>1 DEF Consecutive
    <2>2. CASE b.msgs # <<>>
      <3> DEFINE size == Len(b.msgs)
      <3>1. size \in Nat \ {0}
        BY <1>1, <2>2
      <3>2. b.msgs[size] = b.msgs[1] + (size - 1)
        BY <1>4, <3>1 DEF Ends, Consecutive
      <3>3. b.msgs[size] \in Messages(b) /\ b.msgs[size] \in (w + 1)..a
        <4>1. b.msgs[size] \in Messages(b)
          BY <3>1 DEF Messages
        <4> QED BY <1>4, <4>1 DEF Ends
      <3>4. a \in Messages(b)
        <4>1. a \in (w + 1)..a
          BY <3>3
        <4>2. ASSUME NEW i \in 1..Len(M), a \in Messages(M[i])
              PROVE  FALSE
          <5>1. a < b.msgs[size]
            BY <1>4, <3>3, <4>2 DEF Ends
          <5> QED BY <3>3, <5>1
        <4> QED BY <1>4, <4>1, <4>2 DEF Ends, AllOf
      <3>5. PICK k \in 1..size : b.msgs[k] = a
        BY <3>4 DEF Messages
      <3>6. b.msgs[k] = b.msgs[1] + (k - 1)
        BY <1>4, <3>5 DEF Ends, Consecutive
      <3>7. a + 1 = b.msgs[1] + size
        <4>1. b.msgs[1] \in Nat /\ b.msgs[1] + (size - 1) <= a
          BY <1>2, <3>1, <3>2, <3>3
        <4>2. b.msgs[1] + (k - 1) = a
          BY <3>5, <3>6
        <4> QED BY <3>1, <3>5, <4>1, <4>2
      <3>8. c.msgs[1] = b.msgs[1]
        BY <1>2, <3>1
      <3>9. ASSUME NEW j \in 1..Len(c.msgs)
            PROVE  c.msgs[j] = c.msgs[1] + (j - 1)
        <4>1. CASE j \in 1..size
          BY <1>2, <1>4, <3>8, <4>1 DEF Ends, Consecutive
        <4>2. CASE j = size + 1
          <5>1. c.msgs[j] = a + 1
            BY <1>2, <4>2
          <5>2. j - 1 = size
            BY <3>1, <4>2
          <5> QED BY <3>7, <3>8, <5>1, <5>2
        <4> QED BY <1>2, <4>1, <4>2, SMTT(30)
      <3> QED BY <3>9 DEF Consecutive
    <2> QED BY <2>1, <2>2
  <1>6. \A i \in 1..Len(M) : \A l \in Messages(M[i]), m \in Messages(c) : l < m
    <2>1. ASSUME NEW i \in 1..Len(M), NEW l \in Messages(M[i]) PROVE l < a + 1
      <3>1. l \in (w + 1)..a
        BY <1>4, <2>1 DEF Ends, AllOf
      <3> QED BY <3>1
    <2> QED BY <1>3, <1>4, <2>1 DEF Ends
  <1>7. AllOf(M) \cup Messages(c) = (w + 1)..(a + 1)
    BY <1>3, <1>4 DEF Ends
  <1>8. Ends(M, c, w, a + 1)
    BY <1>4, <1>5, <1>6, <1>7 DEF Ends
  <1> QED BY <1>1, <1>8, LineEnd DEF c

\* The first buffer holds the first messages, and the others the others.
LEMMA OldestFirst ==
  ASSUME NEW L \in Seq(Buffer), L # <<>>, NEW w \in Nat, NEW a \in Nat,
         InOrder(L, w, a)
  PROVE  /\ \A k \in 1..Len(L[1].msgs) : L[1].msgs[k] = w + k
         /\ w + Len(L[1].msgs) \in Nat
         /\ InOrder(Tail(L), w + Len(L[1].msgs), a)
  <1> DEFINE b == L[1]
             M == Tail(L)
             size == Len(b.msgs)
             S == AllOf(M)
  <1>1. /\ b \in Buffer /\ M \in Seq(Buffer)
        /\ Len(L) = Len(M) + 1 /\ Len(M) \in Nat
        /\ \A i \in 1..Len(M) : M[i] = L[i + 1]
        /\ \A i \in 1..Len(M) : i + 1 \in 1..Len(L)
    OBVIOUS
  <1>2. size \in Nat /\ \A k \in 1..size : b.msgs[k] \in Nat /\ b.msgs[k] \in Messages(b)
    BY <1>1 DEF Buffer, Messages
  <1>3. Consecutive(b)
    BY <1>1 DEF InOrder
  <1>4. \A l \in Messages(b), m \in S : l < m
    BY <1>1 DEF InOrder, AllOf
  <1>5. Messages(b) \cup S = (w + 1)..a
    <2>1. \A i \in 1..Len(L) : i = 1 \/ (i - 1 \in 1..Len(M) /\ L[i] = M[i - 1])
      BY <1>1
    <2>2. 1 \in 1..Len(L)
      BY <1>1
    <2>3. AllOf(L) = Messages(b) \cup S
      BY <1>1, <2>1, <2>2 DEF AllOf
    <2> QED BY <2>3 DEF InOrder
  <1>6. /\ \A i \in 1..Len(M) : Consecutive(M[i])
        /\ \A i, j \in 1..Len(M) :
              i < j => \A l \in Messages(M[i]), m \in Messages(M[j]) : l < m
    BY <1>1 DEF InOrder
  <1>7. w <= a
    BY DEF InOrder
  <1> HIDE DEF b, M, S
  <1>8. \A k \in 1..size : b.msgs[k] = w + k
    <2> SUFFICES ASSUME size # 0 PROVE \A k \in 1..size : b.msgs[k] = w + k
      OBVIOUS
    <2>1. 1 \in 1..size
      BY <1>2
    <2>2. b.msgs[1] \in (w + 1)..a
      BY <1>2, <1>5, <2>1
    <2>3. w + 1 \notin S
      BY <1>2, <1>4, <2>1, <2>2
    <2>4. w + 1 \in Messages(b)
      BY <1>5, <2>2, <2>3
    <2>5. PICK k \in 1..size : b.msgs[k] = w + 1
      BY <2>4 DEF Messages
    <2>6. b.msgs[k] = b.msgs[1] + (k - 1)
      BY <1>3, <2>5 DEF Consecutive
    <2>7. b.msgs[1] = w + 1
      BY <1>2, <2>2, <2>5, <2>6
    <2> QED BY <1>2, <1>3, <2>7 DEF Consecutive
  <1>9. Messages(b) = (w + 1)..(w + size)
    <2>1. \A m \in (w + 1)..(w + size) : m - w \in 1..size /\ b.msgs[m - w] = m
      BY <1>2, <1>8
    <2>2. \A k \in 1..size : b.msgs[k] \in (w + 1)..(w + size)
      BY <1>2, <1>8
    <2>3. \A m : m \in Messages(b) <=> \E k \in 1..size : b.msgs[k] = m
      BY DEF Messages
    <2> QED BY <2>1, <2>2, <2>3
  <1>10. w + size <= a
    <2>1. size # 0 => w + size \in (w + 1)..a
      BY <1>2, <1>5, <1>9
    <2> QED BY <1>2, <1>7, <2>1
  <1>11. S = (w + size + 1)..a
    <2>1. \A m \in S : m \in (w + size + 1)..a
      <3> SUFFICES ASSUME NEW m \in S PROVE m \in (w + size + 1)..a
        OBVIOUS
      <3>1. m \in (w + 1)..a
        BY <1>5
      <3>2. m \notin (w + 1)..(w + size)
        BY <1>4, <1>9, <3>1
      <3> QED BY <1>2, <3>1, <3>2
    <2>2. \A m \in (w + size + 1)..a : m \in S
      <3> SUFFICES ASSUME NEW m \in (w + size + 1)..a PROVE m \in S
        OBVIOUS
      <3>1. m \in (w + 1)..a /\ m \notin (w + 1)..(w + size)
        BY <1>2
      <3> QED BY <1>5, <1>9, <3>1
    <2> QED BY <2>1, <2>2
  <1>12. InOrder(M, w + size, a)
    BY <1>6, <1>10, <1>11 DEF InOrder, S
  <1> QED BY <1>2, <1>8, <1>12 DEF b, M

-----------------------------------------------------------------------------
(* What the files hold.                                                    *)

\* Flushing, closing and rolling move what has been written to the disk.
LEMMA RollKeepsContent ==
  ASSUME NEW f \in LogFile
  PROVE  /\ Flush(f).disk \o Flush(f).stdio = f.disk \o f.stdio
         /\ Close(f).disk \o Close(f).stdio = f.disk \o f.stdio
         /\ RollFile(f).disk \o RollFile(f).stdio = f.disk \o f.stdio
         /\ Flush(f).stdio = <<>> /\ Close(f).stdio = <<>>
         /\ f.stdio = <<>> => RollFile(f).stdio = <<>>
  <1>1. /\ f.disk \in Seq(Nat \ {0}) /\ f.stdio \in Seq(Nat \ {0})
        /\ f.disk \o f.stdio \in Seq(Nat \ {0})
    BY DEF LogFile
  <1>2. (f.disk \o f.stdio) \o <<>> = f.disk \o f.stdio
    BY <1>1
  <1>3. Flush(f).disk = f.disk \o f.stdio /\ Flush(f).stdio = <<>>
    BY DEF Flush, LogFile
  <1>4. Close(f).disk = f.disk \o f.stdio /\ Close(f).stdio = <<>>
    BY <1>3, CloseIsLogFile DEF Close, LogFile
  <1>5. ~f.rolledNow =>
           RollFile(f).disk = f.disk \o f.stdio /\ RollFile(f).stdio = <<>>
    BY <1>4, CloseIsLogFile DEF RollFile, OpenNew, LogFile
  <1>6. f.rolledNow => RollFile(f) = f
    BY DEF RollFile
  <1> QED BY <1>2, <1>3, <1>4, <1>5, <1>6

\* write adds its messages at the end, whether the file rolls or not.
LEMMA WriteAppends ==
  ASSUME NEW f \in LogFile, NEW msgs \in Seq(Nat \ {0}), NEW len \in Nat
  PROVE  Write(f, msgs, len).disk \o Write(f, msgs, len).stdio
            = (f.disk \o f.stdio) \o msgs
  <1> DEFINE g == WriteUnlocked(f, msgs, len)
  <1>1. g \in LogFile /\ g.disk = f.disk /\ g.stdio = f.stdio \o msgs
    <2> DEFINE size == IF f.written + len > FileSize THEN FileSize + 1
                       ELSE f.written + len
    <2>1. f.stdio \o msgs \in Seq(Nat \ {0}) /\ f.written \in Nat
      BY DEF LogFile
    <2>2. size \in Nat
      BY <2>1, LogFileAssumption
    <2>3. ASSUME NEW stdio \in Seq(Nat \ {0}), NEW written \in Nat
          PROVE  /\ [f EXCEPT !.stdio = stdio, !.written = written] \in LogFile
                 /\ [f EXCEPT !.stdio = stdio, !.written = written].disk = f.disk
                 /\ [f EXCEPT !.stdio = stdio, !.written = written].stdio = stdio
      BY DEF LogFile
    <2> QED BY <2>1, <2>2, <2>3 DEF WriteUnlocked
  <1>2. g.disk \o g.stdio = (f.disk \o f.stdio) \o msgs
    <2>1. f.disk \in Seq(Nat \ {0}) /\ f.stdio \in Seq(Nat \ {0})
      BY DEF LogFile
    <2>2. (f.disk \o f.stdio) \o msgs = f.disk \o (f.stdio \o msgs)
      <3> DEFINE S == Nat \ {0}
                 disk == f.disk
                 stdio == f.stdio
      <3>1. disk \in Seq(S) /\ stdio \in Seq(S) /\ msgs \in Seq(S)
        BY <2>1
      <3> HIDE DEF S, disk, stdio
      <3>2. (disk \o stdio) \o msgs = disk \o (stdio \o msgs)
        BY <3>1, Regroup, SMTT(30)
      <3> QED BY <3>2 DEF disk, stdio
    <2> HIDE DEF g
    <2> QED BY <1>1, <2>2
  <1>3. ASSUME NEW count \in Nat
        PROVE  /\ [g EXCEPT !.count = count] \in LogFile
               /\ [g EXCEPT !.count = count].disk = g.disk
               /\ [g EXCEPT !.count = count].stdio = g.stdio
    BY <1>1 DEF LogFile
  <1>4. g.count + 1 \in Nat /\ g.written \in Nat
    BY <1>1 DEF LogFile
  <1>5. CASE g.written > FileSize
    <2>1. Write(f, msgs, len) = RollFile(g)
      BY <1>4, <1>5, LogFileAssumption DEF Write
    <2> HIDE DEF g
    <2> QED BY <1>1, <1>2, <2>1, RollKeepsContent
  <1>6. CASE g.written <= FileSize /\ g.count + 1 >= FileRows
    <2>1. Write(f, msgs, len) = RollFile([g EXCEPT !.count = 0])
      BY <1>4, <1>6, LogFileAssumption DEF Write
    <2>2. /\ [g EXCEPT !.count = 0] \in LogFile
          /\ [g EXCEPT !.count = 0].disk = g.disk
          /\ [g EXCEPT !.count = 0].stdio = g.stdio
      BY <1>3
    <2> DEFINE h == [g EXCEPT !.count = 0]
    <2> HIDE DEF g, h
    <2>3. h \in LogFile /\ h.disk = g.disk /\ h.stdio = g.stdio
          /\ Write(f, msgs, len) = RollFile(h)
      BY <2>1, <2>2 DEF h
    <2> QED BY <1>2, <2>3, RollKeepsContent
  <1>7. CASE g.written <= FileSize /\ ~(g.count + 1 >= FileRows)
    <2>1. Write(f, msgs, len) = [g EXCEPT !.count = g.count + 1]
      BY <1>4, <1>7, LogFileAssumption DEF Write
    <2>2. Write(f, msgs, len).disk = g.disk /\ Write(f, msgs, len).stdio = g.stdio
      BY <1>3, <1>4, <2>1
    <2> QED BY <1>2, <2>2
  <1>8. \/ g.written > FileSize
        \/ g.written <= FileSize /\ g.count + 1 >= FileRows
        \/ g.written <= FileSize /\ ~(g.count + 1 >= FileRows)
    BY <1>4, LogFileAssumption
  <1> HIDE DEF g
  <1> QED BY <1>5, <1>6, <1>7, <1>8

\* The constructor leaves the files as they are.
LEMMA ConstructKeepsContent ==
  ASSUME NEW f \in LogFile, NEW stale \in BOOLEAN, f.stdio = <<>>
  PROVE  /\ Construct(f, stale).disk \o Construct(f, stale).stdio = f.disk \o f.stdio
         /\ Construct(f, stale).stdio = <<>>
  <1> DEFINE g == [f EXCEPT !.count = 0, !.rolledNow = stale]
  <1>1. g \in LogFile /\ g.disk = f.disk /\ g.stdio = f.stdio
    BY DEF LogFile
  <1> QED BY <1>1, RollKeepsContent DEF Construct

-----------------------------------------------------------------------------
(* NothingLost.                                                            *)

\* A spare is empty.
Spare(b) == b # Null => b = Empty

LossInv ==
    /\ Counts(Written)
    /\ pc # "write" => log.stdio = <<>>
    /\ Spare(next) /\ Spare(buffer1) /\ Spare(buffer2)
    /\ InOrder(Line, Len(Written), appended)

\* The buffers that the thread has yet to write.
Unwritten == IF pc = "write" THEN SubSeq(toWrite, n + 1, Len(toWrite)) ELSE <<>>

\* The line is one of buffers, the current one last.
LEMMA LineType ==
  ASSUME IInv
  PROVE  /\ Unwritten \in Seq(Buffer) /\ buffers \in Seq(Buffer) /\ current \in Buffer
         /\ Line = (Unwritten \o buffers) \o <<current>>
         /\ Unwritten \o buffers \in Seq(Buffer)
         /\ Line \in Seq(Buffer)
         /\ Written \in Seq(Nat \ {0}) /\ Len(Written) \in Nat
         /\ appended \in Nat
  <1>1. /\ buffers \in Seq(Buffer) /\ current \in Buffer /\ toWrite \in Seq(Buffer)
        /\ n \in Nat /\ log \in LogFile /\ appended \in Nat
    BY DEF IInv, TypeOK
  <1>2. Unwritten \in Seq(Buffer)
    <2>1. <<>> \in Seq(Buffer)
      OBVIOUS
    <2>2. \A i \in (n + 1)..Len(toWrite) : toWrite[i] \in Buffer
      BY <1>1
    <2>3. SubSeq(toWrite, n + 1, Len(toWrite)) \in Seq(Buffer)
      BY <1>1, <2>2, SubSeqProperties
    <2> QED BY <2>1, <2>3 DEF Unwritten
  <1>3. Written \in Seq(Nat \ {0})
    BY <1>1 DEF Written, LogFile
  <1> HIDE DEF Unwritten
  <1>4. Unwritten \o buffers \in Seq(Buffer)
    BY <1>1, <1>2
  <1>5. (Unwritten \o buffers) \o <<current>> \in Seq(Buffer)
    BY <1>1, <1>4
  <1>6. Line = (Unwritten \o buffers) \o <<current>>
    BY DEF Line, Unwritten
  <1>7. Len(Written) \in Nat
    BY <1>3
  <1> QED BY <1>1, <1>2, <1>3, <1>4, <1>5, <1>6, <1>7

\* append puts its message at the end of the line.
LEMMA AppendLosesNothing ==
  ASSUME IInv, LossInv, NEW len \in 1..Capacity, AppendMessage(len)
  PROVE  LossInv'
  <1>1. /\ appended' = appended + 1 /\ Unwritten' = Unwritten
        /\ UNCHANGED <<log, pc, buffer1, buffer2>> /\ Written' = Written
    BY DEF AppendMessage, local, Unwritten, Written
  <1>2. /\ InOrder(Line, Len(Written), appended)
        /\ Line' = (Unwritten \o buffers') \o <<current'>>
    BY <1>1 DEF LossInv, Line, Unwritten
  <1>3. CASE Capacity - current.used > len
    <2>1. current' = Put(current, appended + 1, len) /\ UNCHANGED <<next, buffers>>
      BY <1>3, LineType, CapacityIsPositive DEF AppendMessage, Buffer
    <2>2. Capacity - current.used >= len
      BY <1>3, LineType, CapacityIsPositive DEF Buffer
    <2>3. InOrder(Line', Len(Written), appended + 1)
      BY <1>2, <2>1, <2>2, LineType, LineGrows
    <2> QED BY <1>1, <2>1, <2>3 DEF LossInv
  <1>4. CASE ~(Capacity - current.used > len)
    <2>1. AppendFull(len)
      BY <1>4 DEF AppendMessage
    <2>2. /\ buffers' = Append(buffers, current) /\ next' = Null
          /\ current' = Put(Empty, appended + 1, len)
      BY <2>1 DEF AppendFull, LossInv, Spare
    <2>3. Unwritten \o buffers' = Line
      <3>1. buffers' = buffers \o <<current>>
        BY <2>2, LineType
      <3>2. <<current>> \in Seq(Buffer)
        BY LineType
      <3>3. (Unwritten \o buffers) \o <<current>> = Unwritten \o (buffers \o <<current>>)
        <4>1. Unwritten \in Seq(Buffer) /\ buffers \in Seq(Buffer)
          BY LineType
        <4> QED BY <3>2, <4>1, Regroup
      <3> QED BY <3>1, <3>3, LineType
    <2>4. InOrder(Line \o <<Empty>>, Len(Written), appended)
      BY <1>2, LineType, LineExtends
    <2>5. Capacity - Empty.used >= len
      BY CapacityIsPositive DEF Empty
    <2>6. InOrder(Line \o <<Put(Empty, appended + 1, len)>>, Len(Written), appended + 1)
      BY <2>4, <2>5, LineType, LineGrows, EmptyIsBuffer
    <2> QED BY <1>1, <1>2, <2>2, <2>3, <2>6 DEF LossInv, Spare
  <1> QED BY <1>3, <1>4

\* The swap only adds the empty spare to the line.
LEMMA SwapLosesNothing ==
  ASSUME IInv, LossInv, Swap
  PROVE  LossInv'
  <1>1. /\ pc = "lock" /\ pc' = "write" /\ n' = n /\ n = 0
        /\ toWrite' = Append(buffers, current) /\ buffers' = <<>>
        /\ current' = Empty /\ Spare(next)' /\ Spare(buffer1)' /\ Spare(buffer2)'
        /\ UNCHANGED <<log, appended>> /\ Written' = Written
    BY NullIsNoBuffer
       DEF Swap, HandOver, IInv, BufferPlace, LossInv, Spare, Written, TypeOK
  <1>2. Unwritten' = Line
    <2>1. toWrite' = buffers \o <<current>> /\ toWrite' \in Seq(Buffer)
      BY <1>1, LineType
    <2>2. SubSeq(toWrite', 1, Len(toWrite')) = toWrite'
      BY <2>1, SubSeqFull
    <2>3. Unwritten' = toWrite'
      BY <1>1, <2>2 DEF Unwritten
    <2>4. Line = buffers \o <<current>>
      BY <1>1, LineType DEF Unwritten
    <2> QED BY <2>1, <2>3, <2>4
  <1>3. Line' = Line \o <<Empty>>
    <2>1. Line' = (Unwritten' \o buffers') \o <<current'>>
      BY DEF Line, Unwritten
    <2> QED BY <1>1, <1>2, <2>1, LineType
  <1>4. InOrder(Line \o <<Empty>>, Len(Written), appended)
    BY LineType, LineExtends DEF LossInv
  <1> QED BY <1>1, <1>3, <1>4 DEF LossInv

\* The first buffer of the line goes to the file.
LEMMA WriteLosesNothing ==
  ASSUME IInv, LossInv, WriteBuffer
  PROVE  LossInv'
  <1> USE DEF IInv, TypeOK
  <1>1. /\ pc = "write" /\ n < Len(toWrite) /\ n + 1 \in 1..Len(toWrite)
        /\ toWrite[n + 1] \in Buffer
        /\ UNCHANGED <<buffers, current, next, buffer1, buffer2, toWrite, pc, appended>>
    BY DEF WriteBuffer, shared
  <1>2. CASE log.open
    <2> DEFINE b == toWrite[n + 1]
    <2>1. log' = Write(log, b.msgs, b.used) /\ n' = n + 1
      BY <1>2 DEF WriteBuffer
    <2>2. b \in Buffer /\ b.msgs \in Seq(Nat \ {0}) /\ b.used \in Nat
      BY <1>1, CapacityIsPositive DEF Buffer
    <2>3. Written' = Written \o b.msgs
      BY <2>1, <2>2, WriteAppends DEF Written
    <2>4. Line # <<>> /\ Line[1] = b /\ Tail(Line) = Line'
      <3>1. Unwritten = <<b>> \o Unwritten'
        <4>1. Len(toWrite) \in (n + 1)..Len(toWrite)
          BY <1>1
        <4>2. SubSeq(toWrite, n + 1, Len(toWrite))
                 = <<toWrite[n + 1]>> \o SubSeq(toWrite, n + 2, Len(toWrite))
          BY <1>1, <4>1, SubSeqRecursiveFirst
        <4> QED BY <1>1, <2>1, <4>2 DEF Unwritten
      <3>2. Unwritten' \in Seq(Buffer)
        <4>1. \A i \in (n + 2)..Len(toWrite) : toWrite[i] \in Buffer
          BY <1>1
        <4>2. SubSeq(toWrite, n + 2, Len(toWrite)) \in Seq(Buffer)
          BY <4>1, SubSeqProperties
        <4> QED BY <1>1, <2>1, <4>2 DEF Unwritten
      <3>3. Line' = (Unwritten' \o buffers) \o <<current>>
        BY <1>1 DEF Line, Unwritten
      <3> HIDE DEF b
      <3>0. <<b>> \in Seq(Buffer) /\ <<current>> \in Seq(Buffer)
            /\ Unwritten' \o buffers \in Seq(Buffer)
        BY <2>2, <3>2, LineType
      <3>4. Line = <<b>> \o Line'
        <4>0. buffers \in Seq(Buffer)
          BY LineType
        <4>1. (<<b>> \o Unwritten') \o buffers = <<b>> \o (Unwritten' \o buffers)
          BY <3>0, <3>2, <4>0, Regroup
        <4>2. (<<b>> \o (Unwritten' \o buffers)) \o <<current>>
                 = <<b>> \o ((Unwritten' \o buffers) \o <<current>>)
          BY <3>0, <3>2, LineType, SMTT(30)
        <4> QED BY <3>1, <3>3, <4>1, <4>2, LineType
      <3>5. Line' \in Seq(Buffer)
        BY <3>2, <3>3, LineType
      <3> QED BY <2>2, <3>4, <3>5
    <2> HIDE DEF b
    <2>5. /\ \A k \in 1..Len(b.msgs) : b.msgs[k] = Len(Written) + k
          /\ InOrder(Line', Len(Written) + Len(b.msgs), appended)
      <3>1. InOrder(Line, Len(Written), appended)
        BY DEF LossInv
      <3>2. Line \in Seq(Buffer) /\ Len(Written) \in Nat /\ appended \in Nat
        BY LineType
      <3>3. Line # <<>> /\ Line[1] = b /\ Tail(Line) = Line'
        BY <2>4
      <3>4. /\ \A k \in 1..Len(Line[1].msgs) : Line[1].msgs[k] = Len(Written) + k
            /\ InOrder(Tail(Line), Len(Written) + Len(Line[1].msgs), appended)
        BY <3>1, <3>2, <3>3, OldestFirst, Zenon
      <3> QED BY <3>3, <3>4, Zenon
    <2>6. Len(Written') = Len(Written) + Len(b.msgs)
      BY <2>2, <2>3, LineType
    <2>7. Counts(Written')
      <3>1. Counts(Written)
        BY DEF LossInv
      <3>2. \A k \in 1..Len(Written') :
               Written'[k] = IF k <= Len(Written) THEN Written[k]
                             ELSE b.msgs[k - Len(Written)]
        BY <2>2, <2>3, LineType
      <3>3. /\ Len(Written) \in Nat /\ Len(b.msgs) \in Nat
            /\ Len(Written') = Len(Written) + Len(b.msgs)
        BY <2>2, <2>6, LineType
      <3>4. ASSUME NEW k \in 1..Len(Written') PROVE Written'[k] = k
        <4>1. CASE k <= Len(Written)
          BY <3>1, <3>2, <3>3, <4>1 DEF Counts
        <4>2. CASE ~(k <= Len(Written))
          <5>1. k - Len(Written) \in 1..Len(b.msgs)
            BY <3>3, <4>2
          <5>2. b.msgs[k - Len(Written)] = Len(Written) + (k - Len(Written))
            BY <2>5, <5>1
          <5> QED BY <3>2, <3>3, <4>2, <5>2
        <4> QED BY <4>1, <4>2
      <3> QED BY <3>4 DEF Counts
    <2> QED BY <1>1, <2>5, <2>6, <2>7 DEF LossInv, Spare, Counts
  <1>3. CASE ~log.open
    <2>1. log' = log /\ n' = n
      BY <1>3 DEF WriteBuffer
    <2> QED BY <1>1, <2>1 DEF LossInv, Spare, Line, Written
  <1> QED BY <1>2, <1>3

\* Flushing moves the content from the FILE's buffer to the disk.
LEMMA RecycleLosesNothing ==
  ASSUME IInv, LossInv, Recycle
  PROVE  LossInv'
  <1>1. /\ pc = "write" /\ n = Len(toWrite) /\ pc' = "test" /\ log' = Flush(log)
        /\ buffer1' = Empty /\ buffer2' = Empty
        /\ UNCHANGED <<buffers, current, next, appended>>
    BY DEF Recycle, shared
  <1>2. Written' = Written /\ log'.stdio = <<>>
    BY <1>1, RollKeepsContent DEF Written, IInv, TypeOK
  <1>3. Unwritten = <<>> /\ Unwritten' = <<>>
    <2>1. SubSeq(toWrite, n + 1, Len(toWrite)) = <<>>
      BY <1>1, SubSeqEmpty DEF IInv, TypeOK
    <2> QED BY <1>1, <2>1 DEF Unwritten
  <1>4. Line' = Line
    BY <1>1, <1>3 DEF Line, Unwritten
  <1> QED BY <1>1, <1>2, <1>4 DEF LossInv, Spare

\* Nothing else touches a message, but where the LogFile is made, closed or told of
\* the time.
LEMMA QuietLosesNothing ==
  ASSUME IInv, LossInv,
         (pc # "write" /\ pc' # "write") \/ UNCHANGED <<pc, toWrite, n>>,
         UNCHANGED <<current, next, buffers, appended>>,
         UNCHANGED <<buffer1, buffer2>> \/ (buffer1' = Empty /\ buffer2' = Empty),
         Written' = Written, log.stdio = <<>> => log'.stdio = <<>>
  PROVE  LossInv'
  <1>1. Line' = Line
    BY DEF Line
  <1> QED BY <1>1 DEF LossInv, Spare

LEMMA NextLosesNothing == IInv /\ OneThread /\ LossInv /\ [Next]_vars => LossInv'
  <1> SUFFICES ASSUME IInv, OneThread, LossInv, [Next]_vars PROVE LossInv'
    OBVIOUS
  <1> USE DEF shared, local, ownerVars
  <1>0. log \in LogFile
    BY DEF IInv, TypeOK
  <1>1. CASE \E len \in 1..Capacity : AppendMessage(len)
    BY <1>1, AppendLosesNothing
  <1>2. CASE Swap \/ WriteBuffer \/ Recycle
    BY <1>2, SwapLosesNothing, WriteLosesNothing, RecycleLosesNothing
  <1>3. CASE Begin
    <2>1. PICK stale \in {FALSE, log.rolledNow} : log' = Construct(log, stale)
      BY <1>3 DEF Begin
    <2>2. stale \in BOOLEAN /\ log.stdio = <<>>
      BY <1>0, <1>3 DEF Begin, LossInv, LogFile
    <2>3. Written' = Written /\ log'.stdio = <<>>
      BY <1>0, <2>1, <2>2, ConstructKeepsContent DEF Written
    <2> QED BY <1>3, <2>3, QuietLosesNothing DEF Begin
  <1>4. CASE TestStart
    <2>1. log' = log \/ log' = Close(log)
      BY <1>4 DEF TestStart
    <2>2. Written' = Written /\ (log.stdio = <<>> => log'.stdio = <<>>)
      BY <1>0, <2>1, RollKeepsContent DEF Written
    <2> QED BY <1>4, <2>2, QuietLosesNothing DEF TestStart
  <1>5. CASE NextSecond
    <2>1. log'.disk = log.disk /\ log'.stdio = log.stdio
      BY <1>0, <1>5 DEF NextSecond, SecondPasses, LogFile
    <2>2. Written' = Written
      BY <2>1 DEF Written
    <2> QED BY <1>5, <2>1, <2>2, QuietLosesNothing DEF NextSecond
  <1>6. CASE \/ ThreadBegins \/ Start \/ OwnerSleeps \/ ThreadStarted \/ Started
             \/ Stop \/ Joined \/ UNCHANGED vars
    <2>1. /\ (pc # "write" /\ pc' # "write") \/ UNCHANGED <<pc, toWrite, n>>
          /\ UNCHANGED <<current, next, buffers, appended, buffer1, buffer2, log>>
      BY <1>6 DEF ThreadBegins, OneThread, Start, OwnerSleeps, ThreadStarted, Started,
                  Stop, Joined, vars
    <2>2. Written' = Written
      BY <2>1 DEF Written
    <2> QED BY <2>1, <2>2, QuietLosesNothing
  <1> QED BY <1>1, <1>2, <1>3, <1>4, <1>5, <1>6 DEF Next, ThreadStep

\* NothingLost is an invariant for any capacity, any size and number of files, any
\* messages and any number of stops and starts: what append has put into a buffer
\* reaches the files once and in order.
THEOREM EveryMessageIsWritten == Spec => []NothingLost
  <1>1. Init => LossInv
    <2> SUFFICES ASSUME Init PROVE LossInv
      OBVIOUS
    <2>1. /\ Line = <<Empty>> /\ Written = <<>> /\ appended = 0 /\ log.stdio = <<>>
          /\ next = Empty /\ buffer1 = Null /\ buffer2 = Null
      BY DEF Init, Line, Written, NoLogFile
    <2>2. InOrder(<<Empty>>, 0, 0)
      BY NoMessages DEF InOrder, AllOf
    <2> QED BY <2>1, <2>2 DEF LossInv, Spare, Counts
  <1>2. IInv /\ LossInv => NothingLost
    <2> SUFFICES ASSUME IInv, LossInv PROVE NothingLost
      OBVIOUS
    <2>1. Written = [m \in 1..Len(Written) |-> m]
      BY LineType DEF LossInv, Counts
    <2>2. ASSUME NEW i \in 1..Len(Line), NEW k \in 1..Len(Line[i].msgs) - 1
          PROVE  Line[i].msgs[k + 1] = Line[i].msgs[k] + 1
      <3>1. Line[i] \in Buffer
        BY LineType
      <3>2. Line[i].msgs \in Seq(Nat \ {0})
        BY <3>1 DEF Buffer
      <3>3. /\ k \in 1..Len(Line[i].msgs) /\ k + 1 \in 1..Len(Line[i].msgs)
            /\ 1 \in 1..Len(Line[i].msgs)
        BY <3>2
      <3>4. Line[i].msgs[1] \in Nat
        BY <3>2, <3>3
      <3>5. Consecutive(Line[i])
        BY DEF LossInv, InOrder
      <3>6. /\ Line[i].msgs[k] = Line[i].msgs[1] + (k - 1)
            /\ Line[i].msgs[k + 1] = Line[i].msgs[1] + ((k + 1) - 1)
        BY <3>3, <3>5 DEF Consecutive
      <3> QED BY <3>4, <3>6
    <2> QED BY <2>1, <2>2 DEF LossInv, InOrder, AllOf, NothingLost
  <1> QED BY <1>1, <1>2, Invariant, NextLosesNothing, PTL DEF Spec
=============================================================================
