---------------------------- MODULE AsyncLogging ----------------------------
(***************************************************************************)
(* base::AsyncLogging (src/AsyncLogging.cpp): any thread appends messages  *)
(* to currentBuffer_ under the mutex; a thread of its own swaps the filled *)
(* buffers out, writes them to the LogFile (LogFile.tla) and hands two of  *)
(* them back as spares.  The owner starts and stops that thread, which it  *)
(* joins (Thread.tla).                                                     *)
(*                                                                         *)
(* A message is the number of its append, 1, 2, ..., so the content of a   *)
(* buffer and of the files is a sequence of numbers.  A BufferPtr that has *)
(* been moved from is Null.  The thread's wait on cond_ has a timeout and  *)
(* is not in a loop: it only delays the swap, and is left out with its    *)
(* signals.                                                                *)
(***************************************************************************)
EXTENDS Naturals, Sequences, LogFile, Thread

CONSTANTS
    Capacity,           \* the size of a FixedBuffer
    MaxMessages,        \* bound: the number of appends
    Null                \* a BufferPtr that holds nothing

ASSUME CapacityIsPositive == Capacity \in Nat \ {0}
ASSUME MaxMessagesIsNat == MaxMessages \in Nat

Buffer == [msgs : Seq(Nat \ {0}), used : 0..Capacity]
Empty == [msgs |-> <<>>, used |-> 0]
ASSUME NullIsNoBuffer == Null \notin Buffer

VARIABLES
    start,              \* start_
    current,            \* currentBuffer_
    next,               \* nextBuffer_
    buffers,            \* buffers_
    buffer1,            \* the thread's spare buffers
    buffer2,
    toWrite,            \* bufferToWrite
    n,                  \* how many of toWrite have been written
    log,                \* the thread's LogFile, and the files
    pc,                 \* where the thread is in threadfunc
    thread,             \* thread_
    latch,              \* latch_
    owner,              \* where the owner is in start and stop
    appended,           \* history: the number of messages appended
    over                \* what has ended the process

ownerVars == <<start, thread, latch, owner>>
vars == <<start, current, next, buffers, buffer1, buffer2, toWrite, n, log, pc,
          thread, latch, owner, appended, over>>
shared == <<current, next, buffers>>
local == <<buffer1, buffer2, toWrite, n, log>>

TypeOK ==
    /\ start \in BOOLEAN
    /\ current \in Buffer
    /\ next \in Buffer \cup {Null}
    /\ buffers \in Seq(Buffer)
    /\ buffer1 \in Buffer \cup {Null}
    /\ buffer2 \in Buffer \cup {Null}
    /\ toWrite \in Seq(Buffer)
    /\ n \in Nat
    /\ log \in LogFile
    /\ pc \in {"none", "init", "test", "lock", "write"}
    /\ thread \in ThreadType
    /\ latch \in Latch
    /\ owner \in {"idle", "creating", "starting", "running", "joining"}
    /\ appended \in Nat
    /\ over \in {"no", "assertion", "nullFile"}

Init ==
    /\ start = FALSE
    /\ current = Empty
    /\ next = Empty
    /\ buffers = <<>>
    /\ buffer1 = Null
    /\ buffer2 = Null
    /\ toWrite = <<>>
    /\ n = 0
    /\ log = NoLogFile
    /\ pc = "none"
    /\ thread = NewThread
    /\ latch = NewLatch
    /\ owner = "idle"
    /\ appended = 0
    /\ over = "no"

Up == over = "no"

-----------------------------------------------------------------------------
(* The appending threads.                                                  *)

\* FixedBuffer::append drops what does not fit
Put(b, m, len) ==
    IF Capacity - b.used >= len
    THEN [msgs |-> Append(b.msgs, m), used |-> b.used + len]
    ELSE b

\* mutant: without a spare no new buffer is made
AppendFullNoNew(len) ==
    /\ buffers' = Append(buffers, current)
    /\ current' = IF next # Null THEN Put(next, appended + 1, len) ELSE Null
    /\ next' = Null

\* append, when the message does not leave room in the current buffer
AppendFull(len) ==
    /\ buffers' = Append(buffers, current)
    /\ current' = Put(IF next # Null THEN next ELSE Empty, appended + 1, len)
    /\ next' = Null

\* append; Logger's own buffer bounds a message by Capacity
AppendMessage(len) ==
    /\ Up
    /\ appended < MaxMessages
    /\ appended' = appended + 1
    /\ \/ /\ Capacity - current.used > len
          /\ current' = Put(current, appended + 1, len)
          /\ UNCHANGED <<next, buffers>>
       \/ /\ Capacity - current.used <= len
          /\ AppendFull(len)
    /\ UNCHANGED <<local, pc, ownerVars, over>>

-----------------------------------------------------------------------------
(* The thread.                                                             *)

\* Thread::threadfunc
ThreadBegins ==
    /\ Up
    /\ thread.life = "created"
    /\ thread' = Announce(thread)
    /\ pc' = "init"
    /\ UNCHANGED <<start, latch, owner, shared, local, appended, over>>

\* threadfunc up to its loop.  The LogFile may find the second of the one that the
\* last thread had in the same place of its stack, and then opens no file.
Begin ==
    /\ Up
    /\ pc = "init"
    /\ latch' = CountDown(latch)
    /\ buffer1' = Empty
    /\ buffer2' = Empty
    /\ toWrite' = <<>>
    /\ \E stale \in {FALSE, log.rolledNow} : log' = Construct(log, stale)
    /\ pc' = "test"
    /\ UNCHANGED <<start, thread, owner, shared, n, appended, over>>

\* while(start_): another round, or threadfunc returns and its LogFile is closed
TestStart ==
    /\ Up
    /\ pc = "test"
    /\ \/ /\ start
          /\ pc' = "lock"
          /\ UNCHANGED <<thread, log>>
       \/ /\ ~start
          /\ pc' = "none"
          /\ thread' = End(thread)
          /\ log' = Close(log)
    /\ UNCHANGED <<start, latch, owner, shared, buffer1, buffer2, toWrite, n,
                   appended, over>>

\* mutant: the wait of the code's comment, while(buffers_.empty()) cond_.wait()
WaitUntilFull == buffers # <<>>

\* if(buffers_.empty()) cond_.waitForSeconds(1) ends in any case
WaitEnds == TRUE

\* mutant: the second spare is handed over whether it is needed or not
HandOverBoth ==
    /\ current' = buffer1 /\ buffer1' = Null
    /\ next' = buffer2 /\ buffer2' = Null

\* the spares take the places of the buffers that are gone
HandOver ==
    /\ current' = buffer1
    /\ buffer1' = Null
    /\ next' = IF next = Null THEN buffer2 ELSE next
    /\ buffer2' = IF next = Null THEN Null ELSE buffer2

\* the block under the lock, after the wait if there was one
Swap ==
    /\ Up
    /\ pc = "lock"
    /\ WaitEnds
    /\ toWrite' = Append(buffers, current)
    /\ buffers' = toWrite
    /\ HandOver
    /\ pc' = "write"
    /\ UNCHANGED <<ownerVars, n, log, appended, over>>

\* LogFile::append, for one buffer after the other
WriteBuffer ==
    LET b == toWrite[n + 1] IN
    /\ Up
    /\ pc = "write"
    /\ n < Len(toWrite)
    /\ \/ /\ log.open
          /\ log' = Write(log, b.msgs, b.used)
          /\ n' = n + 1
          /\ UNCHANGED over
       \/ /\ ~log.open
          /\ over' = "nullFile"
          /\ UNCHANGED <<log, n>>
    /\ UNCHANGED <<ownerVars, shared, buffer1, buffer2, toWrite, pc, appended>>

\* how many of the written buffers become spares again
Missing == IF buffer2 = Null THEN 2 ELSE 1

\* the spares come back from the end of bufferToWrite, cleared; an assertion
\* fails when there are too few (buffer1 has always been handed over)
Recycle ==
    /\ Up
    /\ pc = "write"
    /\ n = Len(toWrite)
    /\ over' = IF Len(toWrite) < Missing THEN "assertion" ELSE "no"
    /\ buffer1' = Empty
    /\ buffer2' = Empty
    /\ toWrite' = <<>>
    /\ n' = 0
    /\ log' = Flush(log)
    /\ pc' = "test"
    /\ UNCHANGED <<ownerVars, shared, appended>>

ThreadStep ==
    ThreadBegins \/ Begin \/ TestStart \/ Swap \/ WriteBuffer \/ Recycle

-----------------------------------------------------------------------------
(* The owner, and the clock.                                               *)

\* start up to the creation of the thread; a stopped logger may start again
Start ==
    /\ Up
    /\ owner = "idle"
    /\ start' = TRUE
    /\ owner' = "creating"
    /\ thread' = Create(thread)
    /\ UNCHANGED <<latch, pc, shared, local, appended, over>>

\* thread_.start() or latch_.wait() sleeps
OwnerSleeps ==
    /\ Up
    /\ \/ /\ owner = "creating"
          /\ StartWaits(thread)
          /\ thread' = StartSleeps(thread)
          /\ UNCHANGED latch
       \/ /\ owner = "starting"
          /\ MustWait(latch)
          /\ latch' = Sleep(latch)
          /\ UNCHANGED thread
    /\ UNCHANGED <<start, owner, pc, shared, local, appended, over>>

\* thread_.start() returns
ThreadStarted ==
    /\ Up
    /\ owner = "creating"
    /\ StartReturns(thread)
    /\ owner' = "starting"
    /\ UNCHANGED <<start, thread, latch, pc, shared, local, appended, over>>

\* latch_.wait() returns; neither latch is ever reset
Started ==
    /\ Up
    /\ owner = "starting"
    /\ IsOpen(latch)
    /\ owner' = "running"
    /\ UNCHANGED <<start, thread, latch, pc, shared, local, appended, over>>

Stop ==
    /\ Up
    /\ owner = "running"
    /\ start' = FALSE
    /\ owner' = "joining"
    /\ UNCHANGED <<thread, latch, pc, shared, local, appended, over>>

Joined ==
    /\ Up
    /\ owner = "joining"
    /\ JoinReturns(thread)
    /\ thread' = Join(thread)
    /\ owner' = "idle"
    /\ UNCHANGED <<start, latch, pc, shared, local, appended, over>>

NextSecond ==
    /\ Up
    /\ log.rolledNow
    /\ log' = SecondPasses(log)
    /\ UNCHANGED <<ownerVars, shared, buffer1, buffer2, toWrite, n, pc, appended,
                   over>>

-----------------------------------------------------------------------------

Next ==
    \/ \E len \in 1..Capacity : AppendMessage(len)
    \/ ThreadStep
    \/ Start
    \/ OwnerSleeps
    \/ ThreadStarted
    \/ Started
    \/ Stop
    \/ Joined
    \/ NextSecond

Spec == Init /\ [][Next]_vars

\* the thread runs, its wait times out, and the owner's waits end when they can
Fairness ==
    /\ WF_vars(ThreadStep)
    /\ WF_vars(ThreadStarted)
    /\ WF_vars(Started)
    /\ WF_vars(Joined)

FairSpec == Spec /\ Fairness

-----------------------------------------------------------------------------
(* Properties.                                                             *)

\* Where the buffers are, which AssertionsHold rests on: the current buffer has
\* used up the spare only if a full one waits for the thread, and a spare has left
\* the thread only for a buffer that it will get back.
BufferPlace ==
    /\ next = Null => buffers # <<>>
    /\ pc \in {"test", "lock"} =>
          buffer1 \in Buffer /\ buffer2 \in Buffer /\ toWrite = <<>>
    /\ pc # "write" => n = 0
    /\ pc = "write" =>
          n <= Len(toWrite) /\ Len(toWrite) >= Missing /\ buffer1 = Null

\* One thread at a time: the owner joins the last one before it starts another.
OneThread ==
    /\ owner = "idle" => thread.life = "none"
    /\ owner # "idle" => thread.start
    /\ pc # "none" => thread.life = "running"

\* assert(!bufferToWrite.empty()), AsyncLogging.cpp:112 and 118: the thread gets
\* back as many buffers as it hands over, however full the appending threads
\* make them.
AssertionsHold == over # "assertion"

\* what has been written, and the buffers that hold what has not, oldest first
Written == log.disk \o log.stdio
Line ==
    (IF pc = "write" THEN SubSeq(toWrite, n + 1, Len(toWrite)) ELSE <<>>)
        \o buffers \o <<current>>

Messages(b) == {b.msgs[k] : k \in 1..Len(b.msgs)}

\* Nothing is lost, repeated or reordered on its way through the buffers, from
\* append to the files, by rolling from one file to the next and by stop and
\* start: the files hold the first messages, the buffers exactly the others,
\* consecutive ones inside a buffer and older ones in the buffers written before
\* it, and what is in the FILE's buffer is not left there between rounds.
NothingLost ==
    /\ Written = [m \in 1..Len(Written) |-> m]
    /\ pc # "write" => log.stdio = <<>>
    /\ UNION {Messages(Line[i]) : i \in 1..Len(Line)}
          = (Len(Written) + 1)..appended
    /\ \A i \in 1..Len(Line) : \A k \in 1..Len(Line[i].msgs) - 1 :
          Line[i].msgs[k + 1] = Line[i].msgs[k] + 1
    /\ \A i, j \in 1..Len(Line) :
          i < j => \A l \in Messages(Line[i]), m \in Messages(Line[j]) : l < m

\* A message is on disk within a round or two, though its buffer is not full,
\* unless the logger is stopped first, or was restarted within the second in
\* which its last file was opened (Begin).
AppendedIsWritten ==
    \A m \in 1..MaxMessages :
        (appended >= m /\ start)
            ~> (Len(log.disk) >= m \/ ~start \/ over = "nullFile")

\* start and stop return: the owner is not left asleep at either latch, whether it
\* gets there before the thread or after, and the thread is not left in its wait.
OwnerReturns ==
    (owner \in {"creating", "starting", "joining"})
        ~> (owner \in {"running", "idle"} \/ over = "nullFile")
=============================================================================
