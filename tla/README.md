# Reactor: specifications, model checking and proofs

Reactor (`src/Reactor`) is a C++ network library in the style of muduo: one event
loop per thread, non-blocking sockets, user callbacks, and around them timers, a
thread pool and an asynchronous logger. This directory holds TLA+ specifications
translated from its source, TLC configurations that check them on small
instances, and TLAPS proofs of what holds for instances of every size.

Contents: [Inventory](#inventory), [Plan](#plan),
[Modules and the code](#modules-and-the-code), [Runs](#runs),
[Fairness](#fairness), [Proofs](#proofs), [Disagreements](#disagreements),
[Assumptions and what is not modelled](#assumptions-and-what-is-not-modelled),
[Running the checks](#running-the-checks).

## Inventory

### Components, their state and their operations

| component | state | operations | talks to |
|---|---|---|---|
| `EventLoop` | `start_`, `callingPendFunctors_`, `pendingFunctors_` (under `mutex_`), the eventfd, `activeChannel_` | `loop`, `stop`, `runInLoop`, `queueInLoop`, `wakeup`, `doPendingFunctors` | every thread; its poller; the channels' callbacks |
| `Channel` | `events_`, `revents_`, `index_`, four callbacks | `enableReading` .. `disableAll`, `remove`, `handlerEvent` | its owner's callbacks; `Poller::update`, `remove` |
| `Poll`, `Epoll` (`DefaultPoller` chooses) | `pollfds_` or the kernel's list, `channelMap_`, the channels' indexes | `update`, `remove`, `poll` | the kernel; channels |
| `TcpServer`, `Acceptor` | `connections_` (base loop only) | `setThreadNum`, `start`, `OnConnection`, `closeConnection`, `removeConnection` | its pool, whose loops it reaches by functors |
| `TcpConnection` | `state_`, the socket, its channel, two `Buffer`s; shared ownership | `connectEstablished`, `handleRead`, `handleWrite`, `handleClose`, `send`, `shutdown`, `removeConnectionInPoller` | the user's callbacks; its server or client |
| `Connector` | `connecting_`, `state_`, `retryDelayms_`, `connectChannel_` | `start`, `stop`, `restart`, `connect`, `retry`, `handleWrite`, `handleError` | timers; `TcpClient` |
| `TcpClient` | `connPtr_`, `retry_` | `start`, `stop`, `OnConnection`, `removeConnection`, the destructor | its Connector and connection |
| `TimerQueue`, `Timer` | `timers_`, `callingExpiredTimers_`, `cancelTimers_`, the timerfd | `addTimer`, `cancel`, `handlerRead`, `getExpired`, `reset` | `EventLoop::runAfter`, `runEvery` |
| `ThreadPool` | `threads_`, `taskQueue_`, `taskNum_`, `start_`, two condition variables | `start`, `stop`, `dispatchTask`, `take` | callers; running tasks |
| `AsyncLogging` | `currentBuffer_`, `nextBuffer_`, `buffers_` (under `mutex_`), the thread's two spares | `append`, `threadfunc`, `start`, `stop` | every logging thread; `LogFile` |
| `EventThreadLoop`, `EventLoopThreadPool` | `loop_`; `loops_`, `next_` | `startLoop`, `threadfunc`; `start`, `getNextLoop` | `Thread`, `EventLoop` |
| `Buffer` | a chain of blocks with `off_` and `misalign_`, `lastWithData_`, `totalSize_` | `bufferAdd`, `bufferRead`, `bufferDrain`, `bufferExpandFast`, `writeIovec` | `TcpConnection` |
| `Signal` | `mask_`, the signalfd, `signalMap_`; the thread's signal mask | `setSignal`, `delSignal`, `handleRead` | the kernel; its channel |
| `LogFile`, `FileUtil` | the open file, counters, `lastRollFile_`; the thread-local time of the names | `append`, `rollFile`, `getBaseName`, `flush` | the file system; the clock |
| `Thread`, `CountDownLatch` | `start_`, the count | `start`, `stop`, `threadfunc`; `wait`, `countDown` | their owner and the new thread |
| `Mutex`, `Condition`, `Logger`, `LogStream`, `TimeStamp`, `Socket`, `SocketOps`, `InetAddress`, `CurrentThread` | little or none | formatting and wrappers | |

`LowBuffer` and `OldSignal` are earlier versions that the build does not compile.

### What is hard

- **Interleaving.** Any thread may queue a functor or stop the loop between any
  two steps of a round: a wakeup or a stop could be lost. Workers and callers
  meet on two condition variables of one mutex.
- **Ordering and ownership.** Work crosses threads as functors. A connection
  is closed by its IO loop, erased by the base loop and taken off the poller by
  the IO loop again; what keeps it alive meanwhile is the `shared_ptr`
  in a functor. Functors queued in a round run after all of its events.
- **Stale state.** Descriptors are reused, and are the keys of `channelMap_` and
  `connections_`; the pollers keep indexes of moved entries; a round goes on
  with events that a callback of the same round has made obsolete.
- **Timeouts and retries.** Timers cancel themselves and one another while they
  run; the Connector's retry timer meets `stop`, `start` and `restart`.
- **Limits.** A bounded task queue whose tasks fill it themselves; a logger that
  must have a spare buffer however fast others append.
- **Process-wide state.** A thread's signal mask is set by every `Signal` in it and
  inherited by the threads it creates; a signalfd reports what it was told last.
- **Liveness.** Threads that are started are waited for twice, by a latch and by
  `loop_`. Pending functors are run, closed connections destroyed, due
  timers called, dispatched tasks run, appended messages written, joins return.

PROJECT.json lists each hazard at the line where it bites, with the properties
that would catch it, or the reason why none does.

### What makes each component correct

| component | properties |
|---|---|
| `EventLoop` | no functor and no stop is lost in a blocking poll; functors run once, in order; a stopped loop returns |
| pollers | the kernel watches what the live channels want, and reports nothing else; assertions hold |
| `TcpServer`, `TcpConnection` | an open connection is registered under its own name; no channel outlives its connection; a closed one is destroyed; an ended stream is closed |
| `TcpClient`, `Connector` | one attempt at a time, each channel told to the poller once; a started client connects once it can |
| `TimerQueue` | the timerfd is armed in time; cancelled timers stay away; the due are run |
| `ThreadPool` | the bound holds; no signal is lost; tasks are run; `stop` returns |
| `AsyncLogging`, `LogFile`, `Thread` | nothing lost, repeated or reordered up to the files, which are rolled in between; spares suffice; messages reach the disk; `start` and `stop` return; no two files have one name |
| `EventThreadLoop`, `EventLoopThreadPool` | every loop that `start` waits for comes to run; the server listens |
| `Signal` | what is set is blocked and reported; a reported signal is there to be read and has a callback; a pending one is handled |
| `Buffer`, reading and writing | input reaches the callback intact; no byte sent is lost or repeated in the buffer; POLLOUT is watched exactly while there is something to write |

## Plan

Done, in this order: the loop (everything else runs in it), the server and its
connections, the logger, the thread pool, the timers, the client, both pollers as
implementations of an abstract one, the buffers and the send path. Each composed
module (`TcpServer`, `TcpClient`) takes from `EventLoop` what that module establishes:
a round handles the reported channels, then runs the functors queued so far in order,
and pending functors are not forgotten.

Then, below and beside these: the threads (`Thread`, `EventThreadLoop`) under the
logger's start and under the start of the server's pool, the files under the logger,
and the signals.

Then the proofs: every safety invariant of the passing runs is a theorem, and so are both
refinements. What is left needs more than TLAPS offers: the liveness properties. Where the code
does not keep a promise in some case, the property names the case as the one it excludes,
and a run or [Disagreements](#disagreements) shows it.

## Modules and the code

| module | models | form |
|---|---|---|
| `TaskQueue` | what the loop promises of functors | abstract specification |
| `EventLoop` | `EventLoop.cpp` | implements `TaskQueue` |
| `Channel` | `Channel.h`, and the order in which owners call it | extended by the pollers |
| `Poller` | what a poller promises (`Poller.h`) | abstract specification |
| `Poll`, `Epoll` | `Poll.cpp`, `Epoll.cpp` | extend `Channel` |
| `DefaultPoller` | `DefaultPoller.cpp`: one of the two | implements `Poller` |
| `Buffer` | `Buffer.cpp` | operators on a buffer's value |
| `TcpStream` | the reading and writing of `TcpConnection.cpp` | extends `Buffer` |
| `Thread` | `Thread.cpp`, `CountDownLatch.cpp` | operators on a thread's value |
| `EventThreadLoop` | `EventThreadLoop.cpp` | extends `Thread` |
| `TcpServer` | `TcpServer.cpp`, `Acceptor.cpp`, `EventLoopThreadPool.cpp`, the life of `TcpConnection.cpp` | several loops; extends `EventThreadLoop` |
| `TcpClient` | `TcpClient.cpp`, `Connector.cpp` | one loop |
| `TimerQueue` | `TimerQueue.cpp`, `Timer.cpp` | one loop and a clock |
| `ThreadPool` | `ThreadPool.cpp` | threads and condition variables |
| `LogFile` | `LogFile.cpp`, `FileUtil.cpp` | operators on a file's value |
| `AsyncLogging` | `AsyncLogging.cpp` | appenders, one thread, an owner, the clock; extends `LogFile` and `Thread` |
| `Signal` | `Signal.cpp` | several loops and the kernel |
| `*Proof` | theorems about the module named; those of `TimerQueue` are in `EventLoopProof` | TLAPS |
| `MC*` | instances with constants a `.cfg` cannot express | TLC |

Definitions named "mutant" are not part of the specifications: each states a
plausible bug, such as a lost guard or a dropped call, and PROJECT.json says which
property it would violate.

**EventLoop.** A step of the model is what the mutex or one atomic access makes
indivisible. `QueueInLoop` pushes under the lock, `QueueWake` tests
`!isInLoop() || callingPendFunctors_` and writes the eventfd; `Stop` and
`StopWake` likewise. The loop thread goes through `TestStart`, `PollReturn`,
`ReadEventFd` / `HandleEvent`, `EndHandling`, `SwapPending`, `MarkCalling`,
`CallFunctor`, `EndFunctors`. User code runs while `callback` is set and may make
any call; so may it before `loop()`. The histories `ran`, `inlined` and `early`
exist for the properties.

**Channel, Poll, Epoll.** `Channel` generates the calls the owners really make:
`phase` follows an object from its first `enable` to the close of its descriptor,
and a Connector's descriptor passes to a connection. Four of these calls are ones the pollers
are not written for: a `send` enables a channel that was removed, a channel that wants events is
removed, it is disabled twice (a reset connection), and its descriptor is closed without `remove`
(a client with `retry_`). They all happen in the model, and the history `misused` remembers
which have; the properties say what each poller stands. `Poll` keeps `pollfds` (with
fd -1 for a disabled entry), the map and the indexes; `RemoveInner` is the swap with
the last entry. `Epoll` keeps the kernel's list and refuses what `epoll_ctl` would.
`DefaultPoller` starts as either and stays so; `Poller` knows of neither, only that a
reported channel is alive and wants events.

**Buffer, TcpStream.** A block is its size, `misalign_` and the bytes in use, so that
`off_` is their number; bytes are numbered, and `Junk` is what was never written.
`BufferAdd` has the three branches of `bufferAdd`, `Drain` both of `bufferDrain`, and
`ReadFd` is `bufferExpandFast`, `bufferSetUpVecs`, `readv` and the adjustment of the
offsets. `Used` and `Room` are the running sums of the bytes in use and of the free space along
the chain, in which the loops of `bufferDrain`, `bufferExpandFast`, `bufferSetUpVecs` and `writeIovec` stop
somewhere. `SendNow` and `HandleWrite` share `AfterWrite`: the completion callback,
which may send, and only then `bufferDrain`. Only the number of bytes that
`writeIovec` writes is modelled, since they are not the buffer's (see below). The message
callback takes any number of bytes, none included. `bufferRead` counts the whole free space of a
block as filled, so a read behind a block that was filled in part (`HasUnset`) delivers unset bytes
in place of others: the history `gap` remembers that it has happened.

**TcpServer.** Each loop repeats `Poll`, the reported channels (`MessageArrives`,
`StreamEnds`, `EndHandling`), `BeginBatch`, `RunFunctor`, `EndBatch`. A functor names
the connection it is bound to, and `Alive` says that a `shared_ptr` is left: in
`connections_`, with the user, or in a functor, which lives until its batch is
destroyed. `shutdownInLoop` is bound to `this` and keeps nothing alive. `Accept` may
return any descriptor no living object owns, and `OnConnection` gives the connection to
`NextLoop`, the round robin of the pool, which is the base loop when the pool is empty.

The server starts for any `threadNums`. `StartPool` up to `Listen` is `TcpServer::start` in the
base thread: `CreateThread` makes an `EventThreadLoop` and starts its thread, `ThreadRuns` is
that thread up to `loop()`, and `PushLoop` is `startLoop` returning, after the
latch and after `loop_`. `AwaitLoop` is its caller going to sleep at one of them, which only
`countDown`'s broadcast and `cond_.signal()` end. Only then does the next thread start, and only after the last one
does the server listen.

**TcpClient.** The Connector is a record, and the operators `StartInLoop`, `Connect`,
`Connecting` and `Retry` take it as the caller has left it, since `start`, a functor,
a timer and `restart` all lead there. `sock` is the kernel's view; `channelMap` is the
poller's, and adding a descriptor it has, removing one it has not, or destroying a
channel it has, ends the process as `failed` says. A connection is ended or reset by its peer:
`HandleEvent` is one callback for the first, and for the second it is followed by `ReadAgain`, the
read callback after the close callback. `Destroy` is `~TcpClient` and the end of the Connector,
with the channel of a connect in progress. `handleError` acts in state
`DisConnected` only, in which no channel is in the poller as long as the Connector is
not stopped (`OneAttempt`).

**TimerQueue.** `AddTimer` and `Cancel` are enabled in user code (any, or the running
timer's). `StartHandling` is `readTimerfd` and `getExpired`, then the callbacks in
order, then `Reset`. `state` tells a deleted timer from one that `cancelTimer` has
erased and never deletes.

**ThreadPool.** One critical section is one step. `Signal` moves one of the
waiting threads, if any; a wait may also end by itself (`WakeUp`). Tasks may dispatch
tasks. A worker is a position in `threads_`: `Start` appends `threadNum` of them and starts the
first `threadNum`, which after a stop may be old ones, and none for `start(0)` (`NoWorkers`).

**AsyncLogging, LogFile, Thread.** A message is its number. `AppendMessage` has the
branches of `append`; `Swap` is the block under the lock; `WriteBuffer` one
`LogFile::append`; `Recycle` the two assertions and the flush. A `BufferPtr` that has
been moved from is `Null`. `Write` rolls the file when it is too large or has had too many
appends, and never twice in a second; what is in the `FILE`'s buffer (`stdio`) reaches `disk`
by a flush or a close. `start` waits for two latches, `Thread`'s and the logger's own:
`OwnerSleeps` is the owner going to sleep at one that is closed, and only `CountDown` wakes it.
Neither is ever set again: a second start finds both open. `Begin` makes a
new `LogFile` in the stack of the new thread, and `lastRollFile_`, which no constructor sets,
may then hold what the last one left there.

**Signal.** `blocked` is the mask of each thread, `fdMask` what its signalfd has been told,
`mask` and `map` the two members. `Send`, `Deliver` and `NewThread` are the kernel's:
a signal that some thread does not block ends the process. `setSignal` blocks with SIG_BLOCK
and tells the signalfd; `delSignal` sets the thread's mask to what is left and does not
tell the signalfd. `PollReports` and `HandleRead` are two steps: other callbacks of the
round may set and delete signals between them.

## Runs

Every run explores its whole state space.

| run | instance | checks |
|---|---|---|
| `eventloop` | 2 functors, 2 callers, the loop thread, a socket channel, blocking poll | types, no lost wakeup or stop, refinement of `TaskQueue`, pending functors run, a stopped loop returns |
| `pollers` | either poller; 5 channels on 3 descriptors: wakeup, a Connector's, a connection on its descriptor, one of its own, and one that reuses that | the array, or kernel list, matches the channels and no assertion fails; refinement of `Poller` |
| `poll_moved` | the same | finds the removal of a channel while the last is disabled |
| `tcpserver` | start with 0 or 1 threads; 2 connections, 2 descriptors, base and 1 IO loop (or none) | registration, nothing dangles, `start` returns, closed is destroyed, ended is closed |
| `tcpserver_reset` | the same with resets | finds a connection closed twice |
| `tcpclient` | 3 descriptors, the real delays, 1 start, 1 connection ended or reset | poller used well, one attempt at a time, a started client connects |
| `tcpstream` | blocks of 2 bytes and more, 2 iovecs, 4 bytes in, 8 out, sends of 1 to 4 | blocks well formed, input intact, output accounted for |
| `tcpstream_blocked` | the same | finds bytes left in the buffer with POLLOUT off |
| `timerqueue` | 2 timers, delays 0 to 2, clock to 4 | armed in time, nothing dangles, cancelled is gone, due is run |
| `threadpool` | starts with 0 to 2 threads, 3 in all, 2 callers, 3 tasks, limits 0 to 2 | bound, no lost signal, tasks run, `stop` returns |
| `asynclogging` | buffers of 2, 5 messages, files of 2 bytes or 2 appends, any number of stops and restarts | nothing lost, spares suffice, written to disk, `start` and `stop` return |
| `signal` | 2 threads with a loop each, 3 signals of which the first loop has two, 3 sent | set is blocked, no assertion fails, pending is handled |

Why the bounds are enough.

- `eventloop`: two callers and the loop thread give every pair of racing calls, and a
  socket channel a callback that calls. A second functor lets a queue build up in order
  and behind a batch that is running. The theorems remove the bounds.
- `pollers`: three live channels give an entry that is first, inner and last; the
  moved entry, reuse of a descriptor and hand-over each need one more object, which is
  there.
- `tcpserver`: two connections on two descriptors let a name be reused while the old
  connection is still on its way out, and let two be closed in one round. A second IO
  loop multiplies the states beyond what liveness allows, and adds no new kind of hop.
- `tcpclient`: an attempt abandons a descriptor at most once per chain, so three
  descriptors never run out: one for the connection, one abandoned, one to try. With
  `MaxEnds = 2` the client meets disagreement 7, so the passing run ends one
  connection, which is enough for a restart and for a reset.
- `tcpstream`: four bytes in arrive in one to four pieces, of which some fill a block exactly and
  some in part, and are taken in as many; two iovecs take a read into two blocks. Eight bytes out in blocks of 2, 4 and 8 fill a first block exactly, spill into
  a second and a third, leave an empty one behind, and realign a drained one.
- `timerqueue`: two timers make every order of expiry, cancelling oneself and the other,
  in `timers_` and in `expired`; four ticks give an interval timer several rounds.
- `threadpool`: with limit 1 and two workers, tasks that dispatch tasks fill the pool and
  block it, which the run reaches; two callers wait for room together. Three places in
  `threads_` allow restarts with fewer, as many and more threads, and with none.
- `asynclogging`: five messages of size 1 or 2 in buffers of 2 use up both buffers and the
  allocation behind them between two rounds, and leave some for the next. One message of 2
  fills a file without exceeding it, the next exceeds it; two appends reach the other limit;
  the clock may stand still or pass between any two, and across a restart.
- `signal`: two signals of one loop let one be deleted while the other stays set, and while the
  signalfd goes on to report both; the second loop's thread inherits any mask of the first, or
  is there before it.

The theorems below remove these bounds from the safety invariants they are about: those of
`pollers`, `tcpserver`, `tcpstream`, `asynclogging`, `threadpool`, `timerqueue` and `signal`, and
for `tcpclient` the number of descriptors and the delays, and for `OneAttempt` that of the
connections that end.

## Fairness

- A loop's thread keeps running (`LoopStep`), as does a thread inside a library call. Nobody
  has to make a call. A thread that `pthread_create` has made comes to run (`ThreadRuns`, and
  `ThreadStep` of the logger), and `TcpServer::start`, once begun, goes on (`StartStep`).
- `poll` has to return only when a watched descriptor is ready: in `EventLoop` when the
  eventfd is readable, in `TcpServer` when a stream has ended or a functor is pending
  (which `EventLoop` shows to end a poll).
- Callbacks and tasks return. In `EventLoop` a callback may make many calls first, each of
  which disables its return for a moment: hence strong fairness of `EndCallback` alone.
- The clock moves (`TimerQueue`); the kernel decides every connect (`TcpClient`); the
  logger's timed wait ends; `Signal`'s loops poll and read (`PollReports`, `HandleRead`). A second
  need not pass: `AppendedIsWritten` holds also when no file can be rolled.
- Condition variables: no wait has to end by itself, so a lost signal would show. This goes for
  the pool's two, for both latches and for `startLoop`'s; a thread that sleeps takes no step until
  another wakes it.
- `KeepsTrying` assumes that from some time on the server accepts.

## Proofs

TLAPS proves for every value of the constants:

- `EventLoopProof`: `TypeCorrect`; `PollIsAlwaysWoken` (`[]PollIsWoken`, the conjunction of
  `NoLostWakeup` and `NoLostStop`); `ImplementsQueue` (`Spec => QueueSpec`).
  `NoLostWakeup` is not inductive: it speaks of the loop before and in `poll`, and what
  makes it true happens elsewhere in the round. `WakeInv` adds what the loop thread still
  owes at each place: past `poll` pending functors are swapped out later in the
  round; while functors run `callingPendFunctors_` is set (`CallingPlace`), so a push by
  the loop thread is followed by its own wakeup; and only inside a callback, or outside
  the loop, is the loop thread in a call (`CallbackPlace`). The refinement maps
  `TaskQueue`'s queue to the swapped-out functors followed by the pending ones; the lemma
  `ConcatHeadTail` is the fact on sequences that `CallFunctor` needs.
- `EventLoopProof`, of the loop's timers: `TimersTypeCorrect`, `ArmedBeforeDue`
  (`[]ArmedInTime`), `TimersAreLive` (`[]NothingDangles`) and `CancelledStaysAway`
  (`[]CancelledIsGone`) for any timers, delays and last time. `Places` is the strengthening: a
  timer is in `timers_` or in the round under way, never in both, and one of the round that was
  cancelled is in `cancelTimers_`. That `reset` finds the earliest timer (`LeastExists`) rests
  on < being well-founded on Nat.
- `AsyncLoggingProof`: `TypeCorrect` (no null buffer is used or overfilled), `BuffersSuffice`
  (`[]AssertionsHold`) and `NamesDiffer`. `BufferPlace` is the strengthening: `nextBuffer_`
  is null only while a full buffer waits, and the thread owes its spares exactly while it
  writes, when `bufferToWrite` holds at least as many. It needs `OneThread`: the owner joins a
  thread before it starts another, so that the thread's buffers are its own.
  `EveryMessageIsWritten` (`[]NothingLost`) lays what is on disk, in the `FILE`'s buffer, still
  to be written, in `buffers_` and in `currentBuffer_` in one line. `LossInv` says that the
  messages in it are numbered without a gap, and that every spare is empty: a spare that was
  not reset would bring old messages back into the line. `NamesDiffer` is
  about `getBaseName`: the time in a name comes from a cache that changes once in a million
  seconds, and the second modulo a million follows it; two names made in different seconds
  from a consistent cache differ.
- `SignalProof`: `TypeCorrect` and `StaysBlocked` (`[]SetIsBlocked`), for any loops, signals and
  owners, and whichever signals are ignored; the type invariant has the strengthening
  it needs, that `signalMap_` and `mask_` have the same signals. `ReadFindsSignal`
  (`[]NothingFails`) assumes that no signal is ignored by default. It rests on `Owned`, that a
  thread blocks a signal of its own loop only while the signal is set, and `Reported`, that
  every thread blocks what is pending: so what a signalfd reports has a callback, and a
  `delSignal` between the report and the read takes nothing that was pending without ending
  the process.
- `ThreadPoolProof`: `TypeCorrect`, `DequeIsBounded` (`[]QueueBounded`) and `NoSignalIsLost`
  (`[]NoStall`) for any finite number of workers and callers. `WorkerPlace` says that a worker
  not started, or joined, is nowhere; the lemma `SignalKeepsPlaces` says what a signal may
  change. `NoStall` is not inductive: it asks for one thread on its way, and the next step may
  be that thread's. `SignalsMatch` counts: while a worker waits for a task there are no more
  tasks than workers on their way to take one, and while a thread waits for room there is
  no more room than threads on their way to use it. `WaitPlaces` says that nobody waits in
  a stopped pool.
- `DefaultPollerProof`: `TypeCorrect`, `PollersMatch` (`[]MatchesChannels`) and `ImplementsPoller`
  (`Spec => PollerSpec`), for any channels on any descriptors. `OneOwner` says that one channel
  at a time uses a descriptor, and `MapMatches` that `channelMap_` has the live channels under
  theirs. For `Poll`, `EntriesMatch` is a bijection between live channels and entries, which the
  swap in `remove` has to restore; it holds until the null channel of disagreement 1 is met.
  For `Epoll`, `KernelMatches` ties `index_` to what the kernel has, and
  `WantsRightly` says that a closed connection wants nothing. No theorem restricts what the
  owners do; each says until which misuse (`misused`) it holds: `MatchesChannels` over `Poll` until
  a removed channel is enabled by a `send` or a descriptor is closed without `remove`, over `Epoll`
  also until a channel that wants events is removed or one is disabled twice.
- `TcpClientProof`: `TypeCorrect` (the retry delay keeps its bounds, and no timer fires that was
  not scheduled); `AttemptsOnce` (`[]OneAttempt`) of a client started once, however many of its
  connections end. A Connector tries in four ways: a connect in progress, a timer, a queued
  functor, a connection. `ConnectPlace`, `TimerPlace`, `FunctorPlace` and `ConnectionPlace` say
  of each that the others are absent, and `Round` in which part of a round each functor may be
  queued. `PollerUsedWell` (`[]NothingFails`) adds what the poller has (`Registered`): a closed
  descriptor is forgotten, and a connection is known until `removeInPoller` has run.
  Both hold whatever the peer does until a reset connection has been closed twice (`closedTwice`),
  and the second until the destructor finds a closed connection or a connect in progress
  (`LeftToDestructor`). They assume one `start`, and the second at most one connection that ends.
- `TcpServerProof`: `TypeCorrect`, `NamesAreKept` (`[]OpenIsRegistered`) and `ChannelsAreKept`
  (`[]NothingDangles`), for any loops, connections and descriptors, with or without resets.
  Neither of the last two is inductive: both depend on where the functors are. `KeepInv` has the
  strengthening. A connection that anything keeps, be it the map, the user or a functor, has the
  name of its descriptor to itself, since a descriptor is free only once its connection is
  destroyed. One that is in a poller is registered, or the functor that takes it out is queued on
  its own loop, and keeps it alive. Channels are handled in one part of a round and
  taken out in another, so those reported in the round under way are still in the poller. Below
  these is `WorkInv`: a connection is established once, and everything queued later is
  queued because it has closed. `ClosedOnceWithoutResets` shows `[]EraseFindsConnection` from
  `Resets = FALSE`: `CloseInv` adds that a report is then a single callback, so that a channel is
  handled once in a round, and that a connection with a queued removal is registered. So the
  run `tcpserver_reset` shows the only way in which that assertion fails.

- `TcpStreamProof`: `BuffersWellFormed` (`[]TypeOK`), `BytesAccounted` (`[]OutputAccounted`) and
  `InputArrives` (`[]InputIntact`, whatever part of the input the callback takes), for any
  default block size, numbers of iovecs (two and more to read into) and of bytes. What `Buffer`'s operators compute is folded
  over a chain of any length, so the lemmas begin with induction: no operator can be passed to
  the library's rules, but that every set of naturals has a least member can be proved for a set
  (`Induction`, `LeastExists`), and gives that a recursive function exists and has its equations
  (`RecursionExists`), for the sums (`SumsDef`), for `FlattenSeq` (`FlattenJoins`, `FlattenPlaces`) and
  for the doubling of `createNewBufferChain` (`AllocFits`). Then each operation has one lemma that
  says what it keeps and changes, on a predicate `IsBuffer` of chains: `AddKeeps` in all three
  branches of `bufferAdd`, `DrainKeeps`, `ExpandKeeps` and `ReadKeeps`. `IsBuffer` strengthens `WellFormed`: every block is larger than what it has given
  up at the front (so that some space is left or some byte is held), and all before
  `lastWithData_` have data. For the input `IInv` adds that `totalSize_` is no more than the
  blocks hold, since `bufferRead` counts blocks as full that are not: without it `bufferDrain`
  could run off the chain. Its blocks are `Tight`: between reads none has free space, so that a
  read needs one new block (`ExpandTight`), which takes its place behind what the others hold
  (`AppendedContents`, `ReadTight`), and `DrainKeeps` says place by place what a drain leaves: so the
  bytes stay in order (`InOrder`) until there is a `gap`. For the output `Accounted` says that they are equal, that
  `lastWithData_` is still `&first_`, and that the bytes held are those sent and not drained. Since
  as many are held as there are different ones, each is held once (`OnceEach`): so the bytes a
  drain takes are not among those it leaves (`TakeAccounted`).

They rest on the ASSUMEs of the modules (the sets of identifiers are disjoint where the code
has different objects, `None` and `Null` are no such object, sizes are positive, the threads of a
pool are finitely many), which TLC evaluates on the runs, on the hypotheses
named above, and on TLAPS and its backends.

Only model-checked: all liveness, since TLAPS does not reason about ENABLED.

## Disagreements

Found while modelling. The first three have runs of their own that show them.

1. **Removing a channel while the last one is disabled** (`Poll.cpp:83`). The last entry's
   descriptor is -1 then, and `channelMap_[-1]` is a null pointer. Two connections that end in
   one round are enough.
2. **A reset connection is closed twice** (`Channel.cpp:61`, `TcpServer.cpp:45`). POLLERR calls
   the close callback and POLLIN the read callback, which reads 0 and closes again;
   `assert(n==1)` fails. The reset meant here is one that follows the end of the stream, as when a
   peer closes and is sent more: the read then returns 0. Without that end `readv` returns -1,
   which `bufferRead` stores in a `size_t` (`Buffer.cpp:361`) and takes for a number of bytes:
   `handleRead` calls the message callback.
3. **A blocked write counts as complete** (`TcpConnection.cpp:63`). `writev` returns -1, which as
   a `size_t` is not less than `remain`: POLLOUT is not watched, and the bytes, with all that is
   sent later, stay in `outputBuffer_`. So does what the completion callback sends: it runs
   before `bufferDrain`, finds the buffer in use, and only adds to it.
The next four are in the passing runs too, whose properties hold until the case is met. Each
has an invariant of its own, violated when it is checked in the run's configuration:
`ReportedIsKnown` in `DefaultPoller.cfg`; `RemovedOnce` and `RemovedAtTheEnd` in `TcpClient.cfg`,
and there, with `MaxEnds = 2`, `AddedFresh`.

4. **A closed connection is back on Epoll's list** (`TcpConnection.cpp:64`). `sendInLoop` does not
   look at the state: a `send` with a short write between `handleClose` and the removal enables
   writing, as the second `disableAll` of a reset connection does without events. `Epoll::update`
   adds the descriptor to the kernel's list again, and `Epoll::remove` leaves it there; when it is
   reported, `assert(pos!=channelMap_.end())` fails.
5. **A reset connection of a client is removed twice** (`TcpClient.cpp:50`). The two closes of
   disagreement 2 queue two removals without `retry_`, and `assert(n==1)` of the poller fails. With
   `retry_`, `restart` runs twice: two connects are under way, and the channel of the first is
   destroyed in the poller (`closedTwice` in `NothingFails`, `OneAttempt` and `KeepsTrying`).
6. **A client destroyed after its connection has closed** (`TcpClient.cpp:32`) removes the channel a
   second time, since `connPtr_` is still set.
7. **A client with `retry_` never takes a closed connection off the poller** (`TcpClient.cpp:52`).
   Once its descriptor is used again, `Epoll` asserts and `Poll` finds a destroyed channel.

These need a configuration that the passing runs do not use:

- A second `start` in the round in which a connect has failed creates a channel that the queued
  `resetChannel` then destroys (`MaxStarts = 2`, `NothingFails`).
- A signal that is ignored by default, as SIGCHLD is, deleted by a callback after `poll` has
  reported it, is discarded; the read finds nothing and `assert(n==sizeof(sigInfo))` fails
  (`Signal.cfg` with `Ignored = {int}`, `NothingFails`).

In the models, where a property has to name the case as the way in which it does not hold:

- A logger stopped and started within one second may find the current second in the memory of
  `lastRollFile_` (`LogFile.cpp:59`), opens no file and dereferences the null `file_`
  (`over = "nullFile"` in `AsyncLogging`).
- A message callback that leaves bytes in the input buffer finds others behind them than those
  that arrived, because a block that has been read into counts as full (`Buffer.cpp:378`; `gap` in
  `TcpStream`).
- After `start(2)`, `stop`, `start(0)` of a `ThreadPool` its `threads_` is not empty and no thread
  runs: `dispatchTask` queues tasks for nobody (`ThreadPool.cpp:42`; `NoWorkers` in `ThreadPool`).
- A client destroyed while a connect is in progress destroys the Connector's channel in the poller
  (`TcpClient.cpp:25`; `LeftToDestructor` in `TcpClient`). A `send` to a connection that has been
  removed makes `Poll` overwrite the entry of another channel (`misused` in `Channel`).
- `delSignal` sets the thread's whole mask (`Signal.cpp:52`): what the thread has inherited is
  unblocked with it, and a signal of another loop then ends the process. A thread created
  before `setSignal` does not block the signal at all (`over = "killed"` in `Signal`).

Read in the source, and not stated as a property:

- `writeIovec` (`Buffer.cpp:269`) takes the space behind the data of each block, so that the
  peer never receives the bytes sent; when every block is exactly full it writes nothing
  for ever. New bytes overtake older ones when the first block is realigned
  (`Buffer.cpp:130`): `BytesAccounted` says that no byte is lost, not that they stay in order.
- A stop before `loop()` is lost, since `loop` stores `start_ = true` on entry
  (`EventLoop.cpp:154`); a stop whose loop returns at once writes to the eventfd of a loop that
  may be destroyed by then. A functor that the loop's thread queues before `loop()` writes
  no wakeup.
- Nobody stops the loop of an `EventThreadLoop`, so that the join in its destructor does not
  end (`EventThreadLoop.cpp:46`); `setThreadNum` after `start` makes `next_` run past the
  loops. `channelNoDestructor_` is not initialised before the first event (`Channel.cpp:43`).
- `send` keeps the caller's pointer until the functor runs (`TcpConnection.cpp:54`).
- A signal's callback that deletes its own signal destroys the function that is running
  (`Signal.cpp:53`).
- A cancelled timer that was waiting is never deleted (`TimerQueue.cpp:128`); the seconds of a
  timerfd are an `int` (`TimerQueue.cpp:49`).
- What is appended to a logger after the last swap before `stop` is dropped with the object;
  `accept` that fails for want of descriptors is retried in every round.

## Assumptions and what is not modelled

- `loop`, `runAfter` and `runEvery` are called in the loop's thread, as `assertInLoop` demands of
  the first; `start` of a `ThreadPool` is called on a pool that does not run, and is not concurrent
  with `dispatchTask`.
- A user keeps its `TcpConnectionPtr` until the calls it has made have run (`send` and `shutdown`
  bind `this`), and at most one call per connection is pending in the model. A client's user
  keeps none.
- Servers and loops are not destroyed; a client is, after `loop()` has returned. A server is
  started once, by the base loop's thread, and `setThreadNum` is called before that.
- `setSignal` and `delSignal` are called in the loop's thread, and a signal is set on one loop
  only (`Owner`): two signalfds would report it, and one read find nothing.
- A logger's `start` and `stop` are called by one owner in turn.
- A connection of `TcpStream` stays open, and `readv` does not fail.
- Bytes are left out of `TcpServer` and `TcpClient`: a stream has something to read, or has
  ended. What a peer sent before it ended only delays the close.
- Plain members written by one thread and read by another (`connecting_`)
  are atomic in the models.
- Allocation, `socket`, `eventfd`, `pthread_create`, `fopen`, `fwrite` and their like succeed; EINTR in `poll` is a round without events.
- Not modelled: formatting (`Logger`, `LogStream`, `TimeStamp::toString`), `LogFile::setLogPath`,
  which changes the working directory only, and the wrappers of sockets and thread ids (`Socket`,
  `SocketOps`, `InetAddress`, `CurrentThread`), which carry no protocol of their own: what
  their calls return is modelled where it is used. The error paths of the pthread wrappers
  (`MCHECK`) end the process and are left out. `LowBuffer` and `OldSignal` are not built.

## Running the checks

    tlc -workers 2 -config TcpServer.cfg MCTcpServer
    tlapm EventLoopProof.tla

PROJECT.json names the module, the configuration and the properties of each run, the source lines
of each definition, the theorems and the mutants. The runs whose `expect` is `violation` end with
a counterexample.
