------------------------------ MODULE LogFile ------------------------------
(***************************************************************************)
(* base::LogFile and its base::FileUtil (src/LogFile.cpp, FileUtil.cpp) as *)
(* a value: what one append, flush, rolling or end of the object makes of  *)
(* it.  AsyncLogging.tla says when its thread calls them.                  *)
(*                                                                         *)
(* A message is a number.  What fwrite has put into the FILE's buffer is   *)
(* on disk after fflush or fclose, the files' contents one after the       *)
(* other; that a full buffer is written out earlier is left out.  Of the   *)
(* clock only this matters: whether the current second is lastRollFile_.   *)
(***************************************************************************)
EXTENDS Naturals, Sequences

CONSTANTS
    FileSize,           \* fileSize_
    FileRows            \* fileRows_, a number of appends

ASSUME LogFileAssumption == FileSize \in Nat /\ FileRows \in Nat

LogFile ==
    [open : BOOLEAN,            \* file_ is not null
     count : Nat,               \* count_
     written : Nat,             \* nwrittenBytes_ of file_
     rolledNow : BOOLEAN,       \* lastRollFile_ is the current second
     stdio : Seq(Nat \ {0}),    \* in the buffer of file_
     disk : Seq(Nat \ {0})]     \* in the files, the older ones first

\* before the constructor
NoLogFile ==
    [open |-> FALSE, count |-> 0, written |-> 0, rolledNow |-> FALSE,
     stdio |-> <<>>, disk |-> <<>>]

\* FileUtil::flush
Flush(f) == [f EXCEPT !.disk = @ \o f.stdio, !.stdio = <<>>]

\* ~FileUtil, which closes the FILE and so flushes it
Close(f) == [Flush(f) EXCEPT !.open = FALSE]

\* the constructor of FileUtil: an empty file of a new name
OpenNew(f) == [f EXCEPT !.open = TRUE, !.written = 0]

\* mutant: FileUtil is replaced without being closed
RollFileUnflushed(f) ==
    IF f.rolledNow THEN f
    ELSE [OpenNew(f) EXCEPT !.rolledNow = TRUE, !.stdio = <<>>]

\* rollFile: never twice in one second
RollFile(f) ==
    IF f.rolledNow THEN f
    ELSE [OpenNew(Close(f)) EXCEPT !.rolledNow = TRUE]

\* FileUtil::append; beyond FileSize nothing tells the sizes apart
WriteUnlocked(f, msgs, len) ==
    [f EXCEPT !.stdio = @ \o msgs,
              !.written = IF @ + len > FileSize THEN FileSize + 1 ELSE @ + len]

\* write, and append, which calls it: the file rolls when it has grown too large,
\* or had too many appends, but then count_ starts again whether it rolls or not
Write(f, msgs, len) ==
    LET g == WriteUnlocked(f, msgs, len) IN
    CASE g.written > FileSize -> RollFile(g)
      [] g.written <= FileSize /\ g.count + 1 >= FileRows ->
            RollFile([g EXCEPT !.count = 0])
      [] OTHER -> [g EXCEPT !.count = @ + 1]

\* the constructor; lastRollFile_ is not initialised, and stale tells whether the
\* memory happens to hold the current second
Construct(f, stale) == RollFile([f EXCEPT !.count = 0, !.rolledNow = stale])

\* the second that rollFile has seen is over
SecondPasses(f) == [f EXCEPT !.rolledNow = FALSE]

-----------------------------------------------------------------------------
(* The names.  The date and time in a name come from a thread-local cache  *)
(* (t_lastTime, t_Time), refreshed when now / 1000000 changes; now are     *)
(* seconds, so the time in a name may be eleven days old.  What follows it *)
(* is now % 1000000, and the host and the thread.                          *)

Period == 1000000

\* t_Time is of the period t_lastTime
Consistent(cache) == cache.time \div Period = cache.lastTime

Refresh(cache, now) ==
    IF now \div Period # cache.lastTime
    THEN [lastTime |-> now \div Period, time |-> now]
    ELSE cache

\* getBaseName
BaseName(cache, now) == <<Refresh(cache, now).time, now % Period>>
=============================================================================
