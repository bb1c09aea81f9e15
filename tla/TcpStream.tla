----------------------------- MODULE TcpStream -----------------------------
(***************************************************************************)
(* What a net::TcpConnection (src/TcpConnection.cpp) reads and writes      *)
(* while it is open: handleRead and the user's message callback on its     *)
(* inputBuffer_, send and handleWrite on its outputBuffer_.  Bytes are     *)
(* numbered in the order in which the peer, or the user, sends them.  All  *)
(* of it runs in the connection's loop; its opening and closing are in     *)
(* TcpServer.tla.                                                          *)
(***************************************************************************)
EXTENDS Buffer, FiniteSets

CONSTANTS
    MaxIn,                  \* bound: the bytes the peer sends
    MaxOut,                 \* bound: the bytes the user sends
    MaxSend                 \* bound: the bytes of one send

ASSUME BoundsAssumption == {MaxIn, MaxOut, MaxSend} \subseteq Nat

VARIABLES
    incoming,               \* the bytes in the socket
    arrived,                \* how many the peer has sent
    inputBuffer,
    received,               \* history: what the callback has taken
    gap,                    \* history: a read has gone behind unset bytes
    sent,                   \* how many the user has sent
    outputBuffer,
    writing,                \* the channel is watched for POLLOUT
    drained                 \* history: the bytes taken from outputBuffer

inVars == <<incoming, arrived, inputBuffer, received, gap>>
outVars == <<sent, outputBuffer, writing, drained>>
vars == <<incoming, arrived, inputBuffer, received, gap, sent, outputBuffer, writing, drained>>

Init ==
    /\ incoming = <<>> /\ arrived = 0 /\ inputBuffer = EmptyBuffer /\ received = <<>>
    /\ gap = FALSE
    /\ sent = 0 /\ outputBuffer = EmptyBuffer /\ writing = FALSE /\ drained = {}

Bytes(from, n) == [i \in 1..n |-> from + i]

-----------------------------------------------------------------------------
(* Reading.                                                                *)

PeerSends(n) ==
    /\ arrived + n <= MaxIn
    /\ incoming' = incoming \o Bytes(arrived, n)
    /\ arrived' = arrived + n
    /\ UNCHANGED <<inputBuffer, received, gap>>
    /\ UNCHANGED outVars

\* bytes counted in off_ that nobody has read: bufferRead fills a block in part
\* and counts all of it
HasUnset(b) == b.total < Len(Contents(b))

\* bufferRead from the socket, and bufferRead of the callback, which takes len
HandleRead(len) ==
    LET b == ReadFd(inputBuffer, incoming)
        n == b.total - inputBuffer.total IN
    /\ incoming # <<>>
    /\ len <= b.total
    /\ incoming' = SubSeq(incoming, n + 1, Len(incoming))
    /\ received' = received \o Copyout(b, len)
    /\ inputBuffer' = Drain(b, len)
    /\ gap' = (gap \/ HasUnset(inputBuffer))
    /\ UNCHANGED arrived
    /\ UNCHANGED outVars

-----------------------------------------------------------------------------
(* Writing.                                                                *)

\* what writev can return for a buffer: an error (EAGAIN among them), or some of
\* what it was offered
Results(b, howmuch) ==
    LET n == Offered(b, howmuch) IN {-1} \cup (IF n = 0 THEN {0} ELSE 1..n)

Taken(b, n) == {Contents(b)[i] : i \in 1..Minimum(n, Len(Contents(b)))}

\* what follows a write of b: the completion callback, which runs at once and may
\* send m bytes (they find bytes in the buffer), then bufferDrain
AfterWrite(b, numbered, result, complete, m) ==
    LET c == IF m > 0 THEN BufferAdd(b, Bytes(numbered, m)) ELSE b IN
    /\ m > 0 => complete
    /\ numbered + m <= MaxOut
    /\ sent' = numbered + m
    /\ outputBuffer' = IF result > 0 THEN Drain(c, result) ELSE c
    /\ drained' = drained \cup Taken(c, result)
    /\ writing' = ~complete

\* sendInLoop with nothing left to write; -1 is no less than n as a size_t
SendNow(n, result, m) ==
    LET b == BufferAdd(outputBuffer, Bytes(sent, n)) IN
    /\ ~writing /\ outputBuffer.total = 0
    /\ result \in Results(b, n)
    /\ AfterWrite(b, sent + n, result, result \notin 0..(n - 1), m)
    /\ UNCHANGED inVars

SendLater(n) ==
    /\ writing \/ outputBuffer.total > 0
    /\ sent + n <= MaxOut
    /\ sent' = sent + n
    /\ outputBuffer' = BufferAdd(outputBuffer, Bytes(sent, n))
    /\ UNCHANGED <<writing, drained>>
    /\ UNCHANGED inVars

HandleWrite(result, m) ==
    LET n == outputBuffer.total IN
    /\ writing /\ n > 0
    /\ result \in Results(outputBuffer, n)
    /\ AfterWrite(outputBuffer, sent, result, result = n, m)
    /\ UNCHANGED inVars

Next ==
    \/ \E n \in 1..MaxIn : PeerSends(n)
    \/ \E len \in 0..MaxIn : HandleRead(len)
    \/ \E n \in 1..MaxSend : SendLater(n)
    \/ \E result \in -1..MaxOut, m \in 0..MaxSend :
          HandleWrite(result, m) \/ \E n \in 1..MaxSend : SendNow(n, result, m)

Spec == Init /\ [][Next]_vars

-----------------------------------------------------------------------------
(* Properties.                                                             *)

TypeOK ==
    /\ incoming \in Seq(1..arrived) /\ arrived \in 0..MaxIn
    /\ received \in Seq(1..arrived \cup {Junk}) /\ gap \in BOOLEAN
    /\ sent \in 0..MaxOut /\ drained \subseteq 1..sent
    /\ writing \in BOOLEAN
    /\ WellFormed(inputBuffer) /\ WellFormed(outputBuffer)

\* A callback that takes any part of what there is, or nothing, receives the peer's
\* bytes, all and in order, whatever blocks they went through and stayed in
\* (bufferRead, bufferExpandFast, bufferCopyout, bufferDrain), as long as no read
\* went behind a block that an earlier one had filled in part (Buffer.cpp:378).
InputIntact ==
    ~gap => received \o SubSeq(Contents(inputBuffer), 1, inputBuffer.total) \o incoming
                = Bytes(0, arrived)

\* Every byte sent is in outputBuffer_ once, or was drained from it, however sends,
\* writes of any length and completion callbacks follow each other: none is lost,
\* repeated or overwritten by realigning, filling or dropping blocks (bufferAdd,
\* bufferDrain).
OutputAccounted ==
    LET held == Contents(outputBuffer) IN
    /\ Len(held) = outputBuffer.total
    /\ {held[i] : i \in DOMAIN held} = (1..sent) \ drained
    /\ Len(held) + Cardinality(drained) = sent
    /\ writing => outputBuffer.total > 0

\* The channel stops being watched for POLLOUT when "all data have been written"
\* (TcpConnection.cpp:104): what is left in the buffer will be written some time.
StopsWhenAllWritten == outputBuffer.total > 0 => writing
=============================================================================
