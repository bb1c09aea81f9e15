------------------------------- MODULE Buffer -------------------------------
(***************************************************************************)
(* net::Buffer (src/Buffer.cpp) as operators on its value: a chain of      *)
(* blocks, each with misalign_ bytes given up at its front, off_ bytes in  *)
(* use behind them (here the sequence data), and free space at its end.    *)
(* lwd is the block lastWithData_ refers to: lwd = 1 is &first_, otherwise *)
(* it is the next_ of block lwd - 1.  last_ is the last block of the chain *)
(* after every operation.                                                  *)
(***************************************************************************)
EXTENDS Integers, Sequences, SequencesExt

CONSTANTS
    Junk,                   \* a byte nobody has written
    kDefaultAllocSize,
    NUM_READ_IOVEC,
    NUM_WRITE_IOVEC

ASSUME AllocAssumption == kDefaultAllocSize \in Nat \ {0}
\* a read reaches the block of lastWithData_ and the one behind
ASSUME IovecAssumption == NUM_READ_IOVEC \in Nat \ {0, 1} /\ NUM_WRITE_IOVEC \in Nat \ {0}

Minimum(m, n) == IF m < n THEN m ELSE n

\* the sums of the first numbers of s: of none, of one, and so on
Sums(s) ==
    LET sum[k \in 0..Len(s)] == IF k = 0 THEN 0 ELSE sum[k - 1] + s[k]
    IN  sum

EmptyBuffer == [chain |-> <<>>, lwd |-> 1, total |-> 0]

\* createNewBufferChain: the default size, doubled until n bytes fit
AllocSize(n) ==
    LET doubled[k \in 0..n] == IF k = 0 THEN kDefaultAllocSize ELSE 2 * doubled[k - 1]
    IN  Min({s \in {doubled[k] : k \in 0..n} : s >= n})

NewBlock(n, data) == [size |-> AllocSize(n), misalign |-> 0, data |-> data]

Off(blk) == Len(blk.data)

\* the free space behind the data of a block
Free(blk) == blk.size - blk.misalign - Off(blk)

Blocks(b) == DOMAIN b.chain

Contents(b) == FlattenSeq([k \in Blocks(b) |-> b.chain[k].data])

\* the bytes in use, and the free space, up to each block
Used(b) == Sums([k \in Blocks(b) |-> Off(b.chain[k])])
Room(b) == Sums([k \in Blocks(b) |-> Free(b.chain[k])])

\* nothing outside a block is in use, and blocks without data come last, as
\* the assertions of bufferInsertChain and bufferExpandFast demand
WellFormed(b) ==
    /\ b.lwd \in 1..(Len(b.chain) + 1)
    /\ b.total \in Nat
    /\ \A k \in Blocks(b) :
          /\ b.chain[k].misalign + Off(b.chain[k]) <= b.chain[k].size
          /\ \A j \in 1..k : Off(b.chain[k]) > 0 => Off(b.chain[j]) > 0

-----------------------------------------------------------------------------
(* bufferAdd                                                               *)

\* mutant: a block without data is kept, and the new one goes behind it
InsertChainAtEnd(b, blk) == [b EXCEPT !.chain = Append(@, blk)]

\* bufferInsertChain: the new block takes the place of the first one without
\* data, and of all behind it; its off_ is still 0, so lastWithData_ stays
InsertChain(b, blk) ==
    LET full == {k \in Blocks(b) : k < b.lwd \/ \A j \in b.lwd..k : Off(b.chain[j]) > 0}
    IN  [b EXCEPT !.chain = Append(SubSeq(@, 1, Max(full \cup {0})), blk)]

\* n bytes more, and i a block that holds some of them
Grow(b, i, blk, n) == [b EXCEPT !.chain[i] = blk, !.total = @ + n]

\* into the block of lastWithData_ if all fits, realigned or not; otherwise that
\* block is filled and a new one takes the rest
BufferAdd(b, data) ==
    LET n == Len(data)
        c == IF b.chain = <<>> THEN InsertChain(b, NewBlock(n, <<>>)) ELSE b
        i == Minimum(c.lwd, Len(c.chain))
        blk == c.chain[i]
        room == Free(blk)
    IN  IF room > n
        THEN Grow(c, i, [blk EXCEPT !.data = @ \o data], n)
        ELSE IF blk.size - Off(blk) > n
        THEN Grow(c, i, [blk EXCEPT !.data = @ \o data, !.misalign = 0], n)
        ELSE InsertChain(Grow(c, i, [blk EXCEPT !.data = @ \o SubSeq(data, 1, room)], n),
                         NewBlock(n - room, SubSeq(data, room + 1, n)))

-----------------------------------------------------------------------------
(* bufferRead(sockfd)                                                      *)

\* bufferExpandFast: the free space from lastWithData_ on, and a new block for
\* what is missing (each block counted in used has a byte of space, so the
\* branch that replaces blocks is never taken)
Expand(b, n) ==
    LET avail == Room(b)[Len(b.chain)] - Room(b)[b.lwd - 1]
    IN  IF b.chain = <<>> THEN InsertChain(b, NewBlock(n, <<>>))
        ELSE IF avail >= n THEN b
        ELSE [b EXCEPT !.chain = Append(@, NewBlock(n - avail, <<>>))]

\* mutant: the bytes are put at the end of the free space
FillAtEnd(blk, bytes) ==
    [blk EXCEPT !.data = @ \o [i \in 1..(Free(blk) - Len(bytes)) |-> Junk] \o bytes]

\* readv stores the bytes from misalign_ on, and the whole free space of the
\* block is then counted as data
Fill(blk, bytes) ==
    LET behind == SubSeq(blk.data, Len(bytes) + 1, Off(blk))
        unset == [i \in 1..(Off(blk) + Free(blk) - Len(bytes) - Len(behind)) |-> Junk]
    IN  [blk EXCEPT !.data = bytes \o behind \o unset]

\* FIONREAD has said that the bytes are there; bufferSetUpVecs spreads them over
\* at most NUM_READ_IOVEC blocks, and readv takes what these can hold
ReadFd(b, bytes) ==
    LET e == Expand(b, Len(bytes))
        Space(k) == Room(e)[k] - Room(e)[e.lwd - 1]
        vecs == e.lwd..Minimum(Len(e.chain), e.lwd + NUM_READ_IOVEC - 1)
        n == Minimum(Len(bytes), Space(Max(vecs)))
        last == Min({k \in vecs : Space(k) >= n})
    IN  [e EXCEPT
          !.chain = [k \in Blocks(e) |->
             IF k \in e.lwd..last
             THEN Fill(@[k], SubSeq(bytes, Space(k - 1) + 1, Minimum(n, Space(k))))
             ELSE @[k]],
          !.total = @ + n,
          !.lwd = last]

-----------------------------------------------------------------------------
(* bufferRead(buf, len), bufferDrain and writeIovec                        *)

\* bufferCopyout
Copyout(b, len) == SubSeq(Contents(b), 1, Minimum(len, b.total))

\* mutant: the rest of a drained block is not given up
DrainKeepsRest(b, len) ==
    LET gone == Max({k \in 0..Len(b.chain) : Used(b)[k] <= len})
    IN  IF len >= b.total THEN EmptyBuffer
        ELSE [chain |-> SubSeq(b.chain, gone + 1, Len(b.chain)),
              lwd |-> IF b.lwd <= gone + 1 THEN 1 ELSE b.lwd - gone,
              total |-> b.total - len]

\* blocks used up are deleted, and what is left to drain is given up at the front
\* of the next; lastWithData_ falls back to &first_ when its block, or the one
\* before, is deleted
Drain(b, len) ==
    LET gone == Max({k \in 0..Len(b.chain) : Used(b)[k] <= len})
        rest == len - Used(b)[gone]
        first == b.chain[gone + 1]
    IN  IF len >= b.total THEN EmptyBuffer
        ELSE [chain |-> <<[first EXCEPT
                             !.misalign = @ + rest,
                             !.data = SubSeq(@, rest + 1, Len(@))]>>
                        \o SubSeq(b.chain, gone + 2, Len(b.chain)),
              lwd |-> IF b.lwd <= gone + 1 THEN 1 ELSE b.lwd - gone,
              total |-> b.total - len]

\* what writeIovec offers to writev: for each block the space behind its data
Offered(b, howmuch) ==
    Minimum(howmuch, Room(b)[Minimum(Len(b.chain), NUM_WRITE_IOVEC)])
=============================================================================
