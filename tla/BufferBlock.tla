---------------------------- MODULE BufferBlock ----------------------------
(***************************************************************************)
(* The operations of BufferBlock (reactor/Buffer.cpp) as operators on a    *)
(* record of its members.  A block is a record of its bytes and capacity;  *)
(* its size is the number of its bytes.  The loops over blocks are closed  *)
(* forms: append opens one new block at most, and what reads or consumes   *)
(* takes a prefix of the blocks.                                           *)
(***************************************************************************)
EXTENDS Integers, Sequences, FiniteSetsExt, SequencesExt

CONSTANTS
    INITIAL_BLOCK_SIZE, MAX_BLOCK_SIZE,
    SizeMod     \* size_t wraps at SizeMod

ASSUME BlockSizeAssumption ==
    /\ INITIAL_BLOCK_SIZE \in Nat \ {0}
    /\ MAX_BLOCK_SIZE \in Nat /\ MAX_BLOCK_SIZE >= INITIAL_BLOCK_SIZE
    /\ SizeMod \in Nat \ {0}

Lesser(a, b) == IF a < b THEN a ELSE b
Greater(a, b) == IF a < b THEN b ELSE a

Block(cap) == [data |-> <<>>, capacity |-> cap]
Size(block) == Len(block.data)

\* The constructor; clear() leaves the same.
Empty == [blocks_ |-> <<Block(INITIAL_BLOCK_SIZE)>>,
          total_size_ |-> 0, read_pos_ |-> 0, write_pos_ |-> 0]

readableBytes(b) == b.total_size_

\* The bytes of some blocks, one block after the other.
BytesOf(blocks) == FlattenSeq([i \in DOMAIN blocks |-> blocks[i].data])

\* The bytes from read_pos_ to the end of the last block.
Content(b) ==
    SubSeq(BytesOf(b.blocks_), b.read_pos_ + 1, Len(BytesOf(b.blocks_)))

----------------------------------------------------------------------------
(* append                                                                  *)

\* All blocks may have been consumed.
WithBlock(b) ==
    IF b.blocks_ # <<>> THEN b
    ELSE [b EXCEPT !.blocks_ = <<Block(INITIAL_BLOCK_SIZE)>>, !.write_pos_ = 0]

NewCapacity(last, size) ==
    Greater(Lesser(last.capacity * 2, MAX_BLOCK_SIZE), size)

\* A bug for comparison: write_pos_ goes on from the old block.
append_write_pos_kept(buf, s) ==
    LET b == WithBlock(buf)
        n == Len(b.blocks_)
        last == b.blocks_[n]
        here == Lesser(last.capacity - b.write_pos_, Len(s))
        rest == SubSeq(s, here + 1, Len(s))
        filled == [b.blocks_ EXCEPT
                      ![n].data = SubSeq(@, 1, b.write_pos_) \o SubSeq(s, 1, here)]
    IN  IF s = <<>> THEN buf
        ELSE [b EXCEPT
                !.blocks_ = IF rest = <<>> THEN filled
                            ELSE Append(filled, [data |-> rest,
                                                 capacity |-> NewCapacity(last, Len(s))]),
                !.write_pos_ = @ + here,
                !.total_size_ = (@ + Len(s)) % SizeMod]

\* What the last block has no room for goes into a new one, large enough.
append(buf, s) ==
    LET b == WithBlock(buf)
        n == Len(b.blocks_)
        last == b.blocks_[n]
        here == Lesser(last.capacity - b.write_pos_, Len(s))
        rest == SubSeq(s, here + 1, Len(s))
        filled == [b.blocks_ EXCEPT
                      ![n].data = SubSeq(@, 1, b.write_pos_) \o SubSeq(s, 1, here)]
    IN  IF s = <<>> THEN buf
        ELSE [b EXCEPT
                !.blocks_ = IF rest = <<>> THEN filled
                            ELSE Append(filled, [data |-> rest,
                                                 capacity |-> NewCapacity(last, Len(s))]),
                !.write_pos_ = IF rest = <<>> THEN @ + here ELSE Len(rest),
                !.total_size_ = (@ + Len(s)) % SizeMod]

----------------------------------------------------------------------------
(* consumeBytes, readBytes, erase                                          *)

\* The unread bytes in the first k blocks.
Available(b, k) ==
    IF k = 0 THEN 0 ELSE Len(BytesOf(SubSeq(b.blocks_, 1, k))) - b.read_pos_

\* How many blocks are used up when n bytes are taken.
UsedUp(b, n) == Max({k \in 0 .. Len(b.blocks_) : Available(b, k) <= n})

\* A bug for comparison: total_size_ is reduced by what was asked for.
consumeBytes_by_size(b, n) ==
    LET k == UsedUp(b, n)
        consumed == Lesser(n, Available(b, Len(b.blocks_)))
    IN  IF n = 0 THEN b
        ELSE [b EXCEPT
                !.blocks_ = SubSeq(@, k + 1, Len(@)),
                !.read_pos_ = IF k = Len(b.blocks_) THEN 0
                              ELSE (IF k = 0 THEN @ ELSE 0) + consumed - Available(b, k),
                !.total_size_ = (@ - n) % SizeMod]

\* The first n bytes, or all there are, are gone; total_size_ is reduced by
\* their number whether or not it counted them.
consumeBytes(b, n) ==
    LET k == UsedUp(b, n)
        consumed == Lesser(n, Available(b, Len(b.blocks_)))
    IN  IF n = 0 THEN b
        ELSE [b EXCEPT
                !.blocks_ = SubSeq(@, k + 1, Len(@)),
                !.read_pos_ = IF k = Len(b.blocks_) THEN 0
                              ELSE (IF k = 0 THEN @ ELSE 0) + consumed - Available(b, k),
                !.total_size_ = (@ - consumed) % SizeMod]

\* What readBytes(dest, n) stores in dest; it leaves the buffer as
\* consumeBytes(n) does, for n no greater than the content.
Bytes(b, n) == SubSeq(Content(b), 1, n)

erase(b, len) ==
    IF len <= 0 \/ len > b.total_size_ THEN b
    ELSE IF len = b.total_size_ THEN Empty
    ELSE consumeBytes(b, len)

----------------------------------------------------------------------------
(* peekFromBlock, bufferToString, getIOVecs                                *)

\* What peekFromBlock(dest, n) stores in dest: nothing if fewer than n bytes
\* are readable.
peekFromBlock(b, n) ==
    IF readableBytes(b) < n THEN <<>>
    ELSE SubSeq(Content(b), 1, Lesser(n, Len(Content(b))))

\* A bug for comparison: the read position counts in every block.
Slice_each(b, i) == SubSeq(b.blocks_[i].data, b.read_pos_ + 1, Size(b.blocks_[i]))

\* The unread part of block i.
Slice(b, i) ==
    SubSeq(b.blocks_[i].data, IF i = 1 THEN b.read_pos_ + 1 ELSE 1, Size(b.blocks_[i]))

\* The first max_count of the non-empty slices, from read_pos_ on: iovs[k] is
\* the array when the loop has seen k blocks.
getIOVecs(b, max_count) ==
    LET iovs[k \in 0 .. Len(b.blocks_)] ==
          IF k = 0 THEN <<>>
          ELSE LET filled == iovs[k - 1] IN
               IF Len(filled) < max_count /\ Slice(b, k) # <<>>
               THEN Append(filled, Slice(b, k))
               ELSE filled
    IN  iovs[Len(b.blocks_)]
=============================================================================
