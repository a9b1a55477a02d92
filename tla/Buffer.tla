------------------------------- MODULE Buffer -------------------------------
(***************************************************************************)
(* One BufferBlock and every operation of reactor/Buffer.cpp on it, shown  *)
(* to implement ByteQueue.  The bytes of the stream are numbered, so that  *)
(* a byte lost, repeated or out of place cannot go unnoticed.              *)
(***************************************************************************)
EXTENDS BufferBlock

CONSTANTS
    Byte,                   \* what a byte may be
    Positions, MaxContent,  \* see ByteQueue
    MaxIoves                \* max_ioves of Connection::writecallback

\* A buffer holds less than size_t counts.
ASSUME BufferAssumption ==
    /\ Positions \in Nat \ {0} /\ 0 .. Positions - 1 \subseteq Byte
    /\ MaxContent \in Nat /\ MaxContent < SizeMod
    /\ MaxIoves \in Nat \ {0}

VARIABLES
    buf,    \* the BufferBlock
    next,   \* the next byte of the stream
    out     \* what the last operation stored in its destination

vars == <<buf, next, out>>

Init ==
    /\ buf = Empty
    /\ next = 0
    /\ out = <<>>

Chunk(n) == [i \in 1 .. n |-> (next + i - 1) % Positions]

Append_(n) ==
    /\ Len(Content(buf)) + n <= MaxContent
    /\ buf' = append(buf, Chunk(n))
    /\ next' = (next + n) % Positions
    /\ out' = <<>>

\* onmessage and parse consume what they have seen; asking for more than there
\* is consumes all.
Consume(n) ==
    /\ buf' = consumeBytes(buf, n)
    /\ out' = <<>>
    /\ UNCHANGED next

\* Reading more than there is would use a block that does not exist.
Read(n) ==
    /\ n <= readableBytes(buf)
    /\ out' = Bytes(buf, n)
    /\ buf' = consumeBytes(buf, n)
    /\ UNCHANGED next

Erase(n) ==
    /\ buf' = erase(buf, n)
    /\ out' = <<>>
    /\ UNCHANGED next

Clear ==
    /\ buf' = Empty
    /\ out' = <<>>
    /\ UNCHANGED next

Peek(n) ==
    /\ out' = peekFromBlock(buf, n)
    /\ UNCHANGED <<buf, next>>

\* writecallback: the kernel takes n of the bytes offered to writev.
Writev ==
    LET offered == FlattenSeq(getIOVecs(buf, MaxIoves)) IN
    \E n \in 1 .. Len(offered) :
        /\ out' = SubSeq(offered, 1, n)
        /\ buf' = consumeBytes(buf, n)
        /\ UNCHANGED next

Next ==
    \/ \E n \in 0 .. MaxContent :
          Append_(n) \/ Consume(n) \/ Read(n) \/ Erase(n) \/ Peek(n)
    \/ Clear
    \/ Writev

Spec == Init /\ [][Next]_vars

----------------------------------------------------------------------------
(* Properties.                                                             *)

Nonempty(b) == \A i \in DOMAIN b.blocks_ : Size(b.blocks_[i]) > 0

\* The members agree: total_size_ counts the content, write_pos_ is the end of
\* the last block, no block is overfull, and but for a buffer that was never
\* written none is empty and the first is not used up.
Wellformed(b) ==
    /\ b.total_size_ = Len(Content(b))
    /\ b.blocks_ = <<>> => b.read_pos_ = 0
    /\ b.blocks_ # <<>> => b.write_pos_ = Size(b.blocks_[Len(b.blocks_)])
    /\ \A i \in DOMAIN b.blocks_ : Size(b.blocks_[i]) <= b.blocks_[i].capacity
    /\ \/ b = Empty
       \/ Nonempty(b) /\ (b.blocks_ # <<>> => b.read_pos_ < Size(b.blocks_[1]))

BufferWellformed == Wellformed(buf)

BlockType == [data : Seq(Byte), capacity : Nat]

TypeOK ==
    /\ buf \in [blocks_ : Seq(BlockType), total_size_ : Nat, read_pos_ : Nat,
                write_pos_ : Nat]
    /\ next \in 0 .. Positions - 1
    /\ out \in Seq(Byte)

\* Inductive.
BufferInv ==
    /\ TypeOK
    /\ BufferWellformed
    /\ buf.total_size_ <= MaxContent

\* As long as there is something to write, writev is offered something: the
\* write callback cannot disable EPOLLOUT with data left (Connection.cpp:85).
SomethingOffered ==
    readableBytes(buf) > 0 => getIOVecs(buf, MaxIoves) # <<>>

\* Bytes come out once, in order and unchanged, whatever the blocks.
Queue == INSTANCE ByteQueue WITH content <- Content(buf)

ImplementsByteQueue == Queue!Spec
=============================================================================
