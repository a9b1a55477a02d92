----------------------------- MODULE ByteQueue -----------------------------
(***************************************************************************)
(* What a buffer promises: bytes come out as they went in.                 *)
(***************************************************************************)
EXTENDS Integers, Sequences

CONSTANTS
    Positions,  \* bytes are named by their position in the stream, modulo this
    MaxContent  \* bound: the bytes held at one time

VARIABLES
    content,    \* the bytes held
    next,       \* the next byte of the stream
    out         \* the bytes the last operation handed out

Init ==
    /\ content = <<>>
    /\ next = 0
    /\ out = <<>>

\* The next n bytes of the stream.
Chunk(n) == [i \in 1 .. n |-> (next + i - 1) % Positions]

Put(n) ==
    /\ Len(content) + n <= MaxContent
    /\ content' = content \o Chunk(n)
    /\ next' = (next + n) % Positions
    /\ out' = <<>>

\* Hand out the first n bytes, and keep them or drop them.
Look(n) ==
    /\ out' = SubSeq(content, 1, n)
    /\ UNCHANGED <<content, next>>

Take(n) ==
    /\ out' = SubSeq(content, 1, n)
    /\ content' = SubSeq(content, n + 1, Len(content))
    /\ UNCHANGED next

Drop(n) ==
    /\ out' = <<>>
    /\ content' = SubSeq(content, n + 1, Len(content))
    /\ UNCHANGED next

Next ==
    \E n \in 0 .. MaxContent :
        \/ Put(n)
        \/ n <= Len(content) /\ (Look(n) \/ Take(n) \/ Drop(n))

Spec == Init /\ [][Next]_<<content, next, out>>
=============================================================================
