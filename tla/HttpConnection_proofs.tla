----------------------- MODULE HttpConnection_proofs -----------------------
(***************************************************************************)
(* Proofs about HttpConnection, for every menu of requests, every set of   *)
(* files and blocks of any size: requests are handled as they were sent    *)
(* and answered with the file they name, and a form with the fields the    *)
(* user entered, as long as each arrives whole and after the last response.*)
(*                                                                         *)
(* The loops of the parser are functions of the number of rounds; a proof  *)
(* says what is left of the bytes, and what has been found in the others,  *)
(* after each round.                                                       *)
(***************************************************************************)
EXTENDS HttpConnection, SequenceTheorems, WellFoundedInduction, TLAPS

\* What is on the wire: the rest of a line, its end, a character of a body.
FormByte == DOMAIN CodeOf \union {"%", "+", "=", "&"} \union {HexDigits[i] : i \in 1 .. 16}

Octet ==
    {0, CR, LF} \union DOMAIN Lines \union DOMAIN Headers \union FormByte
        \union UNION {ToSet(r.body) : r \in Menu}

\* What is proved of the operations of BufferBlock.
Blocks == INSTANCE Buffer_proofs
    WITH Byte <- Octet, Positions <- 1, MaxContent <- 0, MaxIoves <- 1,
         buf <- inputbuffer_, next <- 0, out <- <<>>

----------------------------------------------------------------------------
(* The buffer.                                                             *)

LEMMA BlocksAssumptions ==
    /\ 1 \in Nat \ {0} /\ 0 .. 1 - 1 \subseteq Octet
    /\ 0 \in Nat /\ 0 < SizeMod
    /\ 1 \in Nat \ {0}
  BY BlockSizeAssumption DEF Octet

LEMMA FlattenAgrees == ASSUME NEW ss PROVE Blocks!FlattenSeq(ss) = FlattenSeq(ss)
  BY DEF Blocks!FlattenSeq, FlattenSeq

LEMMA ContentAgrees == ASSUME NEW b PROVE Blocks!Content(b) = Content(b)
  BY DEF Blocks!Content, Content, Blocks!BytesOf, BytesOf, Blocks!FlattenSeq, FlattenSeq

LEMMA ConsumeAgrees ==
    ASSUME NEW b, NEW n PROVE Blocks!consumeBytes(b, n) = consumeBytes(b, n)
  BY DEF Blocks!consumeBytes, consumeBytes, Blocks!UsedUp, UsedUp, Blocks!Available, Available,
         Blocks!BytesOf, BytesOf, Blocks!FlattenSeq, FlattenSeq, Blocks!Lesser, Lesser,
         Blocks!Max, Max

LEMMA AppendAgrees == ASSUME NEW b, NEW s PROVE Blocks!append(b, s) = append(b, s)
  BY DEF Blocks!append, append, Blocks!WithBlock, WithBlock, Blocks!NewCapacity, NewCapacity,
         Blocks!Greater, Greater, Blocks!Lesser, Lesser, Blocks!Block, Block

LEMMA EmptyAgrees == Blocks!Empty = Empty
  BY DEF Blocks!Empty, Empty, Blocks!Block, Block

\* An operator of our own: the provers cannot instantiate a fact about \o.
Joined(s, t) == s \o t

\* A buffer as Buffer_proofs knows it.
Fine(b) == b \in Blocks!BufType /\ Blocks!Wellformed(b)

LEMMA FineEmpty == Fine(Empty) /\ Content(Empty) = <<>>
<1>1. /\ Blocks!Empty \in Blocks!BufType /\ Blocks!Wellformed(Blocks!Empty)
      /\ Blocks!Content(Blocks!Empty) = <<>>
  BY Blocks!EmptyIs, BlockSizeAssumption, BlocksAssumptions
<1> QED
  BY <1>1, EmptyAgrees, ContentAgrees DEF Fine

\* read_pos_ is inside the first block: readLine and peekFromBlock read what is
\* in the buffer.
LEMMA FineFacts ==
    ASSUME NEW b, Fine(b)
    PROVE  /\ Content(b) \in Seq(Octet)
           /\ Len(Content(b)) \in Nat
           /\ readableBytes(b) = Len(Content(b))
           /\ peekFromBlock(b, readableBytes(b)) = Content(b)
           /\ ~Overrun(b)
<1>1. /\ Blocks!Content(b) \in Seq(Octet) /\ Len(Blocks!Content(b)) \in Nat
      /\ b.total_size_ = Len(Blocks!Content(b))
  BY Blocks!ContentIs, BlockSizeAssumption, BlocksAssumptions DEF Fine
<1>2. /\ Content(b) \in Seq(Octet) /\ Len(Content(b)) \in Nat
      /\ readableBytes(b) = Len(Content(b))
  BY <1>1, ContentAgrees DEF readableBytes
<1>3. peekFromBlock(b, readableBytes(b)) = Content(b)
  <2>1. PICK c : c = Content(b)
    OBVIOUS
  <2>2. c \in Seq(Octet) /\ Len(c) \in Nat /\ readableBytes(b) = Len(c)
    BY <1>2, <2>1
  <2>3. Lesser(Len(c), Len(c)) = Len(c) /\ ~ (Len(c) < Len(c))
    BY <2>2 DEF Lesser
  <2>4. SubSeq(c, 1, Len(c)) = c
    BY ONLY <2>2
  <2>5. peekFromBlock(b, readableBytes(b)) = SubSeq(c, 1, Len(c))
    BY <2>1, <2>2, <2>3 DEF peekFromBlock
  <2> QED
    BY <2>1, <2>4, <2>5
<1>4. ~Overrun(b)
  <2>1. CASE b = Empty
    BY <2>1 DEF Overrun, Empty, Block, Size
  <2>2. CASE b # Empty
    <3>1. /\ b.blocks_ # <<>> => b.read_pos_ < Blocks!Size(b.blocks_[1])
      BY <2>2, EmptyAgrees DEF Fine, Blocks!Wellformed
    <3>2. b.blocks_ # <<>> => b.read_pos_ < Size(b.blocks_[1])
      BY <3>1 DEF Blocks!Size, Size
    <3>3. b.blocks_ # <<>> => b.read_pos_ \in Nat /\ Size(b.blocks_[1]) \in Nat
      <4> SUFFICES ASSUME b.blocks_ # <<>>
                   PROVE  b.read_pos_ \in Nat /\ Size(b.blocks_[1]) \in Nat
        OBVIOUS
      <4>1. b.blocks_ \in Seq(Blocks!BlockType) /\ b.read_pos_ \in Nat
        BY DEF Fine, Blocks!BufType
      <4>2. b.blocks_[1] \in Blocks!BlockType
        BY <4>1
      <4>3. b.blocks_[1].data \in Seq(Octet)
        BY <4>2 DEF Blocks!BlockType
      <4> QED
        BY <4>1, <4>3 DEF Size
    <3> QED
      BY <3>2, <3>3 DEF Overrun
  <2> QED
    BY <2>1, <2>2
<1> QED
  BY <1>2, <1>3, <1>4

LEMMA FineAppend ==
    ASSUME NEW b, Fine(b), NEW s \in Seq(Octet), s # <<>>,
           Len(Content(b)) + Len(s) < SizeMod
    PROVE  Fine(append(b, s)) /\ Content(append(b, s)) = Content(b) \o s
<1>1. Len(Blocks!Content(b)) + Len(s) < SizeMod
  BY ContentAgrees
<1>2. /\ Blocks!append(b, s) \in Blocks!BufType
      /\ Blocks!Wellformed(Blocks!append(b, s))
      /\ Blocks!Content(Blocks!append(b, s)) = Blocks!Content(b) \o s
  BY <1>1, Blocks!AppendKeeps, BlockSizeAssumption, BlocksAssumptions DEF Fine
<1> QED
  BY <1>2, AppendAgrees, ContentAgrees DEF Fine

LEMMA FineConsume ==
    ASSUME NEW b, Fine(b), Len(Content(b)) < SizeMod,
           NEW s \in Seq(Octet), NEW t \in Seq(Octet), Content(b) = Joined(s, t)
    PROVE  Fine(consumeBytes(b, Len(s))) /\ Content(consumeBytes(b, Len(s))) = t
<1>1. b.total_size_ < SizeMod /\ Len(Blocks!Content(b)) = Len(s) + Len(t)
  <2>1. Len(s \o t) = Len(s) + Len(t)
    OBVIOUS
  <2> QED
    BY <2>1, ContentAgrees, FineFacts DEF readableBytes, Joined
<1>2. Len(s) \in Nat /\ Len(t) \in Nat
  OBVIOUS
<1>3. /\ Blocks!consumeBytes(b, Len(s)) \in Blocks!BufType
      /\ Blocks!Wellformed(Blocks!consumeBytes(b, Len(s)))
      /\ Blocks!Content(Blocks!consumeBytes(b, Len(s)))
            = Blocks!Dropped(Blocks!Content(b), Blocks!Lesser(Len(s), Len(Blocks!Content(b))))
  BY <1>1, <1>2, Blocks!ConsumeKeeps, BlockSizeAssumption, BlocksAssumptions DEF Fine
<1>4. Blocks!Lesser(Len(s), Len(Blocks!Content(b))) = Len(s)
  BY <1>1, <1>2 DEF Blocks!Lesser
<1>5. Blocks!Dropped(s \o t, Len(s)) = t
  BY Blocks!DropFirst, BlockSizeAssumption, BlocksAssumptions
<1> QED
  BY <1>3, <1>4, <1>5, ConsumeAgrees, ContentAgrees DEF Fine, Joined

----------------------------------------------------------------------------
(* Sequences.                                                              *)

\* Induction over the numbers up to N, for a set of them.
LEMMA Induction ==
    ASSUME NEW N \in Nat, NEW T, 0 \in T,
           \A n \in Nat : n \in T /\ n < N => n + 1 \in T
    PROVE  \A n \in 0 .. N : n \in T
<1> DEFINE U == {n \in Nat : n <= N => n \in T}
<1>1. 0 \in U
  OBVIOUS
<1>2. \A n \in Nat : n \in U => n + 1 \in U
  OBVIOUS
<1> HIDE DEF U
<1>3. Nat \subseteq U
  BY <1>1, <1>2, Blocks!SetInduction, BlockSizeAssumption, BlocksAssumptions
<1> QED
  BY <1>3 DEF U

LEMMA FlattenOne ==
    ASSUME NEW S, NEW s \in Seq(S), NEW ss \in Seq(Seq(S))
    PROVE  FlattenSeq(Cons(s, ss)) = s \o FlattenSeq(ss)
<1>1. <<s>> \in Seq(Seq(S))
  OBVIOUS
<1>2. FlattenSeq(<<s>> \o ss) = FlattenSeq(<<s>>) \o FlattenSeq(ss)
  BY <1>1, Blocks!FlattenConcat, FlattenAgrees, BlockSizeAssumption, BlocksAssumptions
<1>3. <<>> \in Seq(Seq(S)) /\ Append(<<>>, s) = <<s>>
  OBVIOUS
<1>4. FlattenSeq(Append(<<>>, s)) = FlattenSeq(<<>>) \o s
  BY <1>3, Blocks!FlattenAppend, FlattenAgrees, BlockSizeAssumption, BlocksAssumptions
<1>5. FlattenSeq(<<>>) = <<>>
  BY Blocks!FlattenEmpty, FlattenAgrees, BlockSizeAssumption, BlocksAssumptions
<1>6. <<>> \o s = s
  OBVIOUS
<1> QED
  BY <1>2, <1>3, <1>4, <1>5, <1>6 DEF Cons

LEMMA FlattenLast ==
    ASSUME NEW S, NEW s \in Seq(S), NEW ss \in Seq(Seq(S))
    PROVE  FlattenSeq(Append(ss, s)) = FlattenSeq(ss) \o s
  BY Blocks!FlattenAppend, FlattenAgrees, BlockSizeAssumption, BlocksAssumptions

LEMMA FlattenNone == FlattenSeq(<<>>) = <<>>
  BY Blocks!FlattenEmpty, FlattenAgrees, BlockSizeAssumption, BlocksAssumptions

LEMMA FlattenIsSeq ==
    ASSUME NEW S, NEW ss \in Seq(Seq(S))
    PROVE  FlattenSeq(ss) \in Seq(S)
  BY Blocks!FlattenType, FlattenAgrees, BlockSizeAssumption, BlocksAssumptions

LEMMA RestOf ==
    ASSUME NEW S, NEW s \in Seq(S), NEW t \in Seq(S)
    PROVE  SubSeq(s \o t, Len(s) + 1, Len(s \o t)) = t
  BY Blocks!DropFirst, BlockSizeAssumption, BlocksAssumptions DEF Blocks!Dropped

\* What is left of a sequence is its next element and the rest.
LEMMA NextElement ==
    ASSUME NEW S, NEW s \in Seq(S), NEW j \in Nat, j < Len(s)
    PROVE  /\ SubSeq(s, j + 1, Len(s)) \in Seq(S)
           /\ SubSeq(s, j + 2, Len(s)) \in Seq(S)
           /\ SubSeq(s, j + 1, Len(s)) = Cons(s[j + 1], SubSeq(s, j + 2, Len(s)))
<1>1. Len(s) \in Nat
  OBVIOUS
<1> DEFINE t == SubSeq(s, j + 2, Len(s))
<1>2. /\ SubSeq(s, j + 1, Len(s)) \in Seq(S) /\ Len(SubSeq(s, j + 1, Len(s))) = Len(s) - j
      /\ \A k \in 1 .. Len(s) - j : SubSeq(s, j + 1, Len(s))[k] = s[j + k]
  <2>1. j \in 0 .. Len(s)
    BY <1>1
  <2> QED
    BY <2>1, Blocks!Drops, BlockSizeAssumption, BlocksAssumptions DEF Blocks!Dropped
<1>3. /\ t \in Seq(S) /\ Len(t) = Len(s) - (j + 1)
      /\ \A k \in 1 .. Len(s) - (j + 1) : t[k] = s[(j + 1) + k]
  <2>1. j + 1 \in 0 .. Len(s) /\ (j + 1) + 1 = j + 2
    BY <1>1
  <2>2. /\ Blocks!Dropped(s, j + 1) \in Seq(S) /\ Len(Blocks!Dropped(s, j + 1)) = Len(s) - (j + 1)
        /\ \A k \in 1 .. Len(s) - (j + 1) : Blocks!Dropped(s, j + 1)[k] = s[(j + 1) + k]
    BY <2>1, Blocks!Drops, BlockSizeAssumption, BlocksAssumptions
  <2>3. Blocks!Dropped(s, j + 1) = t
    BY <2>1 DEF Blocks!Dropped
  <2> QED
    BY <2>2, <2>3
<1> HIDE DEF t
<1>4. s[j + 1] \in S
  BY <1>1
<1> DEFINE x == s[j + 1]
<1>5. /\ <<x>> \o t \in Seq(S) /\ Len(<<x>> \o t) = 1 + Len(t)
      /\ (<<x>> \o t)[1] = x
      /\ \A k \in 1 .. Len(t) : (<<x>> \o t)[1 + k] = t[k]
  <2> HIDE DEF x
  <2>1. x \in S
    BY <1>4 DEF x
  <2> QED
    BY ONLY <1>3, <2>1
<1>6. SubSeq(s, j + 1, Len(s)) = <<x>> \o t
  <2> DEFINE u == SubSeq(s, j + 1, Len(s))
  <2> DEFINE v == <<x>> \o t
  <2>1. u \in Seq(S) /\ v \in Seq(S) /\ Len(u) = Len(v) /\ Len(u) = Len(s) - j
    BY <1>1, <1>2, <1>3, <1>5
  <2>2. ASSUME NEW k \in 1 .. Len(s) - j PROVE u[k] = v[k]
    <3>1. u[k] = s[j + k]
      BY <1>2
    <3>2. CASE k = 1
      BY <3>1, <3>2, <1>5
    <3>3. CASE k # 1
      <4>1. k - 1 \in 1 .. Len(s) - (j + 1) /\ 1 + (k - 1) = k /\ (j + 1) + (k - 1) = j + k
        BY <3>3, <1>1
      <4>2. k - 1 \in 1 .. Len(t)
        BY <4>1, <1>3
      <4>3. v[1 + (k - 1)] = t[k - 1]
        BY <4>2, <1>5
      <4>4. t[k - 1] = s[(j + 1) + (k - 1)]
        BY <4>1, <1>3
      <4> QED
        BY <3>1, <4>1, <4>3, <4>4
    <3> QED
      BY <3>2, <3>3
  <2> HIDE DEF u, v
  <2>3. u = v
    BY <2>1, <2>2, SeqEqual
  <2> QED
    BY <2>3 DEF u, v
<1> QED
  BY <1>2, <1>3, <1>6 DEF t, Cons

----------------------------------------------------------------------------
(* The bytes that the elements of a sequence stand for, one after the      *)
(* other.                                                                  *)

Images(m, s) == FlattenSeq([i \in DOMAIN s |-> m[s[i]]])

LEMMA ImagesParts ==
    ASSUME NEW S, NEW B, NEW m \in [S -> Seq(B)], NEW s \in Seq(S)
    PROVE  [i \in DOMAIN s |-> m[s[i]]] \in Seq(Seq(B))
<1>1. DOMAIN s = 1 .. Len(s) /\ Len(s) \in Nat /\ \A i \in 1 .. Len(s) : s[i] \in S
  OBVIOUS
<1>2. [i \in DOMAIN s |-> m[s[i]]] \in [1 .. Len(s) -> Seq(B)]
  BY <1>1
<1> QED
  BY <1>1, <1>2

LEMMA ImagesType ==
    ASSUME NEW S, NEW B, NEW m \in [S -> Seq(B)], NEW s \in Seq(S)
    PROVE  Images(m, s) \in Seq(B)
<1>1. PICK u : u = [i \in DOMAIN s |-> m[s[i]]]
  OBVIOUS
<1>2. u \in Seq(Seq(B))
  BY <1>1, ImagesParts
<1>3. FlattenSeq(u) \in Seq(B)
  BY <1>2, FlattenIsSeq
<1> QED
  BY <1>1, <1>3 DEF Images

LEMMA ImagesNone ==
    ASSUME NEW m
    PROVE  Images(m, <<>>) = <<>>
<1>1. [i \in DOMAIN <<>> |-> m[<<>>[i]]] = <<>>
  OBVIOUS
<1> QED
  BY <1>1, FlattenNone DEF Images

LEMMA ImagesOne ==
    ASSUME NEW S, NEW B, NEW m \in [S -> Seq(B)], NEW x \in S, NEW s \in Seq(S)
    PROVE  Images(m, Cons(x, s)) = m[x] \o Images(m, s)
<1> DEFINE t == Cons(x, s)
<1>1. /\ DOMAIN s = 1 .. Len(s) /\ Len(s) \in Nat
      /\ t \in Seq(S) /\ DOMAIN t = 1 .. Len(s) + 1 /\ t[1] = x
      /\ \A i \in 1 .. Len(s) : t[1 + i] = s[i]
  BY DEF Cons
<1> HIDE DEF t
<1> DEFINE u == [i \in DOMAIN s |-> m[s[i]]]
<1> DEFINE v == [i \in DOMAIN t |-> m[t[i]]]
<1>2. u \in Seq(Seq(B)) /\ v \in Seq(Seq(B)) /\ m[x] \in Seq(B)
  <2> QED
    BY <1>1, ImagesParts
<1>3. Len(u) = Len(s) /\ Len(v) = Len(s) + 1
  BY <1>1
<1>4. v[1] = m[x] /\ \A i \in 1 .. Len(s) : v[1 + i] = u[i]
  <2>1. 1 \in DOMAIN t /\ \A i \in 1 .. Len(s) : 1 + i \in DOMAIN t
    BY <1>1
  <2> QED
    BY <1>1, <2>1
<1> HIDE DEF u, v
<1>5. v = Cons(m[x], u)
  <2>1. PICK y : y = m[x]
    OBVIOUS
  <2>2. y \in Seq(B)
    BY <1>2, <2>1
  <2>3. /\ <<y>> \o u \in Seq(Seq(B)) /\ Len(<<y>> \o u) = 1 + Len(u) /\ (<<y>> \o u)[1] = y
        /\ \A i \in 1 .. Len(u) : (<<y>> \o u)[1 + i] = u[i]
    BY ONLY <1>2, <2>2
  <2>4. Len(v) = Len(<<y>> \o u)
    BY <1>1, <1>3, <2>3
  <2>5. ASSUME NEW i \in 1 .. Len(v) PROVE v[i] = (<<y>> \o u)[i]
    <3>1. CASE i = 1
      BY <1>4, <2>1, <2>3, <3>1
    <3>2. CASE i # 1
      <4>1. i - 1 \in 1 .. Len(s) /\ i - 1 \in 1 .. Len(u) /\ 1 + (i - 1) = i
        BY <1>1, <1>3, <3>2
      <4> QED
        BY <1>4, <2>3, <4>1
    <3> QED
      BY <3>1, <3>2
  <2>6. v = Cons(y, u)
    BY <1>2, <2>3, <2>4, <2>5, SeqEqual DEF Cons
  <2> QED
    BY <2>1, <2>6
<1>6. FlattenSeq(v) = m[x] \o FlattenSeq(u)
  BY <1>2, <1>5, FlattenOne
<1> QED
  BY <1>6 DEF Images, t, u, v

\* What is left after the j-th element begins with the bytes of the next one.
LEMMA ImagesNext ==
    ASSUME NEW S, NEW B, NEW m \in [S -> Seq(B)], NEW s \in Seq(S), NEW j \in Nat, j < Len(s)
    PROVE  /\ s[j + 1] \in S
           /\ SubSeq(s, j + 2, Len(s)) \in Seq(S)
           /\ Images(m, SubSeq(s, j + 1, Len(s)))
                 = Joined(m[s[j + 1]], Images(m, SubSeq(s, j + 2, Len(s))))
<1>1. /\ SubSeq(s, j + 2, Len(s)) \in Seq(S)
      /\ SubSeq(s, j + 1, Len(s)) = Cons(s[j + 1], SubSeq(s, j + 2, Len(s)))
  BY NextElement
<1>2. s[j + 1] \in S
  <2>1. Len(s) \in Nat /\ j + 1 \in 1 .. Len(s)
    OBVIOUS
  <2> QED
    BY <2>1
<1>3. PICK t : t = SubSeq(s, j + 2, Len(s))
  OBVIOUS
<1>4. PICK x : x = s[j + 1]
  OBVIOUS
<1>5. Images(m, Cons(x, t)) = m[x] \o Images(m, t)
  <2>1. x \in S /\ t \in Seq(S)
    BY <1>1, <1>2, <1>3, <1>4
  <2> QED
    BY <2>1, ImagesOne
<1> QED
  BY <1>1, <1>2, <1>3, <1>4, <1>5 DEF Joined

\* The same as one fact about S and B, which the provers can instantiate.
ImagesContinue(S, B) ==
    \A m \in [S -> Seq(B)], s \in Seq(S), j \in Nat :
        j < Len(s) =>
            /\ s[j + 1] \in S
            /\ SubSeq(s, j + 2, Len(s)) \in Seq(S)
            /\ Images(m, SubSeq(s, j + 1, Len(s)))
                  = Joined(m[s[j + 1]], Images(m, SubSeq(s, j + 2, Len(s))))

LEMMA ImagesDo == ASSUME NEW S, NEW B PROVE ImagesContinue(S, B)
  BY ImagesNext DEF ImagesContinue

----------------------------------------------------------------------------
(* readLine.                                                               *)

ReadNothing == [state |-> "READING", line |-> <<>>, consumed |-> 0]

\* The rounds of readLine.
ReadRounds(s, n, after) ==
    /\ after[0] = ReadNothing
    /\ \A k \in 1 .. n : after[k] = ReadByte(after[k - 1], s[k], k)

LEMMA ReadBegins ==
    ASSUME NEW s, NEW n \in Nat
    PROVE  \E after : ReadRounds(s, n, after)
<1> DEFINE T == {m \in Nat : \E after : ReadRounds(s, m, after)}
<1>1. 0 \in T
  <2>1. [k \in 0 .. 0 |-> ReadNothing][0] = ReadNothing
    OBVIOUS
  <2>2. ReadRounds(s, 0, [k \in 0 .. 0 |-> ReadNothing])
    BY <2>1 DEF ReadRounds
  <2> QED
    BY <2>2
<1>2. ASSUME NEW m \in Nat, m \in T PROVE m + 1 \in T
  <2>1. PICK f : ReadRounds(s, m, f)
    BY <1>2
  <2>2. PICK x : x = ReadByte(f[m], s[m + 1], m + 1)
    OBVIOUS
  <2> DEFINE g == [k \in 0 .. m + 1 |-> IF k <= m THEN f[k] ELSE x]
  <2>3. g[0] = ReadNothing
    <3>1. 0 \in 0 .. m + 1 /\ 0 <= m
      OBVIOUS
    <3> QED
      BY <2>1, <3>1 DEF ReadRounds
  <2>4. ASSUME NEW k \in 1 .. m + 1 PROVE g[k] = ReadByte(g[k - 1], s[k], k)
    <3>1. k \in 0 .. m + 1 /\ k - 1 \in 0 .. m + 1 /\ k - 1 <= m
      OBVIOUS
    <3>2. g[k - 1] = f[k - 1]
      BY <3>1
    <3>3. CASE k <= m
      <4>1. k \in 1 .. m /\ g[k] = f[k]
        BY <3>1, <3>3
      <4> HIDE DEF g
      <4> QED
        BY <2>1, <3>2, <4>1 DEF ReadRounds
    <3>4. CASE ~ (k <= m)
      <4>1. k = m + 1 /\ k - 1 = m /\ g[k] = x
        BY <3>1, <3>4
      <4> HIDE DEF g
      <4> QED
        BY <2>2, <3>2, <4>1
    <3> QED
      BY <3>3, <3>4
  <2> HIDE DEF g
  <2>5. ReadRounds(s, m + 1, g)
    BY <2>3, <2>4 DEF ReadRounds
  <2> QED
    BY <2>5
<1>3. Nat \subseteq T
  <2> HIDE DEF T
  <2> QED
    BY <1>1, <1>2, Blocks!SetInduction, BlockSizeAssumption, BlocksAssumptions
<1> QED
  BY <1>3

LEMMA ReadIs ==
    ASSUME NEW s, Len(s) \in Nat
    PROVE  \E after : ReadRounds(s, Len(s), after) /\ readLine(s) = after[Len(s)]
<1> DEFINE N == Len(s)
<1> DEFINE Step(g) == [k \in 0 .. N |-> IF k = 0 THEN ReadNothing ELSE ReadByte(g[k - 1], s[k], k)]
<1> DEFINE after == CHOOSE g : g = Step(g)
<1>1. PICK f : ReadRounds(s, N, f)
  BY ReadBegins
<1> DEFINE h == [k \in 0 .. N |-> f[k]]
<1>2. ASSUME NEW k \in 0 .. N PROVE h[k] = Step(h)[k]
  <2>1. CASE k = 0
    BY <1>1, <2>1 DEF ReadRounds
  <2>2. CASE k # 0
    <3>1. k \in 1 .. N /\ k - 1 \in 0 .. N
      BY <2>2
    <3>2. h[k] = f[k] /\ h[k - 1] = f[k - 1] /\ f[k] = ReadByte(f[k - 1], s[k], k)
      BY <1>1, <3>1 DEF ReadRounds
    <3> HIDE DEF h
    <3>3. h[k] = ReadByte(h[k - 1], s[k], k)
      BY <3>2
    <3>4. Step(h)[k] = ReadByte(h[k - 1], s[k], k)
      BY <2>2
    <3> QED
      BY <3>3, <3>4
  <2> QED
    BY <2>1, <2>2
<1>3. h = Step(h)
  <2>1. h = [k \in 0 .. N |-> h[k]] /\ Step(h) = [k \in 0 .. N |-> Step(h)[k]]
    OBVIOUS
  <2> HIDE DEF h, Step
  <2> QED
    BY <1>2, <2>1
<1>4. after = Step(after)
  <2> HIDE DEF Step, h
  <2> QED
    BY <1>3
<1>5. readLine(s) = after[Len(s)]
  BY DEF readLine, ReadNothing
<1> HIDE DEF after
<1>6. \A k \in 0 .. N : after[k] = Step(after)[k]
  <2> HIDE DEF Step
  <2> QED
    BY <1>4
<1>7. after[0] = ReadNothing
  <2>1. 0 \in 0 .. N /\ Step(after)[0] = ReadNothing
    OBVIOUS
  <2> HIDE DEF Step
  <2> QED
    BY <1>6, <2>1
<1>8. ASSUME NEW k \in 1 .. N PROVE after[k] = ReadByte(after[k - 1], s[k], k)
  <2>1. k \in 0 .. N /\ k # 0
    OBVIOUS
  <2>2. Step(after)[k] = ReadByte(after[k - 1], s[k], k)
    BY <2>1
  <2> HIDE DEF Step
  <2> QED
    BY <1>6, <2>1, <2>2
<1>9. ReadRounds(s, N, after)
  BY <1>7, <1>8 DEF ReadRounds
<1> QED
  BY <1>5, <1>9

LEMMA ReadCR ==
    ASSUME NEW line, NEW i
    PROVE  ReadByte([state |-> "READING", line |-> line, consumed |-> 0], CR, i)
              = [state |-> "FOUND_CR", line |-> line, consumed |-> 0]
<1> DEFINE x == [state |-> "READING", line |-> line, consumed |-> 0]
<1>1. ReadByte(x, CR, i) = [x EXCEPT !.state = "FOUND_CR"]
  BY DEF ReadByte
<1>2. [x EXCEPT !.state = "FOUND_CR"] = [state |-> "FOUND_CR", line |-> line, consumed |-> 0]
  OBVIOUS
<1> QED
  BY <1>1, <1>2

LEMMA ReadLF ==
    ASSUME NEW line, NEW i
    PROVE  ReadByte([state |-> "FOUND_CR", line |-> line, consumed |-> 0], LF, i)
              = [state |-> "FOUND_CR", line |-> line, consumed |-> i]
<1> DEFINE y == [state |-> "FOUND_CR", line |-> line, consumed |-> 0]
<1>1. ReadByte(y, LF, i) = [y EXCEPT !.consumed = i]
  BY DEF ReadByte, LF, CR
<1>2. [y EXCEPT !.consumed = i] = [state |-> "FOUND_CR", line |-> line, consumed |-> i]
  OBVIOUS
<1> QED
  BY <1>1, <1>2

LEMMA ReadOther ==
    ASSUME NEW line, NEW i, NEW c, c # CR
    PROVE  ReadByte([state |-> "READING", line |-> line, consumed |-> 0], c, i)
              = [state |-> "READING", line |-> Append(line, c), consumed |-> 0]
  BY DEF ReadByte

\* Once the end of a line is found nothing is read any more.
LEMMA ReadEnds ==
    ASSUME NEW s, Len(s) \in Nat, NEW after, ReadRounds(s, Len(s), after),
           NEW k \in 0 .. Len(s), after[k].consumed # 0
    PROVE  after[Len(s)] = after[k]
<1> DEFINE T == {n \in Nat : k + n <= Len(s) => after[k + n] = after[k]}
<1>1. 0 \in T
  OBVIOUS
<1>2. ASSUME NEW n \in Nat, n \in T PROVE n + 1 \in T
  <2> SUFFICES ASSUME k + (n + 1) <= Len(s) PROVE after[k + (n + 1)] = after[k]
    OBVIOUS
  <2>1. after[k + n] = after[k] /\ k + (n + 1) \in 1 .. Len(s) /\ (k + (n + 1)) - 1 = k + n
    BY <1>2
  <2>2. after[k + (n + 1)] = ReadByte(after[k + n], s[k + (n + 1)], k + (n + 1))
    BY <2>1 DEF ReadRounds
  <2> QED
    BY <2>1, <2>2 DEF ReadByte
<1> HIDE DEF T
<1>3. \A n \in 0 .. Len(s) - k : n \in T
  <2>1. Len(s) - k \in Nat
    OBVIOUS
  <2> QED
    BY <1>1, <1>2, <2>1, Induction
<1>4. Len(s) - k \in T /\ Len(s) - k \in Nat /\ k + (Len(s) - k) = Len(s)
  BY <1>3
<1> QED
  BY <1>4 DEF T

\* The next line is a token.
LEMMA ReadToken ==
    ASSUME NEW s \in Seq(Octet), NEW t, t # CR, Len(s) >= 3, s[1] = t, s[2] = CR, s[3] = LF
    PROVE  readLine(s).line = <<t>> /\ readLine(s).consumed = 3
<1>1. Len(s) \in Nat
  OBVIOUS
<1>2. PICK after : ReadRounds(s, Len(s), after) /\ readLine(s) = after[Len(s)]
  BY <1>1, ReadIs
<1>3. /\ 1 \in 1 .. Len(s) /\ 2 \in 1 .. Len(s) /\ 3 \in 1 .. Len(s) /\ 3 \in 0 .. Len(s)
      /\ 1 - 1 = 0 /\ 2 - 1 = 1 /\ 3 - 1 = 2
  BY <1>1
<1>4. /\ after[0] = ReadNothing /\ after[1] = ReadByte(after[0], s[1], 1)
      /\ after[2] = ReadByte(after[1], s[2], 2) /\ after[3] = ReadByte(after[2], s[3], 3)
  BY <1>2, <1>3 DEF ReadRounds
<1>5. after[1] = [state |-> "READING", line |-> <<t>>, consumed |-> 0]
  <2>1. Append(<<>>, t) = <<t>>
    OBVIOUS
  <2>2. ReadByte([state |-> "READING", line |-> <<>>, consumed |-> 0], t, 1)
           = [state |-> "READING", line |-> Append(<<>>, t), consumed |-> 0]
    BY ReadOther
  <2> QED
    BY <1>4, <2>1, <2>2 DEF ReadNothing
<1>6. after[2] = [state |-> "FOUND_CR", line |-> <<t>>, consumed |-> 0]
  BY <1>4, <1>5, ReadCR
<1>7. after[3] = [state |-> "FOUND_CR", line |-> <<t>>, consumed |-> 3]
  BY <1>4, <1>6, ReadLF
<1>8. after[Len(s)] = after[3]
  BY <1>1, <1>2, <1>3, <1>7, ReadEnds
<1> QED
  BY <1>2, <1>7, <1>8

\* The next line is blank.
LEMMA ReadBlank ==
    ASSUME NEW s \in Seq(Octet), Len(s) >= 2, s[1] = CR, s[2] = LF
    PROVE  readLine(s).line = <<>> /\ readLine(s).consumed = 2
<1>1. Len(s) \in Nat
  OBVIOUS
<1>2. PICK after : ReadRounds(s, Len(s), after) /\ readLine(s) = after[Len(s)]
  BY <1>1, ReadIs
<1>3. 1 \in 1 .. Len(s) /\ 2 \in 1 .. Len(s) /\ 2 \in 0 .. Len(s) /\ 1 - 1 = 0 /\ 2 - 1 = 1
  BY <1>1
<1>4. /\ after[0] = ReadNothing /\ after[1] = ReadByte(after[0], s[1], 1)
      /\ after[2] = ReadByte(after[1], s[2], 2)
  BY <1>2, <1>3 DEF ReadRounds
<1>5. after[1] = [state |-> "FOUND_CR", line |-> <<>>, consumed |-> 0]
  BY <1>4, ReadCR DEF ReadNothing
<1>6. after[2] = [state |-> "FOUND_CR", line |-> <<>>, consumed |-> 2]
  BY <1>4, <1>5, ReadLF
<1>7. after[Len(s)] = after[2]
  BY <1>1, <1>2, <1>3, <1>6, ReadEnds
<1> QED
  BY <1>2, <1>6, <1>7

----------------------------------------------------------------------------
(* parse.                                                                  *)

\* The rounds of parse.
ParseRounds(buf, request, n, after) ==
    /\ after[0] = Loop("going", buf, request)
    /\ \A k \in 1 .. n : after[k] = ParseRound(after[k - 1], buf.read_pos_)

LEMMA ParseBegins ==
    ASSUME NEW buf, NEW request, NEW n \in Nat
    PROVE  \E after : ParseRounds(buf, request, n, after)
<1> DEFINE T == {m \in Nat : \E after : ParseRounds(buf, request, m, after)}
<1>1. 0 \in T
  <2>1. [k \in 0 .. 0 |-> Loop("going", buf, request)][0] = Loop("going", buf, request)
    OBVIOUS
  <2>2. ParseRounds(buf, request, 0, [k \in 0 .. 0 |-> Loop("going", buf, request)])
    BY <2>1 DEF ParseRounds
  <2> QED
    BY <2>2
<1>2. ASSUME NEW m \in Nat, m \in T PROVE m + 1 \in T
  <2>1. PICK f : ParseRounds(buf, request, m, f)
    BY <1>2
  <2>2. PICK x : x = ParseRound(f[m], buf.read_pos_)
    OBVIOUS
  <2> DEFINE g == [k \in 0 .. m + 1 |-> IF k <= m THEN f[k] ELSE x]
  <2>3. g[0] = Loop("going", buf, request)
    <3>1. 0 \in 0 .. m + 1 /\ 0 <= m
      OBVIOUS
    <3> QED
      BY <2>1, <3>1 DEF ParseRounds
  <2>4. ASSUME NEW k \in 1 .. m + 1 PROVE g[k] = ParseRound(g[k - 1], buf.read_pos_)
    <3>1. k \in 0 .. m + 1 /\ k - 1 \in 0 .. m + 1 /\ k - 1 <= m
      OBVIOUS
    <3>2. g[k - 1] = f[k - 1]
      BY <3>1
    <3>3. CASE k <= m
      <4>1. k \in 1 .. m /\ g[k] = f[k]
        BY <3>1, <3>3
      <4> HIDE DEF g
      <4> QED
        BY <2>1, <3>2, <4>1 DEF ParseRounds
    <3>4. CASE ~ (k <= m)
      <4>1. k = m + 1 /\ k - 1 = m /\ g[k] = x
        BY <3>1, <3>4
      <4> HIDE DEF g
      <4> QED
        BY <2>2, <3>2, <4>1
    <3> QED
      BY <3>3, <3>4
  <2> HIDE DEF g
  <2>5. ParseRounds(buf, request, m + 1, g)
    BY <2>3, <2>4 DEF ParseRounds
  <2> QED
    BY <2>5
<1>3. Nat \subseteq T
  <2> HIDE DEF T
  <2> QED
    BY <1>1, <1>2, Blocks!SetInduction, BlockSizeAssumption, BlocksAssumptions
<1> QED
  BY <1>3

LEMMA ParseIs ==
    ASSUME NEW buf, NEW request, readableBytes(buf) + 1 \in Nat
    PROVE  \E after :
              /\ ParseRounds(buf, request, readableBytes(buf) + 1, after)
              /\ readableBytes(buf) # 0 => parse(buf, request) = after[readableBytes(buf) + 1]
<1> DEFINE N == readableBytes(buf) + 1
<1> DEFINE Step(g) == [k \in 0 .. N |-> IF k = 0 THEN Loop("going", buf, request)
                                      ELSE ParseRound(g[k - 1], buf.read_pos_)]
<1> DEFINE after == CHOOSE g : g = Step(g)
<1>1. PICK f : ParseRounds(buf, request, N, f)
  BY ParseBegins
<1> DEFINE h == [k \in 0 .. N |-> f[k]]
<1>2. ASSUME NEW k \in 0 .. N PROVE h[k] = Step(h)[k]
  <2>1. CASE k = 0
    BY <1>1, <2>1 DEF ParseRounds
  <2>2. CASE k # 0
    <3>1. k \in 1 .. N /\ k - 1 \in 0 .. N
      BY <2>2
    <3>2. h[k] = f[k] /\ h[k - 1] = f[k - 1] /\ f[k] = ParseRound(f[k - 1], buf.read_pos_)
      BY <1>1, <3>1 DEF ParseRounds
    <3> HIDE DEF h
    <3>3. h[k] = ParseRound(h[k - 1], buf.read_pos_)
      BY <3>2
    <3>4. Step(h)[k] = ParseRound(h[k - 1], buf.read_pos_)
      BY <2>2
    <3> QED
      BY <3>3, <3>4
  <2> QED
    BY <2>1, <2>2
<1>3. h = Step(h)
  <2>1. h = [k \in 0 .. N |-> h[k]] /\ Step(h) = [k \in 0 .. N |-> Step(h)[k]]
    OBVIOUS
  <2> HIDE DEF h, Step
  <2> QED
    BY <1>2, <2>1
<1>4. after = Step(after)
  <2> HIDE DEF Step, h
  <2> QED
    BY <1>3
<1>5. readableBytes(buf) # 0 => parse(buf, request) = after[readableBytes(buf) + 1]
  BY DEF parse
<1> HIDE DEF after
<1>6. \A k \in 0 .. N : after[k] = Step(after)[k]
  <2> HIDE DEF Step
  <2> QED
    BY <1>4
<1>7. after[0] = Loop("going", buf, request)
  <2>1. 0 \in 0 .. N /\ Step(after)[0] = Loop("going", buf, request)
    OBVIOUS
  <2> HIDE DEF Step
  <2> QED
    BY <1>6, <2>1
<1>8. ASSUME NEW k \in 1 .. N PROVE after[k] = ParseRound(after[k - 1], buf.read_pos_)
  <2>1. k \in 0 .. N /\ k # 0
    OBVIOUS
  <2>2. Step(after)[k] = ParseRound(after[k - 1], buf.read_pos_)
    BY <2>1
  <2> HIDE DEF Step
  <2> QED
    BY <1>6, <2>1, <2>2
<1>9. ParseRounds(buf, request, N, after)
  BY <1>7, <1>8 DEF ParseRounds
<1> QED
  BY <1>5, <1>9

----------------------------------------------------------------------------
(* What is on the wire.                                                    *)

CharImage == [c \in DOMAIN CodeOf |-> Escaped(c)]

LEMMA CharImageType == CharImage \in [DOMAIN CodeOf -> Seq(FormByte)]
<1> SUFFICES ASSUME NEW c \in DOMAIN CodeOf PROVE Escaped(c) \in Seq(FormByte)
  BY DEF CharImage
<1>1. PICK h : h = (CodeOf[c] \div 16) + 1
  OBVIOUS
<1>2. PICK d : d = (CodeOf[c] % 16) + 1
  OBVIOUS
<1>3. h \in 1 .. 16 /\ d \in 1 .. 16
  <2>1. CodeOf[c] \in 0 .. 255
    BY CodesAssumption
  <2> QED
    BY <1>1, <1>2, <2>1
<1>4. /\ HexDigits[h] \in FormByte /\ HexDigits[d] \in FormByte
      /\ c \in FormByte /\ "%" \in FormByte /\ "+" \in FormByte
  BY <1>3 DEF FormByte
<1>5. Escaped(c) = <<"+">> \/ Escaped(c) = <<"%", HexDigits[h], HexDigits[d]>> \/ Escaped(c) = <<c>>
  BY <1>1, <1>2 DEF Escaped
<1>6. PICK x \in FormByte, y \in FormByte, p \in FormByte, q \in FormByte :
         x = HexDigits[h] /\ y = HexDigits[d] /\ p = "%" /\ q = "+"
  BY <1>4
<1>7. <<q>> \in Seq(FormByte) /\ <<p, x, y>> \in Seq(FormByte) /\ <<c>> \in Seq(FormByte)
  BY <1>4
<1> QED
  BY <1>5, <1>6, <1>7

LEMMA EncodedIs ==
    ASSUME NEW str
    PROVE  str \in Seq(DOMAIN CodeOf) => /\ Encoded(str) = Images(CharImage, str)
                                         /\ Encoded(str) \in Seq(FormByte)
<1> SUFFICES ASSUME str \in Seq(DOMAIN CodeOf)
             PROVE  Encoded(str) = Images(CharImage, str) /\ Encoded(str) \in Seq(FormByte)
  OBVIOUS
<1>1. \A i \in DOMAIN str : CharImage[str[i]] = Escaped(str[i])
  BY DEF CharImage
<1>2. [i \in DOMAIN str |-> CharImage[str[i]]] = [i \in DOMAIN str |-> Escaped(str[i])]
  BY <1>1
<1>3. Encoded(str) = Images(CharImage, str)
  BY <1>2 DEF Encoded, Images
<1>4. Images(CharImage, str) \in Seq(FormByte)
  BY CharImageType, ImagesType
<1> QED
  BY <1>3, <1>4

Fields == [key : Seq(DOMAIN CodeOf), value : Seq(DOMAIN CodeOf)]

FieldBytes(f) == <<"&">> \o Encoded(f.key) \o <<"=">> \o Encoded(f.value)

FieldImage == [f \in Fields |-> FieldBytes(f)]

LEMMA FieldBytesType ==
    ASSUME NEW f \in Fields
    PROVE  FieldBytes(f) \in Seq(FormByte) /\ Len(FieldBytes(f)) >= 2
<1>1. Encoded(f.key) \in Seq(FormByte) /\ Encoded(f.value) \in Seq(FormByte)
  BY EncodedIs DEF Fields
<1>2. <<"&">> \in Seq(FormByte) /\ <<"=">> \in Seq(FormByte)
  BY DEF FormByte
<1>3. PICK a \in Seq(FormByte) : a = Encoded(f.key)
  BY <1>1
<1>4. PICK b \in Seq(FormByte) : b = Encoded(f.value)
  BY <1>1
<1>5. PICK d \in Seq(FormByte) : d = <<"&">> /\ Len(d) = 1
  BY <1>2
<1>6. PICK e \in Seq(FormByte) : e = <<"=">> /\ Len(e) = 1
  BY <1>2
<1>7. d \o a \o e \o b \in Seq(FormByte) /\ Len(d \o a \o e \o b) = 1 + Len(a) + 1 + Len(b)
  BY <1>5, <1>6
<1>8. Len(d \o a \o e \o b) >= 2
  <2>1. Len(a) \in Nat /\ Len(b) \in Nat
    OBVIOUS
  <2> QED
    BY <1>7, <2>1
<1> QED
  BY <1>3, <1>4, <1>5, <1>6, <1>7, <1>8 DEF FieldBytes

LEMMA FieldImageType == FieldImage \in [Fields -> Seq(FormByte)]
  BY FieldBytesType DEF FieldImage

\* A form without its first "&".
LEMMA FormBodyIs ==
    ASSUME NEW fields \in Seq(Fields), fields # <<>>
    PROVE  /\ Images(FieldImage, fields) \in Seq(FormByte)
           /\ Len(Images(FieldImage, fields)) >= 2
           /\ FormBody(fields) = Tail(Images(FieldImage, fields))
           /\ FormBody(fields) \in Seq(FormByte) /\ FormBody(fields) # <<>>
<1> DEFINE w == Images(FieldImage, fields)
<1>1. w \in Seq(FormByte)
  BY FieldImageType, ImagesType
<1>2. Len(w) >= 2
  <2>1. Len(fields) \in Nat /\ Len(fields) # 0 /\ 0 < Len(fields)
    OBVIOUS
  <2>2. SubSeq(fields, 1, Len(fields)) = fields
    BY <2>1
  <2>3. PICK x : x = fields[1]
    OBVIOUS
  <2>4. PICK t : t = SubSeq(fields, 2, Len(fields))
    OBVIOUS
  <2>5. x \in Fields /\ t \in Seq(Fields) /\ fields = Cons(x, t)
    <3>1. 0 + 1 = 1 /\ 0 + 2 = 2 /\ 1 \in 1 .. Len(fields)
      BY <2>1
    <3>2. /\ SubSeq(fields, 0 + 2, Len(fields)) \in Seq(Fields)
          /\ SubSeq(fields, 0 + 1, Len(fields))
                = Cons(fields[0 + 1], SubSeq(fields, 0 + 2, Len(fields)))
      BY <2>1, NextElement
    <3>3. fields[1] \in Fields
      BY <3>1
    <3> QED
      BY <2>2, <2>3, <2>4, <3>1, <3>2, <3>3
  <2>6. Images(FieldImage, fields) = FieldImage[x] \o Images(FieldImage, t)
    BY <2>5, FieldImageType, ImagesOne
  <2>7. PICK a \in Seq(FormByte) : a = FieldImage[x] /\ Len(a) >= 2
    BY <2>5, FieldBytesType DEF FieldImage
  <2>8. PICK b \in Seq(FormByte) : b = Images(FieldImage, t)
    BY <2>5, FieldImageType, ImagesType
  <2>9. Len(a \o b) >= 2
    <3>1. Len(a) \in Nat /\ Len(b) \in Nat /\ Len(a \o b) = Len(a) + Len(b)
      OBVIOUS
    <3> QED
      BY <2>7, <3>1
  <2> QED
    BY <2>6, <2>7, <2>8, <2>9
<1>3. FormBody(fields) = Tail(w)
  <2>1. ASSUME NEW i \in DOMAIN fields
        PROVE  FieldImage[fields[i]] = FieldBytes(fields[i])
    <3>1. fields[i] \in Fields
      OBVIOUS
    <3> QED
      BY <3>1 DEF FieldImage
  <2>2. [i \in DOMAIN fields |-> FieldImage[fields[i]]]
           = [i \in DOMAIN fields |-> FieldBytes(fields[i])]
    BY <2>1
  <2> QED
    BY <2>2 DEF FormBody, FieldBytes, Images
<1>4. Tail(w) \in Seq(FormByte) /\ Tail(w) # <<>>
  <2> HIDE DEF w
  <2>1. PICK v \in Seq(FormByte) : v = w /\ Len(v) >= 2 /\ v # <<>>
    BY <1>1, <1>2
  <2>2. Tail(v) \in Seq(FormByte) /\ Len(Tail(v)) = Len(v) - 1
    BY <2>1
  <2>3. Len(Tail(v)) # 0
    BY <2>1, <2>2
  <2> QED
    BY <2>1, <2>2, <2>3
<1> QED
  BY <1>1, <1>2, <1>3, <1>4

LEMMA BodyType ==
    ASSUME NEW r \in Menu
    PROVE  Body(r) \in Seq(Octet) /\ Len(Body(r)) \in Nat
<1>1. CASE r.fields = <<>>
  <2>1. r.body \in Seq(ToSet(r.body)) /\ ToSet(r.body) \subseteq Octet
    BY MenuAssumption DEF Octet
  <2> QED
    BY <1>1, <2>1 DEF Body
<1>2. CASE r.fields # <<>>
  <2>1. r.fields \in Seq(Fields)
    BY MenuAssumption DEF Fields
  <2>2. PICK fields \in Seq(Fields) : fields = r.fields /\ fields # <<>>
    BY <1>2, <2>1
  <2>3. FormBody(fields) \in Seq(FormByte)
    BY <2>2, FormBodyIs
  <2>4. FormByte \subseteq Octet
    BY DEF Octet
  <2> QED
    BY <1>2, <2>2, <2>3, <2>4 DEF Body
<1> QED
  BY <1>1, <1>2

\* A line with its end, and a line that has nothing but its end.
LineBytes(x) == <<x, CR, LF>>
BlankLine == <<CR, LF>>

HeaderImage == [x \in DOMAIN Headers |-> LineBytes(x)]

LEMMA LineType ==
    ASSUME NEW x \in DOMAIN Lines \union DOMAIN Headers
    PROVE  LineBytes(x) \in Seq(Octet) /\ Len(LineBytes(x)) = 3 /\ x # CR
<1>1. x \in Octet /\ CR \in Octet /\ LF \in Octet
  BY DEF Octet
<1>2. PICK a \in Octet, b \in Octet, d \in Octet : a = x /\ b = CR /\ d = LF
  BY <1>1
<1>3. <<a, b, d>> \in Seq(Octet) /\ Len(<<a, b, d>>) = 3
  OBVIOUS
<1> QED
  BY <1>2, <1>3, TokensAssumption DEF LineBytes

LEMMA BlankType == BlankLine \in Seq(Octet) /\ Len(BlankLine) = 2
<1>1. CR \in Octet /\ LF \in Octet
  BY DEF Octet
<1>2. PICK b \in Octet, d \in Octet : b = CR /\ d = LF
  BY <1>1
<1>3. <<b, d>> \in Seq(Octet) /\ Len(<<b, d>>) = 2
  OBVIOUS
<1> QED
  BY <1>2, <1>3 DEF BlankLine

LEMMA HeaderImageType == HeaderImage \in [DOMAIN Headers -> Seq(Octet)]
<1>1. \A x \in DOMAIN Headers : LineBytes(x) \in Seq(Octet)
  BY LineType
<1> QED
  BY <1>1 DEF HeaderImage

\* What the parser has not seen of a request when it has seen j headers.
Left(r, j) ==
    Joined(Images(HeaderImage, SubSeq(r.headers, j + 1, Len(r.headers))),
           Joined(BlankLine, Body(r)))

LEMMA HeadersType ==
    ASSUME NEW r \in Menu
    PROVE  /\ r.headers \in Seq(DOMAIN Headers) /\ Len(r.headers) \in Nat
           /\ DOMAIN r.headers = 1 .. Len(r.headers)
<1>1. r.headers \in Seq(DOMAIN Headers)
  BY MenuAssumption
<1> QED
  BY <1>1

LEMMA JoinedType ==
    ASSUME NEW a \in Seq(Octet), NEW b \in Seq(Octet)
    PROVE  Joined(a, b) \in Seq(Octet) /\ Len(Joined(a, b)) = Len(a) + Len(b)
  BY DEF Joined

LEMMA JoinedFirst ==
    ASSUME NEW a \in Seq(Octet), NEW b \in Seq(Octet), NEW i \in 1 .. Len(a)
    PROVE  Joined(a, b)[i] = a[i]
  BY DEF Joined

LEMMA EndType ==
    ASSUME NEW r \in Menu
    PROVE  /\ Joined(BlankLine, Body(r)) \in Seq(Octet)
           /\ Len(Joined(BlankLine, Body(r))) = 2 + Len(Body(r))
  BY BlankType, BodyType, JoinedType

LEMMA LeftType ==
    ASSUME NEW r \in Menu, NEW j \in 0 .. Len(r.headers)
    PROVE  Left(r, j) \in Seq(Octet)
<1>1. PICK h \in Seq(DOMAIN Headers) : h = r.headers
  BY HeadersType
<1>2. SubSeq(h, j + 1, Len(h)) \in Seq(DOMAIN Headers)
  <2>1. j \in 0 .. Len(h)
    BY <1>1
  <2> QED
    BY <2>1, Blocks!Drops, BlockSizeAssumption, BlocksAssumptions DEF Blocks!Dropped
<1>3. Images(HeaderImage, SubSeq(h, j + 1, Len(h))) \in Seq(Octet)
  BY <1>2, HeaderImageType, ImagesType
<1>4. PICK a \in Seq(Octet) : a = Images(HeaderImage, SubSeq(h, j + 1, Len(h)))
  BY <1>3
<1>5. PICK b \in Seq(Octet) : b = Joined(BlankLine, Body(r))
  BY EndType
<1>6. Joined(a, b) \in Seq(Octet)
  BY JoinedType
<1> QED
  BY <1>1, <1>4, <1>5, <1>6 DEF Left

LEMMA LeftNext ==
    ASSUME NEW r \in Menu, NEW j \in Nat, j < Len(r.headers)
    PROVE  /\ r.headers[j + 1] \in DOMAIN Headers
           /\ Left(r, j) = Joined(LineBytes(r.headers[j + 1]), Left(r, j + 1))
<1>1. PICK h \in Seq(DOMAIN Headers) : h = r.headers /\ j < Len(h)
  BY HeadersType
<1>2. PICK m \in [DOMAIN Headers -> Seq(Octet)] : m = HeaderImage
  BY HeaderImageType
<1>3. j \in Nat /\ j < Len(h)
  BY <1>1
<1>4. /\ h[j + 1] \in DOMAIN Headers
      /\ SubSeq(h, j + 2, Len(h)) \in Seq(DOMAIN Headers)
      /\ Images(m, SubSeq(h, j + 1, Len(h)))
            = Joined(m[h[j + 1]], Images(m, SubSeq(h, j + 2, Len(h))))
  <2>1. ImagesContinue(DOMAIN Headers, Octet)
    BY ImagesDo
  <2> QED
    BY <1>3, <2>1 DEF ImagesContinue
<1>5. PICK a \in Seq(Octet) : a = m[h[j + 1]]
  BY <1>4
<1>6. a = LineBytes(h[j + 1])
  BY <1>2, <1>4, <1>5 DEF HeaderImage
<1>7. PICK b \in Seq(Octet) : b = Images(m, SubSeq(h, j + 2, Len(h)))
  BY <1>4, ImagesType
<1>8. PICK d \in Seq(Octet) : d = Joined(BlankLine, Body(r))
  BY EndType
<1>9. Joined(Joined(a, b), d) = Joined(a, Joined(b, d))
  BY DEF Joined
<1>10. Left(r, j) = Joined(Joined(a, b), d)
  BY <1>1, <1>2, <1>4, <1>5, <1>7, <1>8 DEF Left
<1>11. (j + 1) + 1 = j + 2
  OBVIOUS
<1>12. Left(r, j + 1) = Joined(b, d)
  BY <1>1, <1>2, <1>7, <1>8, <1>11 DEF Left
<1> QED
  BY <1>1, <1>4, <1>6, <1>9, <1>10, <1>12

LEMMA LeftLast ==
    ASSUME NEW r \in Menu
    PROVE  Left(r, Len(r.headers)) = Joined(BlankLine, Body(r))
<1>1. PICK h \in Seq(DOMAIN Headers) : h = r.headers
  BY HeadersType
<1>2. SubSeq(h, Len(h) + 1, Len(h)) = <<>>
  BY Blocks!DropAll, BlockSizeAssumption, BlocksAssumptions DEF Blocks!Dropped
<1>3. Images(HeaderImage, SubSeq(h, Len(h) + 1, Len(h))) = <<>>
  BY <1>2, ImagesNone
<1>4. PICK d \in Seq(Octet) : d = Joined(BlankLine, Body(r))
  BY EndType
<1>5. Joined(<<>>, d) = d
  BY DEF Joined
<1> QED
  BY <1>1, <1>3, <1>4, <1>5 DEF Left

LEMMA FourParts ==
    ASSUME NEW a \in Seq(Octet), NEW b \in Seq(Octet), NEW c \in Seq(Octet), NEW d \in Seq(Octet)
    PROVE  /\ Joined(Joined(Joined(a, b), c), d) = Joined(a, Joined(b, Joined(c, d)))
           /\ Joined(a, Joined(b, Joined(c, d))) \in Seq(Octet)
           /\ Len(Joined(a, Joined(b, Joined(c, d)))) = Len(a) + Len(b) + Len(c) + Len(d)
  BY SMT DEF Joined

LEMMA WireIs ==
    ASSUME NEW r \in Menu
    PROVE  /\ Wire(r) = Joined(LineBytes(r.line), Left(r, 0))
           /\ Wire(r) \in Seq(Octet)
           /\ r.line \in DOMAIN Lines
           /\ Len(Wire(r)) < SizeMod /\ Len(Body(r)) <= MaxString
           /\ Len(Wire(r)) \in Nat /\ Len(Wire(r)) >= 3
<1>1. r.line \in DOMAIN Lines /\ Len(Wire(r)) < SizeMod /\ Len(Body(r)) <= MaxString
  BY MenuAssumption
<1>2. PICK h \in Seq(DOMAIN Headers) : h = r.headers
  BY HeadersType
<1>3. PICK a \in Seq(Octet) : a = LineBytes(r.line) /\ Len(a) = 3
  BY <1>1, LineType
<1>4. PICK b \in Seq(Octet) : b = Images(HeaderImage, h)
  BY HeaderImageType, ImagesType
<1>5. PICK c \in Seq(Octet) : c = BlankLine
  BY BlankType
<1>6. PICK d \in Seq(Octet) : d = Body(r)
  BY BodyType
<1>7. Wire(r) = Joined(Joined(Joined(a, b), c), d)
  <2>1. ASSUME NEW i \in DOMAIN h PROVE HeaderImage[h[i]] = LineBytes(h[i])
    <3>1. h[i] \in DOMAIN Headers
      OBVIOUS
    <3> QED
      BY <3>1 DEF HeaderImage
  <2>2. [i \in DOMAIN h |-> HeaderImage[h[i]]] = [i \in DOMAIN h |-> LineBytes(h[i])]
    BY <2>1
  <2> QED
    BY <1>2, <1>3, <1>4, <1>5, <1>6, <2>2 DEF Wire, Images, LineBytes, BlankLine, Joined
<1>8. PICK w : w = Joined(a, Joined(b, Joined(c, d)))
  OBVIOUS
<1>9. /\ Joined(Joined(Joined(a, b), c), d) = w /\ w \in Seq(Octet)
      /\ Len(w) = Len(a) + Len(b) + Len(c) + Len(d)
  BY <1>8, FourParts
<1>10. SubSeq(h, 0 + 1, Len(h)) = h
  <2>1. SubSeq(h, 1, Len(h)) = h
    BY ONLY h \in Seq(DOMAIN Headers)
  <2> QED
    BY <2>1
<1>11. Left(r, 0) = Joined(b, Joined(c, d))
  BY <1>2, <1>4, <1>5, <1>6, <1>10 DEF Left
<1>12. Wire(r) = w /\ w = Joined(a, Left(r, 0))
  BY <1>7, <1>8, <1>9, <1>11
<1>13. Len(w) \in Nat /\ Len(w) >= 3
  <2>1. Len(a) = 3 /\ Len(b) \in Nat /\ Len(c) \in Nat /\ Len(d) \in Nat
    BY <1>3
  <2> QED
    BY <1>9, <2>1
<1> QED
  BY <1>1, <1>3, <1>9, <1>12, <1>13

----------------------------------------------------------------------------
(* The rounds of parse on the bytes of one request.                        *)

Members == {"state_", "line_", "path_", "header_", "body_", "post_", "file_", "return_js_",
            "is_success_js_", "is_download_"}

\* The round that sees a line.
LEMMA RoundOfLine ==
    ASSUME NEW b, Fine(b), readableBytes(b) # 0, NEW q, NEW start,
           q.state_ = "REQUEST_LINE", ParseRequestLine_(readLine(Content(b)).line),
           readLine(Content(b)).consumed # 0
    PROVE  ParseRound(Loop("going", b, q), start)
              = Loop("going", consumeBytes(b, readLine(Content(b)).consumed),
                     WithLine(q, readLine(Content(b)).line))
<1>1. PICK l : l = Loop("going", b, q)
  OBVIOUS
<1>2. l.result = "going" /\ l.buf = b /\ l.request = q
  BY <1>1 DEF Loop
<1>3. ~Overrun(b)
  BY FineFacts
<1>4. ParseRound(l, start)
         = Loop("going", consumeBytes(b, readLine(Content(b)).consumed),
                WithLine(q, readLine(Content(b)).line))
  BY <1>2, <1>3 DEF ParseRound
<1> QED
  BY <1>1, <1>4

\* The round that sees a header, or the blank line.
LEMMA RoundOfHeader ==
    ASSUME NEW b, Fine(b), readableBytes(b) # 0, NEW q, NEW start,
           q.state_ = "HEADERS", readLine(Content(b)).consumed # 0
    PROVE  ParseRound(Loop("going", b, q), start)
              = Loop("going", consumeBytes(b, readLine(Content(b)).consumed),
                     AfterHeader(q, readLine(Content(b)).line, readableBytes(b)))
<1>0. PICK l : l = Loop("going", b, q)
  OBVIOUS
<1>1. l.result = "going" /\ l.buf = b /\ l.request = q
  BY <1>0 DEF Loop
<1>2. ~Overrun(b)
  BY FineFacts
<1>3. ParseRound(l, start)
         = Loop("going", consumeBytes(b, readLine(Content(b)).consumed),
                AfterHeader(q, readLine(Content(b)).line, readableBytes(b)))
  BY <1>1, <1>2 DEF ParseRound
<1> QED
  BY <1>0, <1>3

\* The round that sees the body.
LEMMA RoundOfBody ==
    ASSUME NEW b, Fine(b), readableBytes(b) # 0, NEW q, NEW start,
           q.state_ = "BODY", ~ (readableBytes(b) > MaxString)
    PROVE  ParseRound(Loop("going", b, q), start)
              = Loop("going", consumeBytes(b, readableBytes(b)), ParseBody_(q, Content(b)))
<1>0. PICK l : l = Loop("going", b, q)
  OBVIOUS
<1>1. l.result = "going" /\ l.buf = b /\ l.request = q
  BY <1>0 DEF Loop
<1>2. ~Overrun(b) /\ peekFromBlock(b, readableBytes(b)) = Content(b)
  BY FineFacts
<1>3. ParseRound(l, start)
         = Loop("going", consumeBytes(b, readableBytes(b)),
                ParseBody_(q, peekFromBlock(b, readableBytes(b))))
  BY <1>1, <1>2 DEF ParseRound
<1> QED
  BY <1>0, <1>2, <1>3

\* The round that finds the request complete, and the ones after it.
LEMMA RoundOfEnd ==
    ASSUME NEW b, NEW q, NEW start, readableBytes(b) = 0
    PROVE  ParseRound(Loop("going", b, q), start) = Loop("true", b, q)
<1>0. PICK l : l = Loop("going", b, q)
  OBVIOUS
<1>1. l.result = "going" /\ l.buf = b /\ l.request = q
  BY <1>0 DEF Loop
<1>2. ParseRound(l, start) = Loop("true", b, q)
  BY <1>1 DEF ParseRound
<1> QED
  BY <1>0, <1>2

LEMMA RoundAfterEnd ==
    ASSUME NEW l, NEW start, l.result # "going"
    PROVE  ParseRound(l, start) = l
  BY DEF ParseRound

\* Those of the first j headers that none of them replaces.
HeadersRead(r, j) ==
    {r.headers[i] : i \in {i \in 1 .. j : \A k \in 1 .. j :
        k > i => Headers[r.headers[k]] # Headers[r.headers[i]]}}

\* What is known of a request when its line and j headers have been seen.

Seen(q, r, j) ==
    /\ DOMAIN q = Members
    /\ q.line_ = <<r.line>>
    /\ q.path_ = ParsePath_(Lines[r.line].path)
    /\ q.header_ = HeadersRead(r, j)
    /\ q.body_ = <<>>
    /\ q.return_js_ = FALSE
    /\ q.is_success_js_ = FALSE
LEMMA FreshIs ==
    /\ DOMAIN Fresh = Members
    /\ Fresh.state_ = "REQUEST_LINE" /\ Fresh.body_ = <<>> /\ Fresh.header_ = {}
    /\ Fresh.return_js_ = FALSE /\ Fresh.is_success_js_ = FALSE
  BY DEF Fresh, Members

LEMMA LineSeen ==
    ASSUME NEW r
    PROVE  Seen(WithLine(Fresh, <<r.line>>), r, 0) /\ WithLine(Fresh, <<r.line>>).state_ = "HEADERS"
<1>1. PICK f : f = Fresh
  OBVIOUS
<1>1a. <<r.line>>[1] = r.line
  OBVIOUS
<1>2. PICK x : x = <<r.line>> /\ x[1] = r.line
  BY <1>1a
<1>3. PICK p : p = ParsePath_(Lines[x[1]].path) /\ p = ParsePath_(Lines[r.line].path)
  BY <1>2
<1>4. PICK q : q = [f EXCEPT !.state_ = "HEADERS", !.line_ = x, !.path_ = p]
  OBVIOUS
<1>5. WithLine(f, x) = q
  BY <1>3, <1>4 DEF WithLine
<1>6. DOMAIN f = Members /\ f.body_ = <<>> /\ f.header_ = {} /\ f.return_js_ = FALSE
      /\ f.is_success_js_ = FALSE
  BY <1>1, FreshIs
<1>7. /\ DOMAIN q = Members /\ q.state_ = "HEADERS" /\ q.line_ = x /\ q.path_ = p
      /\ q.body_ = <<>> /\ q.header_ = {} /\ q.return_js_ = FALSE /\ q.is_success_js_ = FALSE
  BY ONLY <1>4, <1>6 DEF Members
<1>8. HeadersRead(r, 0) = {}
  BY DEF HeadersRead
<1>9. Seen(q, r, 0)
  BY <1>2, <1>3, <1>7, <1>8 DEF Seen
<1> QED
  BY <1>1, <1>2, <1>5, <1>7, <1>9

\* Storing the next header takes away the one it replaces.
LEMMA HeaderRead ==
    ASSUME NEW r, NEW j \in Nat
    PROVE  Replaces(HeadersRead(r, j), r.headers[j + 1]) = HeadersRead(r, j + 1)
<1>1. PICK h : h = r.headers
  OBVIOUS
<1> DEFINE Stays(i, n) == \A k \in 1 .. n : k > i => Headers[h[k]] # Headers[h[i]]
<1>2. ASSUME NEW i \in 1 .. j
      PROVE  Stays(i, j + 1) <=> Stays(i, j) /\ Headers[h[j + 1]] # Headers[h[i]]
  <2>1. \A k : k \in 1 .. j + 1 <=> k \in 1 .. j \/ k = j + 1
    OBVIOUS
  <2>2. j + 1 > i
    OBVIOUS
  <2> QED
    BY <2>1, <2>2
<1>3. Stays(j + 1, j + 1)
  OBVIOUS
<1>4. \A i : i \in 1 .. j + 1 <=> i \in 1 .. j \/ i = j + 1
  OBVIOUS
<1> HIDE DEF Stays
<1>5. \A y : y \in {h[i] : i \in {i \in 1 .. j : Stays(i, j)}}
                <=> \E i \in 1 .. j : Stays(i, j) /\ y = h[i]
  OBVIOUS
<1>6. \A y : y \in {h[i] : i \in {i \in 1 .. j + 1 : Stays(i, j + 1)}}
                <=> \E i \in 1 .. j + 1 : Stays(i, j + 1) /\ y = h[i]
  OBVIOUS
<1>7. HeadersRead(r, j) = {h[i] : i \in {i \in 1 .. j : Stays(i, j)}}
  BY <1>1 DEF HeadersRead, Stays
<1>8. HeadersRead(r, j + 1) = {h[i] : i \in {i \in 1 .. j + 1 : Stays(i, j + 1)}}
  BY <1>1 DEF HeadersRead, Stays
<1>9. ASSUME NEW y
      PROVE  y \in HeadersRead(r, j + 1)
                <=> y = h[j + 1] \/ (y \in HeadersRead(r, j) /\ Headers[y] # Headers[h[j + 1]])
  BY <1>2, <1>3, <1>4, <1>5, <1>6, <1>7, <1>8
<1> QED
  BY <1>1, <1>9 DEF Replaces

\* The round that sees a header stores it.
LEMMA HeaderSeen ==
    ASSUME NEW r, NEW j \in Nat, NEW q, Seen(q, r, j), q.state_ = "HEADERS",
           r.headers[j + 1] \in DOMAIN Headers, NEW readable \in Nat, ~ (readable <= 2)
    PROVE  /\ Seen(AfterHeader(q, <<r.headers[j + 1]>>, readable), r, j + 1)
           /\ AfterHeader(q, <<r.headers[j + 1]>>, readable).state_ = "HEADERS"
<1>1. PICK x : x = r.headers[j + 1]
  OBVIOUS
<1>2. Len(<<x>>) = 1 /\ <<x>>[1] = x /\ x \in DOMAIN Headers
  BY <1>1
<1>3. ParseHeader_(q, <<x>>) = [q EXCEPT !.header_ = Replaces(q.header_, x)]
  BY <1>2 DEF ParseHeader_
<1>3a. PICK H : H = Replaces(q.header_, x)
  OBVIOUS
<1>4. PICK p : p = [q EXCEPT !.header_ = H]
  OBVIOUS
<1>5. AfterHeader(q, <<x>>, readable) = p
  BY <1>3, <1>3a, <1>4 DEF AfterHeader
<1>6. DOMAIN q = Members
  BY DEF Seen
<1>7. /\ DOMAIN p = Members /\ p.header_ = H /\ p.line_ = q.line_
      /\ p.path_ = q.path_ /\ p.body_ = q.body_ /\ p.return_js_ = q.return_js_
      /\ p.is_success_js_ = q.is_success_js_ /\ p.state_ = q.state_
  BY ONLY <1>4, <1>6 DEF Members
<1>8. H = HeadersRead(r, j + 1)
  <2>1. H = Replaces(HeadersRead(r, j), r.headers[j + 1])
    BY <1>1, <1>3a DEF Seen
  <2> QED
    BY <2>1, HeaderRead
<1> QED
  BY <1>1, <1>5, <1>7, <1>8 DEF Seen

\* The round that sees the blank line.
LEMMA BlankSeen ==
    ASSUME NEW r, NEW j, NEW q, Seen(q, r, j), q.state_ = "HEADERS", NEW readable \in Nat
    PROVE  /\ Seen(AfterHeader(q, <<>>, readable), r, j)
           /\ AfterHeader(q, <<>>, readable).state_ = IF readable <= 2 THEN "FINISH" ELSE "BODY"
<1>1. Len(<<>>) = 0
  OBVIOUS
<1>2. ParseHeader_(q, <<>>) = [q EXCEPT !.state_ = "BODY"]
  BY <1>1 DEF ParseHeader_
<1>3. PICK p : p = [q EXCEPT !.state_ = "BODY"]
  OBVIOUS
<1>4. PICK o : o = [p EXCEPT !.state_ = "FINISH"]
  OBVIOUS
<1>5. AfterHeader(q, <<>>, readable) = IF readable <= 2 THEN o ELSE p
  BY <1>2, <1>3, <1>4 DEF AfterHeader
<1>6. DOMAIN q = Members
  BY DEF Seen
<1>7. /\ DOMAIN p = Members /\ p.header_ = q.header_ /\ p.line_ = q.line_
      /\ p.path_ = q.path_ /\ p.body_ = q.body_ /\ p.return_js_ = q.return_js_
      /\ p.is_success_js_ = q.is_success_js_ /\ p.state_ = "BODY"
  BY ONLY <1>3, <1>6 DEF Members
<1>8. /\ DOMAIN o = Members /\ o.header_ = p.header_ /\ o.line_ = p.line_
      /\ o.path_ = p.path_ /\ o.body_ = p.body_ /\ o.return_js_ = p.return_js_
      /\ o.is_success_js_ = p.is_success_js_ /\ o.state_ = "FINISH"
  BY ONLY <1>4, <1>7 DEF Members
<1>9. Seen(p, r, j) /\ Seen(o, r, j)
  BY <1>7, <1>8 DEF Seen
<1> QED
  BY <1>5, <1>7, <1>8, <1>9

\* The next line is a token, or blank, and so many bytes are left after it.
LEMMA LineRead ==
    ASSUME NEW x \in DOMAIN Lines \union DOMAIN Headers, NEW t \in Seq(Octet),
           NEW w, w = Joined(LineBytes(x), t)
    PROVE  /\ readLine(w).line = <<x>> /\ readLine(w).consumed = 3
           /\ w \in Seq(Octet) /\ Len(w) = 3 + Len(t)
<1>1. PICK a \in Octet, b \in Octet, d \in Octet : a = x /\ b = CR /\ d = LF
  BY DEF Octet
<1>2. PICK u \in Seq(Octet) : u = <<a, b, d>> /\ Len(u) = 3 /\ u[1] = a /\ u[2] = b /\ u[3] = d
  <2>1. <<a, b, d>> \in Seq(Octet) /\ Len(<<a, b, d>>) = 3
    OBVIOUS
  <2>2. <<a, b, d>>[1] = a /\ <<a, b, d>>[2] = b /\ <<a, b, d>>[3] = d
    OBVIOUS
  <2> QED
    BY <2>1, <2>2
<1>3. w = Joined(u, t)
  BY <1>1, <1>2 DEF LineBytes
<1>4. /\ w \in Seq(Octet) /\ Len(w) = 3 + Len(t)
      /\ w[1] = u[1] /\ w[2] = u[2] /\ w[3] = u[3]
  <2>1. 1 \in 1 .. Len(u) /\ 2 \in 1 .. Len(u) /\ 3 \in 1 .. Len(u)
    BY <1>2
  <2>2. Joined(u, t)[1] = u[1] /\ Joined(u, t)[2] = u[2] /\ Joined(u, t)[3] = u[3]
    BY <2>1, JoinedFirst
  <2>3. Joined(u, t) \in Seq(Octet) /\ Len(Joined(u, t)) = Len(u) + Len(t)
    BY JoinedType
  <2> QED
    BY <1>2, <1>3, <2>2, <2>3
<1>5. Len(w) >= 3 /\ w[1] = x /\ w[2] = CR /\ w[3] = LF
  <2>1. Len(t) \in Nat
    OBVIOUS
  <2> QED
    BY <1>1, <1>2, <1>3, <1>4, <2>1
<1>6. x # CR
  BY TokensAssumption
<1>7. readLine(w).line = <<x>> /\ readLine(w).consumed = 3
  BY <1>3, <1>4, <1>5, <1>6, ReadToken
<1> QED
  BY <1>3, <1>4, <1>7

LEMMA BlankRead ==
    ASSUME NEW t \in Seq(Octet), NEW w, w = Joined(BlankLine, t)
    PROVE  /\ readLine(w).line = <<>> /\ readLine(w).consumed = 2
           /\ w \in Seq(Octet) /\ Len(w) = 2 + Len(t)
<1>1. PICK b \in Octet, d \in Octet : b = CR /\ d = LF
  BY DEF Octet
<1>2. PICK u \in Seq(Octet) : u = <<b, d>> /\ Len(u) = 2 /\ u[1] = b /\ u[2] = d
  <2>1. <<b, d>> \in Seq(Octet) /\ Len(<<b, d>>) = 2
    OBVIOUS
  <2>2. <<b, d>>[1] = b /\ <<b, d>>[2] = d
    OBVIOUS
  <2> QED
    BY <2>1, <2>2
<1>3. w = Joined(u, t)
  BY <1>1, <1>2 DEF BlankLine
<1>4. /\ w \in Seq(Octet) /\ Len(w) = 2 + Len(t)
      /\ w[1] = u[1] /\ w[2] = u[2]
  <2>1. 1 \in 1 .. Len(u) /\ 2 \in 1 .. Len(u)
    BY <1>2
  <2>2. Joined(u, t)[1] = u[1] /\ Joined(u, t)[2] = u[2]
    BY <2>1, JoinedFirst
  <2>3. Joined(u, t) \in Seq(Octet) /\ Len(Joined(u, t)) = Len(u) + Len(t)
    BY JoinedType
  <2> QED
    BY <1>2, <1>3, <2>2, <2>3
<1>5. Len(w) >= 2 /\ w[1] = CR /\ w[2] = LF
  <2>1. Len(t) \in Nat
    OBVIOUS
  <2> QED
    BY <1>1, <1>2, <1>3, <1>4, <2>1
<1>6. readLine(w).line = <<>> /\ readLine(w).consumed = 2
  BY <1>3, <1>4, <1>5, ReadBlank
<1> QED
  BY <1>3, <1>4, <1>6

\* The loop has seen the line and j headers of r, and nothing else.
Reading(l, r, j) ==
    \E b, q :
        /\ l = Loop("going", b, q)
        /\ Fine(b) /\ Content(b) = Left(r, j)
        /\ Len(Left(r, j)) + 3 * (j + 1) = Len(Wire(r))
        /\ Seen(q, r, j) /\ q.state_ = "HEADERS"

LEMMA FirstRound ==
    ASSUME NEW r \in Menu, NEW b, Fine(b), Content(b) = Wire(r), NEW start
    PROVE  Reading(ParseRound(Loop("going", b, Fresh), start), r, 0)
<1>1. PICK t \in Seq(Octet) : t = Left(r, 0)
  <2>1. 0 \in 0 .. Len(r.headers)
    BY HeadersType
  <2> QED
    BY <2>1, LeftType
<1>2. /\ Wire(r) = Joined(LineBytes(r.line), t) /\ r.line \in DOMAIN Lines
      /\ Len(Wire(r)) < SizeMod
  BY <1>1, WireIs
<1>3. PICK w : w = Wire(r)
  OBVIOUS
<1>4. PICK x \in DOMAIN Lines : x = r.line
  BY <1>2
<1>5. /\ readLine(w).line = <<x>> /\ readLine(w).consumed = 3
      /\ w \in Seq(Octet) /\ Len(w) = 3 + Len(t)
  BY <1>2, <1>3, <1>4, LineRead
<1>6. LineBytes(x) \in Seq(Octet) /\ Len(LineBytes(x)) = 3
  BY LineType
<1>7. Len(t) \in Nat
  OBVIOUS
<1>8. readableBytes(b) # 0
  BY <1>3, <1>5, <1>7, FineFacts
<1>9. Len(<<x>>) = 1 /\ <<x>>[1] = x
  OBVIOUS
<1>10. ParseRequestLine_(<<x>>)
  BY <1>9 DEF ParseRequestLine_
<1>11. ParseRequestLine_(readLine(Content(b)).line) /\ readLine(Content(b)).consumed # 0
  BY <1>3, <1>5, <1>10
<1>12. Fresh.state_ = "REQUEST_LINE"
  BY FreshIs
<1>13. ParseRound(Loop("going", b, Fresh), start)
          = Loop("going", consumeBytes(b, readLine(Content(b)).consumed),
                 WithLine(Fresh, readLine(Content(b)).line))
  BY <1>8, <1>11, <1>12, RoundOfLine
<1>14. PICK p : p = consumeBytes(b, 3)
  OBVIOUS
<1>15. PICK q : q = WithLine(Fresh, <<r.line>>)
  OBVIOUS
<1>16. ParseRound(Loop("going", b, Fresh), start) = Loop("going", p, q)
  BY <1>3, <1>4, <1>5, <1>13, <1>14, <1>15
<1>17. Fine(p) /\ Content(p) = t
  BY <1>2, <1>3, <1>4, <1>6, <1>14, FineConsume
<1>18. Seen(q, r, 0) /\ q.state_ = "HEADERS"
  BY <1>15, LineSeen
<1>19. Len(Left(r, 0)) + 3 * (0 + 1) = Len(Wire(r))
  BY <1>1, <1>3, <1>5, <1>7
<1> QED
  BY <1>1, <1>16, <1>17, <1>18, <1>19 DEF Reading

LEMMA HeaderRound ==
    ASSUME NEW r \in Menu, NEW j \in Nat, j < Len(r.headers), NEW l, Reading(l, r, j), NEW start
    PROVE  Reading(ParseRound(l, start), r, j + 1)
<1>1. PICK b, q :
        /\ l = Loop("going", b, q)
        /\ Fine(b) /\ Content(b) = Left(r, j)
        /\ Len(Left(r, j)) + 3 * (j + 1) = Len(Wire(r))
        /\ Seen(q, r, j) /\ q.state_ = "HEADERS"
  BY DEF Reading
<1>2. PICK t \in Seq(Octet) : t = Left(r, j + 1)
  <2>1. j + 1 \in 0 .. Len(r.headers)
    BY HeadersType
  <2> QED
    BY <2>1, LeftType
<1>3. r.headers[j + 1] \in DOMAIN Headers /\ Left(r, j) = Joined(LineBytes(r.headers[j + 1]), t)
  BY <1>2, LeftNext
<1>4. PICK w : w = Left(r, j)
  OBVIOUS
<1>5. PICK x \in DOMAIN Headers : x = r.headers[j + 1]
  BY <1>3
<1>6. /\ readLine(w).line = <<x>> /\ readLine(w).consumed = 3
      /\ w \in Seq(Octet) /\ Len(w) = 3 + Len(t)
  BY <1>3, <1>4, <1>5, LineRead
<1>6a. Content(b) = w /\ Fine(b)
  BY <1>1, <1>4
<1>6b. Len(w) + 3 * (j + 1) = Len(Wire(r))
  BY <1>1, <1>4
<1>7. LineBytes(x) \in Seq(Octet) /\ Len(LineBytes(x)) = 3
  BY LineType
<1>8. Len(t) \in Nat /\ Len(w) \in Nat /\ Len(Wire(r)) < SizeMod /\ Len(Wire(r)) \in Nat
  BY <1>6, WireIs
<1>9. SizeMod \in Nat
  BY BlockSizeAssumption
<1>10. Len(w) < SizeMod
  BY ONLY <1>6b, <1>8, <1>9, j \in Nat
<1>11. readableBytes(b) = Len(w) /\ readableBytes(b) # 0
  <2>1. readableBytes(b) = Len(w)
    BY <1>6a, FineFacts
  <2>2. Len(w) # 0
    BY ONLY <1>6, <1>8
  <2> QED
    BY <2>1, <2>2
<1>12. readLine(Content(b)).consumed # 0
  <2>1. readLine(w).consumed # 0
    BY <1>6
  <2> QED
    BY <1>6a, <2>1
<1>13. ParseRound(l, start)
          = Loop("going", consumeBytes(b, readLine(Content(b)).consumed),
                 AfterHeader(q, readLine(Content(b)).line, readableBytes(b)))
  BY <1>1, <1>11, <1>12, RoundOfHeader
<1>14. PICK p : p = consumeBytes(b, 3)
  OBVIOUS
<1>15. PICK s : s = AfterHeader(q, <<r.headers[j + 1]>>, readableBytes(b))
  OBVIOUS
<1>16. ParseRound(l, start) = Loop("going", p, s)
  BY <1>1, <1>4, <1>5, <1>6, <1>13, <1>14, <1>15
<1>17. Fine(p) /\ Content(p) = t
  <2>1. Content(b) = Joined(LineBytes(x), t) /\ Len(Content(b)) < SizeMod
    BY <1>3, <1>4, <1>5, <1>6a, <1>10
  <2>2. /\ Fine(consumeBytes(b, Len(LineBytes(x))))
        /\ Content(consumeBytes(b, Len(LineBytes(x)))) = t
    BY <1>6a, <1>7, <2>1, FineConsume
  <2> QED
    BY <1>7, <1>14, <2>2
<1>18. ~ (readableBytes(b) <= 2) /\ readableBytes(b) \in Nat
  BY <1>6, <1>8, <1>11
<1>19. Seen(s, r, j + 1) /\ s.state_ = "HEADERS"
  BY <1>1, <1>3, <1>15, <1>18, HeaderSeen
<1>20. Len(Left(r, j + 1)) + 3 * ((j + 1) + 1) = Len(Wire(r))
  <2>1. Len(t) + 3 * ((j + 1) + 1) = Len(w) + 3 * (j + 1)
    BY ONLY <1>6, <1>8, j \in Nat
  <2> QED
    BY <1>2, <1>6b, <2>1
<1> QED
  BY <1>2, <1>16, <1>17, <1>19, <1>20 DEF Reading

LEMMA BlankRound ==
    ASSUME NEW r \in Menu, NEW l, Reading(l, r, Len(r.headers)), NEW start
    PROVE  \E b, q :
              /\ ParseRound(l, start) = Loop("going", b, q)
              /\ Fine(b) /\ Content(b) = Body(r)
              /\ Seen(q, r, Len(r.headers))
              /\ q.state_ = IF Body(r) = <<>> THEN "FINISH" ELSE "BODY"
              /\ Len(Body(r)) + 2 + 3 * (Len(r.headers) + 1) = Len(Wire(r))
<1>1. PICK h \in Nat : h = Len(r.headers)
  BY HeadersType
<1>2. PICK b, q :
        /\ l = Loop("going", b, q)
        /\ Fine(b) /\ Content(b) = Left(r, h)
        /\ Len(Left(r, h)) + 3 * (h + 1) = Len(Wire(r))
        /\ Seen(q, r, h) /\ q.state_ = "HEADERS"
  BY <1>1 DEF Reading
<1>3. PICK t \in Seq(Octet) : t = Body(r)
  BY BodyType
<1>4. PICK w : w = Joined(BlankLine, t)
  OBVIOUS
<1>5. Content(b) = w /\ Fine(b)
  BY <1>1, <1>2, <1>3, <1>4, LeftLast
<1>6. /\ readLine(w).line = <<>> /\ readLine(w).consumed = 2
      /\ w \in Seq(Octet) /\ Len(w) = 2 + Len(t)
  BY <1>4, BlankRead
<1>7. Len(w) + 3 * (h + 1) = Len(Wire(r))
  BY <1>2, <1>5
<1>8. Len(t) \in Nat /\ Len(w) \in Nat /\ Len(Wire(r)) < SizeMod /\ Len(Wire(r)) \in Nat
  BY <1>6, WireIs
<1>9. SizeMod \in Nat
  BY BlockSizeAssumption
<1>10. Len(w) < SizeMod
  BY ONLY <1>7, <1>8, <1>9, h \in Nat
<1>11. PICK n \in Nat : n = readableBytes(b) /\ n = 2 + Len(t)
  BY <1>5, <1>6, <1>8, FineFacts
<1>12. readableBytes(b) # 0
  BY <1>8, <1>11
<1>13. readLine(Content(b)).consumed # 0
  <2>1. readLine(w).consumed # 0
    BY <1>6
  <2> QED
    BY <1>5, <2>1
<1>14. ParseRound(l, start)
          = Loop("going", consumeBytes(b, readLine(Content(b)).consumed),
                 AfterHeader(q, readLine(Content(b)).line, readableBytes(b)))
  BY <1>2, <1>12, <1>13, RoundOfHeader
<1>15. PICK p : p = consumeBytes(b, 2)
  OBVIOUS
<1>16. PICK s : s = AfterHeader(q, <<>>, n)
  OBVIOUS
<1>17. ParseRound(l, start) = Loop("going", p, s)
  BY <1>5, <1>6, <1>11, <1>14, <1>15, <1>16
<1>18. Fine(p) /\ Content(p) = t
  <2>1. Content(b) = Joined(BlankLine, t) /\ Len(Content(b)) < SizeMod
    BY <1>4, <1>5, <1>10
  <2>2. /\ Fine(consumeBytes(b, Len(BlankLine)))
        /\ Content(consumeBytes(b, Len(BlankLine))) = t
    BY <1>5, <2>1, BlankType, FineConsume
  <2> QED
    BY <1>15, <2>2, BlankType
<1>19. Seen(s, r, h) /\ s.state_ = IF n <= 2 THEN "FINISH" ELSE "BODY"
  BY <1>2, <1>16, BlankSeen
<1>20. n <= 2 <=> t = <<>>
  <2>1. t = <<>> <=> Len(t) = 0
    BY ONLY t \in Seq(Octet)
  <2> QED
    BY <2>1, <1>8, <1>11
<1>21. s.state_ = IF t = <<>> THEN "FINISH" ELSE "BODY"
  BY <1>19, <1>20
<1>22. Len(t) + 2 + 3 * (h + 1) = Len(Wire(r))
  BY ONLY <1>6, <1>7, <1>8
<1> QED
  BY <1>1, <1>3, <1>17, <1>18, <1>19, <1>21, <1>22

LEMMA BodyRound ==
    ASSUME NEW r \in Menu, Body(r) # <<>>, NEW b, NEW q, Fine(b), Content(b) = Body(r),
           q.state_ = "BODY", Len(Body(r)) < SizeMod, NEW start
    PROVE  \E p :
              /\ ParseRound(Loop("going", b, q), start) = Loop("going", p, ParseBody_(q, Body(r)))
              /\ Fine(p) /\ Content(p) = <<>>
<1>1. PICK t \in Seq(Octet) : t = Body(r)
  BY BodyType
<1>2. PICK n \in Nat : n = readableBytes(b) /\ n = Len(t) /\ n # 0
  <2>1. readableBytes(b) = Len(t)
    BY <1>1, FineFacts
  <2>2. Len(t) \in Nat /\ Len(t) # 0
    BY <1>1
  <2> QED
    BY <2>1, <2>2
<1>3. n <= MaxString
  BY <1>1, <1>2, WireIs
<1>4. Len(Content(b)) < SizeMod
  BY <1>1
<1>5. ~ (readableBytes(b) > MaxString)
  <2>1. MaxString \in Nat
    BY TokensAssumption
  <2> QED
    BY <1>2, <1>3, <2>1
<1>6. ParseRound(Loop("going", b, q), start)
         = Loop("going", consumeBytes(b, readableBytes(b)), ParseBody_(q, Content(b)))
  BY <1>2, <1>5, RoundOfBody
<1>7. PICK e \in Seq(Octet) : e = <<>>
  <2>1. <<>> \in Seq(Octet)
    OBVIOUS
  <2> QED
    BY <2>1
<1>8. Content(b) = Joined(t, e)
  BY <1>1, <1>7 DEF Joined
<1>9. Fine(consumeBytes(b, Len(t))) /\ Content(consumeBytes(b, Len(t))) = e
  BY <1>1, <1>2, <1>4, <1>8, FineConsume
<1> QED
  BY <1>1, <1>2, <1>6, <1>7, <1>9

Post(q, r) ==
    r.fields # <<>> =>
        \/ q.post_ = ParseFromUrlencoded_(Body(r))
        \/ q.post_ = Asked(ParseFromUrlencoded_(Body(r)))

\* What is known of a request that parse() has found complete.
Parsed(q, r) ==
    /\ DOMAIN q = Members
    /\ q.line_ = <<r.line>>
    /\ q.header_ = HeadersRead(r, Len(r.headers))
    /\ q.body_ = Body(r)
    /\ q.is_success_js_ = FALSE
    /\ Post(q, r)

LEMMA WithoutBody ==
    ASSUME NEW r \in Menu, Body(r) = <<>>, NEW q, Seen(q, r, Len(r.headers))
    PROVE  Parsed(q, r)
<1>1. r.fields = <<>>
  <2> SUFFICES ASSUME r.fields # <<>> PROVE FALSE
    OBVIOUS
  <2>1. r.fields \in Seq(Fields)
    BY MenuAssumption DEF Fields
  <2>2. FormBody(r.fields) # <<>>
    BY <2>1, FormBodyIs
  <2> QED
    BY <2>2 DEF Body
<1> QED
  BY <1>1 DEF Seen, Parsed, Post

LEMMA WithBody ==
    ASSUME NEW r \in Menu, NEW q, Seen(q, r, Len(r.headers))
    PROVE  Parsed(ParseBody_(q, Body(r)), r)
<1>1. PICK t : t = Body(r)
  OBVIOUS
<1>2. PICK f : f = ParseFromUrlencoded_(t)
  OBVIOUS
<1>3. PICK p : p = [q EXCEPT !.body_ = t, !.state_ = "FINISH"]
  OBVIOUS
<1>4. DOMAIN q = Members /\ q.line_ = <<r.line>> /\ q.header_ = HeadersRead(r, Len(r.headers))
      /\ q.is_success_js_ = FALSE /\ q.path_ = ParsePath_(Lines[r.line].path)
  BY DEF Seen
<1>5. /\ DOMAIN p = Members /\ p.line_ = q.line_ /\ p.header_ = q.header_ /\ p.body_ = t
      /\ p.is_success_js_ = q.is_success_js_ /\ p.path_ = q.path_
  BY ONLY <1>3, <1>4 DEF Members
<1>6. PICK d : d = [p EXCEPT !.file_ = Named[t]]
  OBVIOUS
<1>7. /\ DOMAIN d = Members /\ d.line_ = p.line_ /\ d.header_ = p.header_ /\ d.body_ = p.body_
      /\ d.is_success_js_ = p.is_success_js_
  BY ONLY <1>5, <1>6 DEF Members
<1>8. PICK g : g = [p EXCEPT !.post_ = f]
  OBVIOUS
<1>9. /\ DOMAIN g = Members /\ g.line_ = p.line_ /\ g.header_ = p.header_ /\ g.body_ = p.body_
      /\ g.is_success_js_ = p.is_success_js_ /\ g.post_ = f
  BY ONLY <1>5, <1>8 DEF Members
<1>10. PICK y : y = Asked(f)
  OBVIOUS
<1>11. PICK k : k = [p EXCEPT !.post_ = y, !.return_js_ = TRUE]
  OBVIOUS
<1>12. /\ DOMAIN k = Members /\ k.line_ = p.line_ /\ k.header_ = p.header_ /\ k.body_ = p.body_
       /\ k.is_success_js_ = p.is_success_js_ /\ k.post_ = y
  BY ONLY <1>5, <1>11 DEF Members
<1>13. ParseDownload_(p, t) = d \/ ParseDownload_(p, t) = p
  BY <1>6 DEF ParseDownload_
<1>14. ParsePost_(p) = IF Method(p) # "POST" \/ Form \notin p.header_ THEN p
                       ELSE IF p.path_ \notin {"/register.html", "/login.html"} THEN g ELSE k
  BY <1>2, <1>5, <1>8, <1>10, <1>11 DEF ParsePost_
<1>15. ParseBody_(q, t) = IF ForDownload(q) /\ Json \in q.header_ THEN ParseDownload_(p, t)
                          ELSE ParsePost_(p)
  BY <1>3 DEF ParseBody_
<1>16. CASE r.fields = <<>>
  <2>1. Parsed(p, r) /\ Parsed(d, r) /\ Parsed(g, r) /\ Parsed(k, r)
    BY <1>1, <1>4, <1>5, <1>7, <1>9, <1>12, <1>16 DEF Parsed, Post
  <2> QED
    BY <1>1, <1>13, <1>14, <1>15, <2>1
<1>17. CASE r.fields # <<>>
  <2>1. /\ Lines[r.line].method = "POST" /\ Form \in Effective(r)
        /\ ParsePath_(Lines[r.line].path) # "/download"
    BY <1>17, MenuAssumption
  <2>2. ~ForDownload(q)
    BY <1>4, <2>1 DEF ForDownload
  <2>3. Method(p) = "POST"
    <3>1. <<r.line>>[1] = r.line
      OBVIOUS
    <3>2. p.line_ = <<r.line>>
      BY <1>4, <1>5
    <3> QED
      BY <3>1, <3>2, <2>1 DEF Method
  <2>4. Form \in p.header_
    <3>1. Effective(r) = HeadersRead(r, Len(r.headers))
      BY HeadersType DEF Effective, HeadersRead
    <3> QED
      BY <3>1, <2>1, <1>4, <1>5
  <2>5. ParseBody_(q, t) = g \/ ParseBody_(q, t) = k
    BY <1>14, <1>15, <2>2, <2>3, <2>4
  <2>6. Parsed(g, r) /\ Parsed(k, r)
    BY <1>1, <1>2, <1>4, <1>5, <1>9, <1>10, <1>12 DEF Parsed, Post
  <2> QED
    BY <1>1, <2>5, <2>6
<1> QED
  BY <1>16, <1>17

\* Once there is a result the rounds change nothing.
LEMMA ParseStays ==
    ASSUME NEW b, NEW q, NEW n \in Nat, NEW after, ParseRounds(b, q, n, after),
           NEW k \in 0 .. n, after[k].result # "going"
    PROVE  after[n] = after[k]
<1> DEFINE T == {m \in Nat : k + m <= n => after[k + m] = after[k]}
<1>1. 0 \in T
  OBVIOUS
<1>2. ASSUME NEW m \in Nat, m \in T PROVE m + 1 \in T
  <2> SUFFICES ASSUME k + (m + 1) <= n PROVE after[k + (m + 1)] = after[k]
    OBVIOUS
  <2>1. after[k + m] = after[k] /\ k + (m + 1) \in 1 .. n /\ (k + (m + 1)) - 1 = k + m
    BY <1>2
  <2>2. after[k + (m + 1)] = ParseRound(after[k + m], b.read_pos_)
    BY <2>1 DEF ParseRounds
  <2> QED
    BY <2>1, <2>2, RoundAfterEnd
<1> HIDE DEF T
<1>3. \A m \in 0 .. n - k : m \in T
  <2>1. n - k \in Nat
    OBVIOUS
  <2> QED
    BY <1>1, <1>2, <2>1, Induction
<1>4. n - k \in T /\ n - k \in Nat /\ k + (n - k) = n
  BY <1>3
<1> QED
  BY <1>4 DEF T

\* What parse() makes of one whole request.
Understood(l, r) ==
    \E b, q : l = Loop("true", b, q) /\ Fine(b) /\ Content(b) = <<>> /\ Parsed(q, r)

LEMMA Ends ==
    ASSUME NEW r \in Menu, NEW l, NEW b, NEW q, l = Loop("going", b, q),
           Fine(b), Content(b) = <<>>, Parsed(q, r), NEW start
    PROVE  Understood(ParseRound(l, start), r)
<1>1. readableBytes(b) = 0
  <2>1. Len(<<>>) = 0
    OBVIOUS
  <2> QED
    BY <2>1, FineFacts
<1>2. ParseRound(l, start) = Loop("true", b, q)
  BY <1>1, RoundOfEnd
<1> QED
  BY <1>2 DEF Understood

\* After one round for each line the headers are seen.
LEMMA AllHeaders ==
    ASSUME NEW r \in Menu, NEW b, Fine(b), Content(b) = Wire(r), NEW after,
           ParseRounds(b, Fresh, Len(Wire(r)) + 1, after)
    PROVE  Reading(after[Len(r.headers) + 1], r, Len(r.headers))
<1>1. PICK n \in Nat : n = Len(Wire(r)) /\ n >= 3
  BY WireIs
<1>2. PICK h \in Nat : h = Len(r.headers)
  BY HeadersType
<1>3. PICK start : start = b.read_pos_
  OBVIOUS
<1>4. /\ after[0] = Loop("going", b, Fresh)
      /\ \A k \in 1 .. n + 1 : after[k] = ParseRound(after[k - 1], start)
  BY <1>1, <1>3 DEF ParseRounds
<1> DEFINE T == {j \in Nat : Reading(after[j + 1], r, j)}
<1>5. 0 \in T
  <2>1. 1 \in 1 .. n + 1 /\ 1 - 1 = 0 /\ 0 + 1 = 1
    OBVIOUS
  <2>2. after[1] = ParseRound(Loop("going", b, Fresh), start)
    BY <1>4, <2>1
  <2>3. Reading(after[1], r, 0)
    BY <2>2, FirstRound
  <2> QED
    BY <2>1, <2>3
<1>6. ASSUME NEW j \in Nat, j \in T, j < h PROVE j + 1 \in T
  <2>1. Reading(after[j + 1], r, j)
    BY <1>6
  <2>2. Len(Left(r, j)) + 3 * (j + 1) = n
    BY <1>1, <2>1 DEF Reading
  <2>3. Len(Left(r, j)) \in Nat
    <3>1. j \in 0 .. Len(r.headers)
      BY <1>2, <1>6
    <3>2. PICK t \in Seq(Octet) : t = Left(r, j)
      BY <3>1, LeftType
    <3>3. Len(t) \in Nat
      OBVIOUS
    <3> QED
      BY <3>2, <3>3
  <2>4. (j + 1) + 1 \in 1 .. n + 1 /\ ((j + 1) + 1) - 1 = j + 1
    BY <2>2, <2>3
  <2>5. after[(j + 1) + 1] = ParseRound(after[j + 1], start)
    BY <1>4, <2>4
  <2>6. j < Len(r.headers)
    BY <1>2, <1>6
  <2>7. Reading(after[(j + 1) + 1], r, j + 1)
    BY <2>1, <2>5, <2>6, HeaderRound
  <2> QED
    BY <2>7
<1>7. h \in T
  <2> HIDE DEF T
  <2>1. \A j \in 0 .. h : j \in T
    BY <1>5, <1>6, Induction
  <2>2. h \in 0 .. h
    OBVIOUS
  <2> QED
    BY <2>1, <2>2
<1> QED
  BY <1>2, <1>7

LEMMA ParseWhole ==
    ASSUME NEW r \in Menu, NEW b, Fine(b), Content(b) = Wire(r)
    PROVE  Understood(parse(b, Fresh), r)
<1>1. PICK n \in Nat : n = Len(Wire(r)) /\ n >= 3 /\ n = readableBytes(b) /\ n < SizeMod
  BY WireIs, FineFacts
<1>2. PICK h \in Nat : h = Len(r.headers)
  BY HeadersType
<1>3. PICK start : start = b.read_pos_
  OBVIOUS
<1>4. PICK after : ParseRounds(b, Fresh, n + 1, after) /\ parse(b, Fresh) = after[n + 1]
  <2>1. readableBytes(b) + 1 \in Nat /\ readableBytes(b) # 0
    BY <1>1
  <2> QED
    BY <1>1, <2>1, ParseIs
<1>5. \A k \in 1 .. n + 1 : after[k] = ParseRound(after[k - 1], start)
  BY <1>3, <1>4 DEF ParseRounds
<1>6. Reading(after[h + 1], r, Len(r.headers))
  BY <1>1, <1>2, <1>4, AllHeaders
<1>7. PICK p, q :
         /\ ParseRound(after[h + 1], start) = Loop("going", p, q)
         /\ Fine(p) /\ Content(p) = Body(r)
         /\ Seen(q, r, Len(r.headers))
         /\ q.state_ = IF Body(r) = <<>> THEN "FINISH" ELSE "BODY"
         /\ Len(Body(r)) + 2 + 3 * (Len(r.headers) + 1) = Len(Wire(r))
  BY <1>6, BlankRound
<1>8. PICK d \in Nat : d = Len(Body(r)) /\ d + 2 + 3 * (h + 1) = n
  BY <1>1, <1>2, <1>7, BodyType
<1>9. /\ h + 2 \in 1 .. n + 1 /\ (h + 2) - 1 = h + 1
      /\ h + 3 \in 1 .. n + 1 /\ (h + 3) - 1 = h + 2
      /\ h + 4 \in 1 .. n + 1 /\ (h + 4) - 1 = h + 3
      /\ h + 3 \in 0 .. n + 1 /\ h + 4 \in 0 .. n + 1
  BY <1>8
<1>10. /\ after[h + 2] = Loop("going", p, q)
       /\ after[h + 3] = ParseRound(after[h + 2], start)
       /\ after[h + 4] = ParseRound(after[h + 3], start)
  BY <1>5, <1>7, <1>9
<1>11. \E k \in 0 .. n + 1 : Understood(after[k], r)
  <2>1. CASE Body(r) = <<>>
    <3>1. Parsed(q, r)
      BY <1>7, <2>1, WithoutBody
    <3>2. Understood(after[h + 3], r)
      BY <1>7, <1>10, <2>1, <3>1, Ends
    <3> QED
      BY <1>9, <3>2
  <2>2. CASE Body(r) # <<>>
    <3>1. Len(Body(r)) < SizeMod
      <4>1. SizeMod \in Nat
        BY BlockSizeAssumption
      <4> QED
        BY <1>1, <1>8, <4>1
    <3>2. q.state_ = "BODY"
      BY <1>7, <2>2
    <3>3. PICK s :
             /\ ParseRound(Loop("going", p, q), start) = Loop("going", s, ParseBody_(q, Body(r)))
             /\ Fine(s) /\ Content(s) = <<>>
      BY <1>7, <2>2, <3>1, <3>2, BodyRound
    <3>4. PICK o : o = ParseBody_(q, Body(r)) /\ Parsed(o, r)
      BY <1>7, WithBody
    <3>5. after[h + 3] = Loop("going", s, o)
      BY <1>10, <3>3, <3>4
    <3>6. Understood(after[h + 4], r)
      BY <1>10, <3>3, <3>4, <3>5, Ends
    <3> QED
      BY <1>9, <3>6
  <2> QED
    BY <2>1, <2>2
<1>12. PICK k \in 0 .. n + 1 : Understood(after[k], r)
  BY <1>11
<1>13. after[k].result # "going"
  BY <1>12 DEF Understood, Loop
<1>14. after[n + 1] = after[k]
  BY <1>4, <1>13, ParseStays
<1> QED
  BY <1>4, <1>12, <1>14
----------------------------------------------------------------------------
(* The decoding of a form.                                                 *)

DecodeNothing == [i |-> 1, result |-> <<>>]

\* The rounds of urlDecode.
DecodeRounds(str, ahead, n, after) ==
    /\ after[0] = DecodeNothing
    /\ \A k \in 1 .. n : after[k] = DecodeRound(str, after[k - 1], ahead)

LEMMA DecodeBegins ==
    ASSUME NEW str, NEW ahead, NEW n \in Nat
    PROVE  \E after : DecodeRounds(str, ahead, n, after)
<1> DEFINE T == {m \in Nat : \E after : DecodeRounds(str, ahead, m, after)}
<1>1. 0 \in T
  <2>1. [k \in 0 .. 0 |-> DecodeNothing][0] = DecodeNothing
    OBVIOUS
  <2>2. DecodeRounds(str, ahead, 0, [k \in 0 .. 0 |-> DecodeNothing])
    BY <2>1 DEF DecodeRounds
  <2> QED
    BY <2>2
<1>2. ASSUME NEW m \in Nat, m \in T PROVE m + 1 \in T
  <2>1. PICK f : DecodeRounds(str, ahead, m, f)
    BY <1>2
  <2>2. PICK x : x = DecodeRound(str, f[m], ahead)
    OBVIOUS
  <2> DEFINE g == [k \in 0 .. m + 1 |-> IF k <= m THEN f[k] ELSE x]
  <2>3. g[0] = DecodeNothing
    <3>1. 0 \in 0 .. m + 1 /\ 0 <= m
      OBVIOUS
    <3> QED
      BY <2>1, <3>1 DEF DecodeRounds
  <2>4. ASSUME NEW k \in 1 .. m + 1 PROVE g[k] = DecodeRound(str, g[k - 1], ahead)
    <3>1. k \in 0 .. m + 1 /\ k - 1 \in 0 .. m + 1 /\ k - 1 <= m
      OBVIOUS
    <3>2. g[k - 1] = f[k - 1]
      BY <3>1
    <3>3. CASE k <= m
      <4>1. k \in 1 .. m /\ g[k] = f[k]
        BY <3>1, <3>3
      <4> HIDE DEF g
      <4> QED
        BY <2>1, <3>2, <4>1 DEF DecodeRounds
    <3>4. CASE ~ (k <= m)
      <4>1. k = m + 1 /\ k - 1 = m /\ g[k] = x
        BY <3>1, <3>4
      <4> HIDE DEF g
      <4> QED
        BY <2>2, <3>2, <4>1
    <3> QED
      BY <3>3, <3>4
  <2> HIDE DEF g
  <2>5. DecodeRounds(str, ahead, m + 1, g)
    BY <2>3, <2>4 DEF DecodeRounds
  <2> QED
    BY <2>5
<1>3. Nat \subseteq T
  <2> HIDE DEF T
  <2> QED
    BY <1>1, <1>2, Blocks!SetInduction, BlockSizeAssumption, BlocksAssumptions
<1> QED
  BY <1>3

LEMMA DecodeIs ==
    ASSUME NEW str, NEW ahead, Len(str) \in Nat
    PROVE  \E after : /\ DecodeRounds(str, ahead, Len(str), after)
                       /\ Decode(str, ahead) = after[Len(str)].result
<1> DEFINE N == Len(str)
<1> DEFINE Step(g) == [k \in 0 .. N |-> IF k = 0 THEN DecodeNothing
                                      ELSE DecodeRound(str, g[k - 1], ahead)]
<1> DEFINE after == CHOOSE g : g = Step(g)
<1>1. PICK f : DecodeRounds(str, ahead, N, f)
  BY DecodeBegins
<1> DEFINE h == [k \in 0 .. N |-> f[k]]
<1>2. ASSUME NEW k \in 0 .. N PROVE h[k] = Step(h)[k]
  <2>1. CASE k = 0
    BY <1>1, <2>1 DEF DecodeRounds
  <2>2. CASE k # 0
    <3>1. k \in 1 .. N /\ k - 1 \in 0 .. N
      BY <2>2
    <3>2. h[k] = f[k] /\ h[k - 1] = f[k - 1] /\ f[k] = DecodeRound(str, f[k - 1], ahead)
      BY <1>1, <3>1 DEF DecodeRounds
    <3> HIDE DEF h
    <3>3. h[k] = DecodeRound(str, h[k - 1], ahead)
      BY <3>2
    <3>4. Step(h)[k] = DecodeRound(str, h[k - 1], ahead)
      BY <2>2
    <3> QED
      BY <3>3, <3>4
  <2> QED
    BY <2>1, <2>2
<1>3. h = Step(h)
  <2>1. h = [k \in 0 .. N |-> h[k]] /\ Step(h) = [k \in 0 .. N |-> Step(h)[k]]
    OBVIOUS
  <2> HIDE DEF h, Step
  <2> QED
    BY <1>2, <2>1
<1>4. after = Step(after)
  <2> HIDE DEF Step, h
  <2> QED
    BY <1>3
<1>5. Decode(str, ahead) = after[Len(str)].result
  BY DEF Decode, DecodeNothing
<1> HIDE DEF after
<1>6. \A k \in 0 .. N : after[k] = Step(after)[k]
  <2> HIDE DEF Step
  <2> QED
    BY <1>4
<1>7. after[0] = DecodeNothing
  <2>1. 0 \in 0 .. N /\ Step(after)[0] = DecodeNothing
    OBVIOUS
  <2> HIDE DEF Step
  <2> QED
    BY <1>6, <2>1
<1>8. ASSUME NEW k \in 1 .. N PROVE after[k] = DecodeRound(str, after[k - 1], ahead)
  <2>1. k \in 0 .. N /\ k # 0
    OBVIOUS
  <2>2. Step(after)[k] = DecodeRound(str, after[k - 1], ahead)
    BY <2>1
  <2> HIDE DEF Step
  <2> QED
    BY <1>6, <2>1, <2>2
<1>9. DecodeRounds(str, ahead, N, after)
  BY <1>7, <1>8 DEF DecodeRounds
<1> QED
  BY <1>5, <1>9

NoFields == [start |-> 1, post |-> <<>>]

\* The rounds of ParseFromUrlencoded_.
FieldRounds(body, n, after) ==
    /\ after[0] = NoFields
    /\ \A k \in 1 .. n : after[k] = FieldRound(body, after[k - 1])

LEMMA FieldBegins ==
    ASSUME NEW body, NEW n \in Nat
    PROVE  \E after : FieldRounds(body, n, after)
<1> DEFINE T == {m \in Nat : \E after : FieldRounds(body, m, after)}
<1>1. 0 \in T
  <2>1. [k \in 0 .. 0 |-> NoFields][0] = NoFields
    OBVIOUS
  <2>2. FieldRounds(body, 0, [k \in 0 .. 0 |-> NoFields])
    BY <2>1 DEF FieldRounds
  <2> QED
    BY <2>2
<1>2. ASSUME NEW m \in Nat, m \in T PROVE m + 1 \in T
  <2>1. PICK f : FieldRounds(body, m, f)
    BY <1>2
  <2>2. PICK x : x = FieldRound(body, f[m])
    OBVIOUS
  <2> DEFINE g == [k \in 0 .. m + 1 |-> IF k <= m THEN f[k] ELSE x]
  <2>3. g[0] = NoFields
    <3>1. 0 \in 0 .. m + 1 /\ 0 <= m
      OBVIOUS
    <3> QED
      BY <2>1, <3>1 DEF FieldRounds
  <2>4. ASSUME NEW k \in 1 .. m + 1 PROVE g[k] = FieldRound(body, g[k - 1])
    <3>1. k \in 0 .. m + 1 /\ k - 1 \in 0 .. m + 1 /\ k - 1 <= m
      OBVIOUS
    <3>2. g[k - 1] = f[k - 1]
      BY <3>1
    <3>3. CASE k <= m
      <4>1. k \in 1 .. m /\ g[k] = f[k]
        BY <3>1, <3>3
      <4> HIDE DEF g
      <4> QED
        BY <2>1, <3>2, <4>1 DEF FieldRounds
    <3>4. CASE ~ (k <= m)
      <4>1. k = m + 1 /\ k - 1 = m /\ g[k] = x
        BY <3>1, <3>4
      <4> HIDE DEF g
      <4> QED
        BY <2>2, <3>2, <4>1
    <3> QED
      BY <3>3, <3>4
  <2> HIDE DEF g
  <2>5. FieldRounds(body, m + 1, g)
    BY <2>3, <2>4 DEF FieldRounds
  <2> QED
    BY <2>5
<1>3. Nat \subseteq T
  <2> HIDE DEF T
  <2> QED
    BY <1>1, <1>2, Blocks!SetInduction, BlockSizeAssumption, BlocksAssumptions
<1> QED
  BY <1>3

LEMMA FieldIs ==
    ASSUME NEW body, Len(body) \in Nat
    PROVE  \E after : /\ FieldRounds(body, Len(body), after)
                       /\ ParseFromUrlencoded_(body) = after[Len(body)].post
<1> DEFINE N == Len(body)
<1> DEFINE Step(g) == [k \in 0 .. N |-> IF k = 0 THEN NoFields ELSE FieldRound(body, g[k - 1])]
<1> DEFINE after == CHOOSE g : g = Step(g)
<1>1. PICK f : FieldRounds(body, N, f)
  BY FieldBegins
<1> DEFINE h == [k \in 0 .. N |-> f[k]]
<1>2. ASSUME NEW k \in 0 .. N PROVE h[k] = Step(h)[k]
  <2>1. CASE k = 0
    BY <1>1, <2>1 DEF FieldRounds
  <2>2. CASE k # 0
    <3>1. k \in 1 .. N /\ k - 1 \in 0 .. N
      BY <2>2
    <3>2. h[k] = f[k] /\ h[k - 1] = f[k - 1] /\ f[k] = FieldRound(body, f[k - 1])
      BY <1>1, <3>1 DEF FieldRounds
    <3> HIDE DEF h
    <3>3. h[k] = FieldRound(body, h[k - 1])
      BY <3>2
    <3>4. Step(h)[k] = FieldRound(body, h[k - 1])
      BY <2>2
    <3> QED
      BY <3>3, <3>4
  <2> QED
    BY <2>1, <2>2
<1>3. h = Step(h)
  <2>1. h = [k \in 0 .. N |-> h[k]] /\ Step(h) = [k \in 0 .. N |-> Step(h)[k]]
    OBVIOUS
  <2> HIDE DEF h, Step
  <2> QED
    BY <1>2, <2>1
<1>4. after = Step(after)
  <2> HIDE DEF Step, h
  <2> QED
    BY <1>3
<1>5. ParseFromUrlencoded_(body) = after[Len(body)].post
  BY DEF ParseFromUrlencoded_, NoFields
<1> HIDE DEF after
<1>6. \A k \in 0 .. N : after[k] = Step(after)[k]
  <2> HIDE DEF Step
  <2> QED
    BY <1>4
<1>7. after[0] = NoFields
  <2>1. 0 \in 0 .. N /\ Step(after)[0] = NoFields
    OBVIOUS
  <2> HIDE DEF Step
  <2> QED
    BY <1>6, <2>1
<1>8. ASSUME NEW k \in 1 .. N PROVE after[k] = FieldRound(body, after[k - 1])
  <2>1. k \in 0 .. N /\ k # 0
    OBVIOUS
  <2>2. Step(after)[k] = FieldRound(body, after[k - 1])
    BY <2>1
  <2> HIDE DEF Step
  <2> QED
    BY <1>6, <2>1, <2>2
<1>9. FieldRounds(body, N, after)
  BY <1>7, <1>8 DEF FieldRounds
<1> QED
  BY <1>5, <1>9


\* From its i-th element on, e is w.
From(e, i, w) ==
    /\ i \in Nat \ {0} /\ Len(e) \in Nat /\ Len(w) \in Nat
    /\ (i - 1) + Len(w) = Len(e)
    /\ \A k \in 1 .. Len(w) : e[(i - 1) + k] = w[k]

\* All that is known of e if x is next and v follows.
Next2(e, i, x, v) ==
    /\ From(e, i + Len(x), v)
    /\ (i - 1) + Len(x) <= Len(e)
    /\ \A k \in 1 .. Len(x) : e[(i - 1) + k] = x[k]

LEMMA FromPasses ==
    ASSUME NEW S, NEW x \in Seq(S), NEW v \in Seq(S), NEW e, NEW i, From(e, i, Joined(x, v))
    PROVE  Next2(e, i, x, v)
<1>1. PICK w : w = Joined(x, v)
  OBVIOUS
<1>2. PICK m \in Nat : m = Len(x)
  OBVIOUS
<1>3. PICK n \in Nat : n = Len(v)
  OBVIOUS
<1>4. /\ Len(w) = m + n
      /\ \A k \in 1 .. m : w[k] = x[k]
      /\ \A k \in 1 .. n : w[m + k] = v[k]
  BY <1>1, <1>2, <1>3 DEF Joined
<1>5. /\ i \in Nat \ {0} /\ Len(e) \in Nat /\ (i - 1) + (m + n) = Len(e)
      /\ \A k \in 1 .. m + n : e[(i - 1) + k] = w[k]
  BY <1>1, <1>4 DEF From
<1>6. \A k \in 1 .. m : e[(i - 1) + k] = x[k]
  BY <1>4, <1>5
<1>7. ASSUME NEW k \in 1 .. n PROVE e[((i + m) - 1) + k] = v[k]
  <2>1. m + k \in 1 .. m + n /\ ((i + m) - 1) + k = (i - 1) + (m + k)
    BY <1>5
  <2> QED
    BY <1>4, <1>5, <2>1
<1>8. From(e, i + m, v)
  <2>1. i + m \in Nat \ {0} /\ ((i + m) - 1) + n = Len(e)
    BY <1>5
  <2> QED
    BY <1>3, <1>5, <1>7, <2>1 DEF From
<1>9. (i - 1) + m <= Len(e)
  BY <1>5
<1> QED
  BY <1>2, <1>6, <1>8, <1>9 DEF Next2

\* What is between two places of e.
LEMMA Between ==
    ASSUME NEW S, NEW x \in Seq(S), NEW e \in Seq(S), NEW i \in Nat \ {0},
           (i - 1) + Len(x) <= Len(e), \A k \in 1 .. Len(x) : e[(i - 1) + k] = x[k]
    PROVE  SubSeq(e, i, (i - 1) + Len(x)) = x
<1>1. PICK m \in Nat : m = Len(x)
  OBVIOUS
<1>2. PICK u : u = SubSeq(e, i, (i - 1) + m)
  OBVIOUS
<1>3. (i - 1) + m \in Nat /\ Len(e) \in Nat /\ (i - 1) + m <= Len(e)
  BY <1>1
<1>4. u \in Seq(S) /\ Len(u) = m /\ \A k \in 1 .. m : u[k] = e[(i - 1) + k]
  BY ONLY <1>1, <1>2, <1>3, e \in Seq(S), i \in Nat \ {0}
<1>5. u = x
  BY <1>1, <1>4, SeqEqual
<1> QED
  BY <1>1, <1>2, <1>5

----------------------------------------------------------------------------
(* An escape and what it stands for.                                       *)

LEMMA HexDistinct ==
    ASSUME NEW i \in 1 .. 16, NEW j \in 1 .. 16, HexDigits[i] = HexDigits[j]
    PROVE  i = j
  BY DEF HexDigits

LEMMA HexPlain ==
    ASSUME NEW i \in 1 .. 16
    PROVE  HexDigits[i] # "&" /\ HexDigits[i] # "="
  BY DEF HexDigits

LEMMA HexDomain == DOMAIN HexDigits = 1 .. 16
  BY DEF HexDigits

LEMMA DigitIs ==
    ASSUME NEW n \in 0 .. 15
    PROVE  IsHex(HexDigits[n + 1]) /\ Digit(HexDigits[n + 1]) = n
<1>1. n + 1 \in DOMAIN HexDigits
  BY HexDomain
<1>2. PICK h : h = HexDigits[n + 1]
  OBVIOUS
<1>3. PICK d : d = CHOOSE i \in DOMAIN HexDigits : HexDigits[i] = h
  OBVIOUS
<1>4. d \in 1 .. 16 /\ HexDigits[d] = HexDigits[n + 1]
  BY <1>1, <1>2, <1>3, HexDomain
<1>5. d = n + 1
  BY <1>1, <1>4, HexDistinct, HexDomain
<1>6. IsHex(h)
  BY <1>1, <1>2 DEF IsHex
<1>7. Digit(h) = d - 1
  BY <1>3 DEF Digit
<1> QED
  BY <1>2, <1>5, <1>6, <1>7

LEMMA EscapeDecodes ==
    ASSUME NEW c \in DOMAIN CodeOf, NEW h, h = HexDigits[(CodeOf[c] \div 16) + 1],
           NEW d, d = HexDigits[(CodeOf[c] % 16) + 1]
    PROVE  IsHex(h) /\ Decoded(h, d) = c
<1>1. PICK n \in 0 .. 255 : n = CodeOf[c]
  BY CodesAssumption
<1>2. PICK p \in 0 .. 15 : p = n \div 16
  BY <1>1
<1>3. PICK q \in 0 .. 15 : q = n % 16
  BY <1>1
<1>4. 16 * p + q = n
  BY <1>2, <1>3
<1>5. IsHex(h) /\ IsHex(d) /\ Digit(h) = p /\ Digit(d) = q
  BY <1>1, <1>2, <1>3, DigitIs
<1>6. Scanned(h, d) = CodeOf[c]
  BY <1>1, <1>4, <1>5 DEF Scanned
<1>7. Decoded(h, d) = c
  BY <1>6, CodesAssumption DEF Decoded
<1> QED
  BY <1>5, <1>7

\* What is written of a character is not the end of a key or a value.
SafeByte ==
    (DOMAIN CodeOf \ {" ", "&", "=", "+", "%"}) \union {"%", "+"}
        \union {HexDigits[i] : i \in 1 .. 16}

LEMMA SafeBytes == "&" \notin SafeByte /\ "=" \notin SafeByte /\ SafeByte \subseteq FormByte
  BY HexPlain DEF SafeByte, FormByte

\* The three shapes of a character.
LEMMA EscapedIs ==
    ASSUME NEW c \in DOMAIN CodeOf
    PROVE  \E x \in Seq(SafeByte) :
              /\ x = CharImage[c]
              /\ \/ x = <<"+">> /\ c = " "
                 \/ /\ Len(x) = 3 /\ x[1] = "%" /\ IsHex(x[2]) /\ Decoded(x[2], x[3]) = c
                 \/ x = <<c>> /\ c # "%" /\ c # "+"
<1>1. CASE c = " "
  <2>1. CharImage[c] = <<"+">>
    BY <1>1 DEF CharImage, Escaped
  <2>2. <<"+">> \in Seq(SafeByte)
    BY DEF SafeByte
  <2> QED
    BY <1>1, <2>1, <2>2
<1>2. CASE c # " " /\ c \in {"&", "=", "+", "%"}
  <2>1. PICK h : h = HexDigits[(CodeOf[c] \div 16) + 1]
    OBVIOUS
  <2>2. PICK d : d = HexDigits[(CodeOf[c] % 16) + 1]
    OBVIOUS
  <2>3. IsHex(h) /\ Decoded(h, d) = c
    BY <2>1, <2>2, EscapeDecodes
  <2>4. CharImage[c] = <<"%", h, d>>
    BY <1>2, <2>1, <2>2 DEF CharImage, Escaped
  <2>5. h \in SafeByte /\ d \in SafeByte /\ "%" \in SafeByte
    <3>1. PICK n \in 0 .. 255 : n = CodeOf[c]
      BY CodesAssumption
    <3>2. (n \div 16) + 1 \in 1 .. 16 /\ (n % 16) + 1 \in 1 .. 16
      BY <3>1
    <3> QED
      BY <2>1, <2>2, <3>1, <3>2 DEF SafeByte
  <2>6. PICK x : x = <<"%", h, d>>
    OBVIOUS
  <2>7. x \in Seq(SafeByte) /\ Len(x) = 3 /\ x[1] = "%" /\ x[2] = h /\ x[3] = d
    BY <2>5, <2>6
  <2> QED
    BY <2>3, <2>4, <2>6, <2>7
<1>3. CASE c # " " /\ c \notin {"&", "=", "+", "%"}
  <2>1. CharImage[c] = <<c>>
    BY <1>3 DEF CharImage, Escaped
  <2>2. c \in SafeByte
    BY <1>3 DEF SafeByte
  <2>3. <<c>> \in Seq(SafeByte)
    BY <2>2
  <2> QED
    BY <1>3, <2>1, <2>3
<1> QED
  BY <1>1, <1>2, <1>3

LEMMA CharImageSafe == CharImage \in [DOMAIN CodeOf -> Seq(SafeByte)]
  BY EscapedIs DEF CharImage

LEMMA EncodedSafe ==
    ASSUME NEW str \in Seq(DOMAIN CodeOf)
    PROVE  Encoded(str) \in Seq(SafeByte)
  BY EncodedIs, CharImageSafe, ImagesType

----------------------------------------------------------------------------
(* Decoding what was encoded.                                              *)

\* After j rounds j characters are decoded and the others follow.
DecodedTo(str, e, j, loop) ==
    /\ From(e, loop.i, Images(CharImage, SubSeq(str, j + 1, Len(str))))
    /\ loop.i >= j + 1
    /\ loop.result \in Seq(DOMAIN CodeOf) /\ Len(loop.result) = j
    /\ \A k \in 1 .. j : loop.result[k] = str[k]

\* One character.
LEMMA DecodeOne ==
    ASSUME NEW str \in Seq(DOMAIN CodeOf), NEW e, NEW j \in Nat, j < Len(str),
           NEW loop, DecodedTo(str, e, j, loop)
    PROVE  /\ j + 1 <= Len(e)
           /\ DecodedTo(str, e, j + 1, DecodeRound(e, loop, 2))
<1>1. ImagesContinue(DOMAIN CodeOf, SafeByte)
  BY ImagesDo
<1>2. PICK c \in DOMAIN CodeOf : c = str[j + 1]
  BY <1>1, CharImageSafe DEF ImagesContinue
<1>3. PICK v \in Seq(SafeByte) : v = Images(CharImage, SubSeq(str, (j + 1) + 1, Len(str)))
  <2>1. SubSeq(str, j + 2, Len(str)) \in Seq(DOMAIN CodeOf) /\ j + 2 = (j + 1) + 1
    BY <1>1, CharImageSafe DEF ImagesContinue
  <2> QED
    BY <2>1, CharImageSafe, ImagesType
<1>4. PICK x \in Seq(SafeByte) :
         /\ x = CharImage[c]
         /\ \/ x = <<"+">> /\ c = " "
            \/ Len(x) = 3 /\ x[1] = "%" /\ IsHex(x[2]) /\ Decoded(x[2], x[3]) = c
            \/ x = <<c>> /\ c # "%" /\ c # "+"
  BY EscapedIs
<1>5. From(e, loop.i, Joined(x, v))
  <2>1. Images(CharImage, SubSeq(str, j + 1, Len(str))) = Joined(x, v)
    <3>1. j + 2 = (j + 1) + 1
      OBVIOUS
    <3>2. Images(CharImage, SubSeq(str, j + 1, Len(str)))
             = Joined(CharImage[str[j + 1]], Images(CharImage, SubSeq(str, j + 2, Len(str))))
      BY <1>1, CharImageSafe DEF ImagesContinue
    <3> QED
      BY <1>2, <1>3, <1>4, <3>1, <3>2
  <2> QED
    BY <2>1 DEF DecodedTo
<1>6. PICK i \in Nat \ {0} : i = loop.i /\ i >= j + 1
  BY <1>5 DEF From, DecodedTo
<1>7. PICK n \in Nat : n = Len(e)
  BY <1>5 DEF From
<1>8. /\ From(e, i + Len(x), v) /\ (i - 1) + Len(x) <= n
      /\ \A k \in 1 .. Len(x) : e[(i - 1) + k] = x[k]
  <2>1. Next2(e, i, x, v)
    BY ONLY <1>5, <1>6, x \in Seq(SafeByte), v \in Seq(SafeByte), FromPasses
  <2> QED
    BY <1>7, <2>1 DEF Next2
<1>9. PICK t \in Seq(DOMAIN CodeOf) :
         t = loop.result /\ Len(t) = j /\ \A k \in 1 .. j : t[k] = str[k]
  BY DEF DecodedTo
<1>10. PICK u : u = Append(t, c)
  OBVIOUS
<1>11. /\ u \in Seq(DOMAIN CodeOf) /\ Len(u) = j + 1
       /\ \A k \in 1 .. j + 1 : u[k] = str[k]
  <2>1. u \in Seq(DOMAIN CodeOf) /\ Len(u) = j + 1 /\ u[j + 1] = c /\ \A k \in 1 .. j : u[k] = t[k]
    BY ONLY <1>9, <1>10, c \in DOMAIN CodeOf, j \in Nat
  <2>2. ASSUME NEW k \in 1 .. j + 1 PROVE u[k] = str[k]
    <3>1. k = j + 1 \/ k \in 1 .. j
      OBVIOUS
    <3> QED
      BY <1>2, <1>9, <2>1, <3>1
  <2> QED
    BY <2>1, <2>2
<1>12. /\ DecodeRound(e, loop, 2) = [i |-> i + Len(x), result |-> u]
       /\ Len(x) >= 1 /\ Len(x) \in Nat
  <2>1. CASE x = <<"+">> /\ c = " "
    <3>1. Len(x) = 1 /\ x[1] = "+"
      BY <2>1
    <3>2. 1 \in 1 .. Len(x) /\ (i - 1) + 1 = i
      BY <3>1
    <3>3. e[i] = "+" /\ i <= n
      BY <1>8, <3>1, <3>2
    <3>4. ~ (i > n) /\ e[i] # "%"
      BY <3>3
    <3>5. DecodeRound(e, loop, 2) = [i |-> i + 1, result |-> Append(t, c)]
      <4>1. loop.i = i /\ loop.result = t /\ ~ (i > Len(e))
        BY <1>6, <1>7, <1>9, <3>4
      <4>2. c = IF e[i] = "+" THEN " " ELSE e[i]
        BY <2>1, <3>3
      <4> QED
        BY ONLY <3>4, <4>1, <4>2 DEF DecodeRound
    <3> QED
      BY <1>10, <3>1, <3>5
  <2>2. CASE Len(x) = 3 /\ x[1] = "%" /\ IsHex(x[2]) /\ Decoded(x[2], x[3]) = c
    <3>1. /\ 1 \in 1 .. Len(x) /\ (i - 1) + 1 = i
          /\ 2 \in 1 .. Len(x) /\ (i - 1) + 2 = i + 1
          /\ 3 \in 1 .. Len(x) /\ (i - 1) + 3 = i + 2
      BY <2>2
    <3>2. e[i] = "%" /\ e[i + 1] = x[2] /\ e[i + 2] = x[3] /\ i + 2 <= n
      BY <1>8, <2>2, <3>1
    <3>3. ~ (i > n)
      BY <3>2
    <3>4. DecodeRound(e, loop, 2) = [i |-> i + 3, result |-> Append(t, c)]
      <4>1. loop.i = i /\ loop.result = t /\ ~ (i > Len(e)) /\ i + 2 <= Len(e)
        BY <1>6, <1>7, <1>9, <3>2, <3>3
      <4>2. e[i] = "%" /\ IsHex(e[i + 1]) /\ Decoded(e[i + 1], e[i + 2]) = c
        BY <2>2, <3>2
      <4> QED
        BY ONLY <4>1, <4>2 DEF DecodeRound
    <3> QED
      BY <1>10, <2>2, <3>4
  <2>3. CASE x = <<c>> /\ c # "%" /\ c # "+"
    <3>1. Len(x) = 1 /\ x[1] = c
      BY <2>3
    <3>2. 1 \in 1 .. Len(x) /\ (i - 1) + 1 = i
      BY <3>1
    <3>3. e[i] = c /\ i <= n
      BY <1>8, <3>1, <3>2
    <3>4. ~ (i > n) /\ e[i] # "%" /\ e[i] # "+"
      BY <2>3, <3>3
    <3>5. DecodeRound(e, loop, 2) = [i |-> i + 1, result |-> Append(t, c)]
      <4>1. loop.i = i /\ loop.result = t /\ ~ (i > Len(e))
        BY <1>6, <1>7, <1>9, <3>4
      <4>2. c = IF e[i] = "+" THEN " " ELSE e[i]
        BY <3>3, <3>4
      <4> QED
        BY ONLY <3>4, <4>1, <4>2 DEF DecodeRound
    <3> QED
      BY <1>10, <3>1, <3>5
  <2> QED
    BY <1>4, <2>1, <2>2, <2>3
<1>13. PICK q : q = DecodeRound(e, loop, 2)
  OBVIOUS
<1>14. q.i = i + Len(x) /\ q.result = u
  BY <1>12, <1>13
<1>15. q.i >= (j + 1) + 1 /\ j + 1 <= Len(e)
  BY <1>6, <1>7, <1>8, <1>12, <1>14
<1>16. DecodedTo(str, e, j + 1, q)
  BY <1>3, <1>8, <1>11, <1>14, <1>15 DEF DecodedTo
<1> QED
  BY <1>13, <1>15, <1>16

\* Beyond the end nothing changes.
LEMMA DecodeEnds ==
    ASSUME NEW e, Len(e) \in Nat, NEW after, DecodeRounds(e, 2, Len(e), after),
           NEW k \in 0 .. Len(e), after[k].i > Len(e)
    PROVE  after[Len(e)] = after[k]
<1> DEFINE T == {n \in Nat : k + n <= Len(e) => after[k + n] = after[k]}
<1>1. 0 \in T
  OBVIOUS
<1>2. ASSUME NEW n \in Nat, n \in T PROVE n + 1 \in T
  <2> SUFFICES ASSUME k + (n + 1) <= Len(e) PROVE after[k + (n + 1)] = after[k]
    OBVIOUS
  <2>1. after[k + n] = after[k] /\ k + (n + 1) \in 1 .. Len(e) /\ (k + (n + 1)) - 1 = k + n
    BY <1>2
  <2>2. after[k + (n + 1)] = DecodeRound(e, after[k + n], 2)
    BY <2>1 DEF DecodeRounds
  <2> QED
    BY <2>1, <2>2 DEF DecodeRound
<1> HIDE DEF T
<1>3. \A n \in 0 .. Len(e) - k : n \in T
  <2>1. Len(e) - k \in Nat
    OBVIOUS
  <2> QED
    BY <1>1, <1>2, <2>1, Induction
<1>4. Len(e) - k \in T /\ Len(e) - k \in Nat /\ k + (Len(e) - k) = Len(e)
  BY <1>3
<1> QED
  BY <1>4 DEF T

LEMMA DecodesAll ==
    ASSUME NEW str \in Seq(DOMAIN CodeOf)
    PROVE  urlDecode(Encoded(str)) = str
<1>1. PICK e \in Seq(SafeByte) : e = Encoded(str)
  BY EncodedSafe
<1>2. PICK N \in Nat : N = Len(str)
  OBVIOUS
<1>3. Len(e) \in Nat
  OBVIOUS
<1>4. PICK after : DecodeRounds(e, 2, Len(e), after) /\ Decode(e, 2) = after[Len(e)].result
  BY <1>3, DecodeIs
<1> DEFINE T == {j \in Nat : j <= Len(e) /\ DecodedTo(str, e, j, after[j])}
<1>5. 0 \in T
  <2>1. SubSeq(str, 0 + 1, Len(str)) = str
    OBVIOUS
  <2>2. e = Images(CharImage, SubSeq(str, 0 + 1, Len(str)))
    BY <1>1, <2>1, EncodedIs
  <2>3. From(e, 1, e)
    BY <1>3 DEF From
  <2>4. PICK t \in Seq(DOMAIN CodeOf) : t = <<>> /\ Len(t) = 0
    <3>1. <<>> \in Seq(DOMAIN CodeOf) /\ Len(<<>>) = 0
      OBVIOUS
    <3> QED
      BY <3>1
  <2>5. after[0].i = 1 /\ after[0].result = t
    BY <1>4, <2>4 DEF DecodeRounds, DecodeNothing
  <2>6. DecodedTo(str, e, 0, after[0])
    BY <2>2, <2>3, <2>4, <2>5 DEF DecodedTo
  <2> QED
    BY <1>3, <2>6
<1>6. ASSUME NEW j \in Nat, j \in T, j < N PROVE j + 1 \in T
  <2>1. DecodedTo(str, e, j, after[j]) /\ j < Len(str)
    BY <1>2, <1>6
  <2>2. j + 1 <= Len(e) /\ DecodedTo(str, e, j + 1, DecodeRound(e, after[j], 2))
    BY <2>1, DecodeOne
  <2>3. j + 1 \in 1 .. Len(e) /\ (j + 1) - 1 = j
    BY <1>3, <2>2
  <2>4. after[j + 1] = DecodeRound(e, after[j], 2)
    BY <1>4, <2>3 DEF DecodeRounds
  <2> QED
    BY <2>2, <2>4
<1> HIDE DEF T
<1>7. N \in T
  <2>1. \A j \in 0 .. N : j \in T
    BY <1>5, <1>6, Induction
  <2> QED
    BY <2>1
<1>8. N <= Len(e) /\ DecodedTo(str, e, N, after[N])
  BY <1>7 DEF T
<1>9. after[N].i > Len(e)
  <2>1. SubSeq(str, N + 1, Len(str)) = <<>>
    BY <1>2
  <2>2. From(e, after[N].i, <<>>)
    BY <1>8, <2>1, ImagesNone DEF DecodedTo
  <2>3. Len(<<>>) = 0
    OBVIOUS
  <2> QED
    BY <2>2, <2>3 DEF From
<1>10. after[Len(e)] = after[N]
  BY <1>3, <1>4, <1>8, <1>9, DecodeEnds
<1>11. after[N].result = str
  BY <1>2, <1>8, SeqEqual DEF DecodedTo
<1> QED
  BY <1>1, <1>4, <1>10, <1>11 DEF urlDecode
----------------------------------------------------------------------------
(* The fields of a form.                                                   *)

LEMMA FindFirst ==
    ASSUME NEW str, Len(str) \in Nat, NEW c, NEW start \in Nat, NEW p \in start .. Len(str),
           str[p] = c, \A i \in start .. p - 1 : str[i] # c
    PROVE  Find(str, c, start) = p
<1>1. PICK P : P = {i \in start .. Len(str) : str[i] = c}
  OBVIOUS
<1>2. p \in P /\ \A i \in P : p <= i
  <2>1. ASSUME NEW i \in P PROVE p <= i
    <3>1. i \in Nat /\ i >= start /\ str[i] = c
      BY <1>1
    <3>2. i \notin start .. p - 1
      BY <3>1
    <3> QED
      BY <3>1, <3>2
  <2> QED
    BY <1>1, <2>1
<1>3. \A i \in P : i \in Nat
  BY <1>1
<1>4. Min(P) = p
  <2>1. PICK m : m = CHOOSE x \in P : \A y \in P : x <= y
    OBVIOUS
  <2>2. m \in P /\ \A y \in P : m <= y
    BY <1>2, <2>1
  <2>3. m = p
    BY <1>2, <1>3, <2>2
  <2> QED
    BY <2>1, <2>3 DEF Min
<1>5. P # {}
  BY <1>2
<1> QED
  BY <1>1, <1>4, <1>5 DEF Find

LEMMA FindNone ==
    ASSUME NEW str, NEW c, NEW start, \A i \in start .. Len(str) : str[i] # c
    PROVE  Find(str, c, start) = Len(str) + 1
  BY DEF Find

LEMMA WithIs ==
    ASSUME NEW post, NEW key, NEW value, NEW q, q = With(post, key, value)
    PROVE  /\ key \in DOMAIN q /\ q[key] = value
           /\ \A k \in DOMAIN post : k # key => k \in DOMAIN q /\ q[k] = post[k]
  BY DEF With

\* A field on the wire is "&", its key, "=" and its value.
Opened(x, a, b) ==
    /\ Len(x) = (Len(a) + Len(b)) + 2
    /\ x[1] = "&" /\ x[Len(a) + 2] = "="
    /\ \A k \in 1 .. Len(a) : x[k + 1] = a[k]
    /\ \A k \in 1 .. Len(b) : x[(Len(a) + 2) + k] = b[k]

LEMMA FieldOpens ==
    ASSUME NEW f \in Fields, NEW a \in Seq(SafeByte), a = Encoded(f.key),
           NEW b \in Seq(SafeByte), b = Encoded(f.value)
    PROVE  Opened(FieldImage[f], a, b)
<1>1. PICK d \in Seq(FormByte) : d = <<"&">> /\ Len(d) = 1 /\ d[1] = "&"
  <2>1. <<"&">> \in Seq(FormByte) /\ Len(<<"&">>) = 1 /\ <<"&">>[1] = "&"
    BY DEF FormByte
  <2> QED
    BY <2>1
<1>2. PICK e \in Seq(FormByte) : e = <<"=">> /\ Len(e) = 1 /\ e[1] = "="
  <2>1. <<"=">> \in Seq(FormByte) /\ Len(<<"=">>) = 1 /\ <<"=">>[1] = "="
    BY DEF FormByte
  <2> QED
    BY <2>1
<1>3. a \in Seq(FormByte) /\ b \in Seq(FormByte)
  BY SafeBytes
<1>4. PICK x : x = d \o a \o e \o b
  OBVIOUS
<1>5. PICK m \in Nat : m = Len(a)
  OBVIOUS
<1>6. PICK n \in Nat : n = Len(b)
  OBVIOUS
<1>7. PICK u : u = d \o a
  OBVIOUS
<1>8. /\ u \in Seq(FormByte) /\ Len(u) = 1 + m /\ u[1] = "&"
      /\ \A k \in 1 .. m : u[1 + k] = a[k]
  BY ONLY <1>1, <1>3, <1>5, <1>7
<1>9. PICK v : v = u \o e
  OBVIOUS
<1>10. /\ v \in Seq(FormByte) /\ Len(v) = (1 + m) + 1 /\ v[(1 + m) + 1] = "="
       /\ \A k \in 1 .. 1 + m : v[k] = u[k]
  BY ONLY <1>2, <1>5, <1>8, <1>9
<1>11. x = v \o b
  BY ONLY <1>4, <1>7, <1>9
<1>12. /\ Len(x) = (m + 2) + n
       /\ \A k \in 1 .. m + 2 : x[k] = v[k]
       /\ \A k \in 1 .. n : x[(m + 2) + k] = b[k]
  <2>1. Len(v) = m + 2
    BY <1>10
  <2> QED
    <3>1. PICK l \in Nat : l = Len(v) /\ l = m + 2
      BY <2>1
    <3>2. /\ Len(v \o b) = l + n
          /\ \A k \in 1 .. l : (v \o b)[k] = v[k]
          /\ \A k \in 1 .. n : (v \o b)[l + k] = b[k]
      <4>1. v \in Seq(FormByte)
        BY <1>10
      <4>2. l = Len(v)
        BY <3>1
      <4> QED
        BY ONLY <1>3, <1>6, <4>1, <4>2, l \in Nat, n \in Nat
    <3> QED
      BY ONLY <1>11, <3>1, <3>2
<1>13. x[1] = "&" /\ x[m + 2] = "="
  <2>1. 1 \in 1 .. 1 + m /\ 1 \in 1 .. m + 2 /\ m + 2 \in 1 .. m + 2 /\ m + 2 = (1 + m) + 1
    OBVIOUS
  <2> QED
    BY <1>8, <1>10, <1>12, <2>1
<1>14. ASSUME NEW k \in 1 .. m PROVE x[k + 1] = a[k]
  <2>1. k + 1 \in 1 .. 1 + m /\ k + 1 \in 1 .. m + 2 /\ k + 1 = 1 + k
    OBVIOUS
  <2> QED
    BY <1>8, <1>10, <1>12, <2>1
<1>15. Opened(x, a, b)
  <2>1. Len(x) = (m + n) + 2
    BY <1>12
  <2> QED
    BY <1>5, <1>6, <1>12, <1>13, <1>14, <2>1 DEF Opened
<1>16. FieldImage[f] = x
  BY <1>1, <1>2, <1>4 DEF FieldImage, FieldBytes
<1> QED
  BY <1>15, <1>16

\* What follows a field is the next one or nothing.
LEMMA FieldsOpen ==
    ASSUME NEW fields \in Seq(Fields), NEW j \in Nat, j <= Len(fields),
           NEW v, v = Images(FieldImage, SubSeq(fields, j + 1, Len(fields)))
    PROVE  v \in Seq(FormByte) /\ (Len(v) = 0 \/ (Len(v) \in Nat \ {0} /\ v[1] = "&"))
<1>1. CASE j = Len(fields)
  <2>1. SubSeq(fields, j + 1, Len(fields)) = <<>>
    BY <1>1
  <2>2. v = <<>>
    BY <2>1, ImagesNone
  <2>3. <<>> \in Seq(FormByte) /\ Len(<<>>) = 0
    OBVIOUS
  <2> QED
    BY <2>2, <2>3
<1>2. CASE j < Len(fields)
  <2>1. PICK t : t = SubSeq(fields, j + 2, Len(fields))
    OBVIOUS
  <2>2. PICK f : f = fields[j + 1]
    OBVIOUS
  <2>3. /\ f \in Fields /\ t \in Seq(Fields)
        /\ v = Joined(FieldImage[f], Images(FieldImage, t))
    <3>1. ImagesContinue(Fields, FormByte)
      BY ImagesDo
    <3> QED
      BY <1>2, <2>1, <2>2, <3>1, FieldImageType DEF ImagesContinue
  <2>4. PICK a \in Seq(SafeByte) : a = Encoded(f.key)
    BY <2>3, EncodedSafe DEF Fields
  <2>5. PICK b \in Seq(SafeByte) : b = Encoded(f.value)
    BY <2>3, EncodedSafe DEF Fields
  <2>6. PICK x \in Seq(FormByte) : x = FieldImage[f]
    BY <2>3, FieldImageType
  <2>7. Opened(x, a, b)
    BY <2>3, <2>4, <2>5, <2>6, FieldOpens
  <2>8. x[1] = "&" /\ Len(x) >= 2
    BY <2>7 DEF Opened
  <2>9. PICK y \in Seq(FormByte) : y = Images(FieldImage, t)
    BY <2>3, FieldImageType, ImagesType
  <2>10. /\ x \o y \in Seq(FormByte) /\ (x \o y)[1] = x[1]
         /\ Len(x \o y) \in Nat \ {0}
    BY ONLY <2>6, <2>8, <2>9
  <2> QED
    BY <2>3, <2>6, <2>8, <2>9, <2>10 DEF Joined
<1> QED
  BY <1>1, <1>2

\* w is the body with an "&" before it.
Behind(body, w) ==
    /\ body \in Seq(FormByte)
    /\ Len(w) = Len(body) + 1
    /\ \A k \in 1 .. Len(body) : w[k + 1] = body[k]

\* Where a round finds the key and the value of the field that begins at s in w.
LEMMA FieldPlaces ==
    ASSUME NEW body, NEW w, Behind(body, w), NEW x, NEW a \in Seq(SafeByte),
           NEW b \in Seq(SafeByte), Opened(x, a, b), NEW v, NEW s \in Nat \ {0}, Next2(w, s, x, v),
           Len(v) = 0 \/ (Len(v) \in Nat \ {0} /\ v[1] = "&")
    PROVE  /\ s <= Len(body)
           /\ Find(body, "=", s) = s + Len(a)
           /\ Find(body, "&", s) = ((s + Len(a)) + Len(b)) + 1
           /\ SubSeq(body, s, (s + Len(a)) - 1) = a
           /\ SubSeq(body, (s + Len(a)) + 1, (((s + Len(a)) + Len(b)) + 1) - 1) = b
           /\ s + Len(x) = (((s + Len(a)) + Len(b)) + 1) + 1
<1>1. PICK m \in Nat : m = Len(a)
  OBVIOUS
<1>2. PICK n \in Nat : n = Len(b)
  OBVIOUS
<1>3. PICK L \in Nat : L = Len(body)
  BY DEF Behind
<1>4. PICK h : h = (m + n) + 2
  OBVIOUS
<1>5. /\ Len(x) = h /\ h \in Nat
      /\ x[1] = "&" /\ x[m + 2] = "="
      /\ \A k \in 1 .. m : x[k + 1] = a[k]
      /\ \A k \in 1 .. n : x[(m + 2) + k] = b[k]
  BY <1>1, <1>2, <1>4 DEF Opened
<1>6. Len(w) = L + 1 /\ \A k \in 1 .. L : w[k + 1] = body[k]
  BY <1>3 DEF Behind
<1>7. /\ From(w, s + h, v) /\ (s - 1) + h <= L + 1
      /\ \A k \in 1 .. h : w[(s - 1) + k] = x[k]
  BY <1>5, <1>6 DEF Next2
<1>8. ((s + m) + n) + 1 <= L + 1 /\ s + m <= L /\ s <= L
  BY <1>4, <1>7
<1>9. ASSUME NEW k \in 1 .. m PROVE body[(s - 1) + k] = a[k]
  <2>1. /\ k + 1 \in 1 .. h /\ (s - 1) + k \in 1 .. L
        /\ ((s - 1) + k) + 1 = (s - 1) + (k + 1)
    BY <1>4, <1>8
  <2> QED
    BY <1>5, <1>6, <1>7, <2>1
<1>10. body[s + m] = "="
  <2>1. m + 2 \in 1 .. h /\ s + m \in 1 .. L /\ (s + m) + 1 = (s - 1) + (m + 2)
    BY <1>4, <1>8
  <2> QED
    BY <1>5, <1>6, <1>7, <2>1
<1>11. ASSUME NEW k \in 1 .. n PROVE body[(((s + m) + 1) - 1) + k] = b[k]
  <2>1. /\ (m + 2) + k \in 1 .. h /\ (s + m) + k \in 1 .. L
        /\ ((s + m) + k) + 1 = (s - 1) + ((m + 2) + k)
        /\ (((s + m) + 1) - 1) + k = (s + m) + k
    BY <1>4, <1>8
  <2> QED
    BY <1>5, <1>6, <1>7, <2>1
<1>12. ASSUME NEW k \in s .. (s + m) - 1 PROVE body[k] # "=" /\ body[k] # "&"
  <2>1. k - (s - 1) \in 1 .. m /\ (s - 1) + (k - (s - 1)) = k
    OBVIOUS
  <2>2. a[k - (s - 1)] \in SafeByte
    BY <1>1, <2>1
  <2> QED
    BY <1>9, <2>1, <2>2, SafeBytes
<1>13. ASSUME NEW k \in (s + m) + 1 .. (s + m) + n PROVE body[k] # "&"
  <2>1. k - (s + m) \in 1 .. n /\ (((s + m) + 1) - 1) + (k - (s + m)) = k
    OBVIOUS
  <2>2. b[k - (s + m)] \in SafeByte
    BY <1>2, <2>1
  <2> QED
    BY <1>11, <2>1, <2>2, SafeBytes
<1>14. Find(body, "=", s) = s + m
  <2>1. s + m \in s .. Len(body) /\ Len(body) \in Nat
    BY <1>3, <1>8
  <2> QED
    BY <1>10, <1>12, <2>1, FindFirst
<1>15. PICK e \in Nat : e = ((s + m) + n) + 1
  OBVIOUS
<1>16. ASSUME NEW k \in s .. e - 1 PROVE body[k] # "&"
  <2>1. k \in s .. (s + m) - 1 \/ k = s + m \/ k \in (s + m) + 1 .. (s + m) + n
    BY <1>15
  <2> QED
    BY <1>10, <1>12, <1>13, <2>1
<1>17. Find(body, "&", s) = e
  <2>1. (s + h) - 1 + Len(v) = L + 1
    BY <1>6, <1>7 DEF From
  <2>2. CASE Len(v) = 0
    <3>1. e = L + 1
      BY <1>4, <1>15, <2>1, <2>2
    <3>2. e = Len(body) + 1 /\ e - 1 = Len(body)
      BY <1>3, <3>1
    <3> QED
      BY <1>16, <3>2, FindNone
  <2>3. CASE Len(v) \in Nat \ {0} /\ v[1] = "&"
    <3>1. e \in 1 .. L /\ e + 1 = ((s + h) - 1) + 1 /\ 1 \in 1 .. Len(v)
      BY <1>4, <1>15, <2>1, <2>3
    <3>2. w[((s + h) - 1) + 1] = v[1]
      BY <1>7, <3>1 DEF From
    <3>3. body[e] = "&"
      BY <1>6, <2>3, <3>1, <3>2
    <3>4. e \in s .. Len(body) /\ Len(body) \in Nat
      BY <1>3, <1>15, <3>1
    <3> QED
      BY <1>16, <3>3, <3>4, FindFirst
  <2> QED
    BY <2>2, <2>3
<1>18. SubSeq(body, s, (s - 1) + m) = a /\ (s - 1) + m = (s + m) - 1
  <2>1. (s - 1) + Len(a) <= Len(body) /\ (s - 1) + m = (s + m) - 1
    BY <1>1, <1>3, <1>8
  <2>2. body \in Seq(FormByte)
    BY DEF Behind
  <2>3. a \in Seq(FormByte)
    BY SafeBytes
  <2>4. \A k \in 1 .. Len(a) : body[(s - 1) + k] = a[k]
    BY <1>1, <1>9
  <2>5. SubSeq(body, s, (s - 1) + Len(a)) = a
    BY ONLY <2>1, <2>2, <2>3, <2>4, s \in Nat \ {0}, Between
  <2> QED
    BY <1>1, <2>1, <2>5
<1>19. SubSeq(body, (s + m) + 1, (((s + m) + 1) - 1) + n) = b /\ (((s + m) + 1) - 1) + n = e - 1
  <2>1. (((s + m) + 1) - 1) + Len(b) <= Len(body) /\ (s + m) + 1 \in Nat \ {0}
    BY <1>2, <1>3, <1>8
  <2>2. body \in Seq(FormByte)
    BY DEF Behind
  <2>3. b \in Seq(FormByte)
    BY SafeBytes
  <2>4. SubSeq(body, (s + m) + 1, (((s + m) + 1) - 1) + Len(b)) = b
    <3>1. PICK p \in Nat \ {0} : p = (s + m) + 1
      BY <2>1
    <3>2. (p - 1) + Len(b) <= Len(body) /\ \A k \in 1 .. Len(b) : body[(p - 1) + k] = b[k]
      BY <1>2, <1>11, <2>1, <3>1
    <3>3. SubSeq(body, p, (p - 1) + Len(b)) = b
      BY ONLY <2>2, <2>3, <3>2, p \in Nat \ {0}, Between
    <3> QED
      BY <3>1, <3>3
  <2> QED
    BY <1>2, <1>15, <2>4
<1>20. s + h = e + 1
  BY <1>4, <1>15
<1> QED
  BY <1>1, <1>2, <1>3, <1>5, <1>8, <1>14, <1>15, <1>17, <1>18, <1>19, <1>20

\* After j rounds j fields are in post_ and the others follow.
FieldsTo(fields, w, j, loop) ==
    /\ From(w, loop.start, Images(FieldImage, SubSeq(fields, j + 1, Len(fields))))
    /\ loop.start >= j + 1
    /\ \A i \in 1 .. j :
          fields[i].key \in DOMAIN loop.post /\ loop.post[fields[i].key] = fields[i].value

\* No key comes twice.
Distinct(fields) == \A i, j \in DOMAIN fields : fields[i].key = fields[j].key => i = j

LEMMA FieldOne ==
    ASSUME NEW fields \in Seq(Fields), Distinct(fields), NEW body, NEW w, Behind(body, w),
           NEW j \in Nat, j < Len(fields), NEW loop, FieldsTo(fields, w, j, loop)
    PROVE  /\ j + 1 <= Len(body)
           /\ FieldsTo(fields, w, j + 1, FieldRound(body, loop))
<1>1. PICK f \in Fields : f = fields[j + 1]
  <2>1. j + 1 \in 1 .. Len(fields)
    OBVIOUS
  <2> QED
    BY <2>1
<1>2. f.key \in Seq(DOMAIN CodeOf) /\ f.value \in Seq(DOMAIN CodeOf)
  BY DEF Fields
<1>3. PICK a \in Seq(SafeByte) : a = Encoded(f.key)
  BY <1>2, EncodedSafe
<1>4. PICK b \in Seq(SafeByte) : b = Encoded(f.value)
  BY <1>2, EncodedSafe
<1>5. PICK x \in Seq(FormByte) : x = FieldImage[f] /\ Opened(x, a, b)
  BY <1>3, <1>4, FieldImageType, FieldOpens
<1>6. PICK v \in Seq(FormByte) :
         /\ v = Images(FieldImage, SubSeq(fields, (j + 1) + 1, Len(fields)))
         /\ Len(v) = 0 \/ (Len(v) \in Nat \ {0} /\ v[1] = "&")
  <2>1. j + 1 \in Nat /\ j + 1 <= Len(fields)
    OBVIOUS
  <2> QED
    BY <2>1, FieldsOpen
<1>7. From(w, loop.start, Joined(x, v))
  <2>1. j + 2 = (j + 1) + 1
    OBVIOUS
  <2>2. Images(FieldImage, SubSeq(fields, j + 1, Len(fields)))
           = Joined(FieldImage[fields[j + 1]],
                    Images(FieldImage, SubSeq(fields, j + 2, Len(fields))))
    <3>1. ImagesContinue(Fields, FormByte)
      BY ImagesDo
    <3> QED
      BY <3>1, FieldImageType DEF ImagesContinue
  <2>3. Images(FieldImage, SubSeq(fields, j + 1, Len(fields))) = Joined(x, v)
    BY <1>1, <1>5, <1>6, <2>1, <2>2
  <2> QED
    BY <2>3 DEF FieldsTo
<1>8. PICK s \in Nat \ {0} : s = loop.start /\ s >= j + 1
  BY <1>7 DEF From, FieldsTo
<1>9. Next2(w, s, x, v)
  BY <1>7, <1>8, FromPasses
<1>10. PICK m \in Nat : m = Len(a)
  OBVIOUS
<1>11. PICK n \in Nat : n = Len(b)
  OBVIOUS
<1>12. PICK e \in Nat : e = ((s + m) + n) + 1
  OBVIOUS
<1>13. /\ s <= Len(body) /\ Find(body, "=", s) = s + m /\ Find(body, "&", s) = e
       /\ SubSeq(body, s, (s + m) - 1) = a /\ SubSeq(body, (s + m) + 1, e - 1) = b
       /\ s + Len(x) = e + 1
  <2>1. /\ s <= Len(body) /\ Find(body, "=", s) = s + Len(a)
        /\ Find(body, "&", s) = ((s + Len(a)) + Len(b)) + 1
        /\ SubSeq(body, s, (s + Len(a)) - 1) = a
        /\ SubSeq(body, (s + Len(a)) + 1, (((s + Len(a)) + Len(b)) + 1) - 1) = b
        /\ s + Len(x) = (((s + Len(a)) + Len(b)) + 1) + 1
    <3>1. Opened(x, a, b) /\ (Len(v) = 0 \/ (Len(v) \in Nat \ {0} /\ v[1] = "&"))
      BY <1>5, <1>6
    <3> QED
      BY ONLY <1>9, <3>1, Behind(body, w), a \in Seq(SafeByte), b \in Seq(SafeByte),
         s \in Nat \ {0}, FieldPlaces
  <2> QED
    BY ONLY <1>10, <1>11, <1>12, <2>1
<1>14. urlDecode(a) = f.key /\ urlDecode(b) = f.value
  BY <1>2, <1>3, <1>4, DecodesAll
<1>15. PICK L \in Nat : L = Len(body)
  BY DEF Behind
<1>16. ~ (s > L) /\ ~ (s + m >= e) /\ j + 1 <= L /\ e + 1 >= (j + 1) + 1
  <2>1. s <= L
    BY <1>13, <1>15
  <2>2. s >= j + 1
    BY <1>8
  <2>3. e = ((s + m) + n) + 1
    BY <1>12
  <2>4. ~ (s > L)
    BY ONLY <2>1, L \in Nat, s \in Nat \ {0}
  <2>5. ~ (s + m >= e)
    BY ONLY <2>3, m \in Nat, n \in Nat, e \in Nat, s \in Nat \ {0}
  <2>6. j + 1 <= L
    BY ONLY <2>1, <2>2, L \in Nat, j \in Nat, s \in Nat \ {0}
  <2>7. e + 1 >= (j + 1) + 1
    BY ONLY <2>2, <2>3, m \in Nat, n \in Nat, j \in Nat, e \in Nat, s \in Nat \ {0}
  <2> QED
    BY <2>4, <2>5, <2>6, <2>7
<1>17. PICK q : q = With(loop.post, f.key, f.value)
  OBVIOUS
<1>18. PICK g : g = FieldRound(body, loop)
  OBVIOUS
<1>19. g = [start |-> e + 1, post |-> q]
  <2>1. /\ loop.start = s /\ ~ (s > Len(body)) /\ ~ (s + m >= e)
        /\ Find(body, "=", s) = s + m /\ Find(body, "&", s) = e
    BY <1>8, <1>13, <1>15, <1>16
  <2>2. /\ urlDecode(SubSeq(body, s, (s + m) - 1)) = f.key
        /\ urlDecode(SubSeq(body, (s + m) + 1, e - 1)) = f.value
    BY <1>13, <1>14
  <2>3. PICK k : k = f.key
    OBVIOUS
  <2>4. PICK l : l = f.value
    OBVIOUS
  <2>5. FieldRound(body, loop) = [start |-> e + 1, post |-> With(loop.post, k, l)]
    BY ONLY <2>1, <2>2, <2>3, <2>4 DEF FieldRound
  <2> QED
    BY <1>17, <1>18, <2>3, <2>4, <2>5
<1>20. g.start = e + 1 /\ g.post = q
  BY <1>19
<1>21. ASSUME NEW i \in 1 .. j + 1
       PROVE  fields[i].key \in DOMAIN q /\ q[fields[i].key] = fields[i].value
  <2>1. CASE i = j + 1
    BY <1>1, <1>17, <2>1, WithIs
  <2>2. CASE i # j + 1
    <3>1. i \in 1 .. j /\ i \in DOMAIN fields /\ j + 1 \in DOMAIN fields
      BY <2>2
    <3>2. fields[i].key # f.key
      BY <1>1, <2>2, <3>1 DEF Distinct
    <3>3. fields[i].key \in DOMAIN loop.post /\ loop.post[fields[i].key] = fields[i].value
      BY <3>1 DEF FieldsTo
    <3> QED
      BY <1>17, <3>2, <3>3, WithIs
  <2> QED
    BY <2>1, <2>2
<1>22. FieldsTo(fields, w, j + 1, g)
  <2>1. From(w, g.start, v)
    BY <1>9, <1>13, <1>20 DEF Next2
  <2> QED
    BY <1>6, <1>16, <1>20, <1>21, <2>1 DEF FieldsTo
<1> QED
  BY <1>15, <1>16, <1>18, <1>22

LEMMA FieldsEnd ==
    ASSUME NEW body, Len(body) \in Nat, NEW after, FieldRounds(body, Len(body), after),
           NEW k \in 0 .. Len(body), after[k].start > Len(body)
    PROVE  after[Len(body)] = after[k]
<1> DEFINE T == {n \in Nat : k + n <= Len(body) => after[k + n] = after[k]}
<1>1. 0 \in T
  OBVIOUS
<1>2. ASSUME NEW n \in Nat, n \in T PROVE n + 1 \in T
  <2> SUFFICES ASSUME k + (n + 1) <= Len(body) PROVE after[k + (n + 1)] = after[k]
    OBVIOUS
  <2>1. after[k + n] = after[k] /\ k + (n + 1) \in 1 .. Len(body) /\ (k + (n + 1)) - 1 = k + n
    BY <1>2
  <2>2. after[k + (n + 1)] = FieldRound(body, after[k + n])
    BY <2>1 DEF FieldRounds
  <2> QED
    BY <2>1, <2>2 DEF FieldRound
<1> HIDE DEF T
<1>3. \A n \in 0 .. Len(body) - k : n \in T
  <2>1. Len(body) - k \in Nat
    OBVIOUS
  <2> QED
    BY <1>1, <1>2, <2>1, Induction
<1>4. Len(body) - k \in T /\ Len(body) - k \in Nat /\ k + (Len(body) - k) = Len(body)
  BY <1>3
<1> QED
  BY <1>4 DEF T

\* Every field is in the map that is made of a form, with its value.
Entered(fields, post) ==
    \A i \in DOMAIN fields :
        fields[i].key \in DOMAIN post /\ post[fields[i].key] = fields[i].value

LEMMA FormIsRead ==
    ASSUME NEW fields \in Seq(Fields), fields # <<>>, Distinct(fields)
    PROVE  Entered(fields, ParseFromUrlencoded_(FormBody(fields)))
<1>1. PICK w \in Seq(FormByte) : w = Images(FieldImage, fields) /\ Len(w) >= 2
  BY FormBodyIs
<1>2. PICK body \in Seq(FormByte) : body = FormBody(fields) /\ body = Tail(w)
  BY <1>1, FormBodyIs
<1>3. Behind(body, w)
  <2>1. w # <<>>
    BY <1>1
  <2>2. Len(Tail(w)) = Len(w) - 1 /\ \A k \in 1 .. Len(Tail(w)) : Tail(w)[k] = w[k + 1]
    BY ONLY <1>1, <2>1
  <2> QED
    BY <1>1, <1>2, <2>2 DEF Behind
<1>4. PICK N \in Nat : N = Len(fields)
  OBVIOUS
<1>5. Len(body) \in Nat
  OBVIOUS
<1>6. PICK after : /\ FieldRounds(body, Len(body), after)
                   /\ ParseFromUrlencoded_(body) = after[Len(body)].post
  BY <1>5, FieldIs
<1> DEFINE T == {j \in Nat : j <= Len(body) /\ FieldsTo(fields, w, j, after[j])}
<1>7. 0 \in T
  <2>1. SubSeq(fields, 0 + 1, Len(fields)) = fields
    OBVIOUS
  <2>2. w = Images(FieldImage, SubSeq(fields, 0 + 1, Len(fields)))
    BY <1>1, <2>1
  <2>3. From(w, 1, w)
    BY <1>1 DEF From
  <2>4. after[0].start = 1
    BY <1>6 DEF FieldRounds, NoFields
  <2>5. FieldsTo(fields, w, 0, after[0])
    BY <2>2, <2>3, <2>4 DEF FieldsTo
  <2> QED
    BY <1>5, <2>5
<1>8. ASSUME NEW j \in Nat, j \in T, j < N PROVE j + 1 \in T
  <2>1. FieldsTo(fields, w, j, after[j]) /\ j < Len(fields)
    BY <1>4, <1>8
  <2>2. j + 1 <= Len(body) /\ FieldsTo(fields, w, j + 1, FieldRound(body, after[j]))
    BY <1>3, <2>1, FieldOne
  <2>3. j + 1 \in 1 .. Len(body) /\ (j + 1) - 1 = j
    BY <1>5, <2>2
  <2>4. after[j + 1] = FieldRound(body, after[j])
    BY <1>6, <2>3 DEF FieldRounds
  <2> QED
    BY <2>2, <2>4
<1> HIDE DEF T
<1>9. N \in T
  <2>1. \A j \in 0 .. N : j \in T
    BY <1>7, <1>8, Induction
  <2> QED
    BY <2>1
<1>10. N <= Len(body) /\ FieldsTo(fields, w, N, after[N])
  BY <1>9 DEF T
<1>11. after[N].start > Len(body)
  <2>1. SubSeq(fields, N + 1, Len(fields)) = <<>>
    BY <1>4
  <2>2. From(w, after[N].start, <<>>)
    BY <1>10, <2>1, ImagesNone DEF FieldsTo
  <2>3. Len(<<>>) = 0 /\ Len(w) = Len(body) + 1
    BY <1>3 DEF Behind
  <2> QED
    BY <1>5, <2>2, <2>3 DEF From
<1>12. after[Len(body)] = after[N]
  BY <1>5, <1>6, <1>10, <1>11, FieldsEnd
<1>13. Entered(fields, after[N].post)
  <2>1. DOMAIN fields = 1 .. N
    BY <1>4
  <2> QED
    BY <1>10, <2>1 DEF FieldsTo, Entered
<1> QED
  BY <1>2, <1>6, <1>12, <1>13

\* Asking for a field that is there changes nothing.
LEMMA AskedKeeps ==
    ASSUME NEW fields, NEW post, Entered(fields, post)
    PROVE  Entered(fields, Asked(post))
  BY DEF Entered, Asked

----------------------------------------------------------------------------
----------------------------------------------------------------------------
(* The response.                                                           *)

ResponseMembers == {"code_", "path_", "isKeepAlive_", "mmFile_", "mmFileStat_", "is_js_",
                    "is_js_success_", "is_download_", "granted"}

\* What Init leaves: nothing of the last response.
Begun(r) ==
    /\ DOMAIN r = ResponseMembers
    /\ r.code_ = Unset /\ r.mmFile_ = NoFile /\ r.mmFileStat_ = NoFile

LEMMA InitBegins ==
    ASSUME NEW x, NEW path, NEW ka, NEW js, NEW ok, NEW dl, NEW g,
           NEW r, r = InitResponse(x, path, ka, js, ok, dl, g)
    PROVE  Begun(r) /\ r.path_ = path /\ r.is_js_ = js /\ r.granted = g
  BY DEF InitResponse, Begun, ResponseMembers

LEMMA JudgedIs ==
    ASSUME NEW r, Begun(r), NEW j, j = Judged(r)
    PROVE  /\ DOMAIN j = ResponseMembers
           /\ j.code_ = CodeFor(r.path_) /\ j.mmFileStat_ = Stat(r.path_, NoFile)
           /\ j.path_ = r.path_ /\ j.mmFile_ = NoFile /\ j.is_js_ = r.is_js_
           /\ j.granted = r.granted
<1>1. PICK c : c = CodeFor(r.path_)
  OBVIOUS
<1>2. PICK f : f = Stat(r.path_, NoFile)
  OBVIOUS
<1>3. /\ DOMAIN r = ResponseMembers
      /\ r.code_ = Unset /\ r.mmFile_ = NoFile /\ r.mmFileStat_ = NoFile
  BY DEF Begun
<1>4. (IF ~(r.path_ \in DOMAIN Files) \/ ((r.path_ \in DOMAIN Files) /\ Files[r.path_].dir) THEN 404
       ELSE IF ~Files[r.path_].others THEN 403
       ELSE IF r.code_ = Unset THEN 200 ELSE r.code_) = c
  BY <1>1, <1>3 DEF CodeFor, Missing
<1>5. j = [r EXCEPT !.mmFileStat_ = f, !.code_ = c]
  BY <1>2, <1>3, <1>4 DEF Judged
<1>6. /\ DOMAIN j = ResponseMembers /\ j.code_ = c /\ j.mmFileStat_ = f
      /\ j.path_ = r.path_ /\ j.mmFile_ = r.mmFile_ /\ j.is_js_ = r.is_js_
      /\ j.granted = r.granted
  BY ONLY <1>3, <1>5 DEF ResponseMembers
<1> QED
  BY <1>1, <1>2, <1>3, <1>6

LEMMA ErrorPages ==
    /\ "/403.html" \in DOMAIN Files /\ Files["/403.html"].size > 0
    /\ "/404.html" \in DOMAIN Files /\ Files["/404.html"].size > 0
    /\ CODE_PATH(403) = "/403.html" /\ CODE_PATH(404) = "/404.html"
  BY FilesAssumption DEF CODE_PATH

LEMMA SentIs ==
    ASSUME NEW path
    PROVE  /\ SentFor(path) \in DOMAIN Files /\ SentFor(path) # NoFile
           /\ CodeFor(path) \in {200, 403, 404}
           /\ CodeFor(path) = 200 => path \in DOMAIN Files
           /\ Missing(path) => CodeFor(path) = 404 /\ SentFor(path) = "/404.html"
           /\ ~Missing(path) /\ ~Files[path].others
                 => CodeFor(path) = 403 /\ SentFor(path) = "/403.html"
           /\ ~Missing(path) /\ Files[path].others => CodeFor(path) = 200 /\ SentFor(path) = path
<1>1. CASE Missing(path)
  BY <1>1, ErrorPages, FilesAssumption DEF CodeFor, SentFor
<1>2. CASE ~Missing(path) /\ ~Files[path].others
  BY <1>2, ErrorPages, FilesAssumption DEF CodeFor, SentFor
<1>3. CASE ~Missing(path) /\ Files[path].others
  BY <1>3, ErrorPages, FilesAssumption DEF CodeFor, SentFor, Missing
<1> QED
  BY <1>1, <1>2, <1>3

\* MakeResponse stats, and maps, the file that it sends.
LEMMA MadeIs ==
    ASSUME NEW r, Begun(r), NEW m, m = Made(r)
    PROVE  /\ m.code_ = CodeFor(r.path_)
           /\ m.path_ = SentFor(r.path_) /\ m.mmFileStat_ = m.path_
           /\ m.is_js_ = r.is_js_ /\ m.granted = r.granted
           /\ m.mmFile_ = IF Maps(m) THEN m.path_ ELSE NoFile
           /\ Opens(m) <=> ~r.is_js_ /\ r.granted
           /\ Maps(m) <=> ~r.is_js_ /\ r.granted /\ Files[SentFor(r.path_)].size > 0
<1>1. PICK j : j = Judged(r)
  OBVIOUS
<1>2. /\ DOMAIN j = ResponseMembers
      /\ j.code_ = CodeFor(r.path_) /\ j.mmFileStat_ = Stat(r.path_, NoFile)
      /\ j.path_ = r.path_ /\ j.mmFile_ = NoFile /\ j.is_js_ = r.is_js_
      /\ j.granted = r.granted
  BY <1>1, JudgedIs
<1>3. PICK e : e = ErrorHtml_(j)
  OBVIOUS
<1>4. /\ DOMAIN e = ResponseMembers
      /\ e.code_ = CodeFor(r.path_) /\ e.mmFileStat_ = SentFor(r.path_)
      /\ e.path_ = SentFor(r.path_) /\ e.mmFile_ = NoFile /\ e.is_js_ = r.is_js_
      /\ e.granted = r.granted
  <2>1. CASE CodeFor(r.path_) = 200
    <3>1. e = j
      BY <1>2, <1>3, <2>1 DEF ErrorHtml_
    <3>2. r.path_ \in DOMAIN Files
      BY <2>1, SentIs
    <3>3. Stat(r.path_, NoFile) = r.path_ /\ SentFor(r.path_) = r.path_
      BY <2>1, <3>2 DEF Stat, SentFor
    <3> QED
      BY <1>2, <3>1, <3>3
  <2>2. CASE CodeFor(r.path_) # 200
    <3>1. PICK c : c = CODE_PATH(j.code_)
      OBVIOUS
    <3>2. c = SentFor(r.path_) /\ c \in DOMAIN Files
      BY <1>2, <2>2, <3>1, SentIs DEF SentFor
    <3>3. j.code_ \in {400, 403, 404}
      BY <1>2, <2>2, SentIs
    <3>4. e = [j EXCEPT !.path_ = c, !.mmFileStat_ = Stat(c, j.mmFileStat_)]
      BY <1>3, <3>1, <3>3 DEF ErrorHtml_
    <3>5. Stat(c, j.mmFileStat_) = c
      BY <3>2 DEF Stat
    <3>6. e = [j EXCEPT !.path_ = c, !.mmFileStat_ = c]
      BY <3>4, <3>5
    <3>7. /\ DOMAIN e = ResponseMembers /\ e.code_ = j.code_ /\ e.mmFileStat_ = c
          /\ e.path_ = c /\ e.mmFile_ = j.mmFile_ /\ e.is_js_ = j.is_js_
          /\ e.granted = j.granted
      BY ONLY <1>2, <3>6 DEF ResponseMembers
    <3> QED
      BY <1>2, <3>2, <3>7
  <2> QED
    BY <2>1, <2>2
<1>5. PICK f : f = IF Maps(e) THEN e.path_ ELSE NoFile
  OBVIOUS
<1>6. m = [e EXCEPT !.mmFile_ = f]
  BY <1>1, <1>3, <1>4, <1>5 DEF Made
<1>7. /\ m.code_ = e.code_ /\ m.mmFileStat_ = e.mmFileStat_ /\ m.path_ = e.path_
      /\ m.mmFile_ = f /\ m.is_js_ = e.is_js_ /\ m.granted = e.granted
  BY ONLY <1>4, <1>6 DEF ResponseMembers
<1>8. Opens(m) <=> ~r.is_js_ /\ r.granted
  BY <1>4, <1>7, SentIs DEF Opens
<1>9. Maps(m) <=> ~r.is_js_ /\ r.granted /\ Files[SentFor(r.path_)].size > 0
  BY <1>4, <1>7, <1>8, SentIs DEF Maps
<1>10. Maps(m) <=> Maps(e)
  BY <1>7 DEF Maps, Opens
<1> QED
  BY <1>4, <1>5, <1>7, <1>8, <1>9, <1>10

\* What is sent for a path: a message in place of a file that cannot be opened, or
\* not be mapped.
BodyFor(path, granted) ==
    IF ~granted THEN <<"FileFound!">>
    ELSE IF Files[SentFor(path)].size = 0 THEN <<"File NotFound!">>
    ELSE <<SentFor(path)>>

\* The length that is stated is that of what is sent.
LEMMA WrittenIs ==
    ASSUME NEW r, Begun(r), NEW m, m = Made(r)
    PROVE  /\ Written(m).body = <<Written(m).stated>>
           /\ Written(m).code = CodeFor(r.path_)
           /\ ~r.is_js_ => Written(m).body = BodyFor(r.path_, r.granted)
<1>1. /\ m.code_ = CodeFor(r.path_)
      /\ m.path_ = SentFor(r.path_) /\ m.mmFileStat_ = m.path_
      /\ m.mmFile_ = IF Maps(m) THEN m.path_ ELSE NoFile
      /\ Opens(m) <=> ~r.is_js_ /\ r.granted
      /\ Maps(m) <=> ~r.is_js_ /\ r.granted /\ Files[SentFor(r.path_)].size > 0
      /\ m.is_js_ = r.is_js_
  BY MadeIs
<1>2. m.path_ # NoFile
  BY <1>1, SentIs
<1>3. /\ Written(m).code = m.code_
      /\ Written(m).stated = IF Maps(m) THEN m.mmFileStat_ ELSE Message(m)
      /\ Written(m).body = (IF Maps(m) THEN <<>> ELSE <<Message(m)>>)
                               \o (IF m.mmFile_ # NoFile THEN <<m.mmFile_>> ELSE <<>>)
  BY DEF Written
<1>4. CASE Maps(m)
  <2>1. <<>> \o <<m.path_>> = <<m.path_>>
    OBVIOUS
  <2>2. Written(m).body = <<>> \o <<m.path_>>
    BY <1>1, <1>2, <1>3, <1>4
  <2>3. Written(m).body = <<SentFor(r.path_)>> /\ Written(m).stated = SentFor(r.path_)
    BY <1>1, <1>3, <1>4, <2>1, <2>2
  <2>4. r.granted /\ Files[SentFor(r.path_)].size # 0
    BY <1>1, <1>4
  <2> QED
    BY <1>1, <1>3, <2>3, <2>4 DEF BodyFor
<1>5. CASE ~Maps(m)
  <2>1. <<Message(m)>> \o <<>> = <<Message(m)>>
    OBVIOUS
  <2>2. Written(m).body = <<Message(m)>> \o <<>>
    BY <1>1, <1>3, <1>5
  <2>3. Written(m).body = <<Message(m)>> /\ Written(m).stated = Message(m)
    BY <1>3, <1>5, <2>1, <2>2
  <2>4. ~r.is_js_ => Message(m) = IF r.granted THEN "File NotFound!" ELSE "FileFound!"
    BY <1>1 DEF Message
  <2>5. ~r.is_js_ /\ r.granted => Files[SentFor(r.path_)].size = 0
    <3>1. Files[SentFor(r.path_)].size \in Nat
      BY SentIs, FilesAssumption
    <3> QED
      BY <1>1, <1>5, <3>1
  <2> QED
    BY <1>1, <1>3, <2>3, <2>4, <2>5 DEF BodyFor
<1> QED
  BY <1>4, <1>5
----------------------------------------------------------------------------
(* The stream of requests.                                                 *)

StreamOf(rs, n) == FlattenSeq([i \in 1 .. n |-> Wire(rs[i])])

LEMMA StreamParts ==
    ASSUME NEW rs \in Seq(Menu), NEW n \in Nat, n <= Len(rs)
    PROVE  [i \in 1 .. n |-> Wire(rs[i])] \in Seq(Seq(Octet))
<1>1. ASSUME NEW i \in 1 .. n PROVE Wire(rs[i]) \in Seq(Octet)
  <2>1. i \in 1 .. Len(rs)
    OBVIOUS
  <2>2. rs[i] \in Menu
    BY <2>1
  <2> QED
    BY <2>2, WireIs
<1>2. [i \in 1 .. n |-> Wire(rs[i])] \in [1 .. n -> Seq(Octet)]
  BY <1>1
<1> QED
  BY <1>2

LEMMA StreamType ==
    ASSUME NEW rs \in Seq(Menu), NEW n \in Nat, n <= Len(rs)
    PROVE  StreamOf(rs, n) \in Seq(Octet) /\ Len(StreamOf(rs, n)) \in Nat
<1>1. PICK ss : ss = [i \in 1 .. n |-> Wire(rs[i])]
  OBVIOUS
<1>2. ss \in Seq(Seq(Octet))
  BY <1>1, StreamParts
<1>3. FlattenSeq(ss) \in Seq(Octet)
  BY <1>2, FlattenIsSeq
<1>4. StreamOf(rs, n) = FlattenSeq(ss)
  BY <1>1 DEF StreamOf
<1> QED
  BY <1>3, <1>4

LEMMA StreamBegins == ASSUME NEW rs PROVE StreamOf(rs, 0) = <<>> /\ Len(StreamOf(rs, 0)) = 0
<1>1. [i \in 1 .. 0 |-> Wire(rs[i])] = <<>>
  OBVIOUS
<1>2. StreamOf(rs, 0) = <<>>
  BY <1>1, FlattenNone DEF StreamOf
<1>3. Len(<<>>) = 0
  OBVIOUS
<1> QED
  BY <1>2, <1>3

LEMMA StreamNext ==
    ASSUME NEW rs \in Seq(Menu), NEW n \in Nat, n < Len(rs)
    PROVE  /\ rs[n + 1] \in Menu
           /\ StreamOf(rs, n + 1) = Joined(StreamOf(rs, n), Wire(rs[n + 1]))
           /\ Len(StreamOf(rs, n + 1)) = Len(StreamOf(rs, n)) + Len(Wire(rs[n + 1]))
<1>1. PICK u : u = [i \in 1 .. n |-> Wire(rs[i])]
  OBVIOUS
<1>2. PICK v : v = [i \in 1 .. n + 1 |-> Wire(rs[i])]
  OBVIOUS
<1>3. n + 1 \in 1 .. Len(rs) /\ rs[n + 1] \in Menu
  <2>1. Len(rs) \in Nat /\ n + 1 \in 1 .. Len(rs)
    OBVIOUS
  <2> QED
    BY <2>1
<1>4. PICK w \in Seq(Octet) : w = Wire(rs[n + 1])
  BY <1>3, WireIs
<1>5. u \in Seq(Seq(Octet)) /\ v \in Seq(Seq(Octet))
  <2>1. n <= Len(rs) /\ n + 1 \in Nat /\ n + 1 <= Len(rs)
    BY <1>3
  <2>2. u \in Seq(Seq(Octet))
    BY <1>1, <2>1, StreamParts
  <2>3. v \in Seq(Seq(Octet))
    BY <1>2, <2>1, StreamParts
  <2> QED
    BY <2>2, <2>3
<1>6. Len(u) = n /\ Len(v) = n + 1
  <2>1. DOMAIN u = 1 .. n /\ DOMAIN v = 1 .. n + 1 /\ n + 1 \in Nat
    BY <1>1, <1>2
  <2> QED
    BY <1>5, <2>1
<1>7. v = Append(u, w)
  <2>1. /\ Append(u, w) \in Seq(Seq(Octet)) /\ Len(Append(u, w)) = Len(u) + 1
        /\ Append(u, w)[Len(u) + 1] = w
        /\ \A i \in 1 .. Len(u) : Append(u, w)[i] = u[i]
    BY ONLY <1>5, w \in Seq(Octet)
  <2>2. Len(v) = Len(Append(u, w))
    BY <1>6, <2>1
  <2>3. ASSUME NEW i \in 1 .. Len(v) PROVE v[i] = Append(u, w)[i]
    <3>1. v[i] = Wire(rs[i])
      BY <1>2, <1>6
    <3>2. CASE i = n + 1
      BY <1>4, <1>6, <2>1, <3>1, <3>2
    <3>3. CASE i # n + 1
      <4>1. i \in 1 .. n
        BY <1>6, <3>3
      <4>2. u[i] = Wire(rs[i])
        BY <1>1, <4>1
      <4> QED
        BY <1>6, <2>1, <3>1, <4>1, <4>2
    <3> QED
      BY <3>2, <3>3
  <2> QED
    BY <1>5, <2>1, <2>2, <2>3, SeqEqual
<1>8. PICK s \in Seq(Octet) : s = FlattenSeq(u)
  BY <1>5, FlattenIsSeq
<1>9. FlattenSeq(v) = s \o w
  BY <1>5, <1>7, <1>8, FlattenLast
<1>10. StreamOf(rs, n) = s /\ StreamOf(rs, n + 1) = Joined(s, w)
  BY <1>1, <1>2, <1>8, <1>9 DEF StreamOf, Joined
<1>11. Len(Joined(s, w)) = Len(s) + Len(w)
  BY JoinedType
<1> QED
  BY <1>3, <1>4, <1>10, <1>11

\* Each request makes the stream longer.
LEMMA StreamGrows ==
    ASSUME NEW rs \in Seq(Menu), NEW a \in 0 .. Len(rs), NEW b \in 0 .. Len(rs), a < b
    PROVE  Len(StreamOf(rs, a)) < Len(StreamOf(rs, b))
<1>1. Len(rs) \in Nat
  OBVIOUS
<1> DEFINE T == {d \in Nat : a + d + 1 <= Len(rs)
                                => Len(StreamOf(rs, a)) < Len(StreamOf(rs, a + d + 1))}
<1>2. ASSUME NEW n \in Nat, n < Len(rs)
      PROVE  /\ Len(StreamOf(rs, n)) \in Nat /\ Len(StreamOf(rs, n + 1)) \in Nat
             /\ Len(StreamOf(rs, n)) < Len(StreamOf(rs, n + 1))
  <2>1. /\ rs[n + 1] \in Menu
        /\ Len(StreamOf(rs, n + 1)) = Len(StreamOf(rs, n)) + Len(Wire(rs[n + 1]))
    BY <1>2, StreamNext
  <2>2. Len(Wire(rs[n + 1])) \in Nat /\ Len(Wire(rs[n + 1])) >= 3
    BY <2>1, WireIs
  <2>3. Len(StreamOf(rs, n)) \in Nat
    BY <1>1, <1>2, StreamType
  <2> QED
    BY <2>1, <2>2, <2>3
<1>3. 0 \in T
  <2> SUFFICES ASSUME a + 0 + 1 <= Len(rs)
               PROVE  Len(StreamOf(rs, a)) < Len(StreamOf(rs, a + 0 + 1))
    OBVIOUS
  <2>1. a \in Nat /\ a < Len(rs) /\ a + 0 + 1 = a + 1
    BY <1>1
  <2> QED
    BY <1>2, <2>1
<1>4. ASSUME NEW d \in Nat, d \in T PROVE d + 1 \in T
  <2> SUFFICES ASSUME a + (d + 1) + 1 <= Len(rs)
               PROVE  Len(StreamOf(rs, a)) < Len(StreamOf(rs, a + (d + 1) + 1))
    OBVIOUS
  <2>1. PICK n \in Nat : n = a + d + 1
    OBVIOUS
  <2>2. n < Len(rs) /\ n <= Len(rs) /\ n + 1 = a + (d + 1) + 1
    BY <1>1, <2>1
  <2>3. Len(StreamOf(rs, a)) < Len(StreamOf(rs, n))
    BY <1>4, <2>1, <2>2
  <2>4. /\ Len(StreamOf(rs, n)) \in Nat /\ Len(StreamOf(rs, n + 1)) \in Nat
        /\ Len(StreamOf(rs, n)) < Len(StreamOf(rs, n + 1))
    BY <1>2, <2>2
  <2>5. Len(StreamOf(rs, a)) \in Nat
    <3>1. a \in Nat /\ a <= Len(rs)
      BY <1>1
    <3> QED
      BY <3>1, StreamType
  <2>6. Len(StreamOf(rs, a)) < Len(StreamOf(rs, n + 1))
    BY ONLY <2>3, <2>4, <2>5
  <2> QED
    BY <2>2, <2>6
<1>5. PICK d \in Nat : a + d + 1 = b
  <2>1. (b - a) - 1 \in Nat /\ a + ((b - a) - 1) + 1 = b
    BY <1>1
  <2> QED
    BY <2>1
<1>6. d \in T
  <2> HIDE DEF T
  <2>1. \A k \in 0 .. d : k \in T
    BY <1>3, <1>4, Induction
  <2>2. d \in 0 .. d
    OBVIOUS
  <2> QED
    BY <2>1, <2>2
<1>7. b <= Len(rs)
  BY <1>1
<1> QED
  BY <1>5, <1>6, <1>7
----------------------------------------------------------------------------
(* Whole requests, each after the last response.                           *)

\* What is kept of a request that was handled.
Taken(h, r) == Matches(h, r) /\ Post(h, r)

\* Only a form that logs in or registers can be answered with a message.
Plain(h) == ~h.return_js_ => ~h.is_success_js_

Answer(h, granted) ==
    Written(Made(InitResponse(NoResponse, Target(h), h.return_js_, h.is_success_js_,
                              h.is_download_, IsKeepAlive(h), granted)))

\* Inductive, if requests arrive whole and each after the last response: then
\* all that has arrived was handled, and none but the last waits for its answer.
WholeInv ==
    /\ requests \in Seq(Menu) /\ received \in Nat
    /\ handled \in Seq(ToSet(handled)) /\ Len(handled) <= Len(requests)
    /\ delivered = Len(StreamOf(requests, Len(handled)))
    /\ Fine(inputbuffer_) /\ Content(inputbuffer_) = <<>>
    /\ \A i \in DOMAIN handled : Taken(handled[i], requests[i]) /\ Plain(handled[i])
    /\ handled # <<>> => request_ = handled[Len(handled)]
    /\ IF outputbuffer_ = <<>> THEN Len(handled) = received
       ELSE /\ Len(handled) = received + 1
            /\ outputbuffer_ = <<Answer(handled[Len(handled)], response_.granted)>>
    /\ \/ /\ status = "open"
          /\ \A i \in 1 .. received : IsKeepAlive(handled[i])
       \/ /\ status = "closed" /\ outputbuffer_ = <<>>
          /\ received > 0 /\ ~IsKeepAlive(handled[received])

LEMMA TakenKeepsAlive ==
    ASSUME NEW h, NEW r \in Menu, Taken(h, r)
    PROVE  IsKeepAlive(h) <=> ~AsksToClose(r)
<1>1. PICK H : H = Effective(r)
  OBVIOUS
<1>2. PICK x : x = <<r.line>>
  OBVIOUS
<1>3. x # <<>> /\ x[1] = r.line
  BY <1>2
<1>4. h.line_ = x /\ h.header_ = H
  BY <1>1, <1>2 DEF Taken, Matches
<1>5. IsKeepAlive(h) <=> Close \notin H /\ (KeepAlive \in H \/ Lines[r.line].version = "1.1")
  BY <1>3, <1>4 DEF IsKeepAlive
<1>6. AsksToClose(r) <=> Close \in H \/ (KeepAlive \notin H /\ Lines[r.line].version # "1.1")
  BY <1>1 DEF AsksToClose
<1> QED
  BY <1>5, <1>6

LEMMA ParsedIsTaken ==
    ASSUME NEW q, NEW r \in Menu, Parsed(q, r), NEW success \in HandleUserCommand(q),
           NEW h, h = [q EXCEPT !.is_success_js_ = success]
    PROVE  Taken(h, r) /\ Plain(h)
<1>1. DOMAIN q = Members
  BY DEF Parsed
<1>2. /\ h.line_ = q.line_ /\ h.header_ = q.header_ /\ h.body_ = q.body_ /\ h.post_ = q.post_
      /\ h.return_js_ = q.return_js_ /\ h.is_success_js_ = success
  BY ONLY <1>1, h = [q EXCEPT !.is_success_js_ = success] DEF Members
<1>3. HeadersRead(r, Len(r.headers)) = Effective(r)
  BY HeadersType DEF HeadersRead, Effective
<1>4. Taken(h, r)
  BY <1>2, <1>3 DEF Parsed, Taken, Matches, Post
<1>5. Plain(h)
  BY <1>2 DEF Plain, HandleUserCommand
<1> QED
  BY <1>4, <1>5

LEMMA RestOfJoined ==
    ASSUME NEW s \in Seq(Octet), NEW t \in Seq(Octet)
    PROVE  SubSeq(Joined(s, t), Len(s) + 1, Len(Joined(s, t))) = t
  BY RestOf DEF Joined

LEMMA JoinedNothing == ASSUME NEW s \in Seq(Octet) PROVE Joined(<<>>, s) = s
  BY DEF Joined

\* t is s with x at its end.
Extends(t, s, x) ==
    /\ t \in Seq(ToSet(t)) /\ Len(s) \in Nat /\ Len(t) = Len(s) + 1
    /\ DOMAIN s = 1 .. Len(s) /\ DOMAIN t = 1 .. Len(s) + 1
    /\ t[Len(s) + 1] = x /\ t # <<>>
    /\ \A i \in 1 .. Len(s) : t[i] = s[i]

LEMMA AppendsTo ==
    ASSUME NEW s, s \in Seq(ToSet(s)), NEW x
    PROVE  Extends(Append(s, x), s, x)
<1>0. PICK t : t = Append(s, x)
  OBVIOUS
<1>1. PICK S : S = ToSet(s) \union {x}
  OBVIOUS
<1>2. s \in Seq(S) /\ x \in S
  BY <1>1
<1>3. /\ t \in Seq(S) /\ Len(s) \in Nat /\ Len(t) = Len(s) + 1
      /\ DOMAIN s = 1 .. Len(s) /\ DOMAIN t = 1 .. Len(s) + 1
      /\ t[Len(s) + 1] = x /\ t # <<>>
      /\ \A i \in 1 .. Len(s) : t[i] = s[i]
  BY ONLY <1>0, <1>2
<1>4. \A i \in DOMAIN t : t[i] \in ToSet(t)
  BY DEF ToSet
<1>5. t \in Seq(ToSet(t))
  BY ONLY <1>3, <1>4
<1> QED
  BY <1>0, <1>3, <1>5 DEF Extends

LEMMA WholeInit == Init => WholeInv
<1> SUFFICES ASSUME Init PROVE WholeInv
  OBVIOUS
<1> USE DEF Init
<1>1. requests \in Seq(Menu) /\ Len(requests) \in Nat
  <2>1. PICK n \in 1 .. MaxRequests : requests \in [1 .. n -> Menu]
    OBVIOUS
  <2>2. n \in Nat
    BY RequestsAssumption
  <2> QED
    BY <2>1, <2>2
<1>2. handled \in Seq(ToSet(handled)) /\ Len(handled) = 0 /\ DOMAIN handled = {}
  <2>1. <<>> \in Seq(ToSet(<<>>)) /\ Len(<<>>) = 0 /\ DOMAIN <<>> = {}
    OBVIOUS
  <2> QED
    BY <2>1
<1>3. delivered = Len(StreamOf(requests, Len(handled)))
  BY <1>2, StreamBegins
<1>4. Fine(inputbuffer_) /\ Content(inputbuffer_) = <<>>
  BY FineEmpty
<1>5. \A i \in 1 .. received : IsKeepAlive(handled[i])
  OBVIOUS
<1>6. handled = <<>> /\ outputbuffer_ = <<>> /\ status = "open" /\ received = 0
  OBVIOUS
<1>7. Len(handled) <= Len(requests)
  BY <1>1, <1>2
<1> QED
  BY <1>1, <1>2, <1>3, <1>4, <1>5, <1>6, <1>7 DEF WholeInv

\* The next request has arrived, and nothing but it.
LEMMA NextArrives ==
    ASSUME WholeInv, ~Segmented, ~Pipelined, NEW upto \in Cuts, onmessage(upto)
    PROVE  /\ outputbuffer_ = <<>> /\ Len(handled) = received
           /\ received < Len(requests)
           /\ upto = Len(StreamOf(requests, received + 1))
           /\ SubSeq(Sent, delivered + 1, upto) = Wire(requests[received + 1])
<1>1. PICK N \in Nat : N = Len(requests)
  BY DEF WholeInv
<1>2. PICK k \in Nat : k = Len(handled) /\ k <= N
  BY <1>1 DEF WholeInv
<1>3. received \in Nat /\ requests \in Seq(Menu) /\ delivered = Len(StreamOf(requests, k))
  BY <1>2 DEF WholeInv
<1>4. PICK rs \in Seq(Menu) : rs = requests /\ N = Len(rs)
  BY <1>1, <1>3
<1>5. PICK m \in 0 .. N : m = Lesser(received + 1, N) /\ m <= received + 1
  BY <1>1, <1>3 DEF Lesser
<1>6. Sent = StreamOf(rs, m)
  BY <1>1, <1>4, <1>5 DEF Sent, Stream, StreamOf
<1>7. PICK n \in 1 .. N : upto = Len(StreamOf(rs, n))
  BY <1>1, <1>4 DEF Cuts, Stream, StreamOf
<1>8. delivered < upto /\ upto <= Len(Sent)
  BY DEF onmessage
<1>9. PICK a \in Nat : a = Len(StreamOf(rs, k))
  BY <1>2, <1>4, StreamType
<1>10. PICK b \in Nat : b = Len(StreamOf(rs, n))
  BY <1>4, <1>7, StreamType
<1>11. PICK c \in Nat : c = Len(StreamOf(rs, m))
  BY <1>4, <1>5, StreamType
<1>12. a < b /\ b <= c
  BY <1>3, <1>4, <1>6, <1>7, <1>8, <1>9, <1>10, <1>11
<1>13. k < n
  <2>1. CASE n < k
    <3>1. n \in 0 .. Len(rs) /\ k \in 0 .. Len(rs)
      BY <1>2, <1>4
    <3>2. b < a
      BY <1>9, <1>10, <2>1, <3>1, StreamGrows
    <3> QED
      BY <1>12, <3>2
  <2>2. CASE n = k
    BY <1>9, <1>10, <1>12, <2>2
  <2> QED
    BY <2>1, <2>2
<1>14. n <= m
  <2>1. CASE m < n
    <3>1. n \in 0 .. Len(rs) /\ m \in 0 .. Len(rs)
      BY <1>4
    <3>2. c < b
      BY <1>10, <1>11, <2>1, <3>1, StreamGrows
    <3> QED
      BY <1>12, <3>2
  <2> QED
    BY <2>1
<1>15. k = received \/ k = received + 1
  BY <1>2 DEF WholeInv
<1>16. k = received /\ n = k + 1 /\ m = k + 1 /\ k < N
  BY <1>3, <1>5, <1>13, <1>14, <1>15
<1>17. outputbuffer_ = <<>>
  BY <1>2, <1>3, <1>16 DEF WholeInv
<1>18. PICK s \in Seq(Octet) : s = StreamOf(rs, k)
  BY <1>2, <1>4, StreamType
<1>19. rs[k + 1] \in Menu /\ StreamOf(rs, k + 1) = Joined(s, Wire(rs[k + 1]))
  BY <1>4, <1>16, <1>18, StreamNext
<1>20. PICK w \in Seq(Octet) : w = Wire(rs[k + 1])
  BY <1>19, WireIs
<1>21. SubSeq(Sent, delivered + 1, upto) = w
  <2>1. Sent = Joined(s, w) /\ delivered = Len(s) /\ upto = Len(Joined(s, w))
    BY <1>3, <1>4, <1>6, <1>7, <1>16, <1>18, <1>19, <1>20
  <2>2. SubSeq(Joined(s, w), Len(s) + 1, Len(Joined(s, w))) = w
    BY RestOfJoined
  <2> QED
    BY <2>1, <2>2
<1> QED
  BY <1>1, <1>2, <1>4, <1>7, <1>16, <1>17, <1>20, <1>21

\* It is handled, and nothing is left of it.
LEMMA NextIsHandled ==
    ASSUME WholeInv, ~Segmented, ~Pipelined, NEW upto \in Cuts, onmessage(upto)
    PROVE  /\ Fine(inputbuffer_') /\ Content(inputbuffer_') = <<>>
           /\ handled' = Append(handled, request_')
           /\ Taken(request_', requests[received + 1]) /\ Plain(request_')
           /\ \E granted \in BOOLEAN : respond(request_', granted)
           /\ status' = "open"
<1>1. PICK r \in Menu : r = requests[received + 1]
  <2>1. requests \in Seq(Menu) /\ received \in Nat /\ received < Len(requests)
    BY NextArrives DEF WholeInv
  <2> QED
    BY <2>1, StreamNext
<1>2. PICK w \in Seq(Octet) : w = Wire(r) /\ Len(w) < SizeMod /\ Len(w) \in Nat /\ w # <<>>
  <2>1. /\ Wire(r) \in Seq(Octet) /\ Len(Wire(r)) < SizeMod
        /\ Len(Wire(r)) \in Nat /\ Len(Wire(r)) >= 3
    BY WireIs
  <2>2. Len(<<>>) = 0
    OBVIOUS
  <2> QED
    BY <2>1, <2>2
<1>3. SubSeq(Sent, delivered + 1, upto) = w
  BY <1>1, <1>2, NextArrives
<1>4. PICK b : b = append(inputbuffer_, w)
  OBVIOUS
<1>5. Fine(b) /\ Content(b) = w
  <2>1. Fine(inputbuffer_) /\ Content(inputbuffer_) = <<>>
    BY DEF WholeInv
  <2>2. PICK e \in Seq(Octet) : e = <<>> /\ Len(e) = 0
    <3>1. <<>> \in Seq(Octet) /\ Len(<<>>) = 0
      OBVIOUS
    <3> QED
      BY <3>1
  <2>3. Len(Content(inputbuffer_)) + Len(w) < SizeMod
    BY <1>2, <2>1, <2>2
  <2>4. Fine(b) /\ Content(b) = Content(inputbuffer_) \o w
    BY <1>2, <1>4, <2>1, <2>3, FineAppend
  <2>5. Content(b) = Joined(e, w)
    BY <2>1, <2>2, <2>4 DEF Joined
  <2> QED
    BY <2>2, <2>4, <2>5, JoinedNothing
<1>6. PICK p : p = parse(b, Fresh)
  OBVIOUS
<1>7. Understood(p, r)
  BY <1>2, <1>5, <1>6, ParseWhole
<1>8. PICK c, q : p = Loop("true", c, q) /\ Fine(c) /\ Content(c) = <<>> /\ Parsed(q, r)
  BY <1>7 DEF Understood
<1>9. p.result = "true" /\ p.buf = c /\ p.request = q
  BY <1>8 DEF Loop
<1>10. /\ inputbuffer_' = p.buf
       /\ \E success \in HandleUserCommand(p.request) :
             request_' = [p.request EXCEPT !.is_success_js_ = success]
       /\ p.result = "true" => /\ handled' = Append(handled, request_')
                               /\ \E granted \in BOOLEAN : respond(request_', granted)
       /\ status' = IF p.result \in {"throws", "overrun"} THEN p.result ELSE "open"
  BY <1>3, <1>4, <1>6 DEF onmessage, request_Init
<1>11. PICK success \in HandleUserCommand(q) : request_' = [q EXCEPT !.is_success_js_ = success]
  BY <1>9, <1>10
<1>12. Taken(request_', r) /\ Plain(request_')
  BY <1>8, <1>11, ParsedIsTaken
<1>13. status' = "open"
  BY <1>9, <1>10
<1> QED
  BY <1>1, <1>8, <1>9, <1>10, <1>12, <1>13

\* The response remembers whether its file was granted.
LEMMA RespondGrants ==
    ASSUME NEW h, NEW granted, respond(h, granted)
    PROVE  response_'.granted = granted
<1>1. PICK r : r = InitResponse(response_, Target(h), h.return_js_, h.is_success_js_,
                                h.is_download_, IsKeepAlive(h), granted)
  OBVIOUS
<1>2. response_' = Made(r)
  BY <1>1 DEF respond
<1>3. Begun(r) /\ r.granted = granted
  BY <1>1, InitBegins
<1> QED
  BY <1>2, <1>3, MadeIs

LEMMA WholeOnmessage ==
    ASSUME WholeInv, ~Segmented, ~Pipelined, NEW upto \in Cuts, onmessage(upto)
    PROVE  WholeInv'
<1>1. PICK k \in Nat : k = received /\ k = Len(handled) /\ k < Len(requests)
  BY NextArrives DEF WholeInv
<1>2. requests' = requests /\ received' = received /\ delivered' = upto
  BY DEF onmessage
<1>3. outputbuffer_ = <<>> /\ upto = Len(StreamOf(requests, received + 1))
  BY NextArrives
<1>4. /\ Fine(inputbuffer_') /\ Content(inputbuffer_') = <<>>
      /\ handled' = Append(handled, request_')
      /\ Taken(request_', requests[received + 1]) /\ Plain(request_')
      /\ \E granted \in BOOLEAN : respond(request_', granted)
      /\ status' = "open"
  BY NextIsHandled
<1>4a. PICK granted \in BOOLEAN : respond(request_', granted)
  BY <1>4
<1>5. PICK x : x = request_'
  OBVIOUS
<1>6. /\ handled' \in Seq(ToSet(handled')) /\ Len(handled') = k + 1
      /\ DOMAIN handled = 1 .. k /\ DOMAIN handled' = 1 .. k + 1
      /\ handled'[k + 1] = x /\ handled' # <<>>
      /\ \A i \in 1 .. k : handled'[i] = handled[i]
  <2>1. PICK s : s = handled
    OBVIOUS
  <2>2. PICK t : t = handled'
    OBVIOUS
  <2>3. s \in Seq(ToSet(s)) /\ k = Len(s) /\ t = Append(s, x)
    BY <1>1, <1>4, <1>5, <2>1, <2>2 DEF WholeInv
  <2>4. /\ t \in Seq(ToSet(t)) /\ Len(t) = Len(s) + 1
        /\ DOMAIN s = 1 .. Len(s) /\ DOMAIN t = 1 .. Len(s) + 1
        /\ t[Len(s) + 1] = x /\ t # <<>>
        /\ \A i \in 1 .. Len(s) : t[i] = s[i]
    BY <2>3, AppendsTo DEF Extends
  <2> QED
    BY ONLY <2>1, <2>2, <2>3, <2>4
<1>7. Len(handled') <= Len(requests')
  <2>1. Len(requests) \in Nat
    BY DEF WholeInv
  <2> QED
    BY <1>1, <1>2, <1>6, <2>1
<1>8. delivered' = Len(StreamOf(requests', Len(handled')))
  BY <1>1, <1>2, <1>3, <1>6
<1>9. \A i \in DOMAIN handled' : Taken(handled'[i], requests'[i]) /\ Plain(handled'[i])
  <2> SUFFICES ASSUME NEW i \in 1 .. k + 1
               PROVE  Taken(handled'[i], requests[i]) /\ Plain(handled'[i])
    BY <1>2, <1>6
  <2>1. CASE i = k + 1
    BY <1>1, <1>4, <1>5, <1>6, <2>1
  <2>2. CASE i # k + 1
    <3>1. i \in 1 .. k /\ handled'[i] = handled[i]
      BY <1>6, <2>2
    <3> QED
      BY <1>6, <3>1 DEF WholeInv
  <2> QED
    BY <2>1, <2>2
<1>10. request_' = handled'[Len(handled')]
  BY <1>5, <1>6
<1>11. /\ outputbuffer_' = <<Answer(handled'[Len(handled')], response_'.granted)>>
       /\ outputbuffer_' # <<>>
  <2>1. outputbuffer_' = Append(<<>>, Answer(x, granted))
    BY <1>3, <1>4a, <1>5 DEF respond, Answer, InitResponse
  <2>2. PICK a : a = Answer(x, granted)
    OBVIOUS
  <2>3. Append(<<>>, a) = <<a>> /\ <<a>> # <<>>
    OBVIOUS
  <2>4. response_'.granted = granted
    BY <1>4a, <1>5, RespondGrants
  <2> QED
    BY <1>6, <2>1, <2>2, <2>3, <2>4
<1>12. \A i \in 1 .. received' : IsKeepAlive(handled'[i])
  <2>1. status = "open"
    BY DEF onmessage
  <2>2. \A i \in 1 .. received : IsKeepAlive(handled[i])
    BY <2>1 DEF WholeInv
  <2> QED
    BY <1>1, <1>2, <1>6, <2>2
<1>13. requests' \in Seq(Menu) /\ received' \in Nat
  BY <1>2 DEF WholeInv
<1>14. Len(handled') = received' + 1
  BY <1>1, <1>2, <1>6
<1> QED
  BY <1>4, <1>6, <1>7, <1>8, <1>9, <1>10, <1>11, <1>12, <1>13, <1>14 DEF WholeInv

LEMMA WholeWritecallback ==
    ASSUME WholeInv, writecallback
    PROVE  WholeInv'
<1>1. /\ requests' = requests /\ delivered' = delivered /\ inputbuffer_' = inputbuffer_
      /\ request_' = request_ /\ handled' = handled
      /\ outputbuffer_ # <<>> /\ outputbuffer_' = <<>>
      /\ received' = received + Len(outputbuffer_)
      /\ status = "open" /\ status' = IF IsKeepAlive(request_) THEN "open" ELSE "closed"
  BY DEF writecallback
<1>2. PICK k \in Nat : k = received /\ Len(handled) = k + 1
  BY <1>1 DEF WholeInv
<1>3. Len(outputbuffer_) = 1
  <2>1. outputbuffer_ = <<Answer(handled[Len(handled)], response_.granted)>>
    BY <1>1 DEF WholeInv
  <2>2. PICK a : a = Answer(handled[Len(handled)], response_.granted)
    OBVIOUS
  <2>3. Len(<<a>>) = 1
    OBVIOUS
  <2> QED
    BY <2>1, <2>2, <2>3
<1>4. received' = k + 1 /\ Len(handled') = received' /\ received' > 0 /\ received' \in Nat
  BY <1>1, <1>2, <1>3
<1>5. handled # <<>>
  <2>1. Len(<<>>) = 0
    OBVIOUS
  <2> QED
    BY <1>2, <2>1
<1>6. request_ = handled[k + 1]
  BY <1>2, <1>5 DEF WholeInv
<1>7. \A i \in 1 .. k : IsKeepAlive(handled[i])
  BY <1>1, <1>2 DEF WholeInv
<1>8. \/ /\ status' = "open"
         /\ \A i \in 1 .. received' : IsKeepAlive(handled'[i])
      \/ /\ status' = "closed" /\ outputbuffer_' = <<>>
         /\ received' > 0 /\ ~IsKeepAlive(handled'[received'])
  <2>1. CASE IsKeepAlive(request_)
    <3>1. ASSUME NEW i \in 1 .. k + 1 PROVE IsKeepAlive(handled[i])
      <4>1. CASE i = k + 1
        BY <1>6, <2>1, <4>1
      <4>2. CASE i # k + 1
        <5>1. i \in 1 .. k
          BY <4>2
        <5> QED
          BY <1>7, <5>1
      <4> QED
        BY <4>1, <4>2
    <3> QED
      BY <1>1, <1>4, <2>1, <3>1
  <2>2. CASE ~IsKeepAlive(request_)
    BY <1>1, <1>4, <1>6, <2>2
  <2> QED
    BY <2>1, <2>2
<1>9. /\ requests \in Seq(Menu) /\ handled \in Seq(ToSet(handled)) /\ Len(handled) <= Len(requests)
      /\ delivered = Len(StreamOf(requests, Len(handled)))
      /\ Fine(inputbuffer_) /\ Content(inputbuffer_) = <<>>
      /\ \A i \in DOMAIN handled : Taken(handled[i], requests[i]) /\ Plain(handled[i])
      /\ handled # <<>> => request_ = handled[Len(handled)]
  BY DEF WholeInv
<1> QED
  BY <1>1, <1>4, <1>8, <1>9 DEF WholeInv

LEMMA WholeNext ==
    ASSUME ~Segmented, ~Pipelined, WholeInv, [Next]_vars
    PROVE  WholeInv'
<1>1. ASSUME NEW upto \in Cuts, onmessage(upto) PROVE WholeInv'
  BY <1>1, WholeOnmessage
<1>2. CASE writecallback
  BY <1>2, WholeWritecallback
<1>3. CASE UNCHANGED vars
  BY <1>3 DEF WholeInv, vars
<1> QED
  BY <1>1, <1>2, <1>3 DEF Next

\* As long as the network delivers each request whole and the client waits for
\* each response, the input buffer is empty between requests, what has arrived
\* was handled and one response waits at most (Connection.cpp:147).
THEOREM WholeInvariance ==
    ASSUME ~Segmented, ~Pipelined
    PROVE  Spec => []WholeInv
<1>1. Init => WholeInv
  BY WholeInit
<1>2. WholeInv /\ [Next]_vars => WholeInv'
  BY WholeNext
<1> QED
  BY <1>1, <1>2, PTL DEF Spec

\* Then the server handles the requests of the client as they were sent, one after
\* the other, with their headers and bodies (Connection.cpp:158).
THEOREM RequestsInOrder ==
    ASSUME ~Segmented, ~Pipelined
    PROVE  Spec => []HandledAsSent
<1>1. WholeInv => HandledAsSent
  <2> SUFFICES ASSUME WholeInv PROVE HandledAsSent
    OBVIOUS
  <2>1. Len(handled) <= Len(requests)
    BY DEF WholeInv
  <2>2. \A i \in DOMAIN handled : Matches(handled[i], requests[i])
    BY DEF WholeInv, Taken
  <2> QED
    BY <2>1, <2>2 DEF HandledAsSent
<1> QED
  BY <1>1, WholeInvariance, PTL

\* A request that has arrived was handled, and nothing of it is left in the input
\* buffer (Connection.cpp:147).
THEOREM NoneLeftWaiting ==
    ASSUME ~Segmented, ~Pipelined
    PROVE  Spec => []EachIsAnswered
<1>1. WholeInv => EachIsAnswered
  <2> SUFFICES ASSUME WholeInv, status = "open", delivered = Len(Sent)
               PROVE  /\ Len(handled) = Lesser(received + 1, Len(requests))
                      /\ Content(inputbuffer_) = <<>>
    BY DEF EachIsAnswered
  <2>1. PICK rs \in Seq(Menu) : rs = requests /\ Len(rs) \in Nat
    BY DEF WholeInv
  <2>2. PICK k \in 0 .. Len(rs) : k = Len(handled) /\ delivered = Len(StreamOf(rs, k))
    <3>1. PICK s \in Seq(ToSet(handled)) : s = handled
      BY DEF WholeInv
    <3>2. Len(s) \in Nat
      BY ONLY <3>1
    <3>3. Len(s) <= Len(rs) /\ delivered = Len(StreamOf(rs, Len(s)))
      BY <2>1, <3>1 DEF WholeInv
    <3>4. Len(s) \in 0 .. Len(rs)
      BY ONLY <2>1, <3>2, <3>3
    <3> QED
      BY <3>1, <3>3, <3>4
  <2>3. PICK m \in 0 .. Len(rs) : m = Lesser(received + 1, Len(requests))
    BY <2>1 DEF WholeInv, Lesser
  <2>4. Len(StreamOf(rs, k)) = Len(StreamOf(rs, m))
    BY <2>1, <2>2, <2>3 DEF Sent, Stream, StreamOf
  <2>5. Len(StreamOf(rs, k)) \in Nat
    <3>1. k \in Nat /\ k <= Len(rs)
      BY <2>1
    <3> QED
      BY <3>1, StreamType
  <2>6. k = m
    <3>1. CASE k < m
      BY <2>4, <2>5, <3>1, StreamGrows
    <3>2. CASE m < k
      BY <2>4, <2>5, <3>2, StreamGrows
    <3> QED
      BY <2>1, <3>1, <3>2
  <2> QED
    BY <2>2, <2>3, <2>6 DEF WholeInv
<1> QED
  BY <1>1, WholeInvariance, PTL

\* The server closes the connection after a request that asks for it and after no
\* other (httprequest.cpp:151).
THEOREM ClosesWhenAsked ==
    ASSUME ~Segmented, ~Pipelined
    PROVE  Spec => []KeepAliveKept
<1>1. WholeInv => KeepAliveKept
  <2> SUFFICES ASSUME WholeInv PROVE KeepAliveKept
    OBVIOUS
  <2>1. /\ handled \in Seq(ToSet(handled)) /\ DOMAIN handled = 1 .. Len(handled)
        /\ received \in Nat /\ received <= Len(handled)
    <3>1. handled \in Seq(ToSet(handled)) /\ received \in Nat
      BY DEF WholeInv
    <3>2. DOMAIN handled = 1 .. Len(handled) /\ Len(handled) \in Nat
      BY ONLY <3>1
    <3>3. Len(handled) = received \/ Len(handled) = received + 1
      BY DEF WholeInv
    <3>4. PICK n \in Nat : n = Len(handled)
      BY ONLY <3>2
    <3>5. received <= n
      <4>1. n = received \/ n = received + 1
        BY <3>3, <3>4
      <4> QED
        BY <3>1, <4>1
    <3> QED
      BY <3>1, <3>2, <3>4, <3>5
  <2>2. requests \in Seq(Menu) /\ Len(handled) <= Len(requests) /\ Len(requests) \in Nat
    BY DEF WholeInv
  <2>3. ASSUME NEW i \in 1 .. received
        PROVE  IsKeepAlive(handled[i]) <=> ~AsksToClose(requests[i])
    <3>1. i \in DOMAIN handled /\ i \in 1 .. Len(requests)
      BY <2>1, <2>2
    <3>2. requests[i] \in Menu /\ Taken(handled[i], requests[i])
      BY <2>2, <3>1 DEF WholeInv
    <3> QED
      BY <3>2, TakenKeepsAlive
  <2>4. status = "closed" => AsksToClose(requests[received])
    <3> SUFFICES ASSUME status = "closed" PROVE AsksToClose(requests[received])
      OBVIOUS
    <3>1. received > 0 /\ ~IsKeepAlive(handled[received])
      BY DEF WholeInv
    <3>2. received \in 1 .. received
      BY <2>1, <3>1
    <3> QED
      BY <2>3, <3>1, <3>2
  <2>5. status = "open" => \A i \in 1 .. received : ~AsksToClose(requests[i])
    <3> SUFFICES ASSUME status = "open" PROVE \A i \in 1 .. received : ~AsksToClose(requests[i])
      OBVIOUS
    <3>1. \A i \in 1 .. received : IsKeepAlive(handled[i])
      BY DEF WholeInv
    <3> QED
      BY <2>3, <3>1
  <2> QED
    BY <2>4, <2>5 DEF KeepAliveKept
<1> QED
  BY <1>1, WholeInvariance, PTL

\* A request for a file is answered with that file, or with the code and the page
\* of the error, whatever the requests before it were (httpresponse.cpp:82); and
\* with the code that was meant for it and a message if the file cannot be opened
\* or is empty (httpresponse.cpp:174).
THEOREM FilesAreSent ==
    ASSUME ~Segmented, ~Pipelined
    PROVE  Spec => []AnswersTheFile
<1>1. WholeInv => AnswersTheFile
  <2> SUFFICES ASSUME WholeInv, outputbuffer_ # <<>>, ~Last(handled).return_js_,
                      NEW asked, asked = Target(Last(handled)),
                      NEW answer, answer = Last(outputbuffer_)
               PROVE  /\ answer.code = CodeFor(asked)
                      /\ answer.body = BodyFor(asked, response_.granted)
    BY DEF AnswersTheFile, BodyFor
  <2>1. PICK h : h = Last(handled)
    OBVIOUS
  <2>2. h = handled[Len(handled)] /\ outputbuffer_ = <<Answer(h, response_.granted)>>
    BY <2>1 DEF WholeInv, Last
  <2>3. PICK r : r = InitResponse(NoResponse, Target(h), h.return_js_, h.is_success_js_,
                                  h.is_download_, IsKeepAlive(h), response_.granted)
    OBVIOUS
  <2>4. /\ Begun(r) /\ r.path_ = asked /\ r.is_js_ = h.is_success_js_
        /\ r.granted = response_.granted
    BY <2>1, <2>3, InitBegins
  <2>5. PICK a : a = Answer(h, response_.granted)
    OBVIOUS
  <2>6. answer = a
    <3>1. Last(<<a>>) = a
      BY DEF Last
    <3> QED
      BY <2>2, <2>5, <3>1
  <2>7. ~r.is_js_
    <3>1. Len(handled) \in DOMAIN handled
      <4>1. PICK s \in Seq(ToSet(handled)) : s = handled
        BY DEF WholeInv
      <4>2. Len(s) = received + 1 /\ received \in Nat
        BY <4>1 DEF WholeInv
      <4>3. Len(s) \in DOMAIN s
        BY ONLY <4>1, <4>2
      <4> QED
        BY <4>1, <4>3
    <3>2. Plain(h)
      BY <2>2, <3>1 DEF WholeInv
    <3> QED
      BY <2>1, <2>4, <3>2 DEF Plain
  <2> QED
    BY <2>3, <2>4, <2>5, <2>6, <2>7, WrittenIs DEF Answer
<1> QED
  BY <1>1, WholeInvariance, PTL

----------------------------------------------------------------------------
(* However the requests of a client arrive.                                *)

EmptyFiles == {path \in DOMAIN Files : Files[path].size = 0}

\* Inductive: what waits to be written is framed, what is mapped is the file of
\* the last response, and what is open is empty.
ResponseInv ==
    /\ outputbuffer_ \in Seq(ToSet(outputbuffer_)) /\ Framed
    /\ mapped = IF response_.mmFile_ = NoFile THEN {}
                ELSE {[file |-> response_.mmFile_, length |-> response_.mmFileStat_]}
    /\ srcFds \in Seq(EmptyFiles)

\* A file that is opened and not mapped is empty.
LEMMA LeavesEmpty ==
    ASSUME NEW r, Begun(r), NEW m, m = Made(r)
    PROVE  LeftOpen(m) \in Seq(EmptyFiles)
<1>1. /\ m.path_ = SentFor(r.path_)
      /\ Opens(m) <=> ~r.is_js_ /\ r.granted
      /\ Maps(m) <=> ~r.is_js_ /\ r.granted /\ Files[SentFor(r.path_)].size > 0
  BY MadeIs
<1>2. CASE Opens(m) /\ ~Maps(m)
  <2>1. m.path_ \in DOMAIN Files /\ ~(Files[m.path_].size > 0)
    BY <1>1, <1>2, SentIs
  <2>2. Files[m.path_].size \in Nat
    BY <2>1, FilesAssumption
  <2>3. m.path_ \in EmptyFiles
    BY <2>1, <2>2 DEF EmptyFiles
  <2> QED
    BY <1>2, <2>3 DEF LeftOpen
<1>3. CASE ~ (Opens(m) /\ ~Maps(m))
  BY <1>3 DEF LeftOpen
<1> QED
  BY <1>2, <1>3

LEMMA RespondResponse ==
    ASSUME ResponseInv, NEW q, NEW granted, respond(q, granted)
    PROVE  ResponseInv'
<1>1. PICK r : r = InitResponse(response_, Target(q), q.return_js_, q.is_success_js_,
                                q.is_download_, IsKeepAlive(q), granted)
  OBVIOUS
<1>2. Begun(r)
  BY <1>1, InitBegins
<1>3. PICK m : m = Made(r)
  OBVIOUS
<1>4. /\ response_' = m
      /\ mapped' = IF Maps(m)
                   THEN UnmapFile(response_, mapped)
                           \union {[file |-> m.mmFile_, length |-> m.mmFileStat_]}
                   ELSE UnmapFile(response_, mapped)
      /\ srcFds' = srcFds \o LeftOpen(m)
      /\ outputbuffer_' = Append(outputbuffer_, Written(m))
  BY <1>1, <1>3 DEF respond
<1>5. UnmapFile(response_, mapped) = {}
  BY DEF ResponseInv, UnmapFile
<1>6. m.mmFile_ = (IF Maps(m) THEN m.path_ ELSE NoFile) /\ m.path_ # NoFile
  BY <1>2, <1>3, MadeIs, SentIs
<1>7. mapped' = IF response_'.mmFile_ = NoFile THEN {}
                ELSE {[file |-> response_'.mmFile_, length |-> response_'.mmFileStat_]}
  <2>1. CASE Maps(m)
    BY <1>4, <1>5, <1>6, <2>1
  <2>2. CASE ~Maps(m)
    BY <1>4, <1>5, <1>6, <2>2
  <2> QED
    BY <2>1, <2>2
<1>8. srcFds' \in Seq(EmptyFiles)
  <2>1. PICK s \in Seq(EmptyFiles) : s = srcFds
    BY DEF ResponseInv
  <2>2. PICK t \in Seq(EmptyFiles) : t = LeftOpen(m)
    BY <1>2, <1>3, LeavesEmpty
  <2>3. s \o t \in Seq(EmptyFiles)
    BY ONLY <2>1, <2>2
  <2> QED
    BY <1>4, <2>1, <2>2, <2>3
<1>9. PICK a : a = Written(m)
  OBVIOUS
<1>10. a.body = <<a.stated>>
  BY <1>2, <1>3, <1>9, WrittenIs
<1>11. PICK s : s = outputbuffer_
  OBVIOUS
<1>12. PICK t : t = outputbuffer_'
  OBVIOUS
<1>13. s \in Seq(ToSet(s)) /\ t = Append(s, a)
  BY <1>4, <1>9, <1>11, <1>12 DEF ResponseInv
<1>14. Extends(t, s, a)
  BY <1>13, AppendsTo
<1>15. \A i \in DOMAIN s : s[i].body = <<s[i].stated>>
  BY <1>11 DEF ResponseInv, Framed
<1>16. ASSUME NEW i \in DOMAIN t PROVE t[i].body = <<t[i].stated>>
  <2>1. PICK n \in Nat : n = Len(s)
    BY <1>14 DEF Extends
  <2>2. /\ DOMAIN s = 1 .. n /\ DOMAIN t = 1 .. n + 1 /\ t[n + 1] = a
        /\ \A j \in 1 .. n : t[j] = s[j]
    BY <1>14, <2>1 DEF Extends
  <2>3. i = n + 1 \/ i \in 1 .. n
    BY <2>2
  <2>4. CASE i = n + 1
    BY <1>10, <2>2, <2>4
  <2>5. CASE i \in 1 .. n
    BY <1>15, <2>2, <2>5
  <2> QED
    BY <2>3, <2>4, <2>5
<1>17. t \in Seq(ToSet(t))
  BY <1>14 DEF Extends
<1> QED
  BY <1>7, <1>8, <1>12, <1>16, <1>17 DEF ResponseInv, Framed

LEMMA ResponseOnmessage ==
    ASSUME ResponseInv, NEW upto \in Cuts, onmessage(upto)
    PROVE  ResponseInv'
<1>1. PICK p : p = parse(append(inputbuffer_, SubSeq(Sent, delivered + 1, upto)), request_Init)
  OBVIOUS
<1>2. PICK q : q = request_'
  OBVIOUS
<1>3. IF p.result = "true" THEN \E granted \in BOOLEAN : respond(request_', granted)
      ELSE UNCHANGED <<outputbuffer_, response_, mapped, srcFds>>
  BY <1>1 DEF onmessage
<1>4. CASE p.result = "true"
  <2>1. PICK granted \in BOOLEAN : respond(q, granted)
    BY <1>2, <1>3, <1>4 DEF respond
  <2> QED
    BY <2>1, RespondResponse
<1>5. CASE p.result # "true"
  BY <1>3, <1>5 DEF ResponseInv, Framed
<1> QED
  BY <1>4, <1>5

LEMMA ResponseWritecallback ==
    ASSUME ResponseInv, writecallback
    PROVE  ResponseInv'
<1>1. /\ outputbuffer_' = <<>> /\ response_' = response_ /\ mapped' = mapped /\ srcFds' = srcFds
  BY DEF writecallback
<1>2. <<>> \in Seq(ToSet(<<>>)) /\ DOMAIN <<>> = {}
  OBVIOUS
<1> QED
  BY <1>1, <1>2 DEF ResponseInv, Framed

LEMMA ResponseInit == Init => ResponseInv
<1>1. <<>> \in Seq(ToSet(<<>>)) /\ DOMAIN <<>> = {} /\ <<>> \in Seq(EmptyFiles)
  OBVIOUS
<1> QED
  BY <1>1 DEF Init, ResponseInv, Framed, NoResponse

LEMMA ResponseNext == ResponseInv /\ [Next]_vars => ResponseInv'
<1> SUFFICES ASSUME ResponseInv, [Next]_vars PROVE ResponseInv'
  OBVIOUS
<1>1. ASSUME NEW upto \in Cuts, onmessage(upto) PROVE ResponseInv'
  BY <1>1, ResponseOnmessage
<1>2. CASE writecallback
  BY <1>2, ResponseWritecallback
<1>3. CASE UNCHANGED vars
  BY <1>3 DEF ResponseInv, Framed, vars
<1> QED
  BY <1>1, <1>2, <1>3 DEF Next

LEMMA ResponseInvariance == Spec => []ResponseInv
  BY ResponseInit, ResponseNext, PTL DEF Spec

\* However the requests arrive, every response states the length of the bytes that
\* follow it (httpresponse.cpp:181).
THEOREM AlwaysFramed == Spec => []Framed
<1>1. ResponseInv => Framed
  BY DEF ResponseInv
<1> QED
  BY <1>1, ResponseInvariance, PTL

\* However the requests arrive, a connection keeps the file of its last response
\* mapped and no other, and leaves open no file but an empty one
\* (httpresponse.cpp:170, httpresponse.cpp:27).
THEOREM MappingsReturned == Spec => []FilesReturned
<1>1. ResponseInv => FilesReturned
  BY DEF ResponseInv, FilesReturned, EmptyFiles
<1> QED
  BY <1>1, ResponseInvariance, PTL
\* And the fields of a form are what the user entered, whatever characters they
\* hold (httprequest.cpp:333): decoding undoes what the browser does.
THEOREM FieldsArrive ==
    ASSUME ~Segmented, ~Pipelined
    PROVE  Spec => []FieldsAsEntered
<1>1. WholeInv => FieldsAsEntered
  <2> SUFFICES ASSUME WholeInv, NEW i \in DOMAIN handled, NEW j \in DOMAIN requests[i].fields
               PROVE  /\ requests[i].fields[j].key \in DOMAIN handled[i].post_
                      /\ handled[i].post_[requests[i].fields[j].key] = requests[i].fields[j].value
    BY DEF FieldsAsEntered
  <2>1. PICK r \in Menu : r = requests[i] /\ Taken(handled[i], r)
    <3>1. handled \in Seq(ToSet(handled)) /\ Len(handled) <= Len(requests) /\ requests \in Seq(Menu)
      BY DEF WholeInv
    <3>2. i \in 1 .. Len(requests)
      BY <3>1
    <3> QED
      BY <3>1, <3>2 DEF WholeInv
  <2>2. PICK q : q = handled[i].post_
    OBVIOUS
  <2>3. PICK fields \in Seq(Fields) : fields = r.fields
    BY MenuAssumption DEF Fields
  <2>4. fields # <<>>
    BY <2>1, <2>3
  <2>5. Distinct(fields)
    BY <2>3, <2>4, MenuAssumption DEF Distinct
  <2>6. PICK p : p = ParseFromUrlencoded_(FormBody(fields))
    OBVIOUS
  <2>7. Entered(fields, p)
    BY <2>4, <2>5, <2>6, FormIsRead
  <2>8. q = p \/ q = Asked(p)
    BY <2>1, <2>2, <2>3, <2>4, <2>6 DEF Taken, Post, Body
  <2>9. Entered(fields, q)
    BY <2>7, <2>8, AskedKeeps
  <2> QED
    BY <2>1, <2>2, <2>3, <2>9 DEF Entered
<1> QED
  BY <1>1, WholeInvariance, PTL

=============================================================================
