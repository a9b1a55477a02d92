--------------------------- MODULE Buffer_proofs ---------------------------
(***************************************************************************)
(* Proofs about Buffer, for blocks of any size, any bytes and any number   *)
(* of slices per writev: the members of a BufferBlock agree after every    *)
(* operation, and the buffer implements ByteQueue.                         *)
(*                                                                         *)
(* What the proofs are about is the concatenation of the blocks: adding    *)
(* bytes extends it, consuming bytes cuts whole blocks and then a part of  *)
(* one off its front.                                                      *)
(***************************************************************************)
EXTENDS Buffer, SequenceTheorems, WellFoundedInduction, TLAPS

----------------------------------------------------------------------------
(* Numbers.                                                                *)

LEMMA SmallestNumber ==
    ASSUME NEW T \in SUBSET Nat, T # {}
    PROVE  \E x \in T : \A y \in T : x <= y
<1>1. \A x, y \in Nat : y < x => <<y, x>> \in OpToRel(<, Nat)
  BY DEF OpToRel
<1>2. \E R : IsWellFoundedOn(R, Nat) /\ \A x, y \in Nat : y < x => <<y, x>> \in R
  BY <1>1, NatLessThanWellFounded
<1>3. PICK R : IsWellFoundedOn(R, Nat) /\ \A x, y \in Nat : y < x => <<y, x>> \in R
  BY <1>2
<1>4. \E x \in T : \A y \in T : ~ (<<y, x>> \in R)
  BY <1>3, WFMin
<1>5. \A x, y \in Nat : ~ (y < x) => x <= y
  OBVIOUS
<1> QED
  BY <1>3, <1>4, <1>5

\* Induction over the numbers, for a set of them.
LEMMA SetInduction ==
    ASSUME NEW S, 0 \in S, \A n \in Nat : n \in S => n + 1 \in S
    PROVE  Nat \subseteq S
<1> SUFFICES ASSUME Nat \ S # {} PROVE FALSE
  OBVIOUS
<1>1. PICK x \in Nat \ S : \A y \in Nat \ S : x <= y
  BY SmallestNumber
<1>2. x # 0 /\ x - 1 \in Nat /\ x - 1 \in S
  BY <1>1
<1> QED
  BY <1>1, <1>2

\* A set of numbers with a bound has a greatest one.
LEMMA GreatestNumber ==
    ASSUME NEW N \in Nat, NEW T \in SUBSET (0 .. N), T # {}
    PROVE  Max(T) \in T /\ \A y \in T : y <= Max(T)
<1> DEFINE U == {N - y : y \in T}
<1>1. U \in SUBSET Nat /\ U # {}
  <2>1. \A y \in T : y \in 0 .. N /\ N - y \in Nat
    OBVIOUS
  <2> QED
    BY <2>1
<1>2. PICK u \in U : \A v \in U : u <= v
  BY <1>1, SmallestNumber
<1>3. PICK x \in T : u = N - x
  BY <1>2
<1>4. \A y \in T : N - x <= N - y
  BY <1>2, <1>3
<1>5. \A y \in T : x >= y
  BY <1>4
<1>6. \E z \in T : \A y \in T : z >= y
  BY <1>5
<1>7. Max(T) \in T /\ \A y \in T : Max(T) >= y
  BY ONLY <1>6 DEF Max
<1> QED
  BY <1>7

----------------------------------------------------------------------------
(* Sequences: a prefix, what is left when one is dropped, and the          *)
(* concatenation of a sequence of sequences.                               *)

Dropped(s, n) == SubSeq(s, n + 1, Len(s))

LEMMA PrefixIs ==
    ASSUME NEW S, NEW s \in Seq(S), NEW n \in 0 .. Len(s)
    PROVE  /\ SubSeq(s, 1, n) \in Seq(S)
           /\ Len(SubSeq(s, 1, n)) = n
           /\ \A k \in 1 .. n : SubSeq(s, 1, n)[k] = s[k]
           /\ n = 0 => SubSeq(s, 1, n) = <<>>
<1>1. Len(s) \in Nat /\ \A k \in 1 .. Len(s) : s[k] \in S
  BY LenProperties, ElementOfSeq
<1>2. \A k \in 1 .. n : s[k] \in S
  BY <1>1
<1>3. /\ SubSeq(s, 1, n) \in Seq(S)
      /\ Len(SubSeq(s, 1, n)) = IF 1 <= n THEN n - 1 + 1 ELSE 0
      /\ \A k \in 1 .. n - 1 + 1 : SubSeq(s, 1, n)[k] = s[1 + k - 1]
  BY <1>1, <1>2, SubSeqProperties
<1>4. n = 0 => SubSeq(s, 1, n) = <<>>
  BY <1>1, SubSeqEmpty
<1> QED
  BY <1>1, <1>3, <1>4

LEMMA Drops ==
    ASSUME NEW S, NEW s \in Seq(S), NEW n \in 0 .. Len(s)
    PROVE  /\ Dropped(s, n) \in Seq(S)
           /\ Len(Dropped(s, n)) = Len(s) - n
           /\ \A k \in 1 .. Len(s) - n : Dropped(s, n)[k] = s[n + k]
<1>1. Len(s) \in Nat /\ \A k \in 1 .. Len(s) : s[k] \in S
  BY LenProperties, ElementOfSeq
<1>2. \A k \in n + 1 .. Len(s) : s[k] \in S
  BY <1>1
<1>3. n + 1 \in Int /\ Len(s) \in Int
  BY <1>1
<1>4. /\ SubSeq(s, n + 1, Len(s)) \in Seq(S)
      /\ Len(SubSeq(s, n + 1, Len(s)))
            = IF n + 1 <= Len(s) THEN Len(s) - (n + 1) + 1 ELSE 0
      /\ \A k \in 1 .. Len(s) - (n + 1) + 1 :
            SubSeq(s, n + 1, Len(s))[k] = s[n + 1 + k - 1]
  BY <1>2, <1>3, SubSeqProperties
<1> QED
  BY <1>1, <1>4 DEF Dropped

LEMMA DropNothing ==
    ASSUME NEW S, NEW s \in Seq(S)
    PROVE  Dropped(s, 0) = s
<1>1. Len(s) \in Nat /\ 0 \in 0 .. Len(s)
  BY LenProperties
<1>2. /\ Dropped(s, 0) \in Seq(S)
      /\ Len(Dropped(s, 0)) = Len(s)
      /\ \A k \in 1 .. Len(s) : Dropped(s, 0)[k] = s[k]
  BY <1>1, Drops
<1> QED
  BY <1>2, SeqEqual

LEMMA DropAll ==
    ASSUME NEW S, NEW s \in Seq(S)
    PROVE  Dropped(s, Len(s)) = <<>>
<1>1. Len(s) \in Nat
  BY LenProperties
<1> QED
  BY <1>1, SubSeqEmpty DEF Dropped

LEMMA DropTwice ==
    ASSUME NEW S, NEW s \in Seq(S), NEW m \in 0 .. Len(s), NEW n \in 0 .. Len(s) - m
    PROVE  Dropped(Dropped(s, m), n) = Dropped(s, m + n)
<1> DEFINE d == Dropped(s, m)
<1> DEFINE e == Dropped(s, m + n)
<1>1. Len(s) \in Nat
  BY LenProperties
<1>2. d \in Seq(S) /\ Len(d) = Len(s) - m /\ \A k \in 1 .. Len(s) - m : d[k] = s[m + k]
  BY Drops
<1>3. m + n \in 0 .. Len(s)
  BY <1>1
<1>4. /\ e \in Seq(S) /\ Len(e) = Len(s) - (m + n)
      /\ \A k \in 1 .. Len(s) - (m + n) : e[k] = s[m + n + k]
  BY <1>3, Drops
<1> HIDE DEF d, e
<1>5. n \in 0 .. Len(d)
  BY <1>1, <1>2
<1>6. /\ Dropped(d, n) \in Seq(S) /\ Len(Dropped(d, n)) = Len(d) - n
       /\ \A k \in 1 .. Len(d) - n : Dropped(d, n)[k] = d[n + k]
  BY ONLY <1>2, <1>5, Drops
<1>7. Len(Dropped(d, n)) = Len(e)
  BY <1>1, <1>2, <1>4, <1>6
<1>8. ASSUME NEW k \in 1 .. Len(e) PROVE Dropped(d, n)[k] = e[k]
  <2>1. k \in 1 .. Len(d) - n /\ n + k \in 1 .. Len(s) - m /\ k \in 1 .. Len(s) - (m + n)
    BY <1>1, <1>2, <1>4
  <2>2. Dropped(d, n)[k] = d[n + k] /\ d[n + k] = s[m + (n + k)] /\ e[k] = s[m + n + k]
    BY <1>2, <1>4, <1>6, <2>1
  <2> QED
    BY <1>1, <2>1, <2>2
<1>9. Dropped(d, n) = e
  BY <1>4, <1>6, <1>7, <1>8, SeqEqual
<1> QED
  BY <1>9 DEF d, e

\* Adding at the end and dropping at the front do not disturb each other.
LEMMA DropExtended ==
    ASSUME NEW S, NEW s \in Seq(S), NEW t \in Seq(S), NEW n \in 0 .. Len(s)
    PROVE  Dropped(s \o t, n) = Dropped(s, n) \o t
<1> DEFINE c == s \o t
<1> DEFINE d == Dropped(s, n)
<1>1. Len(s) \in Nat /\ Len(t) \in Nat
  BY LenProperties
<1>2. /\ c \in Seq(S) /\ Len(c) = Len(s) + Len(t)
      /\ \A i \in 1 .. Len(s) + Len(t) : c[i] = IF i <= Len(s) THEN s[i] ELSE t[i - Len(s)]
  BY ConcatProperties
<1>3. d \in Seq(S) /\ Len(d) = Len(s) - n /\ \A k \in 1 .. Len(s) - n : d[k] = s[n + k]
  BY Drops
<1> HIDE DEF c, d
<1>4. /\ d \o t \in Seq(S) /\ Len(d \o t) = Len(d) + Len(t)
      /\ \A i \in 1 .. Len(d) + Len(t) : (d \o t)[i] = IF i <= Len(d) THEN d[i] ELSE t[i - Len(d)]
  BY <1>3, ConcatProperties
<1>5. n \in 0 .. Len(c)
  BY <1>1, <1>2
<1>6. /\ Dropped(c, n) \in Seq(S) /\ Len(Dropped(c, n)) = Len(c) - n
      /\ \A k \in 1 .. Len(c) - n : Dropped(c, n)[k] = c[n + k]
  BY <1>2, <1>5, Drops
<1>7. Len(Dropped(c, n)) = Len(d \o t)
  BY <1>1, <1>2, <1>3, <1>4, <1>6
<1>8. ASSUME NEW k \in 1 .. Len(Dropped(c, n)) PROVE Dropped(c, n)[k] = (d \o t)[k]
  <2>1. /\ k \in Int /\ n \in Int /\ k \in 1 .. Len(c) - n /\ k \in 1 .. Len(d) + Len(t)
        /\ n + k \in 1 .. Len(s) + Len(t)
    BY <1>1, <1>2, <1>3, <1>6
  <2>2. Dropped(c, n)[k] = IF n + k <= Len(s) THEN s[n + k] ELSE t[n + k - Len(s)]
    BY <1>2, <1>6, <2>1
  <2>3. (d \o t)[k] = IF k <= Len(d) THEN d[k] ELSE t[k - Len(d)]
    BY <1>4, <2>1
  <2>4. CASE k <= Len(d)
    <3>1. n + k <= Len(s) /\ k \in 1 .. Len(s) - n
      BY <1>1, <1>3, <2>1, <2>4
    <3> QED
      BY <1>3, <2>2, <2>3, <2>4, <3>1
  <2>5. CASE ~ (k <= Len(d))
    <3>1. ~ (n + k <= Len(s)) /\ n + k - Len(s) = k - Len(d)
      BY <1>1, <1>3, <2>1, <2>5
    <3> QED
      BY <2>2, <2>3, <2>5, <3>1
  <2> QED
    BY <2>4, <2>5
<1>9. Dropped(c, n) = d \o t
  BY <1>4, <1>6, <1>7, <1>8, SeqEqual
<1> QED
  BY <1>9 DEF c, d

LEMMA DropFirst ==
    ASSUME NEW S, NEW s \in Seq(S), NEW t \in Seq(S)
    PROVE  Dropped(s \o t, Len(s)) = t
<1>1. Len(s) \in 0 .. Len(s)
  BY LenProperties
<1>2. Dropped(s \o t, Len(s)) = Dropped(s, Len(s)) \o t
  BY <1>1, DropExtended
<1> QED
  BY <1>2, DropAll, ConcatEmptySeq

\* The first n elements and the others.
LEMMA Splits ==
    ASSUME NEW S, NEW s \in Seq(S), NEW n \in 0 .. Len(s)
    PROVE  SubSeq(s, 1, n) \o Dropped(s, n) = s
<1>1. Len(s) \in Nat
  BY LenProperties
<1>2. 1 \in 1 .. Len(s) + 1 /\ n \in 1 - 1 .. Len(s) /\ Len(s) \in n .. Len(s)
  BY <1>1
<1>3. SubSeq(s, 1, n) \o SubSeq(s, n + 1, Len(s)) = SubSeq(s, 1, Len(s))
  BY <1>2, ConcatAdjacentSubSeq
<1> QED
  BY <1>3, SubSeqFull DEF Dropped

LEMMA PrefixOfConcat ==
    ASSUME NEW S, NEW s \in Seq(S), NEW t \in Seq(S), NEW n \in 0 .. Len(s)
    PROVE  SubSeq(s \o t, 1, n) = SubSeq(s, 1, n)
<1> DEFINE c == s \o t
<1>1. Len(s) \in Nat /\ Len(t) \in Nat
  BY LenProperties
<1>2. /\ c \in Seq(S) /\ Len(c) = Len(s) + Len(t)
      /\ \A i \in 1 .. Len(s) + Len(t) : c[i] = IF i <= Len(s) THEN s[i] ELSE t[i - Len(s)]
  BY ConcatProperties
<1> HIDE DEF c
<1>3. n \in 0 .. Len(c)
  BY <1>1, <1>2
<1>4. /\ SubSeq(c, 1, n) \in Seq(S) /\ Len(SubSeq(c, 1, n)) = n
      /\ \A k \in 1 .. n : SubSeq(c, 1, n)[k] = c[k]
  BY <1>2, <1>3, PrefixIs
<1>5. /\ SubSeq(s, 1, n) \in Seq(S) /\ Len(SubSeq(s, 1, n)) = n
      /\ \A k \in 1 .. n : SubSeq(s, 1, n)[k] = s[k]
  BY PrefixIs
<1>6. \A k \in 1 .. n : k \in 1 .. Len(s) + Len(t) /\ k <= Len(s)
  BY <1>1
<1>7. \A k \in 1 .. n : SubSeq(c, 1, n)[k] = SubSeq(s, 1, n)[k]
  BY <1>2, <1>4, <1>5, <1>6
<1>8. SubSeq(c, 1, n) = SubSeq(s, 1, n)
  BY <1>4, <1>5, <1>7, SeqEqual
<1> QED
  BY <1>8 DEF c

LEMMA Whole ==
    ASSUME NEW S, NEW s \in Seq(S), NEW t \in Seq(S)
    PROVE  SubSeq(s \o t, 1, Len(s)) = s
<1>1. Len(s) \in 0 .. Len(s)
  BY LenProperties
<1> QED
  BY <1>1, PrefixOfConcat, SubSeqFull

\* f holds the concatenations of the prefixes of ss.
Upto(ss, n, f) ==
    \A i \in 1 .. n : f[i] = IF i = 1 THEN ss[i] ELSE f[i - 1] \o ss[i]

Flat(ss, f) == Upto(ss, Len(ss), f)

LEMMA FlatExists ==
    ASSUME NEW S, NEW ss \in Seq(Seq(S))
    PROVE  \E f \in [1 .. Len(ss) -> Seq(S)] : Flat(ss, f)
<1> DEFINE T == {n \in Nat : n <= Len(ss) => \E f \in [1 .. n -> Seq(S)] : Upto(ss, n, f)}
<1>1. Len(ss) \in Nat /\ \A i \in 1 .. Len(ss) : ss[i] \in Seq(S)
  BY LenProperties, ElementOfSeq
<1>2. 0 \in T
  <2>1. [i \in 1 .. 0 |-> <<>>] \in [1 .. 0 -> Seq(S)]
    BY EmptySeq
  <2>2. Upto(ss, 0, [i \in 1 .. 0 |-> <<>>])
    BY DEF Upto
  <2> QED
    BY <2>1, <2>2
<1>3. ASSUME NEW n \in Nat, n \in T PROVE n + 1 \in T
  <2> SUFFICES ASSUME n + 1 <= Len(ss)
               PROVE  \E f \in [1 .. n + 1 -> Seq(S)] : Upto(ss, n + 1, f)
    OBVIOUS
  <2>1. PICK f \in [1 .. n -> Seq(S)] : Upto(ss, n, f)
    BY <1>1, <1>3
  <2> DEFINE x == IF n = 0 THEN ss[1] ELSE f[n] \o ss[n + 1]
  <2> DEFINE g == [i \in 1 .. n + 1 |-> IF i <= n THEN f[i] ELSE x]
  <2>2. ss[n + 1] \in Seq(S) /\ (n # 0 => f[n] \in Seq(S))
    BY <1>1, <2>1
  <2>3. x \in Seq(S)
    BY <2>2, ConcatProperties
  <2> HIDE DEF x
  <2>4. g \in [1 .. n + 1 -> Seq(S)]
    BY <2>1, <2>3
  <2>5. ASSUME NEW i \in 1 .. n + 1
        PROVE  g[i] = IF i = 1 THEN ss[i] ELSE g[i - 1] \o ss[i]
    <3>1. CASE i <= n
      <4>1. i \in 1 .. n /\ (i # 1 => i - 1 \in 1 .. n /\ i - 1 \in 1 .. n + 1 /\ i - 1 <= n)
        BY <3>1
      <4>2. g[i] = f[i] /\ (i # 1 => g[i - 1] = f[i - 1])
        BY <3>1, <4>1
      <4> QED
        BY <2>1, <4>1, <4>2 DEF Upto
    <3>2. CASE ~ (i <= n)
      <4>1. i = n + 1 /\ (i # 1 => n \in 1 .. n + 1 /\ i - 1 = n /\ n # 0)
        BY <3>2
      <4>2. g[i] = x /\ (i # 1 => g[i - 1] = f[n])
        BY <3>2, <4>1
      <4> QED
        BY <4>1, <4>2 DEF x
    <3> QED
      BY <3>1, <3>2
  <2>6. Upto(ss, n + 1, g)
    BY <2>5 DEF Upto
  <2> QED
    BY <2>4, <2>6
<1>4. Nat \subseteq T
  <2> HIDE DEF T
  <2> QED
    BY <1>2, <1>3, SetInduction
<1>5. \E f \in [1 .. Len(ss) -> Seq(S)] : Upto(ss, Len(ss), f)
  BY <1>1, <1>4
<1> QED
  BY <1>5 DEF Flat

\* As far as two sequences of sequences agree, so do their concatenations.
LEMMA FlatAgrees ==
    ASSUME NEW ss, NEW tt, NEW f, NEW g, NEW m \in Nat,
           Upto(ss, m, f), Upto(tt, m, g), \A i \in 1 .. m : ss[i] = tt[i]
    PROVE  \A i \in 1 .. m : f[i] = g[i]
<1> DEFINE T == {n \in Nat : n \in 1 .. m => f[n] = g[n]}
<1>1. 0 \in T
  OBVIOUS
<1>2. ASSUME NEW n \in Nat, n \in T PROVE n + 1 \in T
  <2> SUFFICES ASSUME n + 1 \in 1 .. m PROVE f[n + 1] = g[n + 1]
    OBVIOUS
  <2>1. f[n + 1] = IF n + 1 = 1 THEN ss[n + 1] ELSE f[n + 1 - 1] \o ss[n + 1]
    BY DEF Upto
  <2>2. g[n + 1] = IF n + 1 = 1 THEN tt[n + 1] ELSE g[n + 1 - 1] \o tt[n + 1]
    BY DEF Upto
  <2>3. n + 1 # 1 => f[n + 1 - 1] = g[n + 1 - 1]
    <3>1. n + 1 - 1 = n /\ (n + 1 # 1 => n \in 1 .. m)
      OBVIOUS
    <3> QED
      BY <1>2, <3>1
  <2>4. ss[n + 1] = tt[n + 1]
    OBVIOUS
  <2> QED
    BY <2>1, <2>2, <2>3, <2>4
<1>3. Nat \subseteq T
  <2> HIDE DEF T
  <2> QED
    BY <1>1, <1>2, SetInduction
<1> QED
  BY <1>3

\* What FlattenSeq is: the last of the concatenations of prefixes.
LEMMA FlattenIs ==
    ASSUME NEW S, NEW ss \in Seq(Seq(S)), NEW f \in [1 .. Len(ss) -> Seq(S)],
           Flat(ss, f), Len(ss) # 0
    PROVE  FlattenSeq(ss) = f[Len(ss)]
<1> DEFINE Step(g) == [i \in 1 .. Len(ss) |-> IF i = 1 THEN ss[i] ELSE g[i - 1] \o ss[i]]
<1> DEFINE flatten == CHOOSE g : g = Step(g)
<1>1. f = Step(f)
  BY DEF Flat, Upto
<1>2. flatten = Step(flatten)
  <2> HIDE DEF Step
  <2> QED
    BY <1>1
<1>3. FlattenSeq(ss) = flatten[Len(ss)]
  BY DEF FlattenSeq
<1> HIDE DEF flatten
<1>4. Flat(ss, flatten)
  <2>1. \A i \in 1 .. Len(ss) : Step(flatten)[i] = IF i = 1 THEN ss[i] ELSE flatten[i - 1] \o ss[i]
    OBVIOUS
  <2>2. \A i \in 1 .. Len(ss) : flatten[i] = Step(flatten)[i]
    <3> HIDE DEF Step
    <3> QED
      BY <1>2
  <2> QED
    BY <2>1, <2>2 DEF Flat, Upto
<1>5. PICK m \in Nat : m = Len(ss)
  BY LenProperties
<1>6. Upto(ss, m, f) /\ Upto(ss, m, flatten)
  BY <1>4, <1>5 DEF Flat
<1>7. \A i \in 1 .. m : f[i] = flatten[i]
  BY <1>6, FlatAgrees
<1>8. m \in 1 .. m
  BY <1>5
<1> QED
  BY <1>3, <1>5, <1>7, <1>8

LEMMA FlattenEmpty == FlattenSeq(<<>>) = <<>>
  BY DEF FlattenSeq

LEMMA FlattenType ==
    ASSUME NEW S, NEW ss \in Seq(Seq(S))
    PROVE  FlattenSeq(ss) \in Seq(S)
<1>1. Len(ss) \in Nat
  BY LenProperties
<1>2. CASE Len(ss) = 0
  BY <1>2, EmptySeq, FlattenEmpty
<1>3. CASE Len(ss) # 0
  <2>1. PICK f \in [1 .. Len(ss) -> Seq(S)] : Flat(ss, f)
    BY FlatExists
  <2>2. FlattenSeq(ss) = f[Len(ss)] /\ Len(ss) \in 1 .. Len(ss)
    BY <1>1, <1>3, <2>1, FlattenIs
  <2> QED
    BY <2>1, <2>2
<1> QED
  BY <1>2, <1>3

LEMMA Associative ==
    ASSUME NEW S, NEW a \in Seq(S), NEW b \in Seq(S), NEW c \in Seq(S)
    PROVE  (a \o b) \o c = a \o (b \o c)
  BY ConcatAssociative

LEMMA Regroup ==
    ASSUME NEW S, NEW ss \in Seq(Seq(S)), NEW tt \in Seq(Seq(S)), NEW s \in Seq(S)
    PROVE  (FlattenSeq(ss) \o FlattenSeq(tt)) \o s = FlattenSeq(ss) \o (FlattenSeq(tt) \o s)
<1>1. PICK a : a = FlattenSeq(ss)
  OBVIOUS
<1>2. PICK b : b = FlattenSeq(tt)
  OBVIOUS
<1>3. a \in Seq(S) /\ b \in Seq(S)
  BY <1>1, <1>2, FlattenType
<1>4. (a \o b) \o s = a \o (b \o s)
  BY <1>3, Associative
<1> QED
  BY <1>1, <1>2, <1>4

LEMMA FlattenAppend ==
    ASSUME NEW S, NEW ss \in Seq(Seq(S)), NEW s \in Seq(S)
    PROVE  FlattenSeq(Append(ss, s)) = FlattenSeq(ss) \o s
<1> DEFINE tt == Append(ss, s)
<1>1. Len(ss) \in Nat
  BY LenProperties
<1>2. /\ tt \in Seq(Seq(S)) /\ Len(tt) = Len(ss) + 1
      /\ \A i \in 1 .. Len(ss) : tt[i] = ss[i]
      /\ tt[Len(ss) + 1] = s
  BY AppendProperties
<1> HIDE DEF tt
<1>3. PICK g : g \in [1 .. Len(tt) -> Seq(S)] /\ Flat(tt, g)
  BY <1>2, FlatExists
<1>4. FlattenSeq(tt) = g[Len(ss) + 1]
  BY <1>1, <1>2, <1>3, FlattenIs
<1>5. g[Len(ss) + 1] = IF Len(ss) + 1 = 1 THEN s ELSE g[Len(ss) + 1 - 1] \o s
  <2>1. Len(ss) + 1 \in 1 .. Len(tt)
    BY <1>1, <1>2
  <2>2. \A i \in 1 .. Len(tt) : g[i] = IF i = 1 THEN tt[i] ELSE g[i - 1] \o tt[i]
    BY <1>3 DEF Flat, Upto
  <2>3. g[Len(ss) + 1]
           = IF Len(ss) + 1 = 1 THEN tt[Len(ss) + 1]
             ELSE g[Len(ss) + 1 - 1] \o tt[Len(ss) + 1]
    BY ONLY <2>1, <2>2
  <2> QED
    BY ONLY <1>2, <2>3
<1>6. CASE Len(ss) = 0
  <2>1. ss = <<>>
    BY <1>6, EmptySeq
  <2>2. FlattenSeq(ss) \o s = s
    BY <2>1, FlattenEmpty, ConcatEmptySeq
  <2> QED
    BY <1>4, <1>5, <1>6, <2>2 DEF tt
<1>7. CASE Len(ss) # 0
  <2>1. PICK f : f \in [1 .. Len(ss) -> Seq(S)] /\ Flat(ss, f)
    BY FlatExists
  <2>2. FlattenSeq(ss) = f[Len(ss)]
    BY <1>1, <1>7, <2>1, FlattenIs
  <2>3. \A i \in 1 .. Len(ss) : f[i] = g[i]
    <3>1. PICK m \in Nat : m = Len(ss)
      BY <1>1
    <3>2. Upto(ss, m, f)
      BY <2>1, <3>1 DEF Flat
    <3>3. Upto(tt, m, g)
      <4>1. \A i \in 1 .. m : i \in 1 .. Len(tt)
        BY <1>2, <3>1
      <4> QED
        BY <1>3, <4>1 DEF Flat, Upto
    <3>4. \A i \in 1 .. m : ss[i] = tt[i]
      BY <1>2, <3>1
    <3> QED
      BY <3>1, <3>2, <3>3, <3>4, FlatAgrees
  <2>4. Len(ss) \in 1 .. Len(ss) /\ Len(ss) + 1 # 1 /\ Len(ss) + 1 - 1 = Len(ss)
    BY <1>1, <1>7
  <2> QED
    BY <1>4, <1>5, <2>2, <2>3, <2>4 DEF tt
<1> QED
  BY <1>6, <1>7

LEMMA FlattenOneMore ==
    ASSUME NEW S, NEW ss \in Seq(Seq(S)), NEW tt \in Seq(Seq(S)), NEW s \in Seq(S),
           FlattenSeq(ss \o tt) = FlattenSeq(ss) \o FlattenSeq(tt)
    PROVE  FlattenSeq(ss \o Append(tt, s)) = FlattenSeq(ss) \o FlattenSeq(Append(tt, s))
<1>1. ss \o tt \in Seq(Seq(S))
  BY ConcatProperties
<1>2. ss \o Append(tt, s) = Append(ss \o tt, s)
  <2>1. Append(tt, s) = tt \o <<s>> /\ Append(ss \o tt, s) = (ss \o tt) \o <<s>>
    BY <1>1, AppendIsConcat
  <2>2. <<s>> \in Seq(Seq(S))
    OBVIOUS
  <2>3. (ss \o tt) \o <<s>> = ss \o (tt \o <<s>>)
    BY <2>2, Associative
  <2> QED
    BY <2>1, <2>3
<1>3. FlattenSeq(Append(ss \o tt, s)) = FlattenSeq(ss \o tt) \o s
  BY <1>1, FlattenAppend
<1>4. FlattenSeq(Append(tt, s)) = FlattenSeq(tt) \o s
  BY FlattenAppend
<1>5. (FlattenSeq(ss) \o FlattenSeq(tt)) \o s = FlattenSeq(ss) \o (FlattenSeq(tt) \o s)
  BY Regroup
<1> QED
  BY <1>2, <1>3, <1>4, <1>5

LEMMA FlattenConcat ==
    ASSUME NEW S, NEW ss \in Seq(Seq(S)), NEW tt \in Seq(Seq(S))
    PROVE  FlattenSeq(ss \o tt) = FlattenSeq(ss) \o FlattenSeq(tt)
<1> DEFINE Good(uu) == FlattenSeq(ss \o uu) = FlattenSeq(ss) \o FlattenSeq(uu)
<1> DEFINE T == {n \in Nat : \A uu \in Seq(Seq(S)) : Len(uu) = n => Good(uu)}
<1>1. FlattenSeq(ss) \in Seq(S)
  BY FlattenType
<1>2. 0 \in T
  <2> SUFFICES ASSUME NEW uu \in Seq(Seq(S)), Len(uu) = 0 PROVE Good(uu)
    OBVIOUS
  <2>1. uu = <<>>
    BY EmptySeq
  <2>2. ss \o uu = ss
    BY <2>1, ConcatEmptySeq
  <2>3. FlattenSeq(ss) \o FlattenSeq(uu) = FlattenSeq(ss)
    BY <1>1, <2>1, FlattenEmpty, ConcatEmptySeq
  <2> QED
    BY <2>2, <2>3
<1>3. ASSUME NEW n \in Nat, n \in T PROVE n + 1 \in T
  <2> SUFFICES ASSUME NEW uu \in Seq(Seq(S)), Len(uu) = n + 1 PROVE Good(uu)
    OBVIOUS
  <2>1. uu # <<>>
    BY EmptySeq
  <2>2. PICK vv \in Seq(Seq(S)), v \in Seq(S) : uu = Append(vv, v)
    BY <2>1, SequenceEmptyOrAppend
  <2>3. Len(vv) = n
    BY <2>2, AppendProperties, LenProperties
  <2>4. Good(vv)
    BY <1>3, <2>3
  <2> QED
    BY <2>2, <2>4, FlattenOneMore
<1>4. Nat \subseteq T
  <2> HIDE DEF T
  <2> QED
    BY <1>2, <1>3, SetInduction
<1> QED
  BY <1>4, LenProperties

----------------------------------------------------------------------------
(* The bytes of a sequence of blocks.                                      *)

DataOf(blocks) == [i \in DOMAIN blocks |-> blocks[i].data]

LEMMA DataType ==
    ASSUME NEW blocks \in Seq(BlockType)
    PROVE  /\ Len(blocks) \in Nat
           /\ DataOf(blocks) \in Seq(Seq(Byte))
           /\ Len(DataOf(blocks)) = Len(blocks)
           /\ \A i \in 1 .. Len(blocks) :
                 /\ DataOf(blocks)[i] = blocks[i].data
                 /\ blocks[i] \in BlockType
                 /\ blocks[i].data \in Seq(Byte)
                 /\ Size(blocks[i]) \in Nat
                 /\ blocks[i].capacity \in Nat
<1>1. Len(blocks) \in Nat /\ DOMAIN blocks = 1 .. Len(blocks)
  BY LenProperties
<1>2. \A i \in 1 .. Len(blocks) : blocks[i] \in BlockType
  BY ElementOfSeq
<1>3. \A i \in 1 .. Len(blocks) : blocks[i].data \in Seq(Byte) /\ blocks[i].capacity \in Nat
  BY <1>2 DEF BlockType
<1>4. \A i \in 1 .. Len(blocks) : Size(blocks[i]) \in Nat
  BY <1>3, LenProperties DEF Size
<1>5. DataOf(blocks) = [i \in 1 .. Len(blocks) |-> blocks[i].data]
  BY <1>1 DEF DataOf
<1>6. DataOf(blocks) \in [1 .. Len(blocks) -> Seq(Byte)]
  BY <1>3, <1>5
<1>7. DataOf(blocks) \in Seq(Seq(Byte)) /\ Len(DataOf(blocks)) = Len(blocks)
  BY <1>1, <1>6
<1> QED
  BY <1>1, <1>2, <1>3, <1>4, <1>5, <1>7

LEMMA BytesAre ==
    ASSUME NEW blocks
    PROVE  BytesOf(blocks) = FlattenSeq(DataOf(blocks))
  BY DEF BytesOf, DataOf

LEMMA BytesType ==
    ASSUME NEW blocks \in Seq(BlockType)
    PROVE  BytesOf(blocks) \in Seq(Byte) /\ Len(BytesOf(blocks)) \in Nat
<1>1. BytesOf(blocks) \in Seq(Byte)
  BY BytesAre, DataType, FlattenType
<1> QED
  BY <1>1, LenProperties

LEMMA BytesNone == BytesOf(<<>>) = <<>>
<1>1. <<>> \in Seq(BlockType)
  OBVIOUS
<1>2. DataOf(<<>>) \in Seq(Seq(Byte)) /\ Len(DataOf(<<>>)) = 0
  BY <1>1, DataType, EmptySeq
<1>3. DataOf(<<>>) = <<>>
  BY <1>2, EmptySeq
<1> QED
  BY <1>3, BytesAre, FlattenEmpty

LEMMA BytesConcat ==
    ASSUME NEW blocks \in Seq(BlockType), NEW more \in Seq(BlockType)
    PROVE  BytesOf(blocks \o more) = BytesOf(blocks) \o BytesOf(more)
<1> DEFINE all == blocks \o more
<1>1. /\ all \in Seq(BlockType) /\ Len(all) = Len(blocks) + Len(more)
      /\ \A i \in 1 .. Len(blocks) + Len(more) :
            all[i] = IF i <= Len(blocks) THEN blocks[i] ELSE more[i - Len(blocks)]
  BY ConcatProperties
<1> HIDE DEF all
<1> DEFINE d == DataOf(blocks)
<1> DEFINE e == DataOf(more)
<1> DEFINE f == DataOf(all)
<1>2. /\ Len(blocks) \in Nat /\ d \in Seq(Seq(Byte)) /\ Len(d) = Len(blocks)
      /\ \A i \in 1 .. Len(blocks) : d[i] = blocks[i].data
  BY DataType
<1>3. /\ Len(more) \in Nat /\ e \in Seq(Seq(Byte)) /\ Len(e) = Len(more)
      /\ \A i \in 1 .. Len(more) : e[i] = more[i].data
  BY DataType
<1>4. /\ f \in Seq(Seq(Byte)) /\ Len(f) = Len(all)
      /\ \A i \in 1 .. Len(all) : f[i] = all[i].data
  BY <1>1, DataType
<1> HIDE DEF d, e, f
<1>5. /\ d \o e \in Seq(Seq(Byte)) /\ Len(d \o e) = Len(d) + Len(e)
      /\ \A i \in 1 .. Len(d) + Len(e) : (d \o e)[i] = IF i <= Len(d) THEN d[i] ELSE e[i - Len(d)]
  <2>1. d \in Seq(Seq(Byte)) /\ e \in Seq(Seq(Byte))
    BY <1>2, <1>3
  <2> QED
    BY ONLY <2>1, ConcatProperties
<1>6. Len(f) = Len(d \o e)
  BY <1>1, <1>2, <1>3, <1>4, <1>5
<1>7. ASSUME NEW i \in 1 .. Len(f) PROVE f[i] = (d \o e)[i]
  <2>1. i \in 1 .. Len(blocks) + Len(more) /\ i \in 1 .. Len(d) + Len(e) /\ i \in 1 .. Len(all)
    BY <1>1, <1>2, <1>3, <1>4
  <2>2. f[i] = all[i].data
    BY <1>4, <2>1
  <2>3. CASE i <= Len(blocks)
    <3>1. i \in 1 .. Len(blocks)
      BY <1>2, <2>1, <2>3
    <3>2. all[i] = blocks[i] /\ (d \o e)[i] = d[i]
      BY <1>1, <1>2, <1>5, <2>1, <2>3
    <3> QED
      BY <1>2, <2>2, <3>1, <3>2
  <2>4. CASE ~ (i <= Len(blocks))
    <3>1. i - Len(blocks) \in 1 .. Len(more)
      BY <1>2, <1>3, <2>1, <2>4
    <3>2. all[i] = more[i - Len(blocks)] /\ (d \o e)[i] = e[i - Len(blocks)]
      BY <1>1, <1>2, <1>5, <2>1, <2>4
    <3> QED
      BY <1>3, <2>2, <3>1, <3>2
  <2> QED
    BY <2>3, <2>4
<1>8. f = d \o e
  BY <1>4, <1>5, <1>6, <1>7, SeqEqual
<1>9. FlattenSeq(d \o e) = FlattenSeq(d) \o FlattenSeq(e)
  BY <1>2, <1>3, FlattenConcat
<1> QED
  BY <1>8, <1>9, BytesAre DEF d, e, f, all

LEMMA BytesOfOne ==
    ASSUME NEW block \in BlockType
    PROVE  BytesOf(<<block>>) = block.data
<1>1. block.data \in Seq(Byte)
  BY DEF BlockType
<1>2. DataOf(<<block>>) = <<block.data>>
  BY DEF DataOf
<1>3. Append(<<>>, block.data) = <<block.data>>
  OBVIOUS
<1>4. <<>> \in Seq(Seq(Byte))
  OBVIOUS
<1>5. FlattenSeq(Append(<<>>, block.data)) = FlattenSeq(<<>>) \o block.data
  BY <1>1, <1>4, FlattenAppend
<1>6. <<>> \o block.data = block.data
  BY <1>1, ConcatEmptySeq
<1> QED
  BY <1>2, <1>3, <1>5, <1>6, FlattenEmpty, BytesAre

\* The blocks up to the k-th, and the others.
LEMMA BytesSplit ==
    ASSUME NEW blocks \in Seq(BlockType), NEW k \in 0 .. Len(blocks)
    PROVE  /\ SubSeq(blocks, 1, k) \in Seq(BlockType)
           /\ Dropped(blocks, k) \in Seq(BlockType)
           /\ BytesOf(blocks) = BytesOf(SubSeq(blocks, 1, k)) \o BytesOf(Dropped(blocks, k))
<1>1. SubSeq(blocks, 1, k) \in Seq(BlockType)
  BY PrefixIs
<1>2. Dropped(blocks, k) \in Seq(BlockType)
  BY Drops
<1>3. SubSeq(blocks, 1, k) \o Dropped(blocks, k) = blocks
  BY Splits
<1> QED
  BY <1>1, <1>2, <1>3, BytesConcat

LEMMA OneMoreBlock ==
    ASSUME NEW blocks \in Seq(BlockType), NEW k \in 0 .. Len(blocks) - 1
    PROVE  SubSeq(blocks, 1, k + 1) = SubSeq(blocks, 1, k) \o <<blocks[k + 1]>>
<1>1. Len(blocks) \in Nat
  BY LenProperties
<1>2. 1 \in 1 .. Len(blocks) /\ k + 1 \in 1 .. Len(blocks)
  BY <1>1
<1>3. SubSeq(blocks, 1, k + 1) = SubSeq(blocks, 1, k + 1 - 1) \o <<blocks[k + 1]>>
  BY <1>2, SubSeqRecursiveSecond
<1>4. k + 1 - 1 = k
  OBVIOUS
<1> QED
  BY <1>3, <1>4

LEMMA BytesNext ==
    ASSUME NEW blocks \in Seq(BlockType), NEW k \in 0 .. Len(blocks) - 1
    PROVE  BytesOf(SubSeq(blocks, 1, k + 1))
             = BytesOf(SubSeq(blocks, 1, k)) \o blocks[k + 1].data
<1>1. Len(blocks) \in Nat
  BY LenProperties
<1>2. k \in 0 .. Len(blocks) /\ k + 1 \in 1 .. Len(blocks)
  BY <1>1
<1>3. SubSeq(blocks, 1, k) \in Seq(BlockType)
  BY <1>2, BytesSplit
<1>4. blocks[k + 1] \in BlockType
  BY <1>2, ElementOfSeq
<1>5. <<blocks[k + 1]>> \in Seq(BlockType)
  BY <1>4
<1>6. BytesOf(SubSeq(blocks, 1, k) \o <<blocks[k + 1]>>)
        = BytesOf(SubSeq(blocks, 1, k)) \o BytesOf(<<blocks[k + 1]>>)
  BY <1>3, <1>5, BytesConcat
<1> QED
  BY <1>4, <1>6, OneMoreBlock, BytesOfOne

\* How many bytes there are in the first k blocks.
SizeUpto(blocks, k) == Len(BytesOf(SubSeq(blocks, 1, k)))

LEMMA SizesAre ==
    ASSUME NEW blocks \in Seq(BlockType)
    PROVE  /\ SizeUpto(blocks, 0) = 0
           /\ SizeUpto(blocks, Len(blocks)) = Len(BytesOf(blocks))
           /\ \A k \in 0 .. Len(blocks) :
                 SizeUpto(blocks, k) \in Nat /\ SizeUpto(blocks, k) <= Len(BytesOf(blocks))
           /\ \A k \in 0 .. Len(blocks) - 1 :
                 SizeUpto(blocks, k + 1) = SizeUpto(blocks, k) + Size(blocks[k + 1])
<1>1. Len(blocks) \in Nat
  BY LenProperties
<1>2. SizeUpto(blocks, 0) = 0
  <2>1. SubSeq(blocks, 1, 0) = <<>>
    BY SubSeqEmpty
  <2> QED
    BY <2>1, BytesNone, EmptySeq DEF SizeUpto
<1>3. SizeUpto(blocks, Len(blocks)) = Len(BytesOf(blocks))
  BY SubSeqFull DEF SizeUpto
<1>4. ASSUME NEW k \in 0 .. Len(blocks)
      PROVE  SizeUpto(blocks, k) \in Nat /\ SizeUpto(blocks, k) <= Len(BytesOf(blocks))
  <2> DEFINE p == BytesOf(SubSeq(blocks, 1, k))
  <2> DEFINE q == BytesOf(Dropped(blocks, k))
  <2>1. p \in Seq(Byte) /\ q \in Seq(Byte) /\ BytesOf(blocks) = p \o q
    BY BytesSplit, BytesType
  <2> HIDE DEF p, q
  <2>2. Len(p) \in Nat /\ Len(q) \in Nat
    BY <2>1, LenProperties
  <2>3. Len(p \o q) = Len(p) + Len(q)
    BY <2>1, ConcatProperties
  <2>4. Len(p) \in Nat /\ Len(p) <= Len(BytesOf(blocks))
    BY <2>1, <2>2, <2>3
  <2> QED
    BY <2>4 DEF SizeUpto, p
<1>5. ASSUME NEW k \in 0 .. Len(blocks) - 1
      PROVE  SizeUpto(blocks, k + 1) = SizeUpto(blocks, k) + Size(blocks[k + 1])
  <2>1. k \in 0 .. Len(blocks) /\ k + 1 \in 1 .. Len(blocks)
    BY <1>1
  <2>2. BytesOf(SubSeq(blocks, 1, k)) \in Seq(Byte)
    BY <2>1, BytesSplit, BytesType
  <2>3. blocks[k + 1].data \in Seq(Byte)
    BY <2>1, DataType
  <2>4. Len(BytesOf(SubSeq(blocks, 1, k)) \o blocks[k + 1].data)
          = Len(BytesOf(SubSeq(blocks, 1, k))) + Len(blocks[k + 1].data)
    BY <2>2, <2>3, ConcatProperties
  <2> QED
    BY <2>4, BytesNext DEF SizeUpto, Size
<1> QED
  BY <1>2, <1>3, <1>4, <1>5

----------------------------------------------------------------------------
(* A buffer and its content.                                               *)

BufType == [blocks_ : Seq(BlockType), total_size_ : Nat, read_pos_ : Nat, write_pos_ : Nat]

LEMMA BufFields ==
    ASSUME NEW b \in BufType
    PROVE  /\ b.blocks_ \in Seq(BlockType) /\ Len(b.blocks_) \in Nat
           /\ DOMAIN b.blocks_ = 1 .. Len(b.blocks_)
           /\ b.total_size_ \in Nat /\ b.read_pos_ \in Nat /\ b.write_pos_ \in Nat
           /\ b.blocks_ # <<>> => Len(b.blocks_) # 0
<1>1. /\ b.blocks_ \in Seq(BlockType)
      /\ b.total_size_ \in Nat /\ b.read_pos_ \in Nat /\ b.write_pos_ \in Nat
  BY DEF BufType
<1>2. Len(b.blocks_) \in Nat /\ DOMAIN b.blocks_ = 1 .. Len(b.blocks_)
  BY <1>1, LenProperties
<1>3. b.blocks_ # <<>> => Len(b.blocks_) # 0
  BY <1>1, EmptySeq
<1> QED
  BY <1>1, <1>2, <1>3

\* A buffer that was never written: one block, with nothing in it.
LEMMA NewBlock ==
    /\ Block(INITIAL_BLOCK_SIZE) \in BlockType
    /\ Size(Block(INITIAL_BLOCK_SIZE)) = 0
    /\ <<Block(INITIAL_BLOCK_SIZE)>> \in Seq(BlockType)
    /\ BytesOf(<<Block(INITIAL_BLOCK_SIZE)>>) = <<>>
<1>1. <<>> \in Seq(Byte) /\ Len(<<>>) = 0
  BY EmptySeq
<1>2. INITIAL_BLOCK_SIZE \in Nat
  BY BlockSizeAssumption
<1>3. Block(INITIAL_BLOCK_SIZE) \in BlockType /\ Block(INITIAL_BLOCK_SIZE).data = <<>>
  BY <1>1, <1>2 DEF Block, BlockType
<1>4. <<Block(INITIAL_BLOCK_SIZE)>> \in Seq(BlockType)
  BY <1>3
<1>5. Size(Block(INITIAL_BLOCK_SIZE)) = 0
  BY <1>1, <1>3 DEF Size
<1> QED
  BY <1>3, <1>4, <1>5, BytesOfOne

\* read_pos_ is within the blocks, and the content is what is behind it.
LEMMA ContentIs ==
    ASSUME NEW b \in BufType, Wellformed(b)
    PROVE  /\ b.read_pos_ \in 0 .. Len(BytesOf(b.blocks_))
           /\ Content(b) = Dropped(BytesOf(b.blocks_), b.read_pos_)
           /\ Content(b) \in Seq(Byte)
           /\ Len(Content(b)) = Len(BytesOf(b.blocks_)) - b.read_pos_
           /\ Len(Content(b)) \in Nat
           /\ b.total_size_ = Len(Content(b))
<1> DEFINE bs == b.blocks_
<1>1. /\ bs \in Seq(BlockType) /\ Len(bs) \in Nat /\ b.read_pos_ \in Nat
      /\ bs # <<>> => Len(bs) # 0
  BY BufFields
<1>2. BytesOf(bs) \in Seq(Byte) /\ Len(BytesOf(bs)) \in Nat
  BY <1>1, BytesType
<1>3. b.read_pos_ <= Len(BytesOf(bs))
  <2>1. CASE bs = <<>> \/ b = Empty
    BY <1>2, <2>1 DEF Wellformed, Empty
  <2>2. CASE bs # <<>> /\ b # Empty
    <3>1. b.read_pos_ < Size(bs[1])
      BY <2>2 DEF Wellformed
    <3>2. 0 \in 0 .. Len(bs) - 1 /\ 1 \in 0 .. Len(bs) /\ 1 \in 1 .. Len(bs)
      BY <1>1, <2>2
    <3>3. /\ SizeUpto(bs, 0) = 0
          /\ SizeUpto(bs, 0 + 1) = SizeUpto(bs, 0) + Size(bs[0 + 1])
          /\ SizeUpto(bs, 1) <= Len(BytesOf(bs))
      BY <1>1, <3>2, SizesAre
    <3>4. Size(bs[1]) \in Nat
      BY <1>1, <3>2, DataType
    <3> QED
      BY <1>1, <1>2, <3>1, <3>3, <3>4
  <2> QED
    BY <2>1, <2>2
<1>4. b.read_pos_ \in 0 .. Len(BytesOf(bs))
  BY <1>1, <1>2, <1>3
<1>5. Content(b) = Dropped(BytesOf(bs), b.read_pos_)
  BY DEF Content, Dropped
<1>6. Content(b) \in Seq(Byte) /\ Len(Content(b)) = Len(BytesOf(bs)) - b.read_pos_
  BY <1>2, <1>4, <1>5, Drops
<1>7. b.total_size_ = Len(Content(b))
  BY DEF Wellformed
<1>8. Len(Content(b)) \in Nat
  BY <1>6, LenProperties
<1> QED
  BY <1>4, <1>5, <1>6, <1>7, <1>8

LEMMA EmptyIs ==
    /\ Empty \in BufType
    /\ Wellformed(Empty)
    /\ Content(Empty) = <<>>
    /\ Empty.total_size_ = 0
<1> DEFINE block == Block(INITIAL_BLOCK_SIZE)
<1>1. /\ Empty.blocks_ = <<block>> /\ Empty.total_size_ = 0
      /\ Empty.read_pos_ = 0 /\ Empty.write_pos_ = 0
  BY DEF Empty
<1>2. Empty \in BufType
  BY NewBlock DEF Empty, BufType
<1>3. Content(Empty) = <<>>
  <2>1. BytesOf(Empty.blocks_) = <<>> /\ Len(<<>>) = 0
    BY <1>1, NewBlock, EmptySeq
  <2>2. SubSeq(<<>>, 0 + 1, 0) = <<>>
    BY SubSeqEmpty
  <2> QED
    BY <1>1, <2>1, <2>2 DEF Content
<1>4. Size(block) = 0 /\ block.capacity = INITIAL_BLOCK_SIZE
  BY NewBlock DEF Block
<1>5. Len(<<>>) = 0 /\ Len(<<block>>) = 1 /\ <<block>>[1] = block /\ DOMAIN <<block>> = {1}
      /\ <<block>> # <<>>
  OBVIOUS
<1>6. INITIAL_BLOCK_SIZE \in Nat
  BY BlockSizeAssumption
<1> HIDE DEF block
<1>7. Empty.total_size_ = Len(Content(Empty))
  BY <1>1, <1>3, <1>5
<1>8. /\ Empty.blocks_ # <<>>
      /\ Empty.write_pos_ = Size(Empty.blocks_[Len(Empty.blocks_)])
  BY <1>1, <1>4, <1>5
<1>9. \A i \in DOMAIN Empty.blocks_ : Size(Empty.blocks_[i]) <= Empty.blocks_[i].capacity
  BY <1>1, <1>4, <1>5, <1>6
<1> QED
  BY <1>1, <1>2, <1>3, <1>7, <1>8, <1>9 DEF Wellformed

----------------------------------------------------------------------------
(* append.                                                                 *)

\* The last block is changed.
LEMMA LastBlock ==
    ASSUME NEW blocks \in Seq(BlockType), Len(blocks) # 0, NEW x \in BlockType
    PROVE  LET n == Len(blocks)
               more == [blocks EXCEPT ![n] = x]
           IN  /\ more \in Seq(BlockType) /\ Len(more) = n
               /\ more[n] = x
               /\ \A i \in 1 .. n : i # n => more[i] = blocks[i]
               /\ BytesOf(more) = BytesOf(SubSeq(blocks, 1, n - 1)) \o x.data
<1> DEFINE n == Len(blocks)
<1> DEFINE more == [blocks EXCEPT ![n] = x]
<1>1. n \in Nat /\ n \in 1 .. n /\ n - 1 \in 0 .. n - 1
  BY LenProperties
<1>2. /\ more \in Seq(BlockType) /\ Len(more) = n
      /\ \A i \in 1 .. n : more[i] = IF i = n THEN x ELSE blocks[i]
  BY <1>1, ExceptSeq
<1> HIDE DEF more
<1>3. BytesOf(SubSeq(more, 1, n - 1 + 1)) = BytesOf(SubSeq(more, 1, n - 1)) \o more[n - 1 + 1].data
  BY <1>1, <1>2, BytesNext
<1>4. SubSeq(more, 1, n - 1) = SubSeq(blocks, 1, n - 1)
  <2>1. n - 1 \in 0 .. Len(more) /\ n - 1 \in 0 .. Len(blocks)
    BY <1>1, <1>2
  <2>2. /\ SubSeq(more, 1, n - 1) \in Seq(BlockType)
        /\ Len(SubSeq(more, 1, n - 1)) = n - 1
        /\ \A k \in 1 .. n - 1 : SubSeq(more, 1, n - 1)[k] = more[k]
    BY <1>2, <2>1, PrefixIs
  <2>3. /\ SubSeq(blocks, 1, n - 1) \in Seq(BlockType)
        /\ Len(SubSeq(blocks, 1, n - 1)) = n - 1
        /\ \A k \in 1 .. n - 1 : SubSeq(blocks, 1, n - 1)[k] = blocks[k]
    BY <2>1, PrefixIs
  <2>4. \A k \in 1 .. n - 1 : k \in 1 .. n /\ k # n
    BY <1>1
  <2>5. \A k \in 1 .. n - 1 : SubSeq(more, 1, n - 1)[k] = SubSeq(blocks, 1, n - 1)[k]
    BY <1>2, <2>2, <2>3, <2>4
  <2> QED
    BY <2>2, <2>3, <2>5, SeqEqual
<1>5. n - 1 + 1 = n /\ SubSeq(more, 1, n) = more /\ more[n] = x
  BY <1>1, <1>2, SubSeqFull
<1>6. BytesOf(more) = BytesOf(SubSeq(blocks, 1, n - 1)) \o x.data
  BY <1>3, <1>4, <1>5
<1>7. \A i \in 1 .. n : i # n => more[i] = blocks[i]
  BY <1>2
<1> QED
  BY <1>2, <1>5, <1>6, <1>7 DEF more

\* Bytes are written behind those of the last block.
LEMMA Filling ==
    ASSUME NEW blocks \in Seq(BlockType), Len(blocks) # 0, NEW s \in Seq(Byte)
    PROVE  LET n == Len(blocks)
               filled == [blocks EXCEPT ![n].data = SubSeq(@, 1, Size(blocks[n])) \o s]
           IN  /\ filled \in Seq(BlockType) /\ Len(filled) = n
               /\ Size(filled[n]) = Size(blocks[n]) + Len(s)
               /\ filled[n].capacity = blocks[n].capacity
               /\ \A i \in 1 .. n : i # n => filled[i] = blocks[i]
               /\ BytesOf(filled) = BytesOf(blocks) \o s
<1> DEFINE n == Len(blocks)
<1> DEFINE old == blocks[n]
<1> DEFINE y == [old EXCEPT !.data = @ \o s]
<1> DEFINE front == BytesOf(SubSeq(blocks, 1, n - 1))
<1>1. n \in Nat /\ n \in 1 .. n
  BY LenProperties
<1>2. old \in BlockType /\ old.data \in Seq(Byte)
  BY <1>1, DataType
<1>3. SubSeq(old.data, 1, Size(old)) = old.data
  BY <1>2, SubSeqFull DEF Size
<1>4. [blocks EXCEPT ![n].data = SubSeq(@, 1, Size(blocks[n])) \o s] = [blocks EXCEPT ![n] = y]
  BY <1>3
<1>5. old.data \o s \in Seq(Byte) /\ Len(old.data \o s) = Len(old.data) + Len(s)
  BY <1>2, ConcatProperties
<1>6. y \in BlockType /\ y.data = old.data \o s /\ y.capacity = old.capacity
  <2>1. old \in [data : Seq(Byte), capacity : Nat]
    BY <1>2 DEF BlockType
  <2> HIDE DEF old
  <2>2. y \in [data : Seq(Byte), capacity : Nat]
    BY <1>5, <2>1
  <2> QED
    BY <2>1, <2>2 DEF BlockType
<1>7. [blocks EXCEPT ![n] = old] = blocks
  BY <1>1
<1>8. BytesOf(blocks) = front \o old.data
  <2>1. BytesOf([blocks EXCEPT ![n] = old]) = front \o old.data
    BY <1>2, LastBlock
  <2> QED
    BY <1>7, <2>1
<1> HIDE DEF old, y
<1>9. /\ [blocks EXCEPT ![n] = y] \in Seq(BlockType) /\ Len([blocks EXCEPT ![n] = y]) = n
      /\ [blocks EXCEPT ![n] = y][n] = y
      /\ \A i \in 1 .. n : i # n => [blocks EXCEPT ![n] = y][i] = blocks[i]
      /\ BytesOf([blocks EXCEPT ![n] = y]) = front \o y.data
  BY <1>6, LastBlock
<1>10. front \in Seq(Byte)
  <2>1. n - 1 \in 0 .. Len(blocks)
    BY <1>1
  <2> QED
    BY <2>1, BytesSplit, BytesType
<1> HIDE DEF front
<1>11. (front \o old.data) \o s = front \o (old.data \o s)
  <2>1. PICK d \in Seq(Byte) : d = old.data
    BY <1>2
  <2>2. (front \o d) \o s = front \o (d \o s)
    BY <1>10, Associative
  <2> QED
    BY <2>1, <2>2
<1>12. BytesOf([blocks EXCEPT ![n] = y]) = BytesOf(blocks) \o s
  BY <1>6, <1>8, <1>9, <1>11
<1>13. Size(y) = Size(old) + Len(s)
  BY <1>5, <1>6 DEF Size
<1> QED
  BY <1>4, <1>6, <1>9, <1>12, <1>13 DEF old

\* Where append starts from: there is a last block, and room in it is counted
\* from its end.
Appendable(w) ==
    /\ w \in BufType
    /\ Len(w.blocks_) # 0
    /\ w.write_pos_ = Size(w.blocks_[Len(w.blocks_)])
    /\ \A i \in 1 .. Len(w.blocks_) : Size(w.blocks_[i]) <= w.blocks_[i].capacity
    /\ \/ w.blocks_ = <<Block(INITIAL_BLOCK_SIZE)>> /\ w.read_pos_ = 0
       \/ /\ \A i \in 1 .. Len(w.blocks_) : Size(w.blocks_[i]) > 0
          /\ w.read_pos_ < Size(w.blocks_[1])

LEMMA WithBlockIs ==
    ASSUME NEW b \in BufType, Wellformed(b)
    PROVE  /\ Appendable(WithBlock(b))
           /\ BytesOf(WithBlock(b).blocks_) = BytesOf(b.blocks_)
           /\ WithBlock(b).read_pos_ = b.read_pos_
           /\ WithBlock(b).total_size_ = b.total_size_
<1> DEFINE block == Block(INITIAL_BLOCK_SIZE)
<1>1. /\ b.blocks_ \in Seq(BlockType) /\ Len(b.blocks_) \in Nat
      /\ DOMAIN b.blocks_ = 1 .. Len(b.blocks_)
      /\ b.blocks_ # <<>> => Len(b.blocks_) # 0
  BY BufFields
<1>2. CASE b.blocks_ # <<>>
  <2>1. WithBlock(b) = b
    BY <1>2 DEF WithBlock
  <2>2. CASE b = Empty
    <3>1. b.blocks_ = <<block>> /\ b.read_pos_ = 0
      BY <2>2 DEF Empty
    <3> QED
      BY <1>1, <1>2, <2>1, <3>1 DEF Appendable, Wellformed
  <2>3. CASE b # Empty
    BY <1>1, <1>2, <2>1, <2>3 DEF Appendable, Wellformed, Nonempty
  <2> QED
    BY <2>1, <2>2, <2>3
<1>3. CASE b.blocks_ = <<>>
  <2> DEFINE w == [b EXCEPT !.blocks_ = <<block>>, !.write_pos_ = 0]
  <2>1. WithBlock(b) = w
    BY <1>3 DEF WithBlock
  <2>2. b.read_pos_ = 0
    BY <1>3 DEF Wellformed
  <2>3. b \in [blocks_ : Seq(BlockType), total_size_ : Nat, read_pos_ : Nat, write_pos_ : Nat]
    BY DEF BufType
  <2>4. <<block>> \in Seq(BlockType) /\ Size(block) = 0 /\ BytesOf(<<block>>) = <<>>
    BY NewBlock
  <2>5. block.capacity = INITIAL_BLOCK_SIZE /\ INITIAL_BLOCK_SIZE \in Nat
    BY BlockSizeAssumption DEF Block
  <2>6. Len(<<block>>) = 1 /\ <<block>>[1] = block
    OBVIOUS
  <2> HIDE DEF block
  <2>7. /\ w \in BufType /\ w.blocks_ = <<block>> /\ w.write_pos_ = 0
        /\ w.read_pos_ = b.read_pos_ /\ w.total_size_ = b.total_size_
    BY <2>3, <2>4 DEF BufType
  <2> HIDE DEF w
  <2>8. \A i \in 1 .. Len(w.blocks_) : Size(w.blocks_[i]) <= w.blocks_[i].capacity
    <3>1. ASSUME NEW i \in 1 .. Len(w.blocks_)
          PROVE  Size(w.blocks_[i]) <= w.blocks_[i].capacity
      <4>1. i = 1
        BY <2>6, <2>7
      <4> QED
        BY <2>4, <2>5, <2>6, <2>7, <4>1
    <3> QED
      BY <3>1
  <2>9. Appendable(w)
    BY <2>2, <2>4, <2>6, <2>7, <2>8 DEF Appendable, block
  <2>10. BytesOf(w.blocks_) = BytesOf(b.blocks_)
    BY <1>3, <2>4, <2>7, BytesNone
  <2> QED
    BY <2>1, <2>7, <2>9, <2>10
<1> QED
  BY <1>2, <1>3

\* What append leaves, when the last block has room for s and when it has not.
Fits(w, s) == LET last == w.blocks_[Len(w.blocks_)]
              IN  Lesser(last.capacity - w.write_pos_, Len(s))

LEMMA AppendIs ==
    ASSUME NEW b, NEW s, s # <<>>
    PROVE  LET w == WithBlock(b)
               n == Len(w.blocks_)
               last == w.blocks_[n]
               here == Fits(w, s)
               rest == SubSeq(s, here + 1, Len(s))
               filled == [w.blocks_ EXCEPT
                             ![n].data = SubSeq(@, 1, w.write_pos_) \o SubSeq(s, 1, here)]
           IN  append(b, s) =
                 [w EXCEPT
                    !.blocks_ = IF rest = <<>> THEN filled
                                ELSE Append(filled, [data |-> rest,
                                                     capacity |-> NewCapacity(last, Len(s))]),
                    !.write_pos_ = IF rest = <<>> THEN @ + here ELSE Len(rest),
                    !.total_size_ = (@ + Len(s)) % SizeMod]
  BY DEF append, Fits

LEMMA Fitting ==
    ASSUME NEW w, Appendable(w), NEW s \in Seq(Byte), s # <<>>
    PROVE  LET last == w.blocks_[Len(w.blocks_)]
           IN  /\ Len(s) \in Nat \ {0}
               /\ Fits(w, s) \in 0 .. Len(s)
               /\ w.write_pos_ + Fits(w, s) <= last.capacity
               /\ w.write_pos_ = 0 => Fits(w, s) > 0 \/ last.capacity = 0
               /\ last.capacity \in Nat /\ w.write_pos_ \in Nat
<1> DEFINE n == Len(w.blocks_)
<1> DEFINE last == w.blocks_[n]
<1>1. Len(s) \in Nat \ {0}
  BY EmptySeq
<1>2. w \in BufType
  BY DEF Appendable
<1>3. n \in Nat /\ n \in 1 .. n /\ w.write_pos_ \in Nat
  BY <1>2, BufFields DEF Appendable
<1>4. last.capacity \in Nat
  BY <1>2, <1>3, BufFields, DataType
<1>5. w.write_pos_ <= last.capacity
  BY <1>3 DEF Appendable
<1>6. Fits(w, s) = Lesser(last.capacity - w.write_pos_, Len(s))
  BY DEF Fits
<1> HIDE DEF last
<1>7. PICK c \in Nat, p \in Nat : c = last.capacity /\ p = w.write_pos_
  BY <1>3, <1>4
<1>8. Fits(w, s) = IF c - p < Len(s) THEN c - p ELSE Len(s)
  BY <1>6, <1>7 DEF Lesser
<1>9. /\ Fits(w, s) \in 0 .. Len(s)
      /\ p + Fits(w, s) <= c
      /\ p = 0 => Fits(w, s) > 0 \/ c = 0
  BY <1>1, <1>5, <1>7, <1>8
<1> QED
  BY <1>1, <1>3, <1>4, <1>7, <1>9 DEF last

\* A first byte in every block, and the read position before it.
LEMMA FirstBlock ==
    ASSUME NEW w, Appendable(w), NEW more, NEW n \in Nat, n = Len(w.blocks_),
           NEW m \in Nat, m >= n,
           \A i \in 1 .. n : i # n => more[i] = w.blocks_[i],
           Size(more[n]) \in Nat, Size(more[n]) >= Size(w.blocks_[n]), Size(more[n]) > 0,
           \A i \in n + 1 .. m : Size(more[i]) > 0
    PROVE  /\ \A i \in 1 .. m : Size(more[i]) > 0
           /\ w.read_pos_ < Size(more[1])
<1>1. n # 0 /\ w \in BufType
  BY DEF Appendable
<1>2. \A i \in 1 .. n : Size(w.blocks_[i]) \in Nat
  BY <1>1, BufFields, DataType
<1>3. w.read_pos_ \in Nat
  BY <1>1, BufFields
<1>4. CASE w.blocks_ = <<Block(INITIAL_BLOCK_SIZE)>> /\ w.read_pos_ = 0
  <2>1. n = 1
    BY <1>4
  <2>2. \A i \in 1 .. m : i = 1 \/ i \in n + 1 .. m
    BY <2>1
  <2> QED
    BY <1>4, <2>1, <2>2
<1>5. CASE /\ \A i \in 1 .. Len(w.blocks_) : Size(w.blocks_[i]) > 0
           /\ w.read_pos_ < Size(w.blocks_[1])
  <2>1. ASSUME NEW i \in 1 .. m PROVE Size(more[i]) > 0
    <3>1. i = n \/ (i \in 1 .. n /\ i # n) \/ i \in n + 1 .. m
      OBVIOUS
    <3> QED
      BY <1>5, <3>1
  <2>2. w.read_pos_ < Size(more[1])
    <3>1. CASE n = 1
      BY <1>2, <1>3, <1>5, <3>1
    <3>2. CASE n # 1
      <4>1. 1 \in 1 .. n /\ 1 # n
        BY <1>1, <3>2
      <4> QED
        BY <1>5, <4>1
    <3> QED
      BY <3>1, <3>2
  <2> QED
    BY <2>1, <2>2
<1> QED
  BY <1>4, <1>5 DEF Appendable

\* append writes s behind the content, and the members still agree.
LEMMA AppendKeeps ==
    ASSUME NEW b \in BufType, Wellformed(b), NEW s \in Seq(Byte), s # <<>>,
           Len(Content(b)) + Len(s) < SizeMod
    PROVE  /\ append(b, s) \in BufType
           /\ Wellformed(append(b, s))
           /\ Content(append(b, s)) = Content(b) \o s
<1> DEFINE w == WithBlock(b)
<1> DEFINE n == Len(w.blocks_)
<1> DEFINE last == w.blocks_[n]
<1> DEFINE here == Fits(w, s)
<1> DEFINE s1 == SubSeq(s, 1, here)
<1> DEFINE rest == SubSeq(s, here + 1, Len(s))
<1> DEFINE filled == [w.blocks_ EXCEPT ![n].data = SubSeq(@, 1, w.write_pos_) \o s1]
<1> DEFINE new == [data |-> rest, capacity |-> NewCapacity(last, Len(s))]
<1> DEFINE blocks == IF rest = <<>> THEN filled ELSE Append(filled, new)
<1> DEFINE pos == IF rest = <<>> THEN w.write_pos_ + here ELSE Len(rest)
<1> DEFINE r == append(b, s)
<1>1. /\ Appendable(w) /\ w \in BufType
      /\ BytesOf(w.blocks_) = BytesOf(b.blocks_)
      /\ w.read_pos_ = b.read_pos_ /\ w.total_size_ = b.total_size_
  BY WithBlockIs DEF Appendable
<1>2. r = [w EXCEPT !.blocks_ = blocks, !.write_pos_ = pos, !.total_size_ = (@ + Len(s)) % SizeMod]
  BY AppendIs
<1>3. n \in Nat /\ n # 0 /\ n \in 1 .. n /\ w.blocks_ \in Seq(BlockType)
      /\ w.write_pos_ = Size(last)
  BY <1>1, BufFields DEF Appendable
<1>4. /\ Len(s) \in Nat \ {0} /\ here \in 0 .. Len(s)
      /\ w.write_pos_ + here <= last.capacity
      /\ w.write_pos_ = 0 => here > 0 \/ last.capacity = 0
      /\ last.capacity \in Nat /\ w.write_pos_ \in Nat
  BY <1>1, Fitting
<1>5. /\ s1 \in Seq(Byte) /\ Len(s1) = here
      /\ rest \in Seq(Byte) /\ Len(rest) = Len(s) - here /\ s1 \o rest = s
  BY <1>4, PrefixIs, Drops, Splits DEF Dropped
<1>6. /\ filled \in Seq(BlockType) /\ Len(filled) = n
      /\ Size(filled[n]) = Size(last) + here
      /\ filled[n].capacity = last.capacity
      /\ \A i \in 1 .. n : i # n => filled[i] = w.blocks_[i]
      /\ BytesOf(filled) = BytesOf(w.blocks_) \o s1
  <2>1. s1 \in Seq(Byte) /\ Len(w.blocks_) # 0
    BY <1>3, <1>5
  <2> HIDE DEF s1
  <2>2. LET k == Len(w.blocks_)
            f == [w.blocks_ EXCEPT ![k].data = SubSeq(@, 1, Size(w.blocks_[k])) \o s1]
        IN  /\ f \in Seq(BlockType) /\ Len(f) = k
            /\ Size(f[k]) = Size(w.blocks_[k]) + Len(s1)
            /\ f[k].capacity = w.blocks_[k].capacity
            /\ \A i \in 1 .. k : i # k => f[i] = w.blocks_[i]
            /\ BytesOf(f) = BytesOf(w.blocks_) \o s1
    BY <1>3, <2>1, Filling
  <2> QED
    BY <1>3, <1>5, <2>2
<1>7. NewCapacity(last, Len(s)) \in Nat /\ NewCapacity(last, Len(s)) >= Len(s)
  <2>1. PICK c \in Nat : c = last.capacity
    BY <1>4
  <2>2. Lesser(last.capacity * 2, MAX_BLOCK_SIZE) \in Nat
    BY <2>1, BlockSizeAssumption DEF Lesser
  <2>3. PICK d \in Nat : d = Lesser(last.capacity * 2, MAX_BLOCK_SIZE)
    BY <2>2
  <2> QED
    BY <1>4, <2>3 DEF NewCapacity, Greater
<1>8. rest # <<>> => new \in BlockType /\ Size(new) = Len(s) - here
  BY <1>5, <1>7 DEF BlockType, Size
<1> HIDE DEF filled, new, last, here, s1, rest, blocks, pos, r
<1>9. rest = <<>> <=> here = Len(s)
  <2>1. Len(rest) = 0 <=> here = Len(s)
    BY <1>4, <1>5
  <2>2. Len(rest) = 0 <=> rest = <<>>
    BY <1>5, EmptySeq
  <2> QED
    BY <2>1, <2>2
<1>10. /\ blocks \in Seq(BlockType)
       /\ Len(blocks) = IF rest = <<>> THEN n ELSE n + 1
       /\ \A i \in 1 .. n : blocks[i] = filled[i]
       /\ rest # <<>> => blocks[n + 1] = new
  <2>1. CASE rest = <<>>
    BY <1>6, <2>1 DEF blocks
  <2>2. CASE rest # <<>>
    <3>1. new \in BlockType /\ filled \in Seq(BlockType) /\ Len(filled) = n
      BY <1>6, <1>8, <2>2
    <3>2. /\ Append(filled, new) \in Seq(BlockType)
          /\ Len(Append(filled, new)) = Len(filled) + 1
          /\ \A i \in 1 .. Len(filled) : Append(filled, new)[i] = filled[i]
          /\ Append(filled, new)[Len(filled) + 1] = new
      BY ONLY <3>1, AppendProperties
    <3> QED
      BY <2>2, <3>1, <3>2 DEF blocks
  <2> QED
    BY <2>1, <2>2
<1>11. BytesOf(blocks) = BytesOf(b.blocks_) \o s
  <2>1. CASE rest = <<>>
    <3>1. s1 = s
      BY <1>5, <2>1, ConcatEmptySeq
    <3> QED
      BY <1>1, <1>6, <2>1, <3>1 DEF blocks
  <2>2. CASE rest # <<>>
    <3>1. Append(filled, new) = filled \o <<new>> /\ <<new>> \in Seq(BlockType)
      BY <1>6, <1>8, <2>2, AppendIsConcat
    <3>2. BytesOf(filled \o <<new>>) = BytesOf(filled) \o rest
      BY <1>6, <1>8, <2>2, <3>1, BytesConcat, BytesOfOne DEF new
    <3>3. PICK old \in Seq(Byte) : old = BytesOf(b.blocks_)
      BY BufFields, BytesType
    <3>4. (old \o s1) \o rest = old \o (s1 \o rest)
      <4>1. s1 \in Seq(Byte) /\ rest \in Seq(Byte) /\ old \in Seq(Byte)
        BY <1>5
      <4> QED
        BY ONLY <4>1, Associative
    <3> QED
      BY <1>1, <1>5, <1>6, <2>2, <3>1, <3>2, <3>3, <3>4 DEF blocks
  <2> QED
    BY <2>1, <2>2
<1>12. /\ pos \in Nat /\ pos = Size(blocks[Len(blocks)])
  <2>1. CASE rest = <<>>
    <3>1. pos = w.write_pos_ + here /\ Len(blocks) = n /\ blocks[n] = filled[n]
      BY <1>3, <1>10, <2>1 DEF pos
    <3> QED
      BY <1>3, <1>4, <1>6, <3>1
  <2>2. CASE rest # <<>>
    <3>1. pos = Len(rest) /\ Len(blocks) = n + 1 /\ blocks[n + 1] = new
      BY <1>10, <2>2 DEF pos
    <3> QED
      BY <1>4, <1>5, <1>8, <2>2, <3>1
  <2> QED
    BY <2>1, <2>2
<1>13. /\ b.read_pos_ \in 0 .. Len(BytesOf(b.blocks_))
       /\ Content(b) = Dropped(BytesOf(b.blocks_), b.read_pos_)
       /\ Content(b) \in Seq(Byte) /\ Len(Content(b)) \in Nat
       /\ b.total_size_ = Len(Content(b))
  BY ContentIs
<1>14. (b.total_size_ + Len(s)) % SizeMod = Len(Content(b)) + Len(s)
  <2>1. PICK t \in Nat : t = Len(Content(b)) + Len(s)
    BY <1>4, <1>13
  <2>2. t % SizeMod = t
    BY <2>1, BlockSizeAssumption
  <2> QED
    BY <1>13, <2>1, <2>2
<1>15. /\ r \in BufType /\ r.blocks_ = blocks /\ r.write_pos_ = pos
       /\ r.read_pos_ = b.read_pos_ /\ r.total_size_ = Len(Content(b)) + Len(s)
  <2>1. w \in [blocks_ : Seq(BlockType), total_size_ : Nat, read_pos_ : Nat, write_pos_ : Nat]
    BY <1>1 DEF BufType
  <2>2. Len(Content(b)) + Len(s) \in Nat
    BY <1>4, <1>13
  <2> HIDE DEF w
  <2> QED
    BY <1>1, <1>2, <1>10, <1>12, <1>14, <2>1, <2>2 DEF BufType
<1>16. Content(r) = Content(b) \o s
  <2>1. BytesOf(b.blocks_) \in Seq(Byte)
    BY BufFields, BytesType
  <2>2. Dropped(BytesOf(b.blocks_) \o s, b.read_pos_) = Dropped(BytesOf(b.blocks_), b.read_pos_) \o s
    BY <1>13, <2>1, DropExtended
  <2>3. Content(r) = Dropped(BytesOf(b.blocks_) \o s, b.read_pos_)
    BY <1>11, <1>15 DEF Content, Dropped
  <2> QED
    BY <1>13, <2>2, <2>3
<1>17. Len(Content(r)) = Len(Content(b)) + Len(s)
  BY <1>13, <1>16, ConcatProperties
<1>18. \A i \in 1 .. Len(blocks) : Size(blocks[i]) <= blocks[i].capacity
  <2>1. ASSUME NEW i \in 1 .. Len(blocks) PROVE Size(blocks[i]) <= blocks[i].capacity
    <3>1. i \in 1 .. n \/ (rest # <<>> /\ i = n + 1)
      BY <1>3, <1>10
    <3>2. CASE i \in 1 .. n /\ i # n
      BY <1>1, <1>6, <1>10, <3>2 DEF Appendable
    <3>3. CASE i = n
      BY <1>3, <1>4, <1>6, <1>10, <3>3
    <3>4. CASE rest # <<>> /\ i = n + 1
      BY <1>4, <1>7, <1>8, <1>10, <3>4 DEF new
    <3> QED
      BY <3>1, <3>2, <3>3, <3>4
  <2> QED
    BY <2>1
<1>19. Size(blocks[n]) \in Nat /\ Size(blocks[n]) >= Size(last) /\ Size(blocks[n]) > 0
  <2>1. Size(blocks[n]) = w.write_pos_ + here /\ Size(last) = w.write_pos_ /\ here \in Nat
    BY <1>3, <1>4, <1>6, <1>10
  <2>2. w.write_pos_ = 0 => here > 0
    <3>1. CASE w.blocks_ = <<Block(INITIAL_BLOCK_SIZE)>>
      <4>1. n = 1 /\ last = Block(INITIAL_BLOCK_SIZE)
        BY <3>1 DEF last
      <4>2. last.capacity # 0
        BY <4>1, BlockSizeAssumption DEF Block
      <4> QED
        BY <1>4, <4>2
    <3>2. CASE w.blocks_ # <<Block(INITIAL_BLOCK_SIZE)>>
      <4>1. Size(last) > 0
        BY <1>1, <1>3, <3>2 DEF Appendable, last
      <4> QED
        BY <1>3, <4>1
    <3> QED
      BY <3>1, <3>2
  <2> QED
    BY <1>4, <2>1, <2>2
<1>20. /\ \A i \in 1 .. Len(blocks) : Size(blocks[i]) > 0
       /\ w.read_pos_ < Size(blocks[1])
  <2>1. PICK m \in Nat : m = Len(blocks)
    BY <1>3, <1>10
  <2>2. m >= n /\ n = Len(w.blocks_)
    BY <1>3, <1>10, <2>1
  <2>3. \A i \in 1 .. n : i # n => blocks[i] = w.blocks_[i]
    BY <1>6, <1>10
  <2>4. \A i \in n + 1 .. m : Size(blocks[i]) > 0
    <3>1. ASSUME NEW i \in n + 1 .. m PROVE Size(blocks[i]) > 0
      <4>1. rest # <<>> /\ i = n + 1
        BY <1>3, <1>10, <2>1
      <4>2. here # Len(s) /\ Size(blocks[i]) = Len(s) - here
        BY <1>8, <1>9, <1>10, <4>1
      <4> QED
        BY <1>4, <4>2
    <3> QED
      BY <3>1
  <2>5. Size(blocks[n]) >= Size(w.blocks_[n])
    BY <1>19 DEF last
  <2> HIDE DEF w, n
  <2> QED
    BY <1>1, <1>3, <1>19, <2>1, <2>2, <2>3, <2>4, <2>5, FirstBlock
<1>21. /\ DOMAIN blocks = 1 .. Len(blocks) /\ blocks # <<>>
  BY <1>3, <1>10, LenProperties, EmptySeq
<1>22. Wellformed(r)
  BY <1>1, <1>12, <1>15, <1>17, <1>18, <1>20, <1>21 DEF Wellformed, Nonempty
<1> QED
  BY <1>15, <1>16, <1>22 DEF r

----------------------------------------------------------------------------
(* consumeBytes.                                                           *)

LEMMA AvailableIs ==
    ASSUME NEW b \in BufType, Wellformed(b), NEW k \in 0 .. Len(b.blocks_)
    PROVE  /\ Available(b, k) = IF k = 0 THEN 0 ELSE SizeUpto(b.blocks_, k) - b.read_pos_
           /\ Available(b, k) \in Int
<1>1. Available(b, k) = IF k = 0 THEN 0 ELSE SizeUpto(b.blocks_, k) - b.read_pos_
  BY DEF Available, SizeUpto
<1>2. SizeUpto(b.blocks_, k) \in Nat /\ b.read_pos_ \in Nat
  BY BufFields, SizesAre
<1> QED
  BY <1>1, <1>2

\* All of the blocks hold the content.
LEMMA AvailableAll ==
    ASSUME NEW b \in BufType, Wellformed(b)
    PROVE  Available(b, Len(b.blocks_)) = Len(Content(b))
<1>1. Len(b.blocks_) \in Nat /\ b.blocks_ \in Seq(BlockType)
  BY BufFields
<1>2. CASE Len(b.blocks_) = 0
  <2>1. b.blocks_ = <<>>
    BY <1>2, BufFields
  <2>2. b.read_pos_ = 0 /\ BytesOf(b.blocks_) = <<>>
    BY <2>1, BytesNone DEF Wellformed
  <2>3. Len(Content(b)) = 0
    BY <2>2, ContentIs, EmptySeq
  <2>4. Available(b, Len(b.blocks_)) = 0
    BY <1>2 DEF Available
  <2> QED
    BY <2>3, <2>4
<1>3. CASE Len(b.blocks_) # 0
  <2>1. Available(b, Len(b.blocks_)) = SizeUpto(b.blocks_, Len(b.blocks_)) - b.read_pos_
    BY <1>1, <1>3, AvailableIs
  <2>2. SizeUpto(b.blocks_, Len(b.blocks_)) = Len(BytesOf(b.blocks_))
    BY <1>1, SizesAre
  <2> QED
    BY <2>1, <2>2, ContentIs
<1> QED
  BY <1>2, <1>3

LEMMA UsedUpIs ==
    ASSUME NEW b \in BufType, Wellformed(b), NEW n \in Nat
    PROVE  /\ UsedUp(b, n) \in 0 .. Len(b.blocks_)
           /\ Available(b, UsedUp(b, n)) <= n
           /\ UsedUp(b, n) < Len(b.blocks_) => n < Available(b, UsedUp(b, n) + 1)
<1> DEFINE N == Len(b.blocks_)
<1> DEFINE T == {k \in 0 .. N : Available(b, k) <= n}
<1> DEFINE u == UsedUp(b, n)
<1>1. N \in Nat
  BY BufFields
<1>2. \A k \in 0 .. N : Available(b, k) \in Int
  BY AvailableIs
<1>3. 0 \in T
  BY <1>1 DEF Available
<1>4. T \in SUBSET (0 .. N)
  OBVIOUS
<1>5. u = Max(T)
  BY DEF UsedUp
<1>6. \A k \in 0 .. N : k \in T <=> Available(b, k) <= n
  OBVIOUS
<1> HIDE DEF T, u
<1>7. u \in T /\ \A k \in T : k <= u
  BY <1>1, <1>3, <1>4, <1>5, GreatestNumber
<1>8. u \in 0 .. N /\ Available(b, u) <= n
  BY <1>4, <1>6, <1>7
<1>9. ASSUME u < N PROVE n < Available(b, u + 1)
  <2>1. u + 1 \in 0 .. N /\ ~ (u + 1 <= u)
    BY <1>1, <1>8, <1>9
  <2>2. u + 1 \notin T
    BY <1>7, <2>1
  <2>3. ~ (Available(b, u + 1) <= n) /\ Available(b, u + 1) \in Int
    BY <1>2, <1>6, <2>1, <2>2
  <2> QED
    BY <2>3
<1> QED
  BY <1>8, <1>9 DEF u

LEMMA Remainder ==
    ASSUME NEW t \in Nat, NEW c \in 0 .. t, t < SizeMod
    PROVE  (t - c) % SizeMod = t - c
<1>1. PICK d \in Nat : d = t - c
  OBVIOUS
<1>2. d < SizeMod
  BY <1>1, BlockSizeAssumption
<1>3. d % SizeMod = d
  BY <1>2, BlockSizeAssumption
<1> QED
  BY <1>1, <1>3

\* Everything is consumed.
LEMMA ConsumeAll ==
    ASSUME NEW b \in BufType, Wellformed(b), b.total_size_ < SizeMod,
           NEW n \in Nat, n # 0, UsedUp(b, n) = Len(b.blocks_)
    PROVE  /\ consumeBytes(b, n) \in BufType
           /\ Wellformed(consumeBytes(b, n))
           /\ Content(consumeBytes(b, n)) = Dropped(Content(b), Len(Content(b)))
           /\ Len(Content(b)) <= n
<1> DEFINE N == Len(b.blocks_)
<1> DEFINE r == consumeBytes(b, n)
<1>1. N \in Nat /\ b.blocks_ \in Seq(BlockType)
  BY BufFields
<1>2. Available(b, N) = Len(Content(b)) /\ Len(Content(b)) \in Nat
      /\ Content(b) \in Seq(Byte) /\ b.total_size_ = Len(Content(b))
  BY AvailableAll, ContentIs
<1>3. Len(Content(b)) <= n
  BY <1>2, UsedUpIs
<1>4. Lesser(n, Available(b, N)) = Len(Content(b))
  BY <1>2, <1>3 DEF Lesser
<1>5. SubSeq(b.blocks_, N + 1, N) = <<>>
  BY <1>1, SubSeqEmpty
<1>6. (b.total_size_ - Len(Content(b))) % SizeMod = 0
  <2>1. b.total_size_ \in Nat /\ Len(Content(b)) \in 0 .. b.total_size_
    BY <1>2
  <2>2. b.total_size_ - Len(Content(b)) = 0
    BY <1>2
  <2> QED
    BY <2>1, <2>2, Remainder
<1>7. r = [b EXCEPT !.blocks_ = <<>>, !.read_pos_ = 0, !.total_size_ = 0]
  BY <1>4, <1>5, <1>6 DEF consumeBytes
<1>8. b \in [blocks_ : Seq(BlockType), total_size_ : Nat, read_pos_ : Nat, write_pos_ : Nat]
  BY DEF BufType
<1>9. <<>> \in Seq(BlockType) /\ Len(<<>>) = 0 /\ DOMAIN <<>> = {}
  BY EmptySeq
<1> HIDE DEF r
<1>10. r \in BufType /\ r.blocks_ = <<>> /\ r.read_pos_ = 0 /\ r.total_size_ = 0
  BY <1>7, <1>8, <1>9 DEF BufType
<1>11. Content(r) = <<>>
  <2>1. SubSeq(<<>>, 0 + 1, 0) = <<>>
    BY SubSeqEmpty
  <2> QED
    BY <1>9, <1>10, <2>1, BytesNone DEF Content
<1>12. Wellformed(r)
  BY <1>9, <1>10, <1>11 DEF Wellformed, Nonempty
<1>13. Dropped(Content(b), Len(Content(b))) = <<>>
  BY <1>2, DropAll
<1> QED
  BY <1>3, <1>10, <1>11, <1>12, <1>13 DEF r

\* A block is left, the first one cut or not.
LEMMA ConsumePart ==
    ASSUME NEW b \in BufType, Wellformed(b), b.total_size_ < SizeMod,
           NEW n \in Nat, n # 0, UsedUp(b, n) # Len(b.blocks_)
    PROVE  /\ consumeBytes(b, n) \in BufType
           /\ Wellformed(consumeBytes(b, n))
           /\ Content(consumeBytes(b, n)) = Dropped(Content(b), n)
           /\ n <= Len(Content(b))
<1> DEFINE bs == b.blocks_
<1> DEFINE N == Len(bs)
<1> DEFINE k == UsedUp(b, n)
<1> DEFINE R == b.read_pos_
<1> DEFINE A == SizeUpto(bs, k)
<1> DEFINE T == Len(BytesOf(bs))
<1> DEFINE left == Dropped(bs, k)
<1> DEFINE r == consumeBytes(b, n)
<1>1. N \in Nat /\ bs \in Seq(BlockType) /\ R \in Nat /\ DOMAIN bs = 1 .. N
  BY BufFields
<1>2. k \in 0 .. N - 1 /\ k \in 0 .. N /\ k + 1 \in 0 .. N /\ k + 1 \in 1 .. N
      /\ Available(b, k) <= n /\ n < Available(b, k + 1)
  <2>1. k \in 0 .. N /\ Available(b, k) <= n /\ (k < N => n < Available(b, k + 1)) /\ k # N
    BY UsedUpIs
  <2> HIDE DEF k, N
  <2>2. k \in 0 .. N - 1 /\ k + 1 \in 0 .. N /\ k + 1 \in 1 .. N /\ k < N
    BY <1>1, <2>1
  <2> QED
    BY <2>1, <2>2
<1>3. /\ R \in 0 .. T /\ Content(b) = Dropped(BytesOf(bs), R) /\ Content(b) \in Seq(Byte)
      /\ Len(Content(b)) = T - R /\ b.total_size_ = T - R
  BY ContentIs
<1>4. BytesOf(bs) \in Seq(Byte) /\ T \in Nat
  BY <1>1, BytesType
<1>5. /\ A \in Nat /\ A <= T /\ Size(bs[k + 1]) \in Nat
      /\ SizeUpto(bs, k + 1) = A + Size(bs[k + 1])
      /\ SizeUpto(bs, k + 1) <= T
      /\ k = 0 => A = 0
  BY <1>1, <1>2, SizesAre, DataType
<1>6. Available(b, k + 1) = SizeUpto(bs, k + 1) - R
  <2>1. k + 1 # 0
    BY <1>2
  <2> QED
    BY <1>2, <2>1, AvailableIs
<1>7. Available(b, k) = IF k = 0 THEN 0 ELSE A - R
  BY <1>2, AvailableIs
<1>8. n <= T - R /\ n < A + Size(bs[k + 1]) - R /\ (k # 0 => A - R <= n)
  <2>1. PICK m \in Nat : m = SizeUpto(bs, k + 1)
    BY <1>5
  <2>2. m = A + Size(bs[k + 1]) /\ m <= T /\ n < m - R
    BY <1>2, <1>5, <1>6, <2>1
  <2>3. k # 0 => A - R <= n
    BY <1>2, <1>7
  <2> QED
    BY <1>1, <1>4, <1>5, <2>2, <2>3
<1>9. Lesser(n, Available(b, N)) = n
  <2>1. Available(b, N) = T - R
    BY <1>3, AvailableAll
  <2> QED
    BY <1>1, <1>4, <1>8, <2>1 DEF Lesser
<1> DEFINE pos == n + R - A
<1>10. (IF k = 0 THEN R ELSE 0) + n - Available(b, k) = pos
  <2>1. CASE k = 0
    BY <1>1, <1>5, <1>7, <2>1
  <2>2. CASE k # 0
    BY <1>1, <1>5, <1>7, <2>2
  <2> QED
    BY <2>1, <2>2
<1>11. pos \in 0 .. T - A /\ pos < Size(bs[k + 1])
  <2>1. CASE k = 0
    BY <1>1, <1>4, <1>5, <1>8, <2>1
  <2>2. CASE k # 0
    BY <1>1, <1>4, <1>5, <1>8, <2>2
  <2> QED
    BY <2>1, <2>2
<1>12. (b.total_size_ - n) % SizeMod = T - R - n /\ T - R - n \in Nat
  <2>1. b.total_size_ \in Nat /\ n \in 0 .. b.total_size_
    BY <1>1, <1>3, <1>4, <1>8
  <2>2. (b.total_size_ - n) % SizeMod = b.total_size_ - n
    BY <2>1, Remainder
  <2> QED
    BY <1>1, <1>3, <1>4, <1>8, <2>2
<1>13. r = [b EXCEPT !.blocks_ = left, !.read_pos_ = pos, !.total_size_ = T - R - n]
  <2>1. k # N
    BY <1>1, <1>2
  <2>2. r = [b EXCEPT !.blocks_ = SubSeq(@, k + 1, Len(@)),
                      !.read_pos_ = (IF k = 0 THEN @ ELSE 0) + n - Available(b, k),
                      !.total_size_ = (@ - n) % SizeMod]
    <3> HIDE DEF k
    <3> QED
      BY <1>9, <2>1 DEF consumeBytes, k
  <2> HIDE DEF k, pos
  <2> QED
    BY <1>10, <1>12, <2>2 DEF Dropped
<1>14. /\ left \in Seq(BlockType) /\ Len(left) = N - k
       /\ \A i \in 1 .. N - k : left[i] = bs[k + i]
  BY <1>1, <1>2, Drops
<1> HIDE DEF k, left, r
<1>15. /\ r \in BufType /\ r.blocks_ = left /\ r.read_pos_ = pos
       /\ r.write_pos_ = b.write_pos_ /\ r.total_size_ = T - R - n
  <2>1. b \in [blocks_ : Seq(BlockType), total_size_ : Nat, read_pos_ : Nat, write_pos_ : Nat]
    BY DEF BufType
  <2>2. pos \in Nat
    BY <1>11
  <2> HIDE DEF pos
  <2> QED
    BY <1>12, <1>13, <1>14, <2>1, <2>2 DEF BufType
<1>16. BytesOf(left) = Dropped(BytesOf(bs), A)
  <2>1. /\ SubSeq(bs, 1, k) \in Seq(BlockType)
        /\ BytesOf(bs) = BytesOf(SubSeq(bs, 1, k)) \o BytesOf(left)
    BY <1>1, <1>2, BytesSplit DEF left
  <2>2. BytesOf(SubSeq(bs, 1, k)) \in Seq(Byte) /\ BytesOf(left) \in Seq(Byte)
    BY <1>14, <2>1, BytesType
  <2>3. Dropped(BytesOf(SubSeq(bs, 1, k)) \o BytesOf(left), Len(BytesOf(SubSeq(bs, 1, k))))
          = BytesOf(left)
    BY <2>2, DropFirst
  <2> QED
    BY <2>1, <2>3 DEF SizeUpto
<1>17. Content(r) = Dropped(Content(b), n)
  <2>1. Content(r) = Dropped(BytesOf(left), pos)
    BY <1>15 DEF Content, Dropped
  <2>2. A \in 0 .. T /\ n \in 0 .. T - R
    BY <1>1, <1>4, <1>5, <1>8
  <2>3. Dropped(Dropped(BytesOf(bs), A), pos) = Dropped(BytesOf(bs), A + pos)
    BY <1>4, <1>11, <2>2, DropTwice
  <2>4. Dropped(Dropped(BytesOf(bs), R), n) = Dropped(BytesOf(bs), R + n)
    BY <1>3, <1>4, <2>2, DropTwice
  <2>5. A + pos = R + n
    BY <1>1, <1>5
  <2> QED
    BY <1>3, <1>16, <2>1, <2>3, <2>4, <2>5
<1>18. Len(Content(r)) = T - R - n
  <2>1. n \in 0 .. Len(Content(b))
    BY <1>1, <1>3, <1>4, <1>8
  <2> QED
    BY <1>3, <1>17, <2>1, Drops
<1>19. b # Empty
  <2>1. SUFFICES ASSUME b = Empty PROVE FALSE
    OBVIOUS
  <2>2. Len(Content(b)) = 0
    BY <2>1, EmptyIs, EmptySeq
  <2> QED
    BY <1>1, <1>3, <1>4, <1>8, <2>2
<1>20. \A i \in 1 .. N : Size(bs[i]) > 0 /\ Size(bs[i]) <= bs[i].capacity
  BY <1>1, <1>19 DEF Wellformed, Nonempty
<1>21. /\ DOMAIN left = 1 .. N - k /\ left # <<>> /\ Len(left) = N - k
  <2>1. N - k \in Nat /\ N - k # 0
    BY <1>1, <1>2
  <2> QED
    BY <1>14, <2>1, LenProperties, EmptySeq
<1>22. \A i \in 1 .. N - k : Size(left[i]) > 0 /\ Size(left[i]) <= left[i].capacity
  <2>1. \A i \in 1 .. N - k : k + i \in 1 .. N
    BY <1>1, <1>2
  <2> QED
    BY <1>14, <1>20, <2>1
<1>23. left[1] = bs[k + 1] /\ left[N - k] = bs[N]
  <2>1. 1 \in 1 .. N - k /\ N - k \in 1 .. N - k /\ k + (N - k) = N
    BY <1>1, <1>2
  <2> QED
    BY <1>14, <2>1
<1>24. b.write_pos_ = Size(bs[N])
  <2>1. bs # <<>>
    BY <1>2, EmptySeq
  <2> QED
    BY <2>1 DEF Wellformed
<1> HIDE DEF pos, T, R, A
<1>25. Wellformed(r)
  BY <1>11, <1>15, <1>18, <1>21, <1>22, <1>23, <1>24 DEF Wellformed, Nonempty
<1> QED
  BY <1>3, <1>8, <1>15, <1>17, <1>25 DEF r, T, R

\* consumeBytes drops what it is asked to, or all there is.
LEMMA ConsumeKeeps ==
    ASSUME NEW b \in BufType, Wellformed(b), b.total_size_ < SizeMod, NEW n \in Nat
    PROVE  /\ consumeBytes(b, n) \in BufType
           /\ Wellformed(consumeBytes(b, n))
           /\ Lesser(n, Len(Content(b))) \in 0 .. Len(Content(b))
           /\ Content(consumeBytes(b, n)) = Dropped(Content(b), Lesser(n, Len(Content(b))))
<1>1. Content(b) \in Seq(Byte) /\ Len(Content(b)) \in Nat
  BY ContentIs
<1>2. CASE n = 0
  <2>1. consumeBytes(b, n) = b
    BY <1>2 DEF consumeBytes
  <2>2. Lesser(n, Len(Content(b))) = 0
    BY <1>1, <1>2 DEF Lesser
  <2>3. Dropped(Content(b), 0) = Content(b)
    BY <1>1, DropNothing
  <2> QED
    BY <1>1, <2>1, <2>2, <2>3
<1>3. CASE n # 0 /\ UsedUp(b, n) = Len(b.blocks_)
  <2>1. Len(Content(b)) <= n
    BY <1>3, ConsumeAll
  <2>2. Lesser(n, Len(Content(b))) = Len(Content(b))
    BY <1>1, <2>1 DEF Lesser
  <2> QED
    BY <1>1, <1>3, <2>2, ConsumeAll
<1>4. CASE n # 0 /\ UsedUp(b, n) # Len(b.blocks_)
  <2>1. n <= Len(Content(b))
    BY <1>4, ConsumePart
  <2>2. Lesser(n, Len(Content(b))) = n
    BY <1>1, <2>1 DEF Lesser
  <2> QED
    BY <1>1, <1>4, <2>1, <2>2, ConsumePart
<1> QED
  BY <1>2, <1>3, <1>4

----------------------------------------------------------------------------
(* getIOVecs.                                                              *)

\* The loop after one more block.
Fill(b, M, filled, k) ==
    IF Len(filled) < M /\ Slice(b, k) # <<>> THEN Append(filled, Slice(b, k)) ELSE filled

Loop(b, M, m, f) == f[0] = <<>> /\ \A k \in 1 .. m : f[k] = Fill(b, M, f[k - 1], k)

LEMMA LoopExists ==
    ASSUME NEW b, NEW M, NEW m \in Nat
    PROVE  \E f : Loop(b, M, m, f)
<1> DEFINE T == {n \in Nat : \E f : Loop(b, M, n, f)}
<1>1. 0 \in T
  <2>1. [k \in 0 .. 0 |-> <<>>][0] = <<>>
    OBVIOUS
  <2>2. Loop(b, M, 0, [k \in 0 .. 0 |-> <<>>])
    BY <2>1 DEF Loop
  <2> QED
    BY <2>2
<1>2. ASSUME NEW n \in Nat, n \in T PROVE n + 1 \in T
  <2>1. PICK f : Loop(b, M, n, f)
    BY <1>2
  <2> DEFINE x == Fill(b, M, f[n], n + 1)
  <2> DEFINE g == [k \in 0 .. n + 1 |-> IF k <= n THEN f[k] ELSE x]
  <2> HIDE DEF x
  <2>2. g[0] = <<>>
    <3>1. 0 \in 0 .. n + 1 /\ 0 <= n
      OBVIOUS
    <3> QED
      BY <2>1, <3>1 DEF Loop
  <2>3. ASSUME NEW k \in 1 .. n + 1 PROVE g[k] = Fill(b, M, g[k - 1], k)
    <3>1. k \in 0 .. n + 1 /\ k - 1 \in 0 .. n + 1 /\ k - 1 <= n
      OBVIOUS
    <3>2. g[k - 1] = f[k - 1]
      BY <3>1
    <3>3. CASE k <= n
      <4>1. k \in 1 .. n /\ g[k] = f[k]
        BY <3>1, <3>3
      <4> QED
        BY <2>1, <3>2, <4>1 DEF Loop
    <3>4. CASE ~ (k <= n)
      <4>1. k = n + 1 /\ k - 1 = n /\ g[k] = x
        BY <3>1, <3>4
      <4> QED
        BY <3>2, <4>1 DEF x
    <3> QED
      BY <3>3, <3>4
  <2> HIDE DEF g
  <2>4. Loop(b, M, n + 1, g)
    BY <2>2, <2>3 DEF Loop
  <2> QED
    BY <2>4
<1>3. Nat \subseteq T
  <2> HIDE DEF T
  <2> QED
    BY <1>1, <1>2, SetInduction
<1> QED
  BY <1>3

LEMMA IOVecsAre ==
    ASSUME NEW b, NEW M, Len(b.blocks_) \in Nat
    PROVE  \E f : Loop(b, M, Len(b.blocks_), f) /\ getIOVecs(b, M) = f[Len(b.blocks_)]
<1> DEFINE N == Len(b.blocks_)
<1> DEFINE Step(g) ==
             [k \in 0 .. N |-> IF k = 0 THEN <<>>
                               ELSE LET filled == g[k - 1] IN
                                    IF Len(filled) < M /\ Slice(b, k) # <<>>
                                    THEN Append(filled, Slice(b, k))
                                    ELSE filled]
<1> DEFINE iovs == CHOOSE g : g = Step(g)
<1>1. PICK f : Loop(b, M, N, f)
  BY LoopExists
<1> DEFINE h == [k \in 0 .. N |-> f[k]]
<1>2. \A k \in 0 .. N : h[k] = Step(h)[k]
  <2>1. ASSUME NEW k \in 0 .. N PROVE h[k] = Step(h)[k]
    <3>1. CASE k = 0
      BY <1>1, <3>1 DEF Loop
    <3>2. CASE k # 0
      <4>1. k \in 1 .. N /\ k - 1 \in 0 .. N
        BY <3>2
      <4>2. h[k] = f[k] /\ h[k - 1] = f[k - 1] /\ f[k] = Fill(b, M, f[k - 1], k)
        BY <1>1, <4>1 DEF Loop
      <4>3. h[k] = Fill(b, M, h[k - 1], k)
        BY <4>2
      <4> HIDE DEF h
      <4>4. Step(h)[k] = Fill(b, M, h[k - 1], k)
        BY <3>2 DEF Fill
      <4> QED
        BY <4>3, <4>4
    <3> QED
      BY <3>1, <3>2
  <2> QED
    BY <2>1
<1>3. h = Step(h)
  <2>1. h = [k \in 0 .. N |-> h[k]]
    OBVIOUS
  <2>2. Step(h) = [k \in 0 .. N |-> Step(h)[k]]
    OBVIOUS
  <2> HIDE DEF h, Step
  <2> QED
    BY <1>2, <2>1, <2>2
<1>4. iovs = Step(iovs)
  <2> HIDE DEF Step, h
  <2> QED
    BY <1>3
<1>5. getIOVecs(b, M) = iovs[N]
  BY DEF getIOVecs
<1> HIDE DEF iovs
<1>6. Loop(b, M, N, iovs)
  <2>1. ASSUME NEW k \in 0 .. N PROVE iovs[k] = Step(iovs)[k]
    <3> HIDE DEF Step
    <3> QED
      BY <1>4
  <2>2. iovs[0] = <<>>
    <3>1. 0 \in 0 .. N
      OBVIOUS
    <3>2. Step(iovs)[0] = <<>>
      BY <3>1
    <3> HIDE DEF Step
    <3> QED
      BY <2>1, <3>1, <3>2
  <2>3. ASSUME NEW k \in 1 .. N PROVE iovs[k] = Fill(b, M, iovs[k - 1], k)
    <3>1. k \in 0 .. N /\ k # 0
      OBVIOUS
    <3>2. Step(iovs)[k] = Fill(b, M, iovs[k - 1], k)
      BY <3>1 DEF Fill
    <3> QED
      BY <2>1, <3>1, <3>2
  <2> QED
    BY <2>2, <2>3 DEF Loop
<1> QED
  BY <1>5, <1>6

\* The content of the first k blocks.
ContentUpto(b, k) ==
    IF k = 0 THEN <<>> ELSE Dropped(BytesOf(SubSeq(b.blocks_, 1, k)), b.read_pos_)

LEMMA ReadInFirst ==
    ASSUME NEW b \in BufType, Wellformed(b), NEW k \in 1 .. Len(b.blocks_)
    PROVE  /\ b.read_pos_ \in 0 .. Size(b.blocks_[1])
           /\ b.read_pos_ \in 0 .. SizeUpto(b.blocks_, k)
<1> DEFINE bs == b.blocks_
<1>1. bs \in Seq(BlockType) /\ Len(bs) \in Nat /\ b.read_pos_ \in Nat /\ 1 \in 1 .. Len(bs)
  BY BufFields
<1>2. Size(bs[1]) \in Nat
  BY <1>1, DataType
<1>3. b.read_pos_ <= Size(bs[1])
  <2>1. CASE b = Empty
    BY <1>1, <1>2, <2>1 DEF Empty
  <2>2. CASE b # Empty
    BY <1>1, <1>2, <2>2, EmptySeq DEF Wellformed
  <2> QED
    BY <2>1, <2>2
<1> DEFINE T == {j \in Nat : j \in 1 .. Len(bs) => Size(bs[1]) <= SizeUpto(bs, j)}
<1>4. 0 \in T
  OBVIOUS
<1>5. ASSUME NEW j \in Nat, j \in T PROVE j + 1 \in T
  <2> SUFFICES ASSUME j + 1 \in 1 .. Len(bs) PROVE Size(bs[1]) <= SizeUpto(bs, j + 1)
    OBVIOUS
  <2>1. j \in 0 .. Len(bs) - 1 /\ j \in 0 .. Len(bs)
    BY <1>1
  <2>2. /\ SizeUpto(bs, j + 1) = SizeUpto(bs, j) + Size(bs[j + 1])
        /\ SizeUpto(bs, j) \in Nat /\ Size(bs[j + 1]) \in Nat /\ SizeUpto(bs, 0) = 0
    BY <1>1, <2>1, SizesAre, DataType
  <2>3. CASE j = 0
    BY <1>2, <2>2, <2>3
  <2>4. CASE j # 0
    <3>1. Size(bs[1]) <= SizeUpto(bs, j)
      BY <1>5, <2>1, <2>4
    <3> QED
      BY <1>2, <2>2, <3>1
  <2> QED
    BY <2>3, <2>4
<1>6. Nat \subseteq T
  <2> HIDE DEF T
  <2> QED
    BY <1>4, <1>5, SetInduction
<1>7. Size(bs[1]) <= SizeUpto(bs, k) /\ SizeUpto(bs, k) \in Nat
  BY <1>1, <1>6, SizesAre
<1> QED
  BY <1>1, <1>2, <1>3, <1>7

LEMMA ContentGrows ==
    ASSUME NEW b \in BufType, Wellformed(b), NEW k \in 1 .. Len(b.blocks_)
    PROVE  /\ ContentUpto(b, k - 1) \in Seq(Byte)
           /\ Slice(b, k) \in Seq(Byte)
           /\ ContentUpto(b, k) = ContentUpto(b, k - 1) \o Slice(b, k)
<1> DEFINE bs == b.blocks_
<1> DEFINE R == b.read_pos_
<1> DEFINE d == bs[k].data
<1>1. bs \in Seq(BlockType) /\ Len(bs) \in Nat
  BY BufFields
<1>2. d \in Seq(Byte) /\ bs[k] \in BlockType
  BY <1>1, DataType
<1>3. CASE k = 1
  <2>1. ContentUpto(b, k - 1) = <<>>
    BY <1>3 DEF ContentUpto
  <2>2. Slice(b, k) = Dropped(d, R)
    BY <1>3 DEF Slice, Dropped, Size
  <2>3. R \in 0 .. Len(d)
    BY <1>3, ReadInFirst DEF Size
  <2>4. Dropped(d, R) \in Seq(Byte)
    BY <1>2, <2>3, Drops
  <2>5. BytesOf(SubSeq(bs, 1, 1)) = d
    <3>1. 0 \in 0 .. Len(bs) - 1 /\ 0 + 1 = 1
      BY <1>1, <1>3
    <3>2. SubSeq(bs, 1, 0 + 1) = SubSeq(bs, 1, 0) \o <<bs[0 + 1]>>
      BY <1>1, <3>1, OneMoreBlock
    <3>3. SubSeq(bs, 1, 0) = <<>>
      BY SubSeqEmpty
    <3>4. <<bs[k]>> \in Seq(BlockType)
      BY <1>2
    <3>5. SubSeq(bs, 1, 1) = <<bs[k]>>
      BY <1>3, <3>1, <3>2, <3>3, <3>4, ConcatEmptySeq
    <3> QED
      BY <1>2, <3>5, BytesOfOne
  <2>6. ContentUpto(b, k) = Dropped(d, R)
    BY <1>3, <2>5 DEF ContentUpto
  <2>7. <<>> \o Dropped(d, R) = Dropped(d, R)
    BY <2>4, ConcatEmptySeq
  <2> QED
    BY <2>1, <2>2, <2>4, <2>6, <2>7, EmptySeq
<1>4. CASE k # 1
  <2> DEFINE before == BytesOf(SubSeq(bs, 1, k - 1))
  <2>1. /\ k - 1 \in 1 .. Len(bs) /\ k - 1 \in 0 .. Len(bs) - 1 /\ k - 1 \in 0 .. Len(bs)
        /\ k - 1 # 0 /\ k # 0 /\ k - 1 + 1 = k
    BY <1>1, <1>4
  <2>2. before \in Seq(Byte)
    BY <1>1, <2>1, BytesSplit, BytesType
  <2>3. R \in 0 .. Len(before)
    BY <2>1, ReadInFirst DEF SizeUpto
  <2>4. Dropped(before, R) \in Seq(Byte)
    BY <2>2, <2>3, Drops
  <2>5. Slice(b, k) = d
    BY <1>2, <1>4, SubSeqFull DEF Slice, Size
  <2>6. BytesOf(SubSeq(bs, 1, k)) = before \o d
    <3>1. BytesOf(SubSeq(bs, 1, k - 1 + 1)) = BytesOf(SubSeq(bs, 1, k - 1)) \o bs[k - 1 + 1].data
      BY <1>1, <2>1, BytesNext
    <3> QED
      BY <2>1, <3>1
  <2>7. ContentUpto(b, k - 1) = Dropped(before, R) /\ ContentUpto(b, k) = Dropped(before \o d, R)
    BY <2>1, <2>6 DEF ContentUpto
  <2> HIDE DEF before, d, R
  <2>8. Dropped(before \o d, R) = Dropped(before, R) \o d
    BY <1>2, <2>2, <2>3, DropExtended
  <2> QED
    BY <1>2, <2>4, <2>5, <2>7, <2>8
<1> QED
  BY <1>3, <1>4

LEMMA ContentWhole ==
    ASSUME NEW b \in BufType, Wellformed(b)
    PROVE  ContentUpto(b, Len(b.blocks_)) = Content(b)
<1>1. b.blocks_ \in Seq(BlockType) /\ Len(b.blocks_) \in Nat
  BY BufFields
<1>2. CASE Len(b.blocks_) = 0
  <2>1. b.blocks_ = <<>>
    BY <1>2, BufFields
  <2>2. b.read_pos_ = 0 /\ BytesOf(b.blocks_) = <<>>
    BY <2>1, BytesNone DEF Wellformed
  <2>3. Content(b) \in Seq(Byte) /\ Len(Content(b)) = 0
    BY <2>2, ContentIs, EmptySeq
  <2> QED
    BY <1>2, <2>3, EmptySeq DEF ContentUpto
<1>3. CASE Len(b.blocks_) # 0
  <2>1. SubSeq(b.blocks_, 1, Len(b.blocks_)) = b.blocks_
    BY <1>1, SubSeqFull
  <2> QED
    BY <1>3, <2>1, ContentIs DEF ContentUpto
<1> QED
  BY <1>2, <1>3

\* The slices in iovs are, one after the other, the first m bytes of c, and all
\* of them unless the array is full.
Shows(iovs, M, c) ==
    /\ iovs \in Seq(Seq(Byte))
    /\ \E m \in 0 .. Len(c) :
          /\ FlattenSeq(iovs) = SubSeq(c, 1, m)
          /\ Len(iovs) < M => m = Len(c)

LEMMA FillShows ==
    ASSUME NEW M \in Nat, NEW iovs, NEW c \in Seq(Byte), NEW s \in Seq(Byte), Shows(iovs, M, c)
    PROVE  Shows(IF Len(iovs) < M /\ s # <<>> THEN Append(iovs, s) ELSE iovs, M, c \o s)
<1>1. PICK m \in 0 .. Len(c) : /\ FlattenSeq(iovs) = SubSeq(c, 1, m)
                               /\ Len(iovs) < M => m = Len(c)
  BY DEF Shows
<1>2. iovs \in Seq(Seq(Byte))
  BY DEF Shows
<1>3. Len(c) \in Nat /\ Len(s) \in Nat /\ c \o s \in Seq(Byte) /\ Len(c \o s) = Len(c) + Len(s)
  BY LenProperties, ConcatProperties
<1>4. CASE Len(iovs) < M /\ s # <<>>
  <2>1. FlattenSeq(iovs) = c
    BY <1>1, <1>4, SubSeqFull
  <2>2. FlattenSeq(Append(iovs, s)) = c \o s /\ Append(iovs, s) \in Seq(Seq(Byte))
    <3>1. FlattenSeq(Append(iovs, s)) = FlattenSeq(iovs) \o s
      BY <1>2, FlattenAppend
    <3>2. Append(iovs, s) \in Seq(Seq(Byte))
      BY <1>2
    <3> QED
      BY <2>1, <3>1, <3>2
  <2>3. SubSeq(c \o s, 1, Len(c \o s)) = c \o s /\ Len(c \o s) \in 0 .. Len(c \o s)
    BY <1>3, SubSeqFull
  <2> QED
    BY <1>4, <2>2, <2>3 DEF Shows
<1>5. CASE Len(iovs) < M /\ s = <<>>
  <2>1. c \o s = c
    BY <1>5, ConcatEmptySeq
  <2> QED
    BY <1>5, <2>1
<1>6. CASE ~ (Len(iovs) < M)
  <2>1. SubSeq(c \o s, 1, m) = SubSeq(c, 1, m)
    BY PrefixOfConcat
  <2>2. m \in 0 .. Len(c \o s)
    BY <1>3
  <2> QED
    BY <1>1, <1>2, <1>6, <2>1, <2>2 DEF Shows
<1> QED
  BY <1>4, <1>5, <1>6

\* What writev is offered is the front of the content, and not nothing.
LEMMA Offered ==
    ASSUME NEW b \in BufType, Wellformed(b), NEW M \in Nat \ {0}
    PROVE  /\ Shows(getIOVecs(b, M), M, Content(b))
           /\ Len(Content(b)) > 0 => getIOVecs(b, M) # <<>>
<1> DEFINE N == Len(b.blocks_)
<1>1. N \in Nat
  BY BufFields
<1>2. PICK f : Loop(b, M, N, f) /\ getIOVecs(b, M) = f[N]
  BY <1>1, IOVecsAre
<1> DEFINE T == {k \in Nat : k <= N => Shows(f[k], M, ContentUpto(b, k))}
<1>3. 0 \in T
  <2>1. f[0] = <<>> /\ ContentUpto(b, 0) = <<>>
    BY <1>2 DEF Loop, ContentUpto
  <2>2. /\ <<>> \in Seq(Seq(Byte)) /\ <<>> \in Seq(Byte) /\ Len(<<>>) = 0
        /\ SubSeq(<<>>, 1, 0) = <<>>
    BY SubSeqEmpty, EmptySeq
  <2>3. Shows(<<>>, M, <<>>)
    <3>0. FlattenSeq(<<>>) = SubSeq(<<>>, 1, 0)
      <4>1. SubSeq(<<>>, 1, 0) = <<>>
        BY SubSeqEmpty
      <4> QED
        BY <4>1, FlattenEmpty
    <3>1. 0 \in 0 .. Len(<<>>) /\ FlattenSeq(<<>>) = SubSeq(<<>>, 1, 0) /\ 0 = Len(<<>>)
      BY <2>2, <3>0
    <3>2. \E m \in 0 .. Len(<<>>) :
             FlattenSeq(<<>>) = SubSeq(<<>>, 1, m) /\ (Len(<<>>) < M => m = Len(<<>>))
      BY ONLY <3>1
    <3> QED
      BY <2>2, <3>2 DEF Shows
  <2> QED
    BY <2>1, <2>3
<1>4. ASSUME NEW k \in Nat, k \in T PROVE k + 1 \in T
  <2> SUFFICES ASSUME k + 1 <= N PROVE Shows(f[k + 1], M, ContentUpto(b, k + 1))
    OBVIOUS
  <2>1. k + 1 \in 1 .. N /\ k + 1 - 1 = k /\ k <= N
    BY <1>1
  <2>2. f[k + 1] = Fill(b, M, f[k], k + 1)
    BY <1>2, <2>1 DEF Loop
  <2>3. Shows(f[k], M, ContentUpto(b, k))
    BY <1>4, <2>1
  <2>4. /\ ContentUpto(b, k) \in Seq(Byte) /\ Slice(b, k + 1) \in Seq(Byte)
        /\ ContentUpto(b, k + 1) = ContentUpto(b, k) \o Slice(b, k + 1)
    <3>1. /\ ContentUpto(b, k + 1 - 1) \in Seq(Byte) /\ Slice(b, k + 1) \in Seq(Byte)
          /\ ContentUpto(b, k + 1) = ContentUpto(b, k + 1 - 1) \o Slice(b, k + 1)
      <4>1. PICK j \in 1 .. Len(b.blocks_) : j = k + 1
        BY <2>1
      <4>2. /\ ContentUpto(b, j - 1) \in Seq(Byte) /\ Slice(b, j) \in Seq(Byte)
            /\ ContentUpto(b, j) = ContentUpto(b, j - 1) \o Slice(b, j)
        BY ContentGrows
      <4> QED
        BY <4>1, <4>2
    <3> QED
      BY <2>1, <3>1
  <2>5. PICK c \in Seq(Byte) : c = ContentUpto(b, k)
    BY <2>4
  <2>6. PICK s \in Seq(Byte) : s = Slice(b, k + 1)
    BY <2>4
  <2>7. f[k + 1] = IF Len(f[k]) < M /\ s # <<>> THEN Append(f[k], s) ELSE f[k]
    BY <2>2, <2>6 DEF Fill
  <2>8. PICK iovs : iovs = f[k]
    OBVIOUS
  <2>9. Shows(iovs, M, c) /\ M \in Nat
    BY <2>3, <2>5, <2>8
  <2>10. Shows(IF Len(iovs) < M /\ s # <<>> THEN Append(iovs, s) ELSE iovs, M, c \o s)
    BY <2>9, FillShows
  <2> QED
    BY <2>4, <2>5, <2>6, <2>7, <2>8, <2>10
<1>5. Nat \subseteq T
  <2> HIDE DEF T
  <2> QED
    BY <1>3, <1>4, SetInduction
<1>6. Shows(getIOVecs(b, M), M, Content(b))
  BY <1>1, <1>2, <1>5, ContentWhole
<1>7. ASSUME Len(Content(b)) > 0, getIOVecs(b, M) = <<>> PROVE FALSE
  <2>1. Content(b) \in Seq(Byte) /\ Len(Content(b)) \in Nat
    BY ContentIs
  <2>2. PICK m \in 0 .. Len(Content(b)) : /\ FlattenSeq(<<>>) = SubSeq(Content(b), 1, m)
                                          /\ Len(<<>>) < M => m = Len(Content(b))
    BY <1>6, <1>7 DEF Shows
  <2>3. Len(<<>>) = 0 /\ m = Len(Content(b))
    BY <2>2, EmptySeq
  <2>4. Content(b) = <<>>
    BY <2>1, <2>2, <2>3, SubSeqFull, FlattenEmpty
  <2> QED
    BY <1>7, <2>3, <2>4
<1> QED
  BY <1>6, <1>7

----------------------------------------------------------------------------
(* The operations of Buffer: each keeps the invariant and is a step of     *)
(* ByteQueue on the content.                                               *)

LEMMA InvFacts ==
    ASSUME BufferInv
    PROVE  /\ buf \in BufType /\ Wellformed(buf) /\ buf.total_size_ < SizeMod
           /\ Content(buf) \in Seq(Byte) /\ Len(Content(buf)) \in Nat
           /\ buf.total_size_ = Len(Content(buf)) /\ Len(Content(buf)) <= MaxContent
           /\ MaxContent \in Nat /\ next \in 0 .. Positions - 1 /\ out \in Seq(Byte)
<1>1. /\ buf \in BufType /\ Wellformed(buf) /\ buf.total_size_ <= MaxContent
      /\ next \in 0 .. Positions - 1 /\ out \in Seq(Byte)
  BY DEF BufferInv, TypeOK, BufferWellformed, BufType
<1>2. /\ Content(buf) \in Seq(Byte) /\ Len(Content(buf)) \in Nat
      /\ buf.total_size_ = Len(Content(buf))
  BY <1>1, ContentIs
<1> QED
  BY <1>1, <1>2, BufferAssumption, BlockSizeAssumption

LEMMA InvAfter ==
    ASSUME buf' \in BufType, Wellformed(buf'), Len(Content(buf')) <= MaxContent,
           next' \in 0 .. Positions - 1, out' \in Seq(Byte)
    PROVE  BufferInv'
<1>1. buf'.total_size_ = Len(Content(buf'))
  BY ContentIs
<1> QED
  BY <1>1 DEF BufferInv, TypeOK, BufferWellformed, BufType

\* An operation that drops the first m bytes.
LEMMA DropAfter ==
    ASSUME BufferInv, NEW m \in 0 .. Len(Content(buf)),
           buf' \in BufType, Wellformed(buf'), Content(buf') = Dropped(Content(buf), m),
           next' = next, out' \in Seq(Byte)
    PROVE  /\ BufferInv'
           /\ m \in 0 .. MaxContent /\ m <= Len(Content(buf))
           /\ Content(buf)' = SubSeq(Content(buf), m + 1, Len(Content(buf)))
<1>1. /\ Content(buf) \in Seq(Byte) /\ Len(Content(buf)) \in Nat
      /\ Len(Content(buf)) <= MaxContent /\ MaxContent \in Nat /\ next \in 0 .. Positions - 1
  BY InvFacts
<1>2. Len(Content(buf')) = Len(Content(buf)) - m
  BY <1>1, Drops
<1>3. Len(Content(buf')) <= MaxContent
  BY <1>1, <1>2
<1>4. BufferInv'
  BY <1>1, <1>3, InvAfter
<1> QED
  BY <1>1, <1>4 DEF Dropped

LEMMA Chunks ==
    ASSUME next \in 0 .. Positions - 1, NEW n \in Nat
    PROVE  /\ Chunk(n) \in Seq(Byte) /\ Len(Chunk(n)) = n
           /\ (next + n) % Positions \in 0 .. Positions - 1
           /\ Chunk(n) = Queue!Chunk(n)
<1>1. \A k \in Nat : k % Positions \in 0 .. Positions - 1
  BY BufferAssumption
<1>2. next \in Nat
  BY BufferAssumption
<1>3. \A i \in 1 .. n : (next + i - 1) % Positions \in Byte
  <2>1. \A i \in 1 .. n : next + i - 1 \in Nat
    BY <1>2
  <2>2. 0 .. Positions - 1 \subseteq Byte
    BY BufferAssumption
  <2> QED
    BY <1>1, <2>1, <2>2
<1>4. Chunk(n) \in [1 .. n -> Byte]
  BY <1>3 DEF Chunk
<1>5. (next + n) % Positions \in 0 .. Positions - 1
  BY <1>1, <1>2
<1>6. Chunk(n) = Queue!Chunk(n)
  BY DEF Chunk, Queue!Chunk
<1> QED
  BY <1>4, <1>5, <1>6

LEMMA AppendStep ==
    ASSUME BufferInv, NEW n \in 0 .. MaxContent, Append_(n)
    PROVE  BufferInv' /\ Queue!Put(n)
<1> DEFINE s == Chunk(n)
<1>1. /\ buf \in BufType /\ Wellformed(buf)
      /\ Content(buf) \in Seq(Byte) /\ Len(Content(buf)) \in Nat
      /\ MaxContent \in Nat /\ next \in 0 .. Positions - 1
  BY InvFacts
<1>2. /\ Len(Content(buf)) + n <= MaxContent /\ buf' = append(buf, s)
      /\ next' = (next + n) % Positions /\ out' = <<>>
  BY DEF Append_
<1>3. n \in Nat /\ s \in Seq(Byte) /\ Len(s) = n /\ next' \in 0 .. Positions - 1 /\ s = Queue!Chunk(n)
  BY <1>1, <1>2, Chunks
<1> HIDE DEF s
<1>4. buf' \in BufType /\ Wellformed(buf') /\ Content(buf') = Content(buf) \o s
  <2>1. CASE s = <<>>
    <3>1. buf' = buf
      BY <1>2, <2>1 DEF append
    <3>2. Content(buf) \o s = Content(buf)
      BY <1>1, <2>1, ConcatEmptySeq
    <3> QED
      BY <1>1, <3>1, <3>2
  <2>2. CASE s # <<>>
    <3>1. Len(Content(buf)) + Len(s) < SizeMod
      BY <1>1, <1>2, <1>3, BufferAssumption, BlockSizeAssumption
    <3> QED
      BY <1>1, <1>2, <1>3, <2>2, <3>1, AppendKeeps
  <2> QED
    BY <2>1, <2>2
<1>5. Len(Content(buf')) = Len(Content(buf)) + n
  BY <1>1, <1>3, <1>4, ConcatProperties
<1>6. Len(Content(buf')) <= MaxContent
  BY <1>2, <1>5
<1>7. out' \in Seq(Byte)
  BY <1>2, EmptySeq
<1>8. BufferInv'
  BY <1>3, <1>4, <1>6, <1>7, InvAfter
<1>9. Queue!Put(n)
  BY <1>2, <1>3, <1>4 DEF Queue!Put
<1> QED
  BY <1>8, <1>9

LEMMA ConsumeStep ==
    ASSUME BufferInv, NEW n \in 0 .. MaxContent, Consume(n)
    PROVE  BufferInv' /\ Queue!Next
<1> DEFINE m == Lesser(n, Len(Content(buf)))
<1>1. n \in Nat /\ buf \in BufType /\ Wellformed(buf) /\ buf.total_size_ < SizeMod
  BY InvFacts
<1>2. buf' = consumeBytes(buf, n) /\ out' = <<>> /\ next' = next
  BY DEF Consume
<1>3. /\ buf' \in BufType /\ Wellformed(buf') /\ m \in 0 .. Len(Content(buf))
      /\ Content(buf') = Dropped(Content(buf), m)
  BY <1>1, <1>2, ConsumeKeeps
<1>4. out' \in Seq(Byte)
  BY <1>2, EmptySeq
<1> HIDE DEF m
<1>5. /\ BufferInv' /\ m \in 0 .. MaxContent /\ m <= Len(Content(buf))
      /\ Content(buf)' = SubSeq(Content(buf), m + 1, Len(Content(buf)))
  BY <1>2, <1>3, <1>4, DropAfter
<1>6. Queue!Drop(m)
  BY <1>2, <1>5 DEF Queue!Drop
<1> QED
  BY <1>5, <1>6 DEF Queue!Next

\* The bytes handed out, and not more than there are, are dropped.
LEMMA TakeStep ==
    ASSUME BufferInv, NEW n \in 0 .. Len(Content(buf)),
           buf' = consumeBytes(buf, n), next' = next, out' = SubSeq(Content(buf), 1, n)
    PROVE  BufferInv' /\ Queue!Next
<1>1. /\ n \in Nat /\ buf \in BufType /\ Wellformed(buf) /\ buf.total_size_ < SizeMod
      /\ Content(buf) \in Seq(Byte) /\ Len(Content(buf)) \in Nat
  BY InvFacts
<1>2. Lesser(n, Len(Content(buf))) = n
  BY <1>1 DEF Lesser
<1>3. buf' \in BufType /\ Wellformed(buf') /\ Content(buf') = Dropped(Content(buf), n)
  <2>1. /\ consumeBytes(buf, n) \in BufType /\ Wellformed(consumeBytes(buf, n))
        /\ Content(consumeBytes(buf, n)) = Dropped(Content(buf), Lesser(n, Len(Content(buf))))
    BY <1>1, ConsumeKeeps
  <2> QED
    BY <1>2, <2>1
<1>4. out' \in Seq(Byte)
  BY <1>1, PrefixIs
<1>5. /\ BufferInv' /\ n \in 0 .. MaxContent /\ n <= Len(Content(buf))
      /\ Content(buf)' = SubSeq(Content(buf), n + 1, Len(Content(buf)))
  BY <1>3, <1>4, DropAfter
<1>6. Queue!Take(n)
  BY <1>5 DEF Queue!Take
<1> QED
  BY <1>5, <1>6 DEF Queue!Next

LEMMA ReadStep ==
    ASSUME BufferInv, NEW n \in 0 .. MaxContent, Read(n)
    PROVE  BufferInv' /\ Queue!Next
<1>1. Len(Content(buf)) \in Nat /\ buf.total_size_ = Len(Content(buf))
  BY InvFacts
<1>2. n <= Len(Content(buf)) /\ buf' = consumeBytes(buf, n) /\ next' = next
      /\ out' = SubSeq(Content(buf), 1, n)
  BY <1>1 DEF Read, readableBytes, Bytes
<1>3. n \in 0 .. Len(Content(buf))
  BY <1>1, <1>2
<1> QED
  BY <1>2, <1>3, TakeStep

LEMMA EraseStep ==
    ASSUME BufferInv, NEW n \in 0 .. MaxContent, Erase(n)
    PROVE  BufferInv' /\ Queue!Next
<1>1. /\ n \in Nat /\ buf \in BufType /\ Wellformed(buf) /\ buf.total_size_ < SizeMod
      /\ Content(buf) \in Seq(Byte) /\ Len(Content(buf)) \in Nat
      /\ buf.total_size_ = Len(Content(buf))
  BY InvFacts
<1>2. buf' = erase(buf, n) /\ out' = <<>> /\ next' = next
  BY DEF Erase
<1>3. \E m \in 0 .. Len(Content(buf)) :
         buf' \in BufType /\ Wellformed(buf') /\ Content(buf') = Dropped(Content(buf), m)
  <2>1. CASE n <= 0 \/ n > buf.total_size_
    <3>1. buf' = buf
      BY <1>2, <2>1 DEF erase
    <3>2. Dropped(Content(buf), 0) = Content(buf) /\ 0 \in 0 .. Len(Content(buf))
      BY <1>1, DropNothing
    <3> QED
      BY <1>1, <3>1, <3>2
  <2>2. CASE ~ (n <= 0 \/ n > buf.total_size_) /\ n = buf.total_size_
    <3>1. buf' = Empty
      BY <1>2, <2>2 DEF erase
    <3>2. Dropped(Content(buf), n) = <<>> /\ n \in 0 .. Len(Content(buf))
      BY <1>1, <2>2, DropAll
    <3> QED
      BY <3>1, <3>2, EmptyIs
  <2>3. CASE ~ (n <= 0 \/ n > buf.total_size_) /\ n # buf.total_size_
    <3>1. buf' = consumeBytes(buf, n)
      BY <1>2, <2>3 DEF erase
    <3> QED
      BY <1>1, <3>1, ConsumeKeeps
  <2> QED
    BY <2>1, <2>2, <2>3
<1>4. PICK m \in 0 .. Len(Content(buf)) :
         buf' \in BufType /\ Wellformed(buf') /\ Content(buf') = Dropped(Content(buf), m)
  BY <1>3
<1>5. out' \in Seq(Byte)
  BY <1>2, EmptySeq
<1>6. /\ BufferInv' /\ m \in 0 .. MaxContent /\ m <= Len(Content(buf))
      /\ Content(buf)' = SubSeq(Content(buf), m + 1, Len(Content(buf)))
  BY <1>2, <1>4, <1>5, DropAfter
<1>7. Queue!Drop(m)
  BY <1>2, <1>6 DEF Queue!Drop
<1> QED
  BY <1>6, <1>7 DEF Queue!Next

LEMMA ClearStep ==
    ASSUME BufferInv, Clear
    PROVE  BufferInv' /\ Queue!Next
<1> DEFINE m == Len(Content(buf))
<1>1. Content(buf) \in Seq(Byte) /\ m \in Nat
  BY InvFacts
<1>2. buf' = Empty /\ out' = <<>> /\ next' = next
  BY DEF Clear
<1>3. buf' \in BufType /\ Wellformed(buf') /\ Content(buf') = Dropped(Content(buf), m)
  BY <1>1, <1>2, EmptyIs, DropAll
<1>4. out' \in Seq(Byte) /\ m \in 0 .. Len(Content(buf))
  BY <1>1, <1>2, EmptySeq
<1>5. /\ BufferInv' /\ m \in 0 .. MaxContent /\ m <= Len(Content(buf))
      /\ Content(buf)' = SubSeq(Content(buf), m + 1, Len(Content(buf)))
  BY <1>2, <1>3, <1>4, DropAfter
<1>6. Queue!Drop(m)
  BY <1>2, <1>5 DEF Queue!Drop
<1> QED
  BY <1>5, <1>6 DEF Queue!Next

LEMMA PeekStep ==
    ASSUME BufferInv, NEW n \in 0 .. MaxContent, Peek(n)
    PROVE  BufferInv' /\ Queue!Next
<1>1. /\ buf \in BufType /\ Wellformed(buf) /\ next \in 0 .. Positions - 1
      /\ Content(buf) \in Seq(Byte) /\ Len(Content(buf)) \in Nat
      /\ buf.total_size_ = Len(Content(buf)) /\ Len(Content(buf)) <= MaxContent
      /\ MaxContent \in Nat
  BY InvFacts
<1>2. out' = peekFromBlock(buf, n) /\ buf' = buf /\ next' = next
  BY DEF Peek
<1>3. PICK m \in 0 .. Len(Content(buf)) : out' = SubSeq(Content(buf), 1, m)
  <2>1. CASE n <= Len(Content(buf))
    <3>1. ~ (readableBytes(buf) < n) /\ Lesser(n, Len(Content(buf))) = n
      BY <1>1, <2>1 DEF readableBytes, Lesser
    <3>2. out' = SubSeq(Content(buf), 1, n) /\ n \in 0 .. Len(Content(buf))
      BY <1>1, <1>2, <2>1, <3>1 DEF peekFromBlock
    <3> QED
      BY <3>2
  <2>2. CASE ~ (n <= Len(Content(buf)))
    <3>1. readableBytes(buf) < n
      BY <1>1, <2>2 DEF readableBytes
    <3>2. out' = <<>> /\ SubSeq(Content(buf), 1, 0) = <<>> /\ 0 \in 0 .. Len(Content(buf))
      BY <1>1, <1>2, <3>1, SubSeqEmpty DEF peekFromBlock
    <3> QED
      BY <3>2
  <2> QED
    BY <2>1, <2>2
<1>4. out' \in Seq(Byte)
  BY <1>1, <1>3, PrefixIs
<1>5. BufferInv'
  BY <1>1, <1>2, <1>4, InvAfter
<1>6. m \in 0 .. MaxContent /\ m <= Len(Content(buf))
  BY <1>1
<1>7. Queue!Look(m)
  BY <1>2, <1>3 DEF Queue!Look
<1> QED
  BY <1>5, <1>6, <1>7 DEF Queue!Next

LEMMA WritevStep ==
    ASSUME BufferInv, Writev
    PROVE  BufferInv' /\ Queue!Next
<1> DEFINE offered == FlattenSeq(getIOVecs(buf, MaxIoves))
<1>1. /\ buf \in BufType /\ Wellformed(buf)
      /\ Content(buf) \in Seq(Byte) /\ Len(Content(buf)) \in Nat
  BY InvFacts
<1>2. PICK n \in 1 .. Len(offered) :
         out' = SubSeq(offered, 1, n) /\ buf' = consumeBytes(buf, n) /\ next' = next
  BY DEF Writev
<1>3. PICK m \in 0 .. Len(Content(buf)) : offered = SubSeq(Content(buf), 1, m)
  BY <1>1, BufferAssumption, Offered DEF Shows
<1> HIDE DEF offered
<1>4. /\ offered \in Seq(Byte) /\ Len(offered) = m
      /\ \A k \in 1 .. m : offered[k] = Content(buf)[k]
  BY <1>1, <1>3, PrefixIs
<1>5. n \in 0 .. Len(offered) /\ n \in 0 .. Len(Content(buf))
  BY <1>1, <1>4
<1>6. SubSeq(offered, 1, n) = SubSeq(Content(buf), 1, n)
  <2>1. /\ SubSeq(offered, 1, n) \in Seq(Byte) /\ Len(SubSeq(offered, 1, n)) = n
        /\ \A k \in 1 .. n : SubSeq(offered, 1, n)[k] = offered[k]
    BY <1>4, <1>5, PrefixIs
  <2>2. /\ SubSeq(Content(buf), 1, n) \in Seq(Byte) /\ Len(SubSeq(Content(buf), 1, n)) = n
        /\ \A k \in 1 .. n : SubSeq(Content(buf), 1, n)[k] = Content(buf)[k]
    BY <1>1, <1>5, PrefixIs
  <2>3. \A k \in 1 .. n : k \in 1 .. m
    BY <1>4, <1>5
  <2>4. \A k \in 1 .. n : SubSeq(offered, 1, n)[k] = SubSeq(Content(buf), 1, n)[k]
    BY <1>4, <2>1, <2>2, <2>3
  <2> QED
    BY <2>1, <2>2, <2>4, SeqEqual
<1> QED
  BY <1>2, <1>5, <1>6, TakeStep

LEMMA InitKeeps == Init => BufferInv /\ Queue!Init
<1> SUFFICES ASSUME Init PROVE BufferInv /\ Queue!Init
  OBVIOUS
<1>1. buf = Empty /\ next = 0 /\ out = <<>>
  BY DEF Init
<1>2. 0 \in 0 .. Positions - 1 /\ <<>> \in Seq(Byte)
  BY BufferAssumption, EmptySeq
<1>3. Empty \in BufType /\ Wellformed(Empty) /\ Content(Empty) = <<>> /\ Empty.total_size_ = 0
  BY EmptyIs
<1>4. 0 <= MaxContent
  BY BufferAssumption
<1>5. BufferInv
  BY <1>1, <1>2, <1>3, <1>4 DEF BufferInv, TypeOK, BufferWellformed, BufType
<1>6. Queue!Init
  BY <1>1, <1>3 DEF Queue!Init
<1> QED
  BY <1>5, <1>6

LEMMA NextKeeps ==
    ASSUME BufferInv, Next
    PROVE  BufferInv' /\ Queue!Next
<1>1. ASSUME NEW n \in 0 .. MaxContent, Append_(n) PROVE BufferInv' /\ Queue!Next
  BY <1>1, AppendStep DEF Queue!Next
<1>2. ASSUME NEW n \in 0 .. MaxContent, Consume(n) PROVE BufferInv' /\ Queue!Next
  BY <1>2, ConsumeStep
<1>3. ASSUME NEW n \in 0 .. MaxContent, Read(n) PROVE BufferInv' /\ Queue!Next
  BY <1>3, ReadStep
<1>4. ASSUME NEW n \in 0 .. MaxContent, Erase(n) PROVE BufferInv' /\ Queue!Next
  BY <1>4, EraseStep
<1>5. ASSUME NEW n \in 0 .. MaxContent, Peek(n) PROVE BufferInv' /\ Queue!Next
  BY <1>5, PeekStep
<1>6. CASE Clear
  BY <1>6, ClearStep
<1>7. CASE Writev
  BY <1>7, WritevStep
<1> QED
  BY <1>1, <1>2, <1>3, <1>4, <1>5, <1>6, <1>7 DEF Next

LEMMA StepKeeps == BufferInv /\ [Next]_vars => BufferInv'
<1> SUFFICES ASSUME BufferInv, [Next]_vars PROVE BufferInv'
  OBVIOUS
<1>1. CASE Next
  BY <1>1, NextKeeps
<1>2. CASE UNCHANGED vars
  <2>1. buf' = buf /\ next' = next /\ out' = out
    BY <1>2 DEF vars
  <2> QED
    BY <2>1, InvFacts, InvAfter
<1> QED
  BY <1>1, <1>2

LEMMA StepMaps == BufferInv /\ [Next]_vars => [Queue!Next]_<<Content(buf), next, out>>
<1> SUFFICES ASSUME BufferInv, [Next]_vars PROVE [Queue!Next]_<<Content(buf), next, out>>
  OBVIOUS
<1>1. CASE Next
  BY <1>1, NextKeeps
<1>2. CASE UNCHANGED vars
  BY <1>2 DEF vars
<1> QED
  BY <1>1, <1>2

\* The inductive invariant holds whatever the sizes of the blocks and whatever
\* is appended, consumed, erased and written.
THEOREM BufferInvariance == Spec => []BufferInv
<1>1. Init => BufferInv
  BY InitKeeps
<1>2. BufferInv /\ [Next]_vars => BufferInv'
  BY StepKeeps
<1> QED
  BY <1>1, <1>2, PTL DEF Spec

\* The members of a BufferBlock agree with each other after every operation:
\* total_size_ counts what is in the blocks, write_pos_ is where the last block
\* ends, and no used-up block is kept.
THEOREM AlwaysWellformed == Spec => []BufferWellformed
<1>1. BufferInv => BufferWellformed
  BY DEF BufferInv
<1> QED
  BY <1>1, BufferInvariance, PTL

\* Whenever bytes are left, getIOVecs offers writev some of them.
THEOREM AlwaysOffered == Spec => []SomethingOffered
<1>1. BufferInv => SomethingOffered
  <2> SUFFICES ASSUME BufferInv, readableBytes(buf) > 0 PROVE getIOVecs(buf, MaxIoves) # <<>>
    BY DEF SomethingOffered
  <2>1. /\ buf \in BufType /\ Wellformed(buf) /\ buf.total_size_ = Len(Content(buf))
    BY InvFacts
  <2>2. Len(Content(buf)) > 0
    BY <2>1 DEF readableBytes
  <2> QED
    BY <2>1, <2>2, BufferAssumption, Offered
<1> QED
  BY <1>1, BufferInvariance, PTL

\* A BufferBlock hands its bytes out once, in order and unchanged: every
\* operation on the blocks is an operation of ByteQueue on their content.
THEOREM BufferImplementsByteQueue == Spec => ImplementsByteQueue
<1>1. Init => Queue!Init
  BY InitKeeps
<1>2. BufferInv /\ [Next]_vars => [Queue!Next]_<<Content(buf), next, out>>
  BY StepMaps
<1> QED
  BY <1>1, <1>2, BufferInvariance, PTL DEF Spec, ImplementsByteQueue, Queue!Spec
=============================================================================
