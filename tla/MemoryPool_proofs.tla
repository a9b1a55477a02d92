------------------------- MODULE MemoryPool_proofs -------------------------
(***************************************************************************)
(* Proofs about the memory pool, for every number of threads, every table  *)
(* of classes and batches, and every amount of memory.                     *)
(***************************************************************************)
EXTENDS MemoryPool, FiniteSetTheorems, SequenceTheorems, WellFoundedInduction, TLAPS

Aligned(n) == n \in Nat /\ n % ALIGNMENT = 0

\* The size of the blocks that serve a capacity.
Room(capacity) == ClassSize(getIndex(capacity))

\* In memory mem the blocks of s are a list: each points to the following one.
First(s) == IF s = <<>> THEN nullptr ELSE s[1]

Distinct(s) == \A j, k \in 1 .. Len(s) : s[j] = s[k] => j = k

Linked(mem, s) ==
    \A k \in 1 .. Len(s) : mem[s[k]] = IF k < Len(s) THEN s[k + 1] ELSE nullptr

BlocksOf(s) == {s[k] : k \in 1 .. Len(s)}

\* The free lists: of each thread and the shared ones, by class.
Shared == CHOOSE x : x \notin Threads

Lists == (Threads \union {Shared}) \X Classes

Block == [at : Cells, capacity : Capacities]

\* Each block of L is in one list, and none is in use; L are the free lists and
\* U the blocks in use.
Owned(L, U) ==
    /\ L \in [Lists -> Seq(Cells)]
    /\ U \subseteq Block
    /\ \A l \in Lists : Distinct(L[l])
    /\ \A l, m \in Lists : \A a \in BlocksOf(L[l]) : a \in BlocksOf(L[m]) => l = m
    /\ \A l \in Lists : \A u \in U : u.at \notin BlocksOf(L[l])
    /\ \A u, v \in U : u.at = v.at => u = v

\* Somebody counts on the n bytes from a on.
Claimed(L, U, a, n) ==
    \/ \E l \in Lists : a \in BlocksOf(L[l]) /\ n = ClassSize(l[2])
    \/ \E u \in U : a = u.at /\ n = Room(u.capacity)

\* What is claimed ends before the next claim and before b.
Apart(L, U, b) ==
    \A a, x \in Cells, n, m \in Nat :
        Claimed(L, U, a, n) /\ Claimed(L, U, x, m) => a + n <= b /\ (a < x => a + n <= x)

\* L2 are the lists L with those of T, all of class i, changed.
Changes(L, L2, T, i) ==
    /\ T \in SUBSET Lists
    /\ \A l \in T : l[2] = i
    /\ L2 \in [Lists -> Seq(Cells)]
    /\ \A l \in Lists \ T : L2[l] = L[l]
    /\ \A l \in T : Distinct(L2[l])
    /\ \A l, m \in T : \A a \in BlocksOf(L2[l]) : a \in BlocksOf(L2[m]) => l = m

\* The lists of T keep some of their blocks, and not the one at x.
GivesUp(L, L2, T, x) ==
    /\ \A l \in T : \A a \in BlocksOf(L2[l]) : \E m \in T : a \in BlocksOf(L[m])
    /\ \E m \in T : x \in BlocksOf(L[m])
    /\ \A l \in T : x \notin BlocksOf(L2[l])

\* The lists of T get the block at x and no other.
Receives(L, L2, T, x) ==
    \A l \in T : \A a \in BlocksOf(L2[l]) : a = x \/ \E m \in T : a \in BlocksOf(L[m])

SameBut(L, L2, T) == \A l \in Lists \ T : L2[l] = L[l]

\* No block is lost from the lists but the one at x.
KeepsAllBut(L, L2, x) ==
    \A l \in Lists : \A a \in BlocksOf(L[l]) : a = x \/ \E m \in Lists : a \in BlocksOf(L2[m])

\* The first block is taken from a list.
FirstTaken(L, l) == [L EXCEPT ![l] = SubSeq(L[l], 2, Len(L[l]))]

\* Of the first m blocks of a list the first is taken, the others are moved.
BatchTaken(L, from, to, m) ==
    [L EXCEPT ![to] = SubSeq(L[from], 2, m), ![from] = SubSeq(L[from], m + 1, Len(L[from]))]

MemoryType == [Cells -> Cells \union {nullptr, junk}]

----------------------------------------------------------------------------
(* The inductive invariant: the heads, the pointers and the counts describe *)
(* lists L that own what nobody uses.                                      *)

LinksOf(L) == \A l \in Lists : Linked(next, L[l])

HeadsOf(L) ==
    /\ \A t \in Threads, i \in Classes : freeList_[t][i] = First(L[<<t, i>>])
    /\ \A i \in Classes : centralFreeList_[i] = First(L[<<Shared, i>>])

CountsOf(L) ==
    \A t \in Threads, i \in Classes :
        ClassSize(i) <= SpanSize => freeListSize_[t][i] = Len(L[<<t, i>>])

\* The count of a cache understates the length of a list of blocks larger than a
\* span.  Memory does not hold so many of them that it cuts off what is returned.
FewLargeBlocks ==
    \A i \in Classes :
        ClassSize(i) > SpanSize =>
            2 * (Memory \div ClassSize(i)) <= ShouldReturn * ClassSize(i)

\* What is returned has been counted well enough.
LosesNone == FewLargeBlocks /\ ~short

Somewhere(L, U, a) ==
    \/ \E l \in Lists : a \in BlocksOf(L[l])
    \/ \E u \in U : a = u.at

\* A block of a span is in a list or in use, and never used as larger than it is.
SavedBy(L) ==
    /\ \A a \in cut : a < brk
    /\ \A u \in used : u.capacity > MAXBYTE => u.at \notin cut
    /\ LosesNone => \A a \in cut : Somewhere(L, used, a)

Describes(L) ==
    /\ Owned(L, used)
    /\ Apart(L, used, brk)
    /\ LinksOf(L)
    /\ HeadsOf(L)
    /\ CountsOf(L)
    /\ SavedBy(L)

PoolInv ==
    /\ TypeOK
    /\ Aligned(brk)
    /\ \E L : Describes(L)

----------------------------------------------------------------------------
(* Arithmetic: multiples of ALIGNMENT.                                     *)

LEMMA TimesOrder ==
    ASSUME NEW a \in Nat, NEW b \in Nat, NEW d \in Nat, a < b
    PROVE  /\ a * d \in Nat /\ b * d \in Nat
           /\ a * d + d <= b * d
<1>1. PICK c \in Nat : b = a + 1 + c
  <2>1. b - a - 1 \in Nat /\ b = a + 1 + (b - a - 1)
    OBVIOUS
  <2> QED
    BY <2>1
<1>2. b * d = a * d + d + c * d
  BY <1>1, SMT
<1>3. a * d \in Nat /\ c * d \in Nat /\ b * d \in Nat
  BY SMT
<1> QED
  BY <1>2, <1>3

LEMMA DivMod ==
    ASSUME NEW n \in Nat, NEW d \in Nat \ {0}
    PROVE  /\ n \div d \in Nat
           /\ n % d \in 0 .. d - 1
           /\ n = (n \div d) * d + (n % d)
OBVIOUS

LEMMA DivModUnique ==
    ASSUME NEW d \in Nat \ {0}, NEW q \in Nat, NEW r \in 0 .. d - 1,
           NEW n, n = q * d + r
    PROVE  n \in Nat /\ n \div d = q /\ n % d = r
<1>1. q * d \in Nat /\ n \in Nat
  BY SMT
<1>2. /\ n \div d \in Nat
      /\ n % d \in 0 .. d - 1
      /\ n = (n \div d) * d + (n % d)
  BY <1>1, DivMod
<1> DEFINE p == n \div d
<1> DEFINE s == n % d
<1> HIDE DEF p, s
<1>3. p \in Nat /\ s \in 0 .. d - 1 /\ n = p * d + s
  BY <1>2 DEF p, s
<1>4. ~ (p < q)
  <2>1. SUFFICES ASSUME p < q PROVE FALSE
    OBVIOUS
  <2>2. p * d \in Nat /\ p * d + d <= q * d
    BY <1>3, <2>1, TimesOrder
  <2> QED
    BY <1>1, <1>3, <2>2
<1>5. ~ (q < p)
  <2>1. SUFFICES ASSUME q < p PROVE FALSE
    OBVIOUS
  <2>2. p * d \in Nat /\ q * d + d <= p * d
    BY <1>3, <2>1, TimesOrder
  <2> QED
    BY <1>1, <1>3, <2>2
<1>6. p = q
  BY <1>3, <1>4, <1>5
<1>7. s = r
  BY <1>1, <1>3, <1>6
<1> QED
  BY <1>1, <1>6, <1>7 DEF p, s

LEMMA Positive ==
    /\ ALIGNMENT \in Nat \ {0} /\ MAXBYTE \in Nat \ {0} /\ PAGE_SIZE \in Nat \ {0}
    /\ SPAN_PAGES \in Nat \ {0} /\ ShouldReturn \in Nat \ {0} /\ SizeMod \in Nat \ {0}
BY SizesAssumption

LEMMA AlignedIs ==
    ASSUME NEW n \in Nat
    PROVE  Aligned(n) <=> \E q \in Nat : n = q * ALIGNMENT
<1>1. ASSUME NEW q \in Nat, n = q * ALIGNMENT PROVE Aligned(n)
  <2>1. 0 \in 0 .. ALIGNMENT - 1 /\ n = q * ALIGNMENT + 0
    BY <1>1, Positive
  <2> QED
    BY <2>1, Positive, DivModUnique DEF Aligned
<1>2. ASSUME Aligned(n) PROVE \E q \in Nat : n = q * ALIGNMENT
  <2>1. /\ n \div ALIGNMENT \in Nat
        /\ n = (n \div ALIGNMENT) * ALIGNMENT + (n % ALIGNMENT)
    BY Positive, DivMod
  <2>2. n = (n \div ALIGNMENT) * ALIGNMENT
    BY <1>2, <2>1, Positive DEF Aligned
  <2> QED
    BY <2>1, <2>2
<1> QED
  BY <1>1, <1>2

LEMMA AlignedSum ==
    ASSUME NEW m, NEW n, Aligned(m), Aligned(n)
    PROVE  Aligned(m + n)
<1>1. m \in Nat /\ n \in Nat /\ m + n \in Nat
  BY DEF Aligned
<1>2. PICK p \in Nat : m = p * ALIGNMENT
  BY <1>1, AlignedIs
<1>3. PICK q \in Nat : n = q * ALIGNMENT
  BY <1>1, AlignedIs
<1>4. p + q \in Nat /\ m + n = (p + q) * ALIGNMENT
  BY <1>2, <1>3, Positive, SMT
<1> QED
  BY <1>1, <1>4, AlignedIs

LEMMA AlignedTimes ==
    ASSUME NEW k \in Nat, NEW n, Aligned(n)
    PROVE  k * n \in Nat /\ Aligned(k * n)
<1>1. n \in Nat /\ k * n \in Nat
  BY DEF Aligned
<1>2. PICK q \in Nat : n = q * ALIGNMENT
  BY <1>1, AlignedIs
<1>3. k * q \in Nat /\ k * n = (k * q) * ALIGNMENT
  BY <1>2, Positive, SMT
<1> QED
  BY <1>1, <1>3, AlignedIs

\* The classes: the sizes are multiples of ALIGNMENT up to MAXBYTE.
LEMMA ClassSizes ==
    ASSUME NEW i \in Classes
    PROVE  ClassSize(i) \in Nat \ {0} /\ Aligned(ClassSize(i))
<1>1. /\ MAXBYTE \div ALIGNMENT \in Nat
      /\ i \in Nat /\ i + 1 \in Nat /\ i + 1 # 0
  BY Positive, DivMod DEF Classes
<1>2. (i + 1) * ALIGNMENT \in Nat
  BY <1>1, Positive
<1>3. 0 * ALIGNMENT + ALIGNMENT <= (i + 1) * ALIGNMENT
  BY <1>1, Positive, TimesOrder
<1>4. ClassSize(i) \in Nat \ {0}
  BY <1>2, <1>3, Positive DEF ClassSize
<1> QED
  BY <1>1, <1>4, AlignedIs DEF ClassSize

\* getIndex finds the smallest class that holds a capacity.
LEMMA Rooms ==
    ASSUME NEW c \in Nat
    PROVE  /\ getIndex(c) \in Nat
           /\ Room(c) \in Nat \ {0}
           /\ Aligned(Room(c))
           /\ c <= Room(c)
           /\ \A m : Aligned(m) /\ m > 0 /\ c <= m => Room(c) <= m
<1> DEFINE x == Most(c, ALIGNMENT)
<1> DEFINE y == x + ALIGNMENT - 1
<1> DEFINE q == y \div ALIGNMENT
<1>1. x \in Nat /\ c <= x /\ ALIGNMENT <= x /\ (x = c \/ x = ALIGNMENT)
  BY Positive DEF Most
<1>2. y \in Nat
  BY <1>1, Positive
<1>3. /\ q \in Nat
      /\ y % ALIGNMENT \in 0 .. ALIGNMENT - 1
      /\ y = q * ALIGNMENT + (y % ALIGNMENT)
  BY <1>2, Positive, DivMod
<1>4. getIndex(c) = q - 1
  BY DEF getIndex
<1> HIDE DEF x, y, q
<1>5. x <= q * ALIGNMENT /\ q * ALIGNMENT \in Nat /\ q * ALIGNMENT < x + ALIGNMENT
  BY <1>1, <1>3, Positive DEF y
<1>6. q # 0
  BY <1>1, <1>5, Positive
<1>7. Room(c) = q * ALIGNMENT
  BY <1>3, <1>4 DEF Room, ClassSize
<1>8. ASSUME NEW m, Aligned(m), m > 0, c <= m PROVE Room(c) <= m
  <2>1. m \in Nat
    BY <1>8 DEF Aligned
  <2>2. PICK p \in Nat : m = p * ALIGNMENT
    BY <1>8, <2>1, AlignedIs
  <2>3. p # 0
    BY <1>8, <2>2, Positive
  <2>4. ALIGNMENT <= m
    <3>1. 0 * ALIGNMENT + ALIGNMENT <= p * ALIGNMENT
      BY <2>3, Positive, TimesOrder
    <3> QED
      BY <2>2, <3>1, Positive
  <2>5. x <= m
    BY <1>1, <1>8, <2>1, <2>4
  <2>6. ~ (p < q)
    <3>1. SUFFICES ASSUME p < q PROVE FALSE
      OBVIOUS
    <3>2. p * ALIGNMENT + ALIGNMENT <= q * ALIGNMENT
      BY <1>3, <3>1, Positive, TimesOrder
    <3> QED
      BY <1>1, <1>5, <2>1, <2>2, <2>5, <3>2, Positive
  <2>7. CASE p = q
    BY <1>5, <1>7, <2>1, <2>2, <2>7
  <2>8. CASE q < p
    <3>1. q * ALIGNMENT + ALIGNMENT <= p * ALIGNMENT
      BY <1>3, <2>8, Positive, TimesOrder
    <3> QED
      BY <1>5, <1>7, <2>1, <2>2, <3>1, Positive
  <2> QED
    BY <1>3, <2>6, <2>7, <2>8
<1>9. Aligned(Room(c))
  BY <1>3, <1>5, <1>7, AlignedIs
<1>10. Room(c) \in Nat \ {0} /\ c <= Room(c) /\ getIndex(c) \in Nat
  BY <1>1, <1>3, <1>4, <1>5, <1>6, <1>7, Positive
<1> QED
  BY <1>8, <1>9, <1>10

LEMMA RoomOrder ==
    ASSUME NEW c \in Nat, NEW d \in Nat, c <= d
    PROVE  Room(c) <= Room(d)
<1>1. Room(d) \in Nat \ {0} /\ Aligned(Room(d)) /\ d <= Room(d)
  BY Rooms
<1>2. Room(d) > 0 /\ c <= Room(d)
  BY <1>1
<1> QED
  BY <1>1, <1>2, Rooms

\* A capacity up to MAXBYTE has a class.
LEMMA IndexIsClass ==
    ASSUME NEW c \in Nat, c <= MAXBYTE
    PROVE  getIndex(c) \in Classes
<1>1. Aligned(MAXBYTE) /\ MAXBYTE > 0
  BY Positive, SizesAssumption DEF Aligned
<1>2. Room(c) <= MAXBYTE /\ getIndex(c) \in Nat /\ Room(c) \in Nat
  BY <1>1, Rooms
<1>3. PICK q \in Nat : MAXBYTE = q * ALIGNMENT
  BY <1>1, Positive, AlignedIs
<1>4. MAXBYTE \div ALIGNMENT = q
  <2>1. 0 \in 0 .. ALIGNMENT - 1 /\ MAXBYTE = q * ALIGNMENT + 0
    BY <1>3, Positive
  <2> QED
    BY <2>1, Positive, DivModUnique
<1>5. ~ (q < getIndex(c) + 1)
  <2>1. SUFFICES ASSUME q < getIndex(c) + 1 PROVE FALSE
    OBVIOUS
  <2>2. q * ALIGNMENT + ALIGNMENT <= (getIndex(c) + 1) * ALIGNMENT
    BY <1>2, <2>1, Positive, TimesOrder
  <2> QED
    BY <1>2, <1>3, <2>2, Positive DEF Room, ClassSize
<1> QED
  BY <1>2, <1>4, <1>5 DEF Classes

\* What a size is rounded up to is the size of its class, but for no bytes.
LEMMA Rounding ==
    ASSUME NEW size \in Nat
    PROVE  roundUp(size) \in Nat /\ (size # 0 => roundUp(size) = Room(size))
<1>1. PICK d \in Nat \ {0} : d = ALIGNMENT
  BY Positive
<1>2. size + d - 1 \in Nat
  BY <1>1
<1>3. PICK q \in Nat : q = (size + d - 1) \div d
  BY <1>1, <1>2, DivMod
<1>4. roundUp(size) = q * d /\ q * d \in Nat
  BY <1>1, <1>3 DEF roundUp
<1>5. ASSUME size # 0 PROVE Room(size) = q * d
  <2>1. CASE size < d
    <3>1. size - 1 \in 0 .. d - 1 /\ size + d - 1 = 1 * d + (size - 1)
      BY <1>1, <1>5, <2>1
    <3>2. q = 1
      BY <1>1, <1>3, <3>1, DivModUnique
    <3>3. d - 1 \in 0 .. d - 1 /\ d + d - 1 = 1 * d + (d - 1)
      BY <1>1
    <3>4. (d + d - 1) \div d = 1
      BY <1>1, <3>3, DivModUnique
    <3>5. getIndex(size) = 0
      BY <1>1, <2>1, <3>4 DEF getIndex, Most
    <3> QED
      BY <1>1, <3>2, <3>5 DEF Room, ClassSize
  <2>2. CASE ~ (size < d)
    <3>1. getIndex(size) = q - 1
      BY <1>1, <1>3, <2>2 DEF getIndex, Most
    <3>2. (q - 1) + 1 = q
      OBVIOUS
    <3> QED
      BY <1>1, <3>1, <3>2 DEF Room, ClassSize
  <2> QED
    BY <2>1, <2>2
<1> QED
  BY <1>4, <1>5

LEMMA Spans == SpanSize \in Nat \ {0} /\ Aligned(SpanSize) /\ Aligned(PAGE_SIZE)
<1>1. Aligned(PAGE_SIZE)
  BY Positive, SizesAssumption DEF Aligned
<1>2. SPAN_PAGES * PAGE_SIZE \in Nat /\ Aligned(SPAN_PAGES * PAGE_SIZE)
  BY <1>1, Positive, AlignedTimes
<1>3. 0 * PAGE_SIZE + PAGE_SIZE <= SPAN_PAGES * PAGE_SIZE
  BY Positive, TimesOrder
<1> QED
  BY <1>1, <1>2, <1>3, Positive DEF SpanSize

\* What is asked of the system is enough and a multiple of ALIGNMENT.
LEMMA SpanRoom ==
    ASSUME NEW n \in Nat \ {0}
    PROVE  Aligned(SpanFor(n)) /\ SpanFor(n) > 0 /\ n <= SpanFor(n) /\ Room(n) <= SpanFor(n)
<1> DEFINE y == n + PAGE_SIZE - 1
<1>1. y \in Nat
  BY Positive
<1>2. /\ y \div PAGE_SIZE \in Nat
      /\ y % PAGE_SIZE \in 0 .. PAGE_SIZE - 1
      /\ y = (y \div PAGE_SIZE) * PAGE_SIZE + (y % PAGE_SIZE)
  BY <1>1, Positive, DivMod
<1>3. (y \div PAGE_SIZE) * PAGE_SIZE \in Nat /\ Aligned((y \div PAGE_SIZE) * PAGE_SIZE)
  BY <1>2, Spans, AlignedTimes
<1>4. n <= (y \div PAGE_SIZE) * PAGE_SIZE
  BY <1>2, <1>3, Positive
<1>5. Aligned(SpanFor(n)) /\ n <= SpanFor(n)
  BY <1>3, <1>4, Spans DEF SpanFor
<1>6. SpanFor(n) > 0
  BY <1>5 DEF Aligned
<1> QED
  BY <1>5, <1>6, Rooms

\* The blocks of a class that a span is cut into.
LEMMA SpanBlocks ==
    ASSUME NEW i \in Classes
    PROVE  /\ SpanSize \div ClassSize(i) \in Nat
           /\ (SpanSize \div ClassSize(i)) * ClassSize(i) <= SpanSize
           /\ ClassSize(i) <= SpanSize <=> SpanSize \div ClassSize(i) >= 1
           /\ BatchNum[i] \in Nat \ {0}
           /\ BatchNum[i] > 1 => BatchNum[i] <= SpanSize \div ClassSize(i)
<1> DEFINE size == ClassSize(i)
<1> DEFINE total == SpanSize \div size
<1>1. size \in Nat \ {0} /\ SpanSize \in Nat
  BY ClassSizes, Spans
<1>2. /\ total \in Nat
      /\ SpanSize % size \in 0 .. size - 1
      /\ SpanSize = total * size + (SpanSize % size)
  BY <1>1, DivMod
<1>3. BatchNum[i] \in Nat \ {0} /\ (BatchNum[i] > 1 => BatchNum[i] * size <= SpanSize)
  BY BatchAssumption
<1> HIDE DEF size, total
<1>4. total * size \in Nat /\ total * size <= SpanSize
  BY <1>1, <1>2
<1>5. ASSUME NEW b \in Nat, b > total PROVE SpanSize < b * size
  <2>1. total * size + size <= b * size /\ b * size \in Nat
    BY <1>1, <1>2, <1>5, TimesOrder
  <2> QED
    BY <1>1, <1>2, <1>4, <2>1
<1>6. total >= 1 => size <= SpanSize
  <2>1. SUFFICES ASSUME total >= 1 PROVE size <= SpanSize
    OBVIOUS
  <2>2. 0 * size + size <= total * size
    BY <1>1, <1>2, <2>1, TimesOrder
  <2> QED
    BY <1>1, <1>4, <2>2
<1>7. size <= SpanSize => total >= 1
  <2>1. SUFFICES ASSUME ~ (total >= 1) PROVE SpanSize < size
    BY <1>1
  <2>2. 1 > total
    BY <1>2, <2>1
  <2> QED
    BY <1>1, <1>5, <2>2
<1>8. BatchNum[i] > 1 => BatchNum[i] <= total
  BY <1>1, <1>2, <1>3, <1>5
<1> QED
  BY <1>2, <1>3, <1>4, <1>6, <1>7, <1>8 DEF size, total

----------------------------------------------------------------------------
(* Lists.                                                                  *)

LEMMA SmallestNumber ==
    ASSUME NEW T \in SUBSET Nat, T # {}
    PROVE  \E x \in T : \A y \in T : x <= y
<1>1. \A x, y \in Nat : y < x => <<y, x>> \in OpToRel(<, Nat)
  BY DEF OpToRel
<1>2. \E R : IsWellFoundedOn(R, Nat) /\ \A x, y \in Nat : y < x => <<y, x>> \in R
  BY <1>1, NatLessThanWellFounded
<1>3. PICK R : IsWellFoundedOn(R, Nat) /\ \A x, y \in Nat : y < x => <<y, x>> \in R
  BY <1>2
<1>4. \E x \in T : \A y \in T : ~ (<<y, x>> \in R)
  BY <1>3, WFMin
<1>5. \A x, y \in Nat : ~ (y < x) => x <= y
  OBVIOUS
<1> QED
  BY <1>3, <1>4, <1>5

\* Induction over the numbers, for a set of them.
LEMMA SetInduction ==
    ASSUME NEW S, 0 \in S, \A n \in Nat : n \in S => n + 1 \in S
    PROVE  Nat \subseteq S
<1> SUFFICES ASSUME Nat \ S # {} PROVE FALSE
  OBVIOUS
<1>1. PICK x \in Nat \ S : \A y \in Nat \ S : x <= y
  BY SmallestNumber
<1>2. x # 0 /\ x - 1 \in Nat /\ x - 1 \in S
  BY <1>1
<1> QED
  BY <1>1, <1>2

LEMMA CellsAre ==
    /\ Cells \subseteq Nat
    /\ \A a : a \in Cells <=> Aligned(a) /\ a < Memory
    /\ nullptr \notin Cells /\ junk \notin Cells /\ nullptr # junk
    /\ IsFiniteSet(Cells)
    /\ Cardinality(Cells) \in Nat
    /\ Cardinality(Cells) <= Memory
<1>1. Cells \subseteq Nat /\ \A a : a \in Cells <=> Aligned(a) /\ a < Memory
  BY MemoryAssumption DEF Cells, Aligned
<1>2. nullptr \notin Cells /\ junk \notin Cells /\ nullptr # junk
  BY <1>1 DEF nullptr, junk
<1>3. IsFiniteSet(0 .. Memory - 1) /\ Cardinality(0 .. Memory - 1) = Memory
  BY MemoryAssumption, FS_Interval
<1>4. Cells \in SUBSET (0 .. Memory - 1)
  BY DEF Cells
<1>5. IsFiniteSet(Cells) /\ Cardinality(Cells) <= Memory
  BY <1>3, <1>4, FS_Subset
<1> QED
  BY <1>1, <1>2, <1>5, FS_CardinalityType

LEMMA LengthBound ==
    ASSUME NEW s \in Seq(Cells), Distinct(s)
    PROVE  Len(s) \in Nat /\ Len(s) <= Cardinality(Cells)
<1>1. Len(s) \in Nat /\ s \in [1 .. Len(s) -> Cells]
  BY LenProperties
<1>2. IsFiniteSet(1 .. Len(s)) /\ Cardinality(1 .. Len(s)) = Len(s)
  BY <1>1, FS_Interval
<1>3. ~ (Cardinality(Cells) < Len(s))
  <2>1. SUFFICES ASSUME Cardinality(Cells) < Len(s) PROVE FALSE
    OBVIOUS
  <2>2. \E x, y \in 1 .. Len(s) : x # y /\ s[x] = s[y]
    BY <1>1, <1>2, <2>1, CellsAre, FS_PigeonHole
  <2> QED
    BY <2>2 DEF Distinct
<1> QED
  BY <1>1, <1>3, CellsAre

LEMMA Prefixes ==
    ASSUME NEW S, NEW s \in Seq(S), NEW n \in 0 .. Len(s)
    PROVE  /\ SubSeq(s, 1, n) \in Seq(S)
           /\ Len(SubSeq(s, 1, n)) = n
           /\ \A k \in 1 .. n : SubSeq(s, 1, n)[k] = s[k]
           /\ n = 0 => SubSeq(s, 1, n) = <<>>
           /\ n < Len(s) => SubSeq(s, 1, n + 1) = Append(SubSeq(s, 1, n), s[n + 1])
<1>1. Len(s) \in Nat /\ \A k \in 1 .. Len(s) : s[k] \in S
  BY LenProperties, ElementOfSeq
<1>2. ASSUME NEW m \in 0 .. Len(s)
      PROVE  /\ SubSeq(s, 1, m) \in Seq(S)
             /\ Len(SubSeq(s, 1, m)) = m
             /\ \A k \in 1 .. m : SubSeq(s, 1, m)[k] = s[k]
  <2>1. \A k \in 1 .. m : s[k] \in S
    BY <1>1
  <2>2. /\ SubSeq(s, 1, m) \in Seq(S)
        /\ Len(SubSeq(s, 1, m)) = IF 1 <= m THEN m - 1 + 1 ELSE 0
        /\ \A k \in 1 .. m - 1 + 1 : SubSeq(s, 1, m)[k] = s[1 + k - 1]
    BY <1>1, <2>1, SubSeqProperties
  <2> QED
    BY <1>1, <2>2
<1>3. n = 0 => SubSeq(s, 1, n) = <<>>
  BY <1>1, SubSeqEmpty
<1>4. ASSUME n < Len(s) PROVE SubSeq(s, 1, n + 1) = Append(SubSeq(s, 1, n), s[n + 1])
  <2> DEFINE p == SubSeq(s, 1, n)
  <2> DEFINE q == SubSeq(s, 1, n + 1)
  <2>1. n \in Nat /\ n + 1 \in 0 .. Len(s) /\ s[n + 1] \in S
    BY <1>1, <1>4
  <2>2. p \in Seq(S) /\ Len(p) = n /\ \A k \in 1 .. n : p[k] = s[k]
    BY <1>2
  <2>3. q \in Seq(S) /\ Len(q) = n + 1 /\ \A k \in 1 .. n + 1 : q[k] = s[k]
    BY <1>2, <2>1
  <2> HIDE DEF p, q
  <2>4. /\ Append(p, s[n + 1]) \in Seq(S)
        /\ Len(Append(p, s[n + 1])) = n + 1
        /\ \A k \in 1 .. n : Append(p, s[n + 1])[k] = s[k]
        /\ Append(p, s[n + 1])[n + 1] = s[n + 1]
    BY <2>1, <2>2, AppendProperties
  <2>5. \A k \in 1 .. n + 1 : q[k] = Append(p, s[n + 1])[k]
    <3>1. \A k \in 1 .. n + 1 : k = n + 1 \/ k \in 1 .. n
      OBVIOUS
    <3> QED
      BY <2>3, <2>4, <3>1
  <2> QED
    BY <2>3, <2>4, <2>5, SeqEqual DEF p, q
<1> QED
  BY <1>2, <1>3, <1>4

\* The blocks that List finds from the head of a list are the list.
LEMMA ListOf ==
    ASSUME NEW mem, NEW s \in Seq(Cells), Distinct(s), Linked(mem, s)
    PROVE  List(mem, First(s)) = s
<1> DEFINE N == Cardinality(Cells) + 1
<1> DEFINE At(before) == IF before = <<>> THEN First(s) ELSE mem[before[Len(before)]]
<1> DEFINE Longer(before) ==
             IF At(before) \in Cells THEN Append(before, At(before)) ELSE before
<1> DEFINE Pre == [n \in 0 .. N |-> SubSeq(s, 1, Least(n, Len(s)))]
<1> DEFINE Walk(p) == [n \in 0 .. N |-> IF n = 0 THEN <<>> ELSE Longer(p[n - 1])]
<1> DEFINE path == CHOOSE p : p = Walk(p)
<1>1. Len(s) \in Nat /\ Len(s) <= Cardinality(Cells) /\ N \in Nat
  BY LengthBound, CellsAre
<1>2. List(mem, First(s)) = path[N]
  BY DEF List
<1>3. ASSUME NEW n \in 0 .. N, n # 0
      PROVE  Pre[n] = Longer(Pre[n - 1])
  <2>0. n \in Nat /\ n - 1 \in Nat /\ n - 1 \in 0 .. N
    BY <1>1, <1>3
  <2>1. CASE n <= Len(s)
    <3>1. n - 1 \in 0 .. Len(s) /\ n - 1 < Len(s) /\ (n - 1) + 1 = n
      BY <1>1, <2>0, <2>1
    <3>2. Pre[n] = SubSeq(s, 1, n) /\ Pre[n - 1] = SubSeq(s, 1, n - 1)
      BY <1>1, <2>0, <2>1 DEF Least
    <3> DEFINE b == SubSeq(s, 1, n - 1)
    <3>3. /\ Len(b) = n - 1
          /\ \A k \in 1 .. n - 1 : b[k] = s[k]
          /\ n - 1 = 0 => b = <<>>
          /\ SubSeq(s, 1, n) = Append(b, s[n])
          /\ b \in Seq(Cells)
      BY <3>1, Prefixes
    <3>4. s[n] \in Cells
      BY <1>1, <2>0, <2>1, <1>3, ElementOfSeq
    <3> HIDE DEF b
    <3>5. At(b) = s[n]
      <4>1. CASE n = 1
        <5>1. s # <<>>
          BY <1>1, <2>1, <4>1, EmptySeq
        <5> QED
          BY <3>3, <4>1, <5>1 DEF First
      <4>2. CASE n # 1
        <5>1. b # <<>>
          BY <2>0, <1>3, <3>3, <4>2, EmptySeq
        <5>2. n - 1 \in 1 .. Len(s) /\ n - 1 \in 1 .. n - 1 /\ (n - 1) + 1 = n
          BY <1>1, <1>3, <2>0, <2>1, <4>2
        <5>3. b[Len(b)] = s[n - 1]
          BY <3>3, <5>2
        <5>4. mem[s[n - 1]] = s[n]
          BY <3>1, <5>2 DEF Linked
        <5> QED
          BY <5>1, <5>3, <5>4
      <4> QED
        BY <4>1, <4>2
    <3> QED
      BY <3>2, <3>3, <3>4, <3>5 DEF b
  <2>2. CASE ~ (n <= Len(s))
    <3>1. Pre[n] = s /\ Pre[n - 1] = s
      <4>1. Least(n, Len(s)) = Len(s) /\ Least(n - 1, Len(s)) = Len(s)
        BY <1>1, <2>0, <2>2 DEF Least
      <4> QED
        BY <2>0, <4>1, SubSeqFull
    <3>2. At(s) = nullptr
      <4>1. CASE s = <<>>
        BY <4>1 DEF First
      <4>2. CASE s # <<>>
        <5>1. Len(s) \in 1 .. Len(s)
          BY <1>1, <4>2, EmptySeq
        <5>2. mem[s[Len(s)]] = nullptr
          BY <1>1, <5>1 DEF Linked
        <5> QED
          BY <4>2, <5>2
      <4> QED
        BY <4>1, <4>2
    <3> QED
      BY <3>1, <3>2, CellsAre
  <2> QED
    BY <2>1, <2>2
<1>4. Pre[0] = <<>>
  <2>1. Least(0, Len(s)) = 0 /\ 0 \in 0 .. N /\ 0 \in 0 .. Len(s)
    BY <1>1 DEF Least
  <2> QED
    BY <2>1, Prefixes
<1> HIDE DEF At
<1>5. Pre = Walk(Pre)
  BY <1>3, <1>4
<1>6. path = Walk(path)
  <2> HIDE DEF Walk
  <2> QED
    BY <1>5
<1> HIDE DEF Pre, path, Longer
<1> DEFINE S == {n \in Nat : n \in 0 .. N => path[n] = Pre[n]}
<1>7. Nat \subseteq S
  <2>1. 0 \in S
    <3>1. 0 \in 0 .. N
      BY <1>1
    <3> QED
      BY <1>4, <1>6, <3>1
  <2>2. ASSUME NEW n \in Nat, n \in S PROVE n + 1 \in S
    <3>1. SUFFICES ASSUME n + 1 \in 0 .. N PROVE path[n + 1] = Pre[n + 1]
      BY <2>2
    <3>2. n \in 0 .. N /\ (n + 1) - 1 = n /\ n + 1 # 0
      BY <1>1, <2>2, <3>1
    <3>3. path[n] = Pre[n]
      BY <2>2, <3>2
    <3>4. path[n + 1] = Longer(path[n])
      BY <1>6, <3>1, <3>2
    <3>5. Pre[n + 1] = Longer(Pre[n])
      BY <1>3, <3>1, <3>2
    <3> QED
      BY <3>3, <3>4, <3>5
  <2> QED
    BY <2>1, <2>2, SetInduction
<1>8. path[N] = Pre[N]
  <2>1. N \in 0 .. N
    BY <1>1
  <2> QED
    BY <1>1, <1>7, <2>1
<1>9. Pre[N] = s
  <2>1. Least(N, Len(s)) = Len(s) /\ N \in 0 .. N
    BY <1>1, CellsAre DEF Least
  <2> QED
    BY <2>1, SubSeqFull DEF Pre
<1> QED
  BY <1>2, <1>8, <1>9

LEMMA FirstOf ==
    ASSUME NEW s \in Seq(Cells)
    PROVE  /\ s = <<>> <=> First(s) = nullptr
           /\ s = <<>> <=> Len(s) = 0
           /\ Len(s) \in Nat
           /\ s # <<>> => First(s) = s[1] /\ s[1] \in Cells /\ s[1] \in BlocksOf(s)
           /\ First(s) \in Cells \union {nullptr}
<1>1. Len(s) \in Nat /\ (s = <<>> <=> Len(s) = 0)
  BY EmptySeq, LenProperties
<1>2. ASSUME s # <<>> PROVE s[1] \in Cells /\ s[1] \in BlocksOf(s)
  <2>1. 1 \in 1 .. Len(s)
    BY <1>1, <1>2
  <2> QED
    BY <2>1, ElementOfSeq DEF BlocksOf
<1> QED
  BY <1>1, <1>2, CellsAre DEF First

LEMMA BlocksAreCells ==
    ASSUME NEW s \in Seq(Cells)
    PROVE  /\ BlocksOf(s) \subseteq Cells
           /\ Len(s) \in Nat
           /\ \A k \in 1 .. Len(s) : s[k] \in Cells /\ s[k] \in BlocksOf(s)
<1>1. Len(s) \in Nat /\ \A k \in 1 .. Len(s) : s[k] \in Cells
  BY LenProperties, ElementOfSeq
<1> QED
  BY <1>1 DEF BlocksOf

LEMMA LinksFrame ==
    ASSUME NEW mem, NEW mem2, NEW s \in Seq(Cells), Linked(mem, s),
           \A a \in BlocksOf(s) : mem2[a] = mem[a]
    PROVE  Linked(mem2, s)
BY BlocksAreCells DEF Linked

IsSlice(t, s, m, n) ==
    /\ t \in Seq(Cells)
    /\ Distinct(t)
    /\ Len(t) = n - m + 1
    /\ \A k \in 1 .. Len(t) : m + k - 1 \in m .. n /\ t[k] = s[m + k - 1]
    /\ BlocksOf(t) = {s[k] : k \in m .. n}
    /\ First(t) = IF m <= n THEN s[m] ELSE nullptr

\* A part of a list is a list when its last block points nowhere.
LEMMA Slice ==
    ASSUME NEW s \in Seq(Cells), Distinct(s),
           NEW m \in 1 .. Len(s) + 1, NEW n \in 0 .. Len(s), m <= n + 1,
           NEW t, t = SubSeq(s, m, n)
    PROVE  IsSlice(t, s, m, n)
<1>1. Len(s) \in Nat /\ \A k \in 1 .. Len(s) : s[k] \in Cells
  BY BlocksAreCells
<1>2. m \in Nat \ {0} /\ n \in Nat /\ \A k \in m .. n : s[k] \in Cells
  BY <1>1
<1>3. /\ t \in Seq(Cells)
      /\ Len(t) = IF m <= n THEN n - m + 1 ELSE 0
      /\ \A k \in 1 .. n - m + 1 : t[k] = s[m + k - 1]
  BY <1>2, SubSeqProperties
<1>4. Len(t) = n - m + 1 /\ Len(t) \in Nat
  BY <1>2, <1>3
<1>5. \A k \in 1 .. Len(t) : m + k - 1 \in m .. n /\ t[k] = s[m + k - 1]
  BY <1>2, <1>3, <1>4
<1>6. Distinct(t)
  <2>1. SUFFICES ASSUME NEW j \in 1 .. Len(t), NEW k \in 1 .. Len(t), t[j] = t[k]
                 PROVE  j = k
    BY DEF Distinct
  <2>2. s[m + j - 1] = s[m + k - 1]
    BY <1>5, <2>1
  <2>3. m + j - 1 \in 1 .. Len(s) /\ m + k - 1 \in 1 .. Len(s)
    BY <1>1, <1>2, <1>4
  <2>4. m + j - 1 = m + k - 1
    BY <2>2, <2>3 DEF Distinct
  <2> QED
    BY <1>2, <1>4, <2>4
<1>7. BlocksOf(t) = {s[k] : k \in m .. n}
  <2>1. \A k \in m .. n : k - m + 1 \in 1 .. Len(t) /\ m + (k - m + 1) - 1 = k
    BY <1>2, <1>4
  <2>2. ASSUME NEW k \in 1 .. Len(t) PROVE t[k] \in {s[j] : j \in m .. n}
    BY <1>5
  <2>3. ASSUME NEW k \in m .. n PROVE s[k] \in {t[j] : j \in 1 .. Len(t)}
    <3>1. t[k - m + 1] = s[m + (k - m + 1) - 1]
      BY <1>5, <2>1
    <3>2. t[k - m + 1] = s[k]
      BY <2>1, <3>1
    <3> QED
      BY <2>1, <3>2
  <2> QED
    BY <2>2, <2>3 DEF BlocksOf
<1>8. First(t) = IF m <= n THEN s[m] ELSE nullptr
  <2>1. m <= n <=> t # <<>>
    BY <1>2, <1>3, <1>4, FirstOf
  <2>2. m <= n => t[1] = s[m]
    BY <1>2, <1>3
  <2> QED
    BY <2>1, <2>2 DEF First
<1> QED
  BY <1>3, <1>4, <1>5, <1>6, <1>7, <1>8 DEF IsSlice

LEMMA SliceChained ==
    ASSUME NEW mem, NEW s \in Seq(Cells), Distinct(s),
           NEW m \in 1 .. Len(s) + 1, NEW n \in 0 .. Len(s), m <= n + 1,
           \A k \in m .. n : k < n => mem[s[k]] = s[k + 1],
           m <= n => mem[s[n]] = nullptr
    PROVE  Linked(mem, SubSeq(s, m, n))
<1> DEFINE t == SubSeq(s, m, n)
<1>1. /\ Len(t) = n - m + 1
      /\ \A k \in 1 .. Len(t) : m + k - 1 \in m .. n /\ t[k] = s[m + k - 1]
  <2>1. IsSlice(t, s, m, n)
    BY Slice
  <2> QED
    BY <2>1 DEF IsSlice
<1>2. Len(s) \in Nat /\ m \in Nat \ {0} /\ n \in Nat
  BY BlocksAreCells
<1> HIDE DEF t
<1>3. SUFFICES ASSUME NEW k \in 1 .. Len(t)
               PROVE  mem[t[k]] = IF k < Len(t) THEN t[k + 1] ELSE nullptr
  BY DEF Linked, t
<1>0. PICK w \in Int : w = Len(t) /\ w = n - m + 1 /\ k \in 1 .. w
  BY <1>1, <1>2
<1>4. k \in Nat \ {0} /\ m + k - 1 \in m .. n /\ t[k] = s[m + k - 1] /\ m + k - 1 \in 1 .. Len(s)
  BY <1>1, <1>2
<1>5. CASE k < Len(t)
  <2>1. k + 1 \in 1 .. Len(t) /\ m + (k + 1) - 1 = (m + k - 1) + 1
    BY ONLY <1>0, <1>2, <1>4, <1>5
  <2>2. t[k + 1] = s[(m + k - 1) + 1]
    <3>1. t[k + 1] = s[m + (k + 1) - 1]
      BY <1>1, <2>1
    <3> QED
      BY <2>1, <3>1
  <2>3. m + k - 1 < n /\ m + k - 1 < Len(s)
    BY ONLY <1>0, <1>2, <1>4, <1>5
  <2>4. mem[s[m + k - 1]] = s[(m + k - 1) + 1]
    BY <1>4, <2>3
  <2> QED
    BY <1>4, <1>5, <2>2, <2>3, <2>4
<1>6. CASE ~ (k < Len(t))
  <2>1. m + k - 1 = n /\ m <= n
    BY ONLY <1>0, <1>2, <1>4, <1>6
  <2> QED
    BY <1>4, <1>6, <2>1
<1> QED
  BY <1>5, <1>6

LEMMA SliceLinked ==
    ASSUME NEW mem, NEW mem2, NEW s \in Seq(Cells), Distinct(s), Linked(mem, s),
           NEW m \in 1 .. Len(s) + 1, NEW n \in 0 .. Len(s), m <= n + 1,
           \A k \in m .. n : k < n => mem2[s[k]] = mem[s[k]],
           m <= n => mem2[s[n]] = nullptr
    PROVE  Linked(mem2, SubSeq(s, m, n))
<1>1. Len(s) \in Nat
  BY BlocksAreCells
<1>2. \A k \in m .. n : k < n => k \in 1 .. Len(s) /\ k < Len(s)
  BY <1>1
<1>3. \A k \in m .. n : k < n => mem2[s[k]] = s[k + 1]
  BY <1>2 DEF Linked
<1> QED
  BY <1>3, SliceChained

\* Where the block after the m-th is found.
LEMMA Following ==
    ASSUME NEW mem, NEW s \in Seq(Cells), Distinct(s), Linked(mem, s), NEW m \in 1 .. Len(s)
    PROVE  First(SubSeq(s, m + 1, Len(s))) = mem[s[m]]
<1>1. Len(s) \in Nat /\ m + 1 \in 1 .. Len(s) + 1 /\ Len(s) \in 0 .. Len(s) /\ m + 1 <= Len(s) + 1
  BY BlocksAreCells
<1>2. First(SubSeq(s, m + 1, Len(s))) = IF m + 1 <= Len(s) THEN s[m + 1] ELSE nullptr
  <2>1. IsSlice(SubSeq(s, m + 1, Len(s)), s, m + 1, Len(s))
    BY <1>1, Slice
  <2> QED
    BY <2>1 DEF IsSlice
<1> QED
  BY <1>1, <1>2 DEF Linked

IsJoined(mem, t, c, r) ==
    /\ r \in Seq(Cells)
    /\ Distinct(r)
    /\ Linked(mem, r)
    /\ BlocksOf(r) = BlocksOf(t) \union BlocksOf(c)
    /\ First(r) = t[1]
    /\ Len(r) = Len(t) + Len(c)

\* A list that is put before another.
LEMMA Join ==
    ASSUME NEW mem, NEW t \in Seq(Cells), NEW c \in Seq(Cells), t # <<>>,
           Distinct(t), Distinct(c), BlocksOf(t) \cap BlocksOf(c) = {},
           \A k \in 1 .. Len(t) : k < Len(t) => mem[t[k]] = t[k + 1],
           mem[t[Len(t)]] = First(c),
           Linked(mem, c),
           NEW r, r = t \o c
    PROVE  IsJoined(mem, t, c, r)
<1> DEFINE j == t \o c
<1>1. /\ j \in Seq(Cells)
      /\ Len(j) = Len(t) + Len(c)
      /\ \A k \in 1 .. Len(t) + Len(c) : j[k] = IF k <= Len(t) THEN t[k] ELSE c[k - Len(t)]
  BY ConcatProperties
<1>2. Len(t) \in Nat \ {0} /\ Len(c) \in Nat
  BY FirstOf
<1> HIDE DEF j
<1>3. \A k \in 1 .. Len(t) : k \in 1 .. Len(j) /\ j[k] = t[k]
  BY <1>1, <1>2
<1>4. \A k \in 1 .. Len(c) : Len(t) + k \in 1 .. Len(j) /\ j[Len(t) + k] = c[k]
  <2>1. TAKE k \in 1 .. Len(c)
  <2>2. Len(t) + k \in 1 .. Len(t) + Len(c) /\ ~ (Len(t) + k <= Len(t)) /\ (Len(t) + k) - Len(t) = k
    BY <1>2
  <2> QED
    BY <1>1, <2>2
<1>5. ASSUME NEW k \in 1 .. Len(j)
      PROVE  \/ k \in 1 .. Len(t) /\ j[k] = t[k] /\ j[k] \in BlocksOf(t)
             \/ /\ k - Len(t) \in 1 .. Len(c)
                /\ j[k] = c[k - Len(t)] /\ j[k] \in BlocksOf(c)
                /\ k = Len(t) + (k - Len(t))
  <2>1. CASE k <= Len(t)
    BY <1>1, <1>2, <1>3, <2>1 DEF BlocksOf
  <2>2. CASE ~ (k <= Len(t))
    <3>1. k - Len(t) \in 1 .. Len(c) /\ k = Len(t) + (k - Len(t))
      BY <1>1, <1>2, <2>2
    <3> QED
      BY <1>4, <3>1 DEF BlocksOf
  <2> QED
    BY <2>1, <2>2
<1>6. BlocksOf(j) = BlocksOf(t) \union BlocksOf(c)
  <2>1. BlocksOf(j) \subseteq BlocksOf(t) \union BlocksOf(c)
    <3>1. SUFFICES ASSUME NEW k \in 1 .. Len(j) PROVE j[k] \in BlocksOf(t) \union BlocksOf(c)
      BY DEF BlocksOf
    <3> QED
      BY <1>5
  <2>2. BlocksOf(t) \subseteq BlocksOf(j)
    BY <1>3 DEF BlocksOf
  <2>3. BlocksOf(c) \subseteq BlocksOf(j)
    BY <1>4 DEF BlocksOf
  <2> QED
    BY <2>1, <2>2, <2>3
<1>7. Distinct(j)
  <2>1. SUFFICES ASSUME NEW k \in 1 .. Len(j), NEW n \in 1 .. Len(j), j[k] = j[n] PROVE k = n
    BY DEF Distinct
  <2>2. CASE k \in 1 .. Len(t) /\ j[k] = t[k] /\ j[k] \in BlocksOf(t)
    <3>1. n \in 1 .. Len(t) /\ j[n] = t[n]
      BY <1>5, <2>1, <2>2
    <3> QED
      BY <2>1, <2>2, <3>1 DEF Distinct
  <2>3. CASE /\ k - Len(t) \in 1 .. Len(c)
             /\ j[k] = c[k - Len(t)] /\ j[k] \in BlocksOf(c)
             /\ k = Len(t) + (k - Len(t))
    <3>1. n - Len(t) \in 1 .. Len(c) /\ j[n] = c[n - Len(t)] /\ n = Len(t) + (n - Len(t))
      BY <1>5, <2>1, <2>3
    <3>2. k - Len(t) = n - Len(t)
      BY <2>1, <2>3, <3>1 DEF Distinct
    <3> QED
      BY <2>3, <3>1, <3>2
  <2> QED
    BY <1>5, <2>2, <2>3
<1>8. First(j) = t[1]
  <2>1. 1 \in 1 .. Len(t) /\ Len(j) # 0
    BY <1>1, <1>2
  <2> QED
    BY <1>1, <1>3, <2>1, FirstOf DEF First
<1>9. Linked(mem, j)
  <2>1. SUFFICES ASSUME NEW k \in 1 .. Len(j)
                 PROVE  mem[j[k]] = IF k < Len(j) THEN j[k + 1] ELSE nullptr
    BY DEF Linked
  <2>2. CASE k \in 1 .. Len(t) /\ k < Len(t)
    <3>1. k + 1 \in 1 .. Len(t) /\ k < Len(j)
      BY <1>1, <1>2, <2>2
    <3> QED
      BY <1>3, <2>2, <3>1
  <2>3. CASE k = Len(t)
    <3>1. mem[j[k]] = First(c)
      BY <1>2, <1>3, <2>3
    <3>2. CASE Len(c) = 0
      <4>1. First(c) = nullptr
        BY <3>2, FirstOf
      <4>2. ~ (k < Len(j))
        BY <1>1, <1>2, <2>3, <3>2
      <4> QED
        BY <3>1, <4>1, <4>2
    <3>3. CASE Len(c) # 0
      <4>1. 1 \in 1 .. Len(c) /\ k < Len(j) /\ First(c) = c[1]
        BY <1>1, <1>2, <2>3, <3>3, FirstOf
      <4> QED
        BY <1>4, <2>3, <3>1, <4>1
    <3> QED
      BY <3>2, <3>3
  <2>4. CASE k - Len(t) \in 1 .. Len(c) /\ k = Len(t) + (k - Len(t))
    <3> DEFINE n == k - Len(t)
    <3>1. mem[j[k]] = IF n < Len(c) THEN c[n + 1] ELSE nullptr
      <4>1. j[Len(t) + n] = c[n]
        BY <1>4, <2>4
      <4>2. mem[c[n]] = IF n < Len(c) THEN c[n + 1] ELSE nullptr
        BY <2>4 DEF Linked
      <4> QED
        BY <2>4, <4>1, <4>2
    <3>2. n < Len(c) <=> k < Len(j)
      BY <1>1, <1>2, <2>4
    <3>3. n < Len(c) => n + 1 \in 1 .. Len(c) /\ k + 1 = Len(t) + (n + 1)
      BY <1>2, <2>4
    <3> QED
      BY <1>4, <3>1, <3>2, <3>3
  <2>5. k \in 1 .. Len(t) => k < Len(t) \/ k = Len(t)
    BY <1>2
  <2> QED
    BY <1>5, <2>2, <2>3, <2>4, <2>5
<1> QED
  BY <1>1, <1>6, <1>7, <1>8, <1>9 DEF j, IsJoined

----------------------------------------------------------------------------
(* Who owns a block.                                                       *)

LEMMA ListNames ==
    /\ Shared \notin Threads
    /\ \A l \in Lists : l[2] \in Classes
    /\ \A i \in Classes : <<Shared, i>> \in Lists /\ <<Shared, i>>[2] = i
    /\ \A t \in Threads, i \in Classes :
          <<t, i>> \in Lists /\ <<t, i>>[2] = i /\ <<t, i>> # <<Shared, i>>
    /\ \A l \in Lists : \/ \E i \in Classes : l = <<Shared, i>>
                        \/ \E t \in Threads, i \in Classes : l = <<t, i>>
<1>1. Shared \notin Threads
  BY NoSetContainsEverything DEF Shared
<1> HIDE DEF Shared
<1> QED
  BY <1>1 DEF Lists

\* The numbers in a claim.
LEMMA ClaimSizes ==
    ASSUME NEW L, NEW U, Owned(L, U), NEW a, NEW n, Claimed(L, U, a, n)
    PROVE  a \in Cells /\ a \in Nat /\ n \in Nat \ {0}
<1>1. ASSUME NEW l \in Lists, a \in BlocksOf(L[l]), n = ClassSize(l[2])
      PROVE  a \in Cells /\ n \in Nat \ {0}
  <2>1. L[l] \in Seq(Cells) /\ l[2] \in Classes
    BY ListNames DEF Owned
  <2> QED
    BY <1>1, <2>1, BlocksAreCells, ClassSizes
<1>2. ASSUME NEW u \in U, a = u.at, n = Room(u.capacity)
      PROVE  a \in Cells /\ n \in Nat \ {0}
  <2>1. u.at \in Cells /\ u.capacity \in Nat
    BY SizesAssumption DEF Owned, Block
  <2> QED
    BY <1>2, <2>1, Rooms
<1> QED
  BY <1>1, <1>2, CellsAre DEF Claimed

LEMMA ListClaims ==
    ASSUME NEW L, NEW U, NEW l \in Lists, NEW a \in BlocksOf(L[l])
    PROVE  Claimed(L, U, a, ClassSize(l[2]))
BY DEF Claimed

\* A claim that lies within an earlier one disturbs nobody.
LEMMA ShrinkApart ==
    ASSUME NEW L, NEW U, NEW b \in Nat, Owned(L, U), Apart(L, U, b),
           NEW L2, NEW U2,
           \A a \in Cells, n \in Nat : Claimed(L2, U2, a, n) =>
               \E m \in Nat : n <= m /\ Claimed(L, U, a, m)
    PROVE  Apart(L2, U2, b)
<1>1. SUFFICES ASSUME NEW a \in Cells, NEW x \in Cells, NEW n \in Nat, NEW m \in Nat,
                      Claimed(L2, U2, a, n), Claimed(L2, U2, x, m)
               PROVE  a + n <= b /\ (a < x => a + n <= x)
  BY DEF Apart
<1>2. PICK n0 \in Nat : n <= n0 /\ Claimed(L, U, a, n0)
  BY <1>1
<1>3. PICK m0 \in Nat : m <= m0 /\ Claimed(L, U, x, m0)
  BY <1>1
<1>4. a + n0 <= b /\ (a < x => a + n0 <= x)
  BY <1>2, <1>3 DEF Apart
<1>5. a \in Nat /\ x \in Nat
  BY CellsAre
<1> QED
  BY <1>2, <1>4, <1>5

\* A block of the lists T is handed to a user; the others stay in these lists.
LEMMA Handing ==
    ASSUME NEW L, NEW U, NEW b \in Nat, Owned(L, U), Apart(L, U, b),
           NEW i \in Classes, NEW T, NEW L2, Changes(L, L2, T, i),
           NEW v \in Block, GivesUp(L, L2, T, v.at),
           Room(v.capacity) = ClassSize(i)
    PROVE  Owned(L2, U \union {v}) /\ Apart(L2, U \union {v}, b)
<1>u. /\ T \in SUBSET Lists
      /\ \A l \in T : l[2] = i
      /\ L2 \in [Lists -> Seq(Cells)]
      /\ \A l \in Lists \ T : L2[l] = L[l]
      /\ \A l \in T : Distinct(L2[l])
      /\ \A l, m \in T : \A a \in BlocksOf(L2[l]) : a \in BlocksOf(L2[m]) => l = m
  BY DEF Changes
<1>g. /\ \A l \in T : \A a \in BlocksOf(L2[l]) : \E m \in T : a \in BlocksOf(L[m])
      /\ \E m \in T : v.at \in BlocksOf(L[m])
      /\ \A l \in T : v.at \notin BlocksOf(L2[l])
  BY DEF GivesUp
<1> USE <1>u, <1>g
<1> DEFINE U2 == U \union {v}
<1>1. ASSUME NEW l \in Lists, NEW a \in BlocksOf(L2[l])
      PROVE  \E m \in Lists : a \in BlocksOf(L[m]) /\ m[2] = l[2]
                              /\ (l \in T <=> m \in T) /\ (l \notin T => m = l)
  BY <1>1
<1>2. \A l, m \in Lists : \A a \in BlocksOf(L2[l]) : a \in BlocksOf(L2[m]) => l = m
  <2>1. SUFFICES ASSUME NEW l \in Lists, NEW m \in Lists, NEW a \in BlocksOf(L2[l]),
                        a \in BlocksOf(L2[m])
                 PROVE  l = m
    OBVIOUS
  <2>2. l \in T <=> m \in T
    BY <1>1, <2>1 DEF Owned
  <2>3. CASE l \in T
    BY <2>1, <2>2, <2>3
  <2>4. CASE l \notin T
    BY <2>1, <2>2, <2>4 DEF Owned
  <2> QED
    BY <2>3, <2>4
<1>3. \A l \in Lists : Distinct(L2[l])
  BY DEF Owned
<1>4. \A l \in Lists : \A u \in U2 : u.at \notin BlocksOf(L2[l])
  <2>1. \A l \in Lists : \A u \in U : u.at \notin BlocksOf(L2[l])
    BY <1>1 DEF Owned
  <2>2. \A l \in Lists : v.at \notin BlocksOf(L2[l])
    BY <1>1 DEF Owned
  <2> QED
    BY <2>1, <2>2
<1>5. \A u, w \in U2 : u.at = w.at => u = w
  BY DEF Owned
<1>6. Owned(L2, U2)
  BY <1>2, <1>3, <1>4, <1>5 DEF Owned
<1>7. ASSUME NEW a \in Cells, NEW n \in Nat, Claimed(L2, U2, a, n) PROVE Claimed(L, U, a, n)
  <2>1. ASSUME NEW l \in Lists, a \in BlocksOf(L2[l]), n = ClassSize(l[2])
        PROVE  Claimed(L, U, a, n)
    BY <1>1, <2>1 DEF Claimed
  <2>2. ASSUME NEW u \in U, a = u.at, n = Room(u.capacity) PROVE Claimed(L, U, a, n)
    BY <2>2 DEF Claimed
  <2>3. ASSUME a = v.at, n = Room(v.capacity) PROVE Claimed(L, U, a, n)
    BY <2>3 DEF Claimed
  <2> QED
    BY <1>7, <2>1, <2>2, <2>3 DEF Claimed
<1>8. Apart(L2, U2, b)
  <2>1. \A a \in Cells, n \in Nat : Claimed(L2, U2, a, n) =>
            \E m \in Nat : n <= m /\ Claimed(L, U, a, m)
    BY <1>7
  <2> QED
    BY <2>1, ShrinkApart
<1> QED
  BY <1>6, <1>8

\* A user gives its block back to the lists T, as one of class i.
LEMMA Giving ==
    ASSUME NEW L, NEW U, NEW b \in Nat, Owned(L, U), Apart(L, U, b),
           NEW i \in Classes, NEW T, NEW L2, Changes(L, L2, T, i),
           NEW v \in U, Receives(L, L2, T, v.at),
           ClassSize(i) <= Room(v.capacity)
    PROVE  Owned(L2, U \ {v}) /\ Apart(L2, U \ {v}, b)
<1>u. /\ T \in SUBSET Lists
      /\ \A l \in T : l[2] = i
      /\ L2 \in [Lists -> Seq(Cells)]
      /\ \A l \in Lists \ T : L2[l] = L[l]
      /\ \A l \in T : Distinct(L2[l])
      /\ \A l, m \in T : \A a \in BlocksOf(L2[l]) : a \in BlocksOf(L2[m]) => l = m
  BY DEF Changes
<1>g. \A l \in T : \A a \in BlocksOf(L2[l]) :
          a = v.at \/ \E m \in T : a \in BlocksOf(L[m])
  BY DEF Receives
<1> USE <1>u, <1>g
<1> DEFINE U2 == U \ {v}
<1>0. /\ \A l \in Lists : v.at \notin BlocksOf(L[l])
      /\ \A u \in U2 : u.at # v.at
      /\ \A l \in Lists : \A u \in U2 : u.at \notin BlocksOf(L[l])
      /\ \A l, m \in Lists : \A a \in BlocksOf(L[l]) : a \in BlocksOf(L[m]) => l = m
  BY DEF Owned
<1>1. ASSUME NEW l \in Lists, NEW a \in BlocksOf(L2[l])
      PROVE  \/ l \in T /\ a = v.at
             \/ \E m \in Lists : a \in BlocksOf(L[m]) /\ m[2] = l[2]
                                 /\ (l \in T <=> m \in T) /\ (l \notin T => m = l)
  BY <1>1
<1>2. \A l, m \in Lists : \A a \in BlocksOf(L2[l]) : a \in BlocksOf(L2[m]) => l = m
  <2>1. SUFFICES ASSUME NEW l \in Lists, NEW m \in Lists, NEW a \in BlocksOf(L2[l]),
                        a \in BlocksOf(L2[m])
                 PROVE  l = m
    OBVIOUS
  <2>2. l \in T <=> m \in T
    <3>1. CASE a = v.at
      BY <1>0, <1>1, <2>1, <3>1
    <3>2. CASE a # v.at
      <4>1. PICK l0 \in Lists : a \in BlocksOf(L[l0]) /\ (l \in T <=> l0 \in T)
        BY <1>1, <2>1, <3>2
      <4>2. PICK m0 \in Lists : a \in BlocksOf(L[m0]) /\ (m \in T <=> m0 \in T)
        BY <1>1, <2>1, <3>2
      <4> QED
        BY <1>0, <4>1, <4>2
    <3> QED
      BY <3>1, <3>2
  <2>3. CASE l \in T
    BY <2>1, <2>2, <2>3
  <2>4. CASE l \notin T
    BY <2>1, <2>2, <2>4 DEF Owned
  <2> QED
    BY <2>3, <2>4
<1>3. \A l \in Lists : Distinct(L2[l])
  BY DEF Owned
<1>4. \A l \in Lists : \A u \in U2 : u.at \notin BlocksOf(L2[l])
  BY <1>0, <1>1
<1>5. Owned(L2, U2)
  BY <1>2, <1>3, <1>4 DEF Owned
<1>6. ASSUME NEW a \in Cells, NEW n \in Nat, Claimed(L2, U2, a, n)
      PROVE  \E m \in Nat : n <= m /\ Claimed(L, U, a, m)
  <2>1. ASSUME NEW l \in Lists, a \in BlocksOf(L2[l]), n = ClassSize(l[2])
        PROVE  \E m \in Nat : n <= m /\ Claimed(L, U, a, m)
    <3>1. CASE \E m \in Lists : a \in BlocksOf(L[m]) /\ m[2] = l[2]
      BY <2>1, <3>1 DEF Claimed
    <3>2. CASE l \in T /\ a = v.at
      <4>1. Claimed(L, U, a, Room(v.capacity)) /\ n <= Room(v.capacity)
        BY <2>1, <3>2 DEF Claimed
      <4>2. Room(v.capacity) \in Nat
        BY <4>1, ClaimSizes
      <4> QED
        BY <4>1, <4>2
    <3> QED
      BY <1>1, <2>1, <3>1, <3>2
  <2>2. ASSUME NEW u \in U2, a = u.at, n = Room(u.capacity)
        PROVE  \E m \in Nat : n <= m /\ Claimed(L, U, a, m)
    BY <2>2 DEF Claimed
  <2> QED
    BY <1>6, <2>1, <2>2 DEF Claimed
<1>7. Apart(L2, U2, b)
  BY <1>6, ShrinkApart
<1> QED
  BY <1>5, <1>7

\* A block that no list takes is given up.
LEMMA Dropping ==
    ASSUME NEW L, NEW U, NEW b \in Nat, Owned(L, U), Apart(L, U, b), NEW v
    PROVE  Owned(L, U \ {v}) /\ Apart(L, U \ {v}, b)
<1>1. Owned(L, U \ {v})
  BY DEF Owned
<1>2. Apart(L, U \ {v}, b)
  BY DEF Apart, Claimed
<1> QED
  BY <1>1, <1>2

\* New blocks, beyond all claims, are given to an empty list.
LEMMA Refilling ==
    ASSUME NEW L, NEW U, NEW b \in Nat, Owned(L, U), Apart(L, U, b),
           NEW i \in Classes, NEW l \in Lists, l[2] = i, L[l] = <<>>,
           NEW f \in Seq(Cells), Distinct(f),
           NEW d \in Nat, b <= d,
           \A a \in BlocksOf(f) : b <= a /\ a + ClassSize(i) <= d,
           \A a, x \in BlocksOf(f) : a < x => a + ClassSize(i) <= x
    PROVE  LET L2 == [L EXCEPT ![l] = f] IN Owned(L2, U) /\ Apart(L2, U, d)
<1> DEFINE L2 == [L EXCEPT ![l] = f]
<1>0. /\ L2 \in [Lists -> Seq(Cells)]
      /\ L2[l] = f
      /\ \A m \in Lists \ {l} : L2[m] = L[m]
  BY DEF Owned
<1> HIDE DEF L2
<1>1. ASSUME NEW a, NEW n, Claimed(L, U, a, n)
      PROVE  a \in Nat /\ n \in Nat \ {0} /\ a + n <= b /\ a \notin BlocksOf(f)
  <2>1. a \in Cells /\ a \in Nat /\ n \in Nat \ {0}
    BY <1>1, ClaimSizes
  <2>2. a + n <= b
    BY <1>1, <2>1 DEF Apart
  <2> QED
    BY <2>1, <2>2
<1>2. ASSUME NEW m \in Lists, NEW a \in BlocksOf(L[m]) PROVE a \notin BlocksOf(f)
  BY <1>1, <1>2, ListClaims
<1>3. ASSUME NEW u \in U PROVE u.at \notin BlocksOf(f)
  BY <1>1 DEF Claimed
<1>4. \A m, k \in Lists : \A a \in BlocksOf(L2[m]) : a \in BlocksOf(L2[k]) => m = k
  BY <1>0, <1>2 DEF Owned
<1>5. \A m \in Lists : Distinct(L2[m])
  BY <1>0 DEF Owned
<1>6. \A m \in Lists : \A u \in U : u.at \notin BlocksOf(L2[m])
  BY <1>0, <1>3 DEF Owned
<1>7. Owned(L2, U)
  BY <1>0, <1>4, <1>5, <1>6 DEF Owned
<1>8. ASSUME NEW a, NEW n, Claimed(L2, U, a, n)
      PROVE  Claimed(L, U, a, n) \/ (a \in BlocksOf(f) /\ n = ClassSize(i))
  BY <1>0, <1>8 DEF Claimed
<1>9. Apart(L2, U, d)
  <2>1. SUFFICES ASSUME NEW a \in Cells, NEW x \in Cells, NEW n \in Nat, NEW m \in Nat,
                        Claimed(L2, U, a, n), Claimed(L2, U, x, m)
                 PROVE  a + n <= d /\ (a < x => a + n <= x)
    BY DEF Apart
  <2>2. a \in Nat /\ x \in Nat
    BY CellsAre
  <2>3. CASE Claimed(L, U, a, n)
    <3>1. a + n <= b
      BY <1>1, <2>3
    <3>2. CASE Claimed(L, U, x, m)
      BY <2>2, <2>3, <3>1, <3>2 DEF Apart
    <3>3. CASE x \in BlocksOf(f)
      BY <2>2, <3>1, <3>3
    <3> QED
      BY <1>8, <2>1, <3>2, <3>3
  <2>4. CASE a \in BlocksOf(f) /\ n = ClassSize(i)
    <3>1. a + n <= d /\ b <= a
      BY <2>4
    <3>2. CASE Claimed(L, U, x, m)
      BY <1>1, <2>2, <3>1, <3>2
    <3>3. CASE x \in BlocksOf(f)
      BY <2>4, <3>1, <3>3
    <3> QED
      BY <1>8, <2>1, <3>2, <3>3
  <2> QED
    BY <1>8, <2>1, <2>3, <2>4
<1> QED
  BY <1>7, <1>9 DEF L2

\* New memory is handed to a user.
LEMMA HandingFresh ==
    ASSUME NEW L, NEW U, NEW b \in Nat, Owned(L, U), Apart(L, U, b),
           NEW v \in Block, v.at = b,
           NEW d \in Nat, b + Room(v.capacity) <= d
    PROVE  Owned(L, U \union {v}) /\ Apart(L, U \union {v}, d)
<1> DEFINE U2 == U \union {v}
<1>0. Room(v.capacity) \in Nat \ {0} /\ b <= d
  <2>1. v.capacity \in Nat
    BY SizesAssumption DEF Block
  <2>2. Room(v.capacity) \in Nat \ {0}
    BY <2>1, Rooms
  <2> QED
    BY <2>2
<1>1. ASSUME NEW a, NEW n, Claimed(L, U, a, n)
      PROVE  a \in Nat /\ n \in Nat \ {0} /\ a + n <= b /\ a # b
  <2>1. a \in Cells /\ a \in Nat /\ n \in Nat \ {0}
    BY <1>1, ClaimSizes
  <2>2. a + n <= b
    BY <1>1, <2>1 DEF Apart
  <2> QED
    BY <2>1, <2>2
<1>2. \A l \in Lists : v.at \notin BlocksOf(L[l])
  BY <1>1, ListClaims
<1>3. \A u \in U : u.at # v.at
  BY <1>1 DEF Claimed
<1>4. Owned(L, U2)
  BY <1>2, <1>3 DEF Owned
<1>5. ASSUME NEW a, NEW n, Claimed(L, U2, a, n)
      PROVE  Claimed(L, U, a, n) \/ (a = b /\ n = Room(v.capacity))
  BY <1>5 DEF Claimed
<1>6. Apart(L, U2, d)
  <2>1. SUFFICES ASSUME NEW a \in Cells, NEW x \in Cells, NEW n \in Nat, NEW m \in Nat,
                        Claimed(L, U2, a, n), Claimed(L, U2, x, m)
                 PROVE  a + n <= d /\ (a < x => a + n <= x)
    BY DEF Apart
  <2>2. a \in Nat /\ x \in Nat
    BY CellsAre
  <2>3. CASE Claimed(L, U, a, n)
    <3>1. a + n <= b
      BY <1>1, <2>3
    <3>2. CASE Claimed(L, U, x, m)
      BY <1>0, <2>2, <2>3, <3>1, <3>2 DEF Apart
    <3>3. CASE x = b
      BY <1>0, <2>2, <3>1, <3>3
    <3> QED
      BY <1>5, <2>1, <3>2, <3>3
  <2>4. CASE a = b /\ n = Room(v.capacity)
    <3>1. CASE Claimed(L, U, x, m)
      BY <1>0, <1>1, <2>2, <2>4, <3>1
    <3>2. CASE x = b
      BY <2>4, <3>2
    <3> QED
      BY <1>5, <2>1, <2>4, <3>1, <3>2
  <2> QED
    BY <1>5, <2>1, <2>3, <2>4
<1> QED
  BY <1>4, <1>6

----------------------------------------------------------------------------
(* What the operations do to memory.                                       *)

LEMMA Scribbling ==
    ASSUME NEW mem \in MemoryType, NEW at \in Cells, NEW c \in Nat
    PROVE  /\ Scribbled(mem, at, c) \in MemoryType
           /\ \A a \in Cells : a < at \/ at + c <= a => Scribbled(mem, at, c)[a] = mem[a]
<1>1. \A a \in Cells : a \in Nat
  BY CellsAre
<1> QED
  BY <1>1 DEF Scribbled, MemoryType

\* What a user writes into its block changes no list.
LEMMA ScribbleKeeps ==
    ASSUME NEW L, NEW U, NEW b, Owned(L, U), Apart(L, U, b), NEW v \in U,
           NEW mem \in MemoryType, \A l \in Lists : Linked(mem, L[l])
    PROVE  \A l \in Lists : Linked(Scribbled(mem, v.at, v.capacity), L[l])
<1> DEFINE mem2 == Scribbled(mem, v.at, v.capacity)
<1>1. v.at \in Cells /\ v.capacity \in Nat
  BY SizesAssumption DEF Owned, Block
<1>2. \A a \in Cells : a < v.at \/ v.at + v.capacity <= a => mem2[a] = mem[a]
  BY <1>1, Scribbling
<1> HIDE DEF mem2
<1>3. v.capacity <= Room(v.capacity) /\ Room(v.capacity) \in Nat
  BY <1>1, Rooms
<1>4. ASSUME NEW l \in Lists, NEW a \in BlocksOf(L[l]) PROVE mem2[a] = mem[a]
  <2>1. Claimed(L, U, a, ClassSize(l[2])) /\ Claimed(L, U, v.at, Room(v.capacity))
    BY <1>4 DEF Claimed
  <2>2. a \in Cells /\ a \in Nat /\ v.at \in Nat /\ ClassSize(l[2]) \in Nat
    BY <2>1, ClaimSizes
  <2>3. a # v.at
    BY <1>4 DEF Owned
  <2>4. v.at < a => v.at + Room(v.capacity) <= a
    BY <1>1, <1>3, <2>1, <2>2 DEF Apart
  <2>5. a < v.at \/ v.at + v.capacity <= a
    BY <1>1, <1>3, <2>2, <2>3, <2>4
  <2> QED
    BY <1>2, <2>2, <2>5
<1>5. \A l \in Lists : L[l] \in Seq(Cells)
  BY DEF Owned
<1>6. \A l \in Lists : Linked(mem2, L[l])
  BY <1>4, <1>5, LinksFrame
<1> QED
  BY <1>6 DEF mem2

\* The blocks that a span is cut into, as a list.
Fresh(start, n, size) == [k \in 1 .. n |-> start + (k - 1) * size]

IsFresh(f, start, n, size) ==
    /\ f \in Seq(Cells)
    /\ Len(f) = n
    /\ \A k \in 1 .. n : f[k] = start + (k - 1) * size
    /\ \A j, k \in 1 .. n : j < k => f[j] + size <= f[k]
    /\ \A k \in 1 .. n : start <= f[k] /\ f[k] + size <= start + n * size
    /\ Distinct(f)
    /\ BlocksOf(f) = {start + k * size : k \in 0 .. n - 1}
    /\ \A a, x \in BlocksOf(f) : a < x => a + size <= x

LEMMA FreshBlocks ==
    ASSUME NEW start, Aligned(start), NEW size, Aligned(size), size > 0,
           NEW n \in Nat, start + n * size <= Memory,
           NEW f, f = Fresh(start, n, size)
    PROVE  IsFresh(f, start, n, size)
<1>1. start \in Nat /\ size \in Nat \ {0} /\ n * size \in Nat
  BY DEF Aligned
<1>2. \A k \in 1 .. n : f[k] = start + (k - 1) * size
  BY DEF Fresh
<1>3. ASSUME NEW k \in 1 .. n
      PROVE  /\ f[k] \in Nat /\ Aligned(f[k])
             /\ start <= f[k]
             /\ f[k] + size <= start + n * size
             /\ f[k] \in Cells
  <2>1. k - 1 \in Nat /\ k - 1 < n
    OBVIOUS
  <2>2. (k - 1) * size \in Nat /\ (k - 1) * size + size <= n * size
    BY <1>1, <2>1, TimesOrder
  <2>3. Aligned((k - 1) * size)
    BY <2>1, AlignedTimes
  <2>4. Aligned(f[k])
    BY <1>2, <2>3, AlignedSum
  <2>5. f[k] \in Nat /\ start <= f[k] /\ f[k] + size <= start + n * size
    BY <1>1, <1>2, <2>2
  <2>6. f[k] < Memory
    BY <1>1, <2>5, MemoryAssumption
  <2> QED
    BY <2>4, <2>5, <2>6, CellsAre
<1>4. ASSUME NEW j \in 1 .. n, NEW k \in 1 .. n, j < k PROVE f[j] + size <= f[k]
  <2>1. j - 1 \in Nat /\ k - 1 \in Nat /\ j - 1 < k - 1
    BY <1>4
  <2>2. /\ (j - 1) * size \in Nat /\ (k - 1) * size \in Nat
        /\ (j - 1) * size + size <= (k - 1) * size
    BY <1>1, <2>1, TimesOrder
  <2> QED
    BY <1>1, <1>2, <2>2
<1>5. f \in [1 .. n -> Cells]
  BY <1>2, <1>3 DEF Fresh
<1>6. f \in Seq(Cells)
  BY <1>5, SeqDef
<1>7. Len(f) = n
  BY <1>5, <1>6, LenProperties
<1>8. Distinct(f)
  <2>1. SUFFICES ASSUME NEW j \in 1 .. n, NEW k \in 1 .. n, f[j] = f[k] PROVE j = k
    BY <1>7 DEF Distinct
  <2>2. ~ (j < k) /\ ~ (k < j)
    BY <1>1, <1>3, <1>4, <2>1
  <2> QED
    BY <2>2
<1>9. BlocksOf(f) = {start + k * size : k \in 0 .. n - 1}
  <2>1. ASSUME NEW k \in 1 .. n PROVE f[k] \in {start + j * size : j \in 0 .. n - 1}
    <3>1. k - 1 \in 0 .. n - 1
      OBVIOUS
    <3> QED
      BY <1>2, <3>1
  <2>2. ASSUME NEW k \in 0 .. n - 1 PROVE start + k * size \in {f[j] : j \in 1 .. n}
    <3>1. k + 1 \in 1 .. n /\ (k + 1) - 1 = k
      OBVIOUS
    <3>2. f[k + 1] = start + k * size
      BY <1>2, <3>1
    <3> QED
      BY <3>1, <3>2
  <2> QED
    BY <1>7, <2>1, <2>2 DEF BlocksOf
<1>10. \A a, x \in BlocksOf(f) : a < x => a + size <= x
  <2>1. SUFFICES ASSUME NEW j \in 1 .. n, NEW k \in 1 .. n, f[j] < f[k]
                 PROVE  f[j] + size <= f[k]
    BY <1>7 DEF BlocksOf
  <2>2. j # k /\ ~ (k < j)
    BY <1>1, <1>3, <1>4, <2>1
  <2> QED
    BY <1>4, <2>2
<1> QED
  BY <1>2, <1>3, <1>4, <1>6, <1>7, <1>8, <1>9, <1>10 DEF IsFresh

\* The pointers that cutting a span writes.
LEMMA Chaining ==
    ASSUME NEW mem \in MemoryType, NEW start, Aligned(start),
           NEW size, Aligned(size), size > 0,
           NEW n \in Nat, start + n * size <= Memory,
           NEW f, f = Fresh(start, n, size)
    PROVE  /\ Chain(mem, start, n, size) \in MemoryType
           /\ \A a \in Cells : a \notin BlocksOf(f) => Chain(mem, start, n, size)[a] = mem[a]
           /\ \A k \in 1 .. n : Chain(mem, start, n, size)[f[k]] =
                                    IF k < n THEN f[k + 1] ELSE nullptr
<1>1. start \in Nat /\ size \in Nat \ {0}
  BY DEF Aligned
<1>2. /\ f \in Seq(Cells)
      /\ Len(f) = n
      /\ \A k \in 1 .. n : f[k] = start + (k - 1) * size
      /\ \A j, k \in 1 .. n : j < k => f[j] + size <= f[k]
      /\ Distinct(f)
      /\ BlocksOf(f) = {start + k * size : k \in 0 .. n - 1}
  <2>1. IsFresh(f, start, n, size)
    BY FreshBlocks
  <2> QED
    BY <2>1 DEF IsFresh
<1> DEFINE mem2 == Chain(mem, start, n, size)
<1>3. \A k \in 1 .. n : f[k] \in Cells /\ f[k] \in BlocksOf(f)
  BY <1>2, BlocksAreCells
<1>4. \A a \in Cells : a \in BlocksOf(f) <=> \E k \in 0 .. n - 1 : a = start + k * size
  BY <1>2
<1>5. \A a \in Cells : mem2[a] = IF a \in BlocksOf(f)
                                 THEN IF a = start + (n - 1) * size THEN nullptr ELSE a + size
                                 ELSE mem[a]
  BY <1>4 DEF Chain
<1>6. ASSUME NEW k \in 1 .. n
      PROVE  mem2[f[k]] = IF k < n THEN f[k + 1] ELSE nullptr
  <2>1. n \in 1 .. n /\ f[n] = start + (n - 1) * size
    BY <1>2
  <2>2. mem2[f[k]] = IF f[k] = f[n] THEN nullptr ELSE f[k] + size
    BY <1>3, <1>5, <2>1
  <2>3. f[k] = f[n] <=> k = n
    BY <1>2, <2>1 DEF Distinct
  <2>4. ASSUME k < n PROVE f[k] + size = f[k + 1]
    <3>1. k + 1 \in 1 .. n /\ (k + 1) - 1 = k
      BY <2>4
    <3>2. f[k + 1] = start + k * size
      BY <1>2, <3>1
    <3>3. f[k] = start + (k - 1) * size
      BY <1>2
    <3>4. k * size = (k - 1) * size + size /\ (k - 1) * size \in Nat
      <4>1. k - 1 \in Nat /\ k = (k - 1) + 1
        OBVIOUS
      <4> DEFINE j == k - 1
      <4> HIDE DEF j
      <4>2. j \in Nat /\ k = j + 1
        BY <4>1 DEF j
      <4>3. k * size = j * size + size /\ j * size \in Nat
        BY <1>1, <4>2, SMT
      <4> QED
        BY <4>3 DEF j
    <3> QED
      BY <1>1, <3>2, <3>3, <3>4
  <2> QED
    BY <2>2, <2>3, <2>4
<1>7. ASSUME NEW a \in Cells PROVE mem2[a] \in Cells \union {nullptr, junk}
  <2>1. CASE a \in BlocksOf(f)
    <3>1. PICK k \in 1 .. n : a = f[k]
      BY <1>2, <2>1 DEF BlocksOf
    <3>2. k < n => k + 1 \in 1 .. n
      OBVIOUS
    <3> QED
      BY <1>3, <1>6, <3>1, <3>2
  <2>2. CASE a \notin BlocksOf(f)
    BY <1>5, <2>2 DEF MemoryType
  <2> QED
    BY <2>1, <2>2
<1>8. mem2 \in MemoryType
  <2>1. mem2 = [a \in Cells |-> mem2[a]]
    BY DEF Chain
  <2> HIDE DEF mem2
  <2> QED
    BY <1>7, <2>1 DEF MemoryType
<1> QED
  BY <1>5, <1>6, <1>8

----------------------------------------------------------------------------
(* Allocation.                                                             *)

LEMMA SliceBlocks ==
    ASSUME NEW s \in Seq(Cells), Distinct(s),
           NEW m \in 1 .. Len(s) + 1, NEW n \in 0 .. Len(s), m <= n + 1
    PROVE  /\ BlocksOf(SubSeq(s, m, n)) \subseteq BlocksOf(s)
           /\ \A k \in 1 .. Len(s) : s[k] \in BlocksOf(SubSeq(s, m, n)) <=> k \in m .. n
<1>1. BlocksOf(SubSeq(s, m, n)) = {s[k] : k \in m .. n}
  <2>1. IsSlice(SubSeq(s, m, n), s, m, n)
    BY Slice
  <2> QED
    BY <2>1 DEF IsSlice
<1>2. \A k \in m .. n : k \in 1 .. Len(s)
  BY BlocksAreCells
<1>3. BlocksOf(SubSeq(s, m, n)) \subseteq BlocksOf(s)
  BY <1>1, <1>2 DEF BlocksOf
<1>4. ASSUME NEW k \in 1 .. Len(s)
      PROVE  s[k] \in BlocksOf(SubSeq(s, m, n)) <=> k \in m .. n
  BY <1>1, <1>2 DEF Distinct
<1> QED
  BY <1>3, <1>4

\* Two parts of a list have no block in common.
LEMMA SlicesApart ==
    ASSUME NEW s \in Seq(Cells), Distinct(s),
           NEW m \in 1 .. Len(s) + 1, NEW n \in 0 .. Len(s), m <= n + 1,
           NEW p \in 1 .. Len(s) + 1, NEW q \in 0 .. Len(s), p <= q + 1, n < p
    PROVE  BlocksOf(SubSeq(s, m, n)) \cap BlocksOf(SubSeq(s, p, q)) = {}
<1>1. /\ BlocksOf(SubSeq(s, m, n)) = {s[k] : k \in m .. n}
      /\ BlocksOf(SubSeq(s, p, q)) = {s[k] : k \in p .. q}
  <2>1. IsSlice(SubSeq(s, m, n), s, m, n) /\ IsSlice(SubSeq(s, p, q), s, p, q)
    BY Slice
  <2> QED
    BY <2>1 DEF IsSlice
<1>2. SUFFICES ASSUME NEW j \in m .. n, NEW k \in p .. q, s[j] = s[k] PROVE FALSE
  BY <1>1
<1>3. j \in 1 .. Len(s) /\ k \in 1 .. Len(s) /\ j # k
  BY BlocksAreCells
<1> QED
  BY <1>2, <1>3 DEF Distinct

\* The first block of a list, the rest of a batch of m, and what follows it.
IsBatch(s, m, f, c) ==
    /\ f \in Seq(Cells) /\ Distinct(f) /\ Len(f) = m - 1
    /\ c \in Seq(Cells) /\ Distinct(c)
    /\ BlocksOf(f) \cap BlocksOf(c) = {}
    /\ BlocksOf(s) = {s[1]} \union BlocksOf(f) \union BlocksOf(c)
    /\ s[1] \notin BlocksOf(f) /\ s[1] \notin BlocksOf(c)
    /\ First(f) = IF 2 <= m THEN s[2] ELSE nullptr
    /\ First(c) = IF m < Len(s) THEN s[m + 1] ELSE nullptr
    /\ s[1] \in Cells /\ s[1] \in BlocksOf(s)

LEMMA Batch ==
    ASSUME NEW s \in Seq(Cells), Distinct(s), NEW m \in 1 .. Len(s),
           NEW f, f = SubSeq(s, 2, m), NEW c, c = SubSeq(s, m + 1, Len(s))
    PROVE  IsBatch(s, m, f, c)
<1>1. Len(s) \in Nat
  BY BlocksAreCells
<1>2. /\ 2 \in 1 .. Len(s) + 1 /\ m \in 0 .. Len(s) /\ 2 <= m + 1
      /\ m + 1 \in 1 .. Len(s) + 1 /\ Len(s) \in 0 .. Len(s) /\ m + 1 <= Len(s) + 1
      /\ 1 \in 1 .. Len(s) /\ m < m + 1
  BY <1>1
<1>3. /\ f \in Seq(Cells) /\ Distinct(f) /\ Len(f) = m - 2 + 1
      /\ BlocksOf(f) = {s[k] : k \in 2 .. m}
      /\ First(f) = IF 2 <= m THEN s[2] ELSE nullptr
  <2>1. IsSlice(f, s, 2, m)
    BY <1>2, Slice
  <2> QED
    BY <2>1 DEF IsSlice
<1>4. /\ c \in Seq(Cells) /\ Distinct(c)
      /\ BlocksOf(c) = {s[k] : k \in m + 1 .. Len(s)}
      /\ First(c) = IF m + 1 <= Len(s) THEN s[m + 1] ELSE nullptr
  <2>1. IsSlice(c, s, m + 1, Len(s))
    BY <1>2, Slice
  <2> QED
    BY <2>1 DEF IsSlice
<1>5. BlocksOf(f) \cap BlocksOf(c) = {}
  BY <1>2, SlicesApart
<1>6. s[1] \notin BlocksOf(f) /\ s[1] \notin BlocksOf(c)
  BY <1>1, <1>2, SliceBlocks
<1>7. s[1] \in Cells /\ s[1] \in BlocksOf(s)
  BY <1>2, BlocksAreCells
<1>8. BlocksOf(s) = {s[1]} \union BlocksOf(f) \union BlocksOf(c)
  <2>1. ASSUME NEW k \in 1 .. Len(s) PROVE s[k] \in {s[1]} \union BlocksOf(f) \union BlocksOf(c)
    <3>1. k = 1 \/ k \in 2 .. m \/ k \in m + 1 .. Len(s)
      BY <1>1
    <3> QED
      BY <1>3, <1>4, <3>1
  <2>2. BlocksOf(f) \subseteq BlocksOf(s) /\ BlocksOf(c) \subseteq BlocksOf(s)
    BY <1>2, SliceBlocks
  <2> QED
    BY <1>7, <2>1, <2>2 DEF BlocksOf
<1>9. m + 1 <= Len(s) <=> m < Len(s)
  BY <1>1
<1> QED
  BY <1>3, <1>4, <1>5, <1>6, <1>7, <1>8, <1>9 DEF IsBatch

LEMMA Modulo ==
    /\ \A n \in Int : n % SizeMod \in 0 .. SizeMod - 1
    /\ \A n \in Nat : n < SizeMod => n % SizeMod = n
<1>1. ASSUME NEW n \in Int PROVE n % SizeMod \in 0 .. SizeMod - 1
  BY Positive
<1>2. ASSUME NEW n \in Nat, n < SizeMod PROVE n % SizeMod = n
  BY <1>2, Positive
<1> QED
  BY <1>1, <1>2

\* A list is shorter than what size_t counts.
LEMMA LengthFits ==
    ASSUME NEW s \in Seq(Cells), Distinct(s)
    PROVE  Len(s) \in Nat /\ Len(s) <= Memory /\ Len(s) < SizeMod
<1>1. Len(s) \in Nat /\ Len(s) <= Cardinality(Cells)
  BY LengthBound
<1> QED
  BY <1>1, CellsAre, MemoryAssumption, Positive

LEMMA Types ==
    /\ ALIGNMENT > 0
    /\ Capacities \subseteq Nat
    /\ \A c \in Capacities : c <= MAXBYTE =>
          /\ getIndex(c) \in Classes
          /\ Room(c) = ClassSize(getIndex(c))
          /\ ClassSize(getIndex(c)) \in Nat \ {0}
          /\ Aligned(ClassSize(getIndex(c)))
<1>1. Capacities \subseteq Nat
  BY SizesAssumption
<1> QED
  BY <1>1, Positive, IndexIsClass, ClassSizes DEF Room

\* What Hand leaves: the list keep their links, and the block has a user.
LEMMA HandKeeps ==
    ASSUME NEW L, NEW v \in Block, NEW b, NEW mem \in MemoryType,
           Owned(L, used \union {v}), Apart(L, used \union {v}, b),
           \A l \in Lists : Linked(mem, L[l]),
           Hand(v.at, v.capacity, mem)
    PROVE  /\ used' = used \union {v}
           /\ next' \in MemoryType
           /\ LinksOf(L)'
           /\ Owned(L, used')
<1>1. v = [at |-> v.at, capacity |-> v.capacity]
  BY DEF Block
<1>2. used' = used \union {v} /\ next' = Scribbled(mem, v.at, v.capacity)
  BY <1>1 DEF Hand
<1>3. v.at \in Cells /\ v.capacity \in Nat
  BY Types DEF Block
<1>4. next' \in MemoryType
  BY <1>2, <1>3, Scribbling
<1>5. \A l \in Lists : Linked(next', L[l])
  <2>1. v \in used \union {v}
    OBVIOUS
  <2> QED
    BY <1>2, <2>1, ScribbleKeeps
<1> QED
  BY <1>2, <1>4, <1>5 DEF LinksOf

LEMMA InvFacts ==
    ASSUME TypeOK, NEW L, Describes(L)
    PROVE  /\ next \in MemoryType
           /\ brk \in Nat
           /\ L \in [Lists -> Seq(Cells)]
           /\ \A l \in Lists : L[l] \in Seq(Cells) /\ Distinct(L[l]) /\ Linked(next, L[l])
BY MemoryAssumption DEF TypeOK, MemoryType, Describes, Owned, LinksOf

\* The action changes one list at most of the thread, and the shared one.
LEMMA HeadsAfter ==
    ASSUME TypeOK, NEW L, HeadsOf(L), NEW L2 \in [Lists -> Seq(Cells)],
           NEW t \in Threads, NEW i \in Classes,
           SameBut(L, L2, {<<t, i>>, <<Shared, i>>}),
           freeList_' = [freeList_ EXCEPT ![t][i] = First(L2[<<t, i>>])],
           centralFreeList_' = [centralFreeList_ EXCEPT ![i] = First(L2[<<Shared, i>>])]
    PROVE  /\ HeadsOf(L2)'
           /\ freeList_' \in [Threads -> [Classes -> Cells \union {nullptr}]]
           /\ centralFreeList_' \in [Classes -> Cells \union {nullptr}]
<1>1. /\ L2[<<t, i>>] \in Seq(Cells) /\ L2[<<Shared, i>>] \in Seq(Cells)
      /\ First(L2[<<t, i>>]) \in Cells \union {nullptr}
      /\ First(L2[<<Shared, i>>]) \in Cells \union {nullptr}
  BY ListNames, FirstOf
<1>2. \A s \in Threads, j \in Classes :
          s # t \/ j # i => <<s, j>> \in Lists \ {<<t, i>>, <<Shared, i>>}
  BY ListNames
<1>3. \A j \in Classes : j # i => <<Shared, j>> \in Lists \ {<<t, i>>, <<Shared, i>>}
  BY ListNames
<1>4. \A s \in Threads, j \in Classes : freeList_'[s][j] = First(L2[<<s, j>>])
  BY <1>2 DEF TypeOK, HeadsOf, SameBut
<1>5. \A j \in Classes : centralFreeList_'[j] = First(L2[<<Shared, j>>])
  BY <1>3 DEF TypeOK, HeadsOf, SameBut
<1> QED
  BY <1>1, <1>4, <1>5 DEF TypeOK, HeadsOf

LEMMA CountsAfter ==
    ASSUME TypeOK, NEW L, CountsOf(L), NEW L2,
           NEW t \in Threads, NEW i \in Classes,
           SameBut(L, L2, {<<t, i>>, <<Shared, i>>}),
           NEW n \in 0 .. SizeMod - 1,
           freeListSize_' = [freeListSize_ EXCEPT ![t][i] = n],
           ClassSize(i) <= SpanSize => n = Len(L2[<<t, i>>])
    PROVE  /\ CountsOf(L2)'
           /\ freeListSize_' \in [Threads -> [Classes -> 0 .. SizeMod - 1]]
<1>1. \A s \in Threads, j \in Classes :
          s # t \/ j # i => <<s, j>> \in Lists \ {<<t, i>>, <<Shared, i>>}
  BY ListNames
<1>2. \A s \in Threads, j \in Classes :
          ClassSize(j) <= SpanSize => freeListSize_'[s][j] = Len(L2[<<s, j>>])
  BY <1>1 DEF TypeOK, CountsOf, SameBut
<1> QED
  BY <1>2 DEF TypeOK, CountsOf

\* An allocation hands a block and keeps the others: all that was somewhere
\* still is.
LEMMA SavedAfter ==
    ASSUME NEW L, SavedBy(L), NEW L2, NEW v,
           ~ (v.capacity > MAXBYTE),
           used' = used \union {v}, cut' = cut, brk' = brk, short' = short,
           KeepsAllBut(L, L2, v.at)
    PROVE  SavedBy(L2)'
<1>1. \A a : Somewhere(L, used, a) => Somewhere(L2, used', a)
  BY DEF Somewhere, KeepsAllBut
<1> QED
  BY <1>1 DEF SavedBy, LosesNone

LEMMA EmptyBlocks == BlocksOf(<<>>) = {} /\ Len(<<>>) = 0 /\ First(<<>>) = nullptr
<1>1. Len(<<>>) = 0
  BY EmptySeq
<1> QED
  BY <1>1 DEF BlocksOf, First

\* Assigning what a cell of a table holds changes nothing.
LEMMA SameTable ==
    ASSUME NEW A, NEW B, NEW C, NEW g \in [A -> [B -> C]], NEW x \in A, NEW y \in B
    PROVE  [g EXCEPT ![x][y] = g[x][y]] = g
OBVIOUS

LEMMA SameRow ==
    ASSUME NEW B, NEW C, NEW g \in [B -> C], NEW y \in B
    PROVE  [g EXCEPT ![y] = g[y]] = g
OBVIOUS

LEMMA TwoRows ==
    ASSUME NEW A, NEW B, NEW g \in [A -> B], NEW x \in A, NEW y \in A, x # y,
           NEW p \in B, NEW q \in B, NEW h, h = [g EXCEPT ![x] = p, ![y] = q]
    PROVE  /\ h \in [A -> B]
           /\ h[x] = p /\ h[y] = q
           /\ \A z \in A \ {x, y} : h[z] = g[z]
OBVIOUS

TookFirst(L, L2, U, b, t, i, v) ==
    /\ L2 \in [Lists -> Seq(Cells)]
    /\ L2[<<t, i>>] = SubSeq(L[<<t, i>>], 2, Len(L[<<t, i>>]))
    /\ SameBut(L, L2, {<<t, i>>})
    /\ Owned(L2, U \union {v}) /\ Apart(L2, U \union {v}, b)
    /\ KeepsAllBut(L, L2, v.at)

\* The first block of the thread's own list goes to a user.
LEMMA TakeFirst ==
    ASSUME NEW L, NEW U, NEW b \in Nat, Owned(L, U), Apart(L, U, b),
           NEW t \in Threads, NEW i \in Classes,
           L[<<t, i>>] # <<>>,
           NEW v \in Block, v.at = L[<<t, i>>][1], Room(v.capacity) = ClassSize(i),
           NEW L2, L2 = FirstTaken(L, <<t, i>>)
    PROVE  TookFirst(L, L2, U, b, t, i, v)
<1> DEFINE lt == <<t, i>>
<1> DEFINE s == L[lt]
<1> DEFINE f == SubSeq(s, 2, Len(s))
<1>0. L2 = [L EXCEPT ![lt] = f] /\ s # <<>> /\ v.at = s[1] /\ s = L[lt]
  BY DEF FirstTaken
<1>1. lt \in Lists /\ lt[2] = i /\ s \in Seq(Cells) /\ Distinct(s)
  BY ListNames DEF Owned
<1> HIDE DEF lt, s
<1>2. Len(s) \in 1 .. Len(s)
  BY <1>0, <1>1, FirstOf
<1>3. /\ f \in Seq(Cells) /\ Distinct(f)
      /\ BlocksOf(s) = {s[1]} \union BlocksOf(f)
      /\ s[1] \notin BlocksOf(f) /\ s[1] \in BlocksOf(s)
  <2> DEFINE c == SubSeq(s, Len(s) + 1, Len(s))
  <2>1. IsBatch(s, Len(s), f, c)
    BY <1>1, <1>2, Batch
  <2>2. c = <<>>
    <3>1. Len(s) \in Int /\ Len(s) + 1 \in Int /\ Len(s) < Len(s) + 1
      BY <1>2
    <3> QED
      BY <3>1, SubSeqEmpty
  <2> HIDE DEF c
  <2> QED
    BY <2>1, <2>2, EmptyBlocks DEF IsBatch
<1> HIDE DEF f
<1>4. /\ L2 \in [Lists -> Seq(Cells)]
      /\ L2[lt] = f
      /\ \A l \in Lists \ {lt} : L2[l] = L[l]
  BY <1>0, <1>1, <1>3 DEF Owned
<1>5. Owned(L2, U \union {v}) /\ Apart(L2, U \union {v}, b)
  <2> DEFINE T == {lt}
  <2>1. Changes(L, L2, T, i)
    BY <1>1, <1>3, <1>4 DEF Changes
  <2>2. GivesUp(L, L2, T, v.at)
    BY <1>0, <1>3, <1>4 DEF GivesUp
  <2> HIDE DEF T
  <2> QED
    BY <1>0, <2>1, <2>2, Handing
<1>6. ASSUME NEW l \in Lists, NEW a \in BlocksOf(L[l])
      PROVE  a = v.at \/ \E m \in Lists : a \in BlocksOf(L2[m])
  <2>1. CASE l = lt
    BY <1>0, <1>1, <1>3, <1>4, <1>6, <2>1
  <2>2. CASE l # lt
    BY <1>4, <1>6, <2>2
  <2> QED
    BY <2>1, <2>2
<1> QED
  BY <1>4, <1>5, <1>6 DEF lt, s, f, SameBut, KeepsAllBut, TookFirst

TookBatch(L, L2, U, b, t, i, m, v) ==
    /\ L2 \in [Lists -> Seq(Cells)]
    /\ L2[<<t, i>>] = SubSeq(L[<<Shared, i>>], 2, m)
    /\ L2[<<Shared, i>>] = SubSeq(L[<<Shared, i>>], m + 1, Len(L[<<Shared, i>>]))
    /\ SameBut(L, L2, {<<t, i>>, <<Shared, i>>})
    /\ Owned(L2, U \union {v}) /\ Apart(L2, U \union {v}, b)
    /\ KeepsAllBut(L, L2, v.at)

\* Of a batch of m blocks of the shared list the first goes to a user and the
\* others into the thread's own list, which is empty.
LEMMA TakeBatch ==
    ASSUME NEW L, NEW U, NEW b \in Nat, Owned(L, U), Apart(L, U, b),
           NEW t \in Threads, NEW i \in Classes, L[<<t, i>>] = <<>>,
           NEW m \in 1 .. Len(L[<<Shared, i>>]),
           NEW v \in Block, v.at = L[<<Shared, i>>][1], Room(v.capacity) = ClassSize(i),
           NEW L2, L2 = BatchTaken(L, <<Shared, i>>, <<t, i>>, m)
    PROVE  TookBatch(L, L2, U, b, t, i, m, v)
<1> DEFINE lt == <<t, i>>
<1> DEFINE lc == <<Shared, i>>
<1> DEFINE s == L[lc]
<1> DEFINE f == SubSeq(s, 2, m)
<1> DEFINE c == SubSeq(s, m + 1, Len(s))
<1>1. /\ lt \in Lists /\ lt[2] = i /\ lc \in Lists /\ lc[2] = i /\ lt # lc
      /\ s \in Seq(Cells) /\ Distinct(s)
  BY ListNames DEF Owned
<1>0. /\ L[lt] = <<>> /\ s = L[lc] /\ m \in 1 .. Len(s) /\ v.at = s[1]
      /\ L2 = [L EXCEPT ![lt] = f, ![lc] = c]
  BY DEF BatchTaken
<1> HIDE DEF lt, lc, s
<1>3. /\ f \in Seq(Cells) /\ Distinct(f) /\ c \in Seq(Cells) /\ Distinct(c)
      /\ BlocksOf(f) \cap BlocksOf(c) = {}
      /\ BlocksOf(s) = {s[1]} \union BlocksOf(f) \union BlocksOf(c)
      /\ s[1] \notin BlocksOf(f) /\ s[1] \notin BlocksOf(c) /\ s[1] \in BlocksOf(s)
  <2>1. IsBatch(s, m, f, c)
    BY <1>0, <1>1, Batch
  <2> QED
    BY <2>1 DEF IsBatch
<1> HIDE DEF f, c
<1>4. /\ L2 \in [Lists -> Seq(Cells)]
      /\ L2[lt] = f /\ L2[lc] = c
      /\ \A l \in Lists \ {lt, lc} : L2[l] = L[l]
  <2>1. L2 = [L EXCEPT ![lt] = f, ![lc] = c]
    BY <1>0
  <2>2. L \in [Lists -> Seq(Cells)] /\ lt \in Lists /\ lc \in Lists /\ lt # lc
    BY <1>1 DEF Owned
  <2>3. f \in Seq(Cells) /\ c \in Seq(Cells)
    BY <1>3
  <2> DEFINE S == Seq(Cells)
  <2> HIDE DEF S
  <2>4. L \in [Lists -> S] /\ f \in S /\ c \in S
    BY <2>2, <2>3 DEF S
  <2>5. /\ L2 \in [Lists -> S]
        /\ L2[lt] = f /\ L2[lc] = c
        /\ \A l \in Lists \ {lt, lc} : L2[l] = L[l]
    BY ONLY <2>1, <2>2, <2>4, TwoRows
  <2> QED
    BY <2>5 DEF S
<1>5. Owned(L2, U \union {v}) /\ Apart(L2, U \union {v}, b)
  <2> DEFINE T == {lt, lc}
  <2>1. /\ T \in SUBSET Lists
        /\ \A l \in T : l[2] = i
        /\ \A l \in T : Distinct(L2[l])
    BY <1>1, <1>3, <1>4
  <2>2. \A l, k \in T : \A a \in BlocksOf(L2[l]) : a \in BlocksOf(L2[k]) => l = k
    <3>1. \A a : ~ (a \in BlocksOf(f) /\ a \in BlocksOf(c))
      BY <1>3
    <3> QED
      BY <1>4, <3>1
  <2>3. Changes(L, L2, T, i)
    BY <1>4, <2>1, <2>2 DEF Changes
  <2>4. GivesUp(L, L2, T, v.at)
    BY <1>0, <1>3, <1>4 DEF GivesUp
  <2> HIDE DEF T
  <2> QED
    BY <1>0, <2>3, <2>4, Handing
<1>6. ASSUME NEW l \in Lists, NEW a \in BlocksOf(L[l])
      PROVE  a = v.at \/ \E k \in Lists : a \in BlocksOf(L2[k])
  <2>1. CASE l = lc
    BY <1>0, <1>1, <1>3, <1>4, <1>6, <2>1
  <2>2. CASE l = lt
    BY <1>0, <1>6, <2>2, EmptyBlocks
  <2>3. CASE l \notin {lt, lc}
    BY <1>4, <1>6, <2>3
  <2> QED
    BY <2>1, <2>2, <2>3
<1> QED
  BY <1>4, <1>5, <1>6 DEF lt, lc, s, f, c, SameBut, KeepsAllBut, TookBatch

LEMMA LocalKeeps ==
    ASSUME PoolInv, NEW t \in Threads, NEW capacity \in Capacities, allocate_local(t, capacity)
    PROVE  PoolInv'
<1>1. TypeOK /\ Aligned(brk)
  BY DEF PoolInv
<1>2. PICK L : Describes(L)
  BY DEF PoolInv
<1> DEFINE i == getIndex(capacity)
<1> DEFINE s == L[<<t, i>>]
<1> DEFINE f == SubSeq(s, 2, Len(s))
<1> DEFINE L2 == FirstTaken(L, <<t, i>>)
<1> DEFINE v == [at |-> s[1], capacity |-> capacity]
<1>3. i \in Classes /\ Room(capacity) = ClassSize(i) /\ ~ (capacity > MAXBYTE)
  <2>1. capacity <= MAXBYTE /\ capacity \in Nat /\ MAXBYTE \in Nat
    BY Types, Positive DEF allocate_local
  <2> QED
    BY <2>1, Types
<1>4. /\ Owned(L, used) /\ Apart(L, used, brk) /\ LinksOf(L)
      /\ HeadsOf(L) /\ CountsOf(L) /\ SavedBy(L)
  BY <1>2 DEF Describes
<1>5. next \in MemoryType /\ brk \in Nat
  BY <1>1, <1>2, InvFacts
<1>6. /\ freeList_[t][i] # nullptr
      /\ freeList_' = [freeList_ EXCEPT ![t][i] = next[freeList_[t][i]]]
      /\ freeListSize_' = [freeListSize_ EXCEPT ![t][i] = (freeListSize_[t][i] - 1) % SizeMod]
      /\ Hand(freeList_[t][i], capacity, next)
      /\ centralFreeList_' = centralFreeList_ /\ brk' = brk /\ cut' = cut
      /\ short' = short
  BY <1>1, <1>3 DEF allocate_local, TypeOK
<1> HIDE DEF i
<1>7. /\ <<t, i>> \in Lists /\ s \in Seq(Cells) /\ Distinct(s) /\ Linked(next, s)
      /\ freeList_[t][i] = First(s)
  BY <1>1, <1>2, <1>3, <1>4, ListNames, InvFacts DEF HeadsOf
<1> HIDE DEF s
<1>8. s # <<>> /\ freeList_[t][i] = s[1] /\ s[1] \in Cells /\ Len(s) \in Nat
      /\ 1 \in 1 .. Len(s)
  BY <1>6, <1>7, FirstOf
<1>9. v \in Block /\ v.at = s[1] /\ v.capacity = capacity
  BY <1>8 DEF Block
<1> HIDE DEF f, L2, v
<1>10. /\ L2 \in [Lists -> Seq(Cells)]
       /\ L2[<<t, i>>] = f
       /\ SameBut(L, L2, {<<t, i>>})
       /\ Owned(L2, used \union {v}) /\ Apart(L2, used \union {v}, brk)
       /\ KeepsAllBut(L, L2, v.at)
  <2>1. /\ s = L[<<t, i>>] /\ f = SubSeq(L[<<t, i>>], 2, Len(L[<<t, i>>]))
        /\ L2 = FirstTaken(L, <<t, i>>)
    BY DEF s, f, L2
  <2>2. Room(v.capacity) = ClassSize(i)
    BY <1>3, <1>9
  <2>3. /\ L[<<t, i>>] # <<>>
        /\ v \in Block /\ v.at = L[<<t, i>>][1]
        /\ Room(v.capacity) = ClassSize(i)
    BY <1>8, <1>9, <2>1, <2>2
  <2>4. Owned(L, used) /\ Apart(L, used, brk) /\ brk \in Nat /\ i \in Classes /\ t \in Threads
    BY <1>3, <1>4, <1>5
  <2>5. L2 = FirstTaken(L, <<t, i>>)
    BY DEF L2
  <2>6. TookFirst(L, L2, used, brk, t, i, v)
    BY ONLY <2>3, <2>4, <2>5, TakeFirst
  <2> QED
    BY <2>1, <2>6 DEF TookFirst
<1>11. Linked(next, f) /\ First(f) = next[s[1]] /\ Len(f) = Len(s) - 1
  <2>1. 2 \in 1 .. Len(s) + 1 /\ Len(s) \in 0 .. Len(s) /\ 2 <= Len(s) + 1 /\ 1 + 1 = 2
    BY <1>8
  <2>2. \A k \in 2 .. Len(s) : k < Len(s) => next[s[k]] = s[k + 1]
    BY <1>7, <1>8 DEF Linked
  <2>3. 2 <= Len(s) => next[s[Len(s)]] = nullptr
    BY <1>7, <1>8 DEF Linked
  <2>4. Linked(next, f)
    BY <1>7, <2>1, <2>2, <2>3, SliceChained DEF f
  <2>5. First(f) = next[s[1]]
    BY <1>7, <1>8, <2>1, Following DEF f
  <2>6. IsSlice(f, s, 2, Len(s))
    BY <1>7, <2>1, Slice DEF f
  <2> QED
    BY <1>8, <2>4, <2>5, <2>6 DEF IsSlice
<1>12. \A l \in Lists : Linked(next, L2[l])
  BY <1>4, <1>10, <1>11 DEF LinksOf, SameBut
<1>0. SameBut(L, L2, {<<t, i>>, <<Shared, i>>})
  BY <1>10 DEF SameBut
<1>13. /\ used' = used \union {v}
       /\ next' \in MemoryType
       /\ LinksOf(L2)'
       /\ Owned(L2, used)'
  BY <1>5, <1>6, <1>8, <1>9, <1>10, <1>12, HandKeeps
<1>14. /\ HeadsOf(L2)'
       /\ freeList_' \in [Threads -> [Classes -> Cells \union {nullptr}]]
       /\ centralFreeList_' \in [Classes -> Cells \union {nullptr}]
  <2>1. centralFreeList_' = [centralFreeList_ EXCEPT ![i] = First(L2[<<Shared, i>>])]
    <3>1. L2[<<Shared, i>>] = L[<<Shared, i>>]
      BY <1>3, <1>10, ListNames DEF SameBut
    <3>2. First(L2[<<Shared, i>>]) = centralFreeList_[i]
      BY <1>3, <1>4, <3>1 DEF HeadsOf
    <3>3. centralFreeList_ \in [Classes -> Cells \union {nullptr}]
      BY <1>1 DEF TypeOK
    <3> QED
      BY <1>3, <1>6, <3>2, <3>3, SameRow
  <2>2. freeList_' = [freeList_ EXCEPT ![t][i] = First(L2[<<t, i>>])]
    BY <1>6, <1>8, <1>10, <1>11
  <2> QED
    BY <1>0, <1>1, <1>3, <1>4, <1>10, <2>1, <2>2, HeadsAfter
<1>15. /\ CountsOf(L2)'
       /\ freeListSize_' \in [Threads -> [Classes -> 0 .. SizeMod - 1]]
  <2> DEFINE n == (freeListSize_[t][i] - 1) % SizeMod
  <2>1. freeListSize_[t][i] \in Nat
    BY <1>1, <1>3, Positive DEF TypeOK
  <2>2. n \in 0 .. SizeMod - 1
    BY <2>1, Modulo
  <2>3. ClassSize(i) <= SpanSize => n = Len(f)
    <3>1. SUFFICES ASSUME ClassSize(i) <= SpanSize PROVE n = Len(f)
      OBVIOUS
    <3>2. freeListSize_[t][i] = Len(s)
      BY <1>3, <1>4, <3>1 DEF CountsOf, s
    <3>3. Len(s) - 1 \in Nat /\ Len(s) - 1 < SizeMod
      BY <1>7, <1>8, LengthFits, Positive
    <3> QED
      BY <1>11, <3>2, <3>3, Modulo
  <2> HIDE DEF n
  <2>4. freeListSize_' = [freeListSize_ EXCEPT ![t][i] = n]
    BY <1>6 DEF n
  <2> QED
    BY <1>0, <1>1, <1>3, <1>4, <1>10, <2>2, <2>3, <2>4, CountsAfter
<1>16. SavedBy(L2)'
  BY <1>3, <1>4, <1>6, <1>9, <1>10, <1>13, SavedAfter
<1>17. TypeOK' /\ Aligned(brk)'
  <2>1. \A b \in used' : b.at \in Cells /\ b.capacity \in Capacities
    BY <1>9, <1>13, <1>1 DEF TypeOK, Block
  <2> QED
    BY <1>1, <1>6, <1>13, <1>14, <1>15, <2>1 DEF TypeOK, MemoryType
<1>18. Apart(L2, used', brk')
  BY <1>6, <1>10, <1>13
<1> QED
  BY <1>13, <1>14, <1>15, <1>16, <1>17, <1>18 DEF PoolInv, Describes

\* In mem the batch of m blocks of s ends, and so does the rest; the first block
\* need not point to the second.
SplitIn(mem, s, m) ==
    /\ \A k \in 2 .. m : k < m => mem[s[k]] = s[k + 1]
    /\ 2 <= m => mem[s[m]] = nullptr
    /\ \A k \in m + 1 .. Len(s) : k < Len(s) => mem[s[k]] = s[k + 1]
    /\ m + 1 <= Len(s) => mem[s[Len(s)]] = nullptr

FetchDone(L1, L2, b, t, i, m, v) ==
    /\ TookBatch(L1, L2, used, b, t, i, m, v)
    /\ used' = used \union {v}
    /\ next' \in MemoryType
    /\ LinksOf(L2)'
    /\ HeadsOf(L2)'
    /\ freeList_' \in [Threads -> [Classes -> Cells \union {nullptr}]]
    /\ centralFreeList_' \in [Classes -> Cells \union {nullptr}]
    /\ CountsOf(L2)'
    /\ freeListSize_' \in [Threads -> [Classes -> 0 .. SizeMod - 1]]
    /\ \A u \in used' : u.at \in Cells /\ u.capacity \in Capacities

\* fetchFromCentralCache, from lists L1 whose shared list of the class has just
\* been filled, or which are the ones before the step.
LEMMA FetchKeeps ==
    ASSUME TypeOK, NEW L, HeadsOf(L), CountsOf(L),
           NEW t \in Threads, NEW capacity \in Capacities, capacity <= MAXBYTE,
           NEW i, i = getIndex(capacity), freeList_[t][i] = nullptr,
           NEW L1, SameBut(L, L1, {<<Shared, i>>}),
           NEW b \in Nat, Owned(L1, used), Apart(L1, used, b),
           NEW s, s = L1[<<Shared, i>>], NEW m \in 1 .. Len(s),
           BatchNum[i] = 1 => m = 1,
           NEW mem \in MemoryType, SplitIn(mem, s, m),
           \A l \in Lists \ {<<Shared, i>>} : Linked(mem, L1[l]),
           BatchNum[i] > 1 => mem[s[1]] = IF 2 <= m THEN s[2] ELSE nullptr,
           Fetched(t, i, capacity, s[1], m, mem),
           centralFreeList_' = [centralFreeList_ EXCEPT ![i] =
                                   IF m < Len(s) THEN s[m + 1] ELSE nullptr],
           NEW v, v = [at |-> s[1], capacity |-> capacity],
           NEW L2, L2 = BatchTaken(L1, <<Shared, i>>, <<t, i>>, m)
    PROVE  FetchDone(L1, L2, b, t, i, m, v)
<1> DEFINE f == SubSeq(s, 2, m)
<1> DEFINE c == SubSeq(s, m + 1, Len(s))
<1>1. /\ i \in Classes /\ Room(capacity) = ClassSize(i) /\ BatchNum[i] \in Nat \ {0}
  BY Types, BatchAssumption
<1>2. /\ <<t, i>> \in Lists /\ <<Shared, i>> \in Lists /\ <<t, i>> # <<Shared, i>>
      /\ s \in Seq(Cells) /\ Distinct(s) /\ Len(s) \in Nat /\ s # <<>>
  BY <1>1, ListNames, FirstOf DEF Owned
<1>3. IsBatch(s, m, f, c)
  BY <1>2, Batch
<1>4. v \in Block /\ v.at = s[1] /\ v.capacity = capacity
  BY <1>3 DEF Block, IsBatch
<1>5. L[<<t, i>>] = <<>> /\ L1[<<t, i>>] = <<>>
  <2>1. L1[<<t, i>>] = L[<<t, i>>] /\ L1[<<t, i>>] \in Seq(Cells)
    BY <1>2 DEF SameBut, Owned
  <2>2. First(L[<<t, i>>]) = nullptr
    BY <1>1 DEF HeadsOf
  <2> QED
    BY <2>1, <2>2, FirstOf
<1>6. TookBatch(L1, L2, used, b, t, i, m, v)
  <2>1. /\ m \in 1 .. Len(L1[<<Shared, i>>]) /\ v.at = L1[<<Shared, i>>][1]
        /\ v \in Block /\ Room(v.capacity) = ClassSize(i)
    BY <1>1, <1>4
  <2>2. /\ Owned(L1, used) /\ Apart(L1, used, b) /\ b \in Nat /\ i \in Classes
        /\ t \in Threads /\ L1[<<t, i>>] = <<>>
    BY <1>1, <1>5
  <2>3. L2 = BatchTaken(L1, <<Shared, i>>, <<t, i>>, m)
    OBVIOUS
  <2> QED
    BY ONLY <2>1, <2>2, <2>3, TakeBatch
<1>7. /\ L2 \in [Lists -> Seq(Cells)]
      /\ L2[<<t, i>>] = f /\ L2[<<Shared, i>>] = c
      /\ SameBut(L1, L2, {<<t, i>>, <<Shared, i>>})
      /\ SameBut(L, L2, {<<t, i>>, <<Shared, i>>})
      /\ Owned(L2, used \union {v}) /\ Apart(L2, used \union {v}, b)
  BY <1>6 DEF TookBatch, SameBut
<1>8. Linked(mem, f) /\ Linked(mem, c)
  <2>1. /\ 2 \in 1 .. Len(s) + 1 /\ m \in 0 .. Len(s) /\ 2 <= m + 1
        /\ m + 1 \in 1 .. Len(s) + 1 /\ Len(s) \in 0 .. Len(s) /\ m + 1 <= Len(s) + 1
    BY <1>2
  <2>2. /\ \A k \in 2 .. m : k < m => mem[s[k]] = s[k + 1]
        /\ 2 <= m => mem[s[m]] = nullptr
        /\ \A k \in m + 1 .. Len(s) : k < Len(s) => mem[s[k]] = s[k + 1]
        /\ m + 1 <= Len(s) => mem[s[Len(s)]] = nullptr
    BY DEF SplitIn
  <2>3. Linked(mem, f)
    BY <1>2, <2>1, <2>2, SliceChained
  <2>4. Linked(mem, c)
    BY <1>2, <2>1, <2>2, SliceChained
  <2> QED
    BY <2>3, <2>4
<1>9. \A l \in Lists : Linked(mem, L2[l])
  <2>1. \A l \in Lists \ {<<t, i>>, <<Shared, i>>} : Linked(mem, L2[l])
    BY <1>7 DEF SameBut
  <2> HIDE DEF f, c
  <2> QED
    BY <1>7, <1>8, <2>1
<1>10. Hand(v.at, v.capacity, mem)
  BY <1>4 DEF Fetched
<1>11. /\ used' = used \union {v}
       /\ next' \in MemoryType
       /\ LinksOf(L2)'
  BY <1>4, <1>7, <1>9, <1>10, HandKeeps
<1>12. First(f) = (IF 2 <= m THEN s[2] ELSE nullptr) /\ Len(f) = m - 1
       /\ First(c) = IF m < Len(s) THEN s[m + 1] ELSE nullptr
  BY <1>3 DEF IsBatch
<1> HIDE DEF f, c
<1>13. /\ HeadsOf(L2)'
       /\ freeList_' \in [Threads -> [Classes -> Cells \union {nullptr}]]
       /\ centralFreeList_' \in [Classes -> Cells \union {nullptr}]
  <2>1. centralFreeList_' = [centralFreeList_ EXCEPT ![i] = First(L2[<<Shared, i>>])]
    BY <1>7, <1>12
  <2>2. freeList_' = [freeList_ EXCEPT ![t][i] = First(L2[<<t, i>>])]
    <3>1. CASE BatchNum[i] > 1
      BY <1>7, <1>12, <3>1 DEF Fetched
    <3>2. CASE ~ (BatchNum[i] > 1)
      <4>1. m = 1 /\ freeList_' = freeList_
        BY <1>1, <3>2 DEF Fetched
      <4>2. First(f) = freeList_[t][i]
        BY <1>12, <4>1
      <4>3. freeList_ \in [Threads -> [Classes -> Cells \union {nullptr}]]
        BY DEF TypeOK
      <4>4. [freeList_ EXCEPT ![t][i] = freeList_[t][i]] = freeList_
        BY <1>1, <4>3, SameTable
      <4> QED
        BY <1>7, <4>1, <4>2, <4>4
    <3> QED
      BY <3>1, <3>2
  <2> QED
    BY <1>1, <1>7, <2>1, <2>2, HeadsAfter
<1>14. /\ CountsOf(L2)'
       /\ freeListSize_' \in [Threads -> [Classes -> 0 .. SizeMod - 1]]
  <2> DEFINE n == (freeListSize_[t][i] + (m - 1)) % SizeMod
  <2>1. freeListSize_[t][i] \in Nat /\ m - 1 \in Nat
    BY <1>1, Positive DEF TypeOK
  <2>2. n \in 0 .. SizeMod - 1
    <3>1. freeListSize_[t][i] + (m - 1) \in Int
      BY <2>1
    <3> QED
      BY <3>1, Modulo
  <2>3. ClassSize(i) <= SpanSize => n = Len(f)
    <3>1. SUFFICES ASSUME ClassSize(i) <= SpanSize PROVE n = Len(f)
      OBVIOUS
    <3>2. freeListSize_[t][i] = 0
      BY <1>1, <1>5, <3>1, EmptyBlocks DEF CountsOf
    <3>3. m - 1 < SizeMod
      BY <1>2, LengthFits, Positive
    <3>4. freeListSize_[t][i] + (m - 1) = m - 1
      BY <2>1, <3>2
    <3>5. (m - 1) % SizeMod = m - 1
      BY <2>1, <3>3, Modulo
    <3> QED
      BY <1>12, <3>4, <3>5
  <2> HIDE DEF n
  <2>4. freeListSize_' = [freeListSize_ EXCEPT ![t][i] = n]
    BY DEF n, Fetched, Cached
  <2> QED
    BY <1>1, <1>7, <2>2, <2>3, <2>4, CountsAfter
<1>15. \A u \in used' : u.at \in Cells /\ u.capacity \in Capacities
  BY <1>4, <1>11 DEF TypeOK, Block
<1> QED
  BY <1>6, <1>11, <1>13, <1>14, <1>15 DEF FetchDone


Ended(mem, mem2, s, m) ==
    /\ mem2 \in MemoryType
    /\ SplitIn(mem2, s, m)
    /\ mem2[s[1]] = IF 2 <= m THEN s[2] ELSE nullptr
    /\ mem[s[m]] = IF m < Len(s) THEN s[m + 1] ELSE nullptr
    /\ \A a \in Cells : a # s[m] => mem2[a] = mem[a]

\* Ending a list after m blocks splits it.
LEMMA Ending ==
    ASSUME NEW mem \in MemoryType, NEW s \in Seq(Cells), Distinct(s), Linked(mem, s),
           NEW m \in 1 .. Len(s), NEW mem2, mem2 = [mem EXCEPT ![s[m]] = nullptr]
    PROVE  Ended(mem, mem2, s, m)
<1>1. Len(s) \in Nat /\ \A k \in 1 .. Len(s) : s[k] \in Cells
  BY BlocksAreCells
<1>2. \A k \in 1 .. Len(s) : mem[s[k]] = IF k < Len(s) THEN s[k + 1] ELSE nullptr
  BY DEF Linked
<1>3. s[m] \in Cells
  BY <1>1
<1>4. mem2 \in MemoryType /\ mem2[s[m]] = nullptr /\ \A a \in Cells : a # s[m] => mem2[a] = mem[a]
  BY <1>3 DEF MemoryType
<1>5. \A k \in 1 .. Len(s) : k # m => mem2[s[k]] = IF k < Len(s) THEN s[k + 1] ELSE nullptr
  <2>1. \A k \in 1 .. Len(s) : k # m => s[k] # s[m]
    BY DEF Distinct
  <2> QED
    BY <1>1, <1>2, <1>4, <2>1
<1>6. SplitIn(mem2, s, m)
  <2>1. \A k \in 2 .. m : k < m => mem2[s[k]] = s[k + 1]
    BY <1>1, <1>5
  <2>2. \A k \in m + 1 .. Len(s) : k < Len(s) => mem2[s[k]] = s[k + 1]
    BY <1>1, <1>5
  <2>3. m + 1 <= Len(s) => mem2[s[Len(s)]] = nullptr
    BY <1>1, <1>5
  <2> QED
    BY <1>4, <2>1, <2>2, <2>3 DEF SplitIn
<1>7. mem2[s[1]] = IF 2 <= m THEN s[2] ELSE nullptr
  <2>1. CASE m = 1
    BY <1>4, <2>1
  <2>2. CASE m # 1
    <3>1. 1 \in 1 .. Len(s) /\ 1 # m /\ 1 < Len(s) /\ 2 <= m /\ 1 + 1 = 2
      BY <1>1, <2>2
    <3> QED
      BY <1>5, <3>1
  <2> QED
    BY <2>1, <2>2
<1> QED
  BY <1>2, <1>4, <1>6, <1>7 DEF Ended

LEMMA CentralKeeps ==
    ASSUME PoolInv, NEW t \in Threads, NEW capacity \in Capacities, allocate_central(t, capacity)
    PROVE  PoolInv'
<1>1. TypeOK /\ Aligned(brk)
  BY DEF PoolInv
<1>2. PICK L : Describes(L)
  BY DEF PoolInv
<1> DEFINE i == getIndex(capacity)
<1> DEFINE lc == <<Shared, i>>
<1> DEFINE s == L[lc]
<1> DEFINE m == Least(BatchNum[i], Len(s))
<1> DEFINE mem == [next EXCEPT ![s[m]] = nullptr]
<1> DEFINE L2 == BatchTaken(L, lc, <<t, i>>, m)
<1> DEFINE v == [at |-> s[1], capacity |-> capacity]
<1>3. i \in Classes /\ capacity <= MAXBYTE /\ ~ (capacity > MAXBYTE)
  <2>1. capacity <= MAXBYTE /\ capacity \in Nat /\ MAXBYTE \in Nat
    BY Types, Positive DEF allocate_central
  <2> QED
    BY <2>1, Types
<1>4. /\ Owned(L, used) /\ Apart(L, used, brk) /\ LinksOf(L)
      /\ HeadsOf(L) /\ CountsOf(L) /\ SavedBy(L)
  BY <1>2 DEF Describes
<1>5. next \in MemoryType /\ brk \in Nat
  BY <1>1, <1>2, InvFacts
<1>6. /\ lc \in Lists /\ s \in Seq(Cells) /\ Distinct(s) /\ Linked(next, s)
      /\ centralFreeList_[i] = First(s)
  BY <1>1, <1>2, <1>3, <1>4, ListNames, InvFacts DEF HeadsOf
<1>7. List(next, centralFreeList_[i]) = s
  BY <1>6, ListOf
<1>8. /\ freeList_[t][i] = nullptr
      /\ centralFreeList_[i] # nullptr
      /\ centralFreeList_' = [centralFreeList_ EXCEPT ![i] = next[s[m]]]
      /\ Fetched(t, i, capacity, s[1], m, mem)
      /\ brk' = brk /\ cut' = cut /\ short' = short
  <2> HIDE DEF s
  <2> QED
    BY <1>7 DEF allocate_central
<1>9. BatchNum[i] \in Nat \ {0} /\ s # <<>> /\ Len(s) \in Nat \ {0}
  BY <1>3, <1>6, <1>8, FirstOf, BatchAssumption
<1>10. m \in 1 .. Len(s) /\ (BatchNum[i] = 1 => m = 1)
  <2> DEFINE p == BatchNum[i]
  <2> DEFINE q == Len(s)
  <2>1. p \in Nat \ {0} /\ q \in Nat \ {0} /\ m = Least(p, q)
    BY <1>9
  <2> HIDE DEF p, q, m
  <2>2. m \in 1 .. q /\ (p = 1 => m = 1)
    BY <2>1 DEF Least
  <2> QED
    BY <2>2 DEF p, q
<1> HIDE DEF i, lc, s, m, mem, L2, v
<1>11. /\ mem \in MemoryType
       /\ SplitIn(mem, s, m)
       /\ mem[s[1]] = (IF 2 <= m THEN s[2] ELSE nullptr)
       /\ next[s[m]] = (IF m < Len(s) THEN s[m + 1] ELSE nullptr)
       /\ \A a \in Cells : a # s[m] => mem[a] = next[a]
  <2>1. mem = [next EXCEPT ![s[m]] = nullptr]
    BY DEF mem
  <2>2. Ended(next, mem, s, m)
    BY <1>5, <1>6, <1>10, <2>1, Ending
  <2> QED
    BY <2>2 DEF Ended
<1>12. \A l \in Lists \ {lc} : Linked(mem, L[l])
  <2> SUFFICES ASSUME NEW l \in Lists \ {lc} PROVE Linked(mem, L[l])
    OBVIOUS
  <2>1. L[l] \in Seq(Cells) /\ Linked(next, L[l])
    BY <1>1, <1>2, InvFacts
  <2>2. s[m] \in BlocksOf(s) /\ s = L[lc]
    BY <1>6, <1>10, BlocksAreCells DEF s
  <2>3. s[m] \notin BlocksOf(L[l])
    BY <1>4, <1>6, <2>2 DEF Owned
  <2>4. \A a \in BlocksOf(L[l]) : mem[a] = next[a]
    BY <1>11, <2>1, <2>3, BlocksAreCells
  <2> QED
    BY <2>1, <2>4, LinksFrame
<1>13. FetchDone(L, L2, brk, t, i, m, v)
  <2>1. i = getIndex(capacity) /\ s = L[<<Shared, i>>] /\ lc = <<Shared, i>>
    BY DEF i, s, lc
  <2>2. SameBut(L, L, {<<Shared, i>>})
    BY DEF SameBut
  <2>3. v = [at |-> s[1], capacity |-> capacity]
    BY DEF v
  <2>4. L2 = BatchTaken(L, <<Shared, i>>, <<t, i>>, m)
    BY <2>1 DEF L2
  <2>5. centralFreeList_' = [centralFreeList_ EXCEPT ![i] =
                                  IF m < Len(s) THEN s[m + 1] ELSE nullptr]
    BY <1>8, <1>11
  <2> QED
    BY ONLY <1>1, <1>3, <1>4, <1>5, <1>8, <1>10, <1>11, <1>12, <2>1, <2>2, <2>3, <2>4, <2>5,
       FetchKeeps
<1>14. /\ used' = used \union {v}
       /\ next' \in MemoryType
       /\ LinksOf(L2)' /\ HeadsOf(L2)' /\ CountsOf(L2)'
       /\ freeList_' \in [Threads -> [Classes -> Cells \union {nullptr}]]
       /\ centralFreeList_' \in [Classes -> Cells \union {nullptr}]
       /\ freeListSize_' \in [Threads -> [Classes -> 0 .. SizeMod - 1]]
       /\ \A u \in used' : u.at \in Cells /\ u.capacity \in Capacities
  BY <1>13 DEF FetchDone
<1>15. /\ Owned(L2, used \union {v}) /\ Apart(L2, used \union {v}, brk)
       /\ KeepsAllBut(L, L2, v.at)
  BY <1>13 DEF FetchDone, TookBatch
<1>16. SavedBy(L2)'
  <2>1. ~ (v.capacity > MAXBYTE)
    BY <1>3 DEF v
  <2> QED
    BY <1>4, <1>8, <1>14, <1>15, <2>1, SavedAfter
<1>17. TypeOK' /\ Aligned(brk)'
  BY <1>1, <1>8, <1>14 DEF TypeOK, MemoryType
<1>18. Owned(L2, used)' /\ Apart(L2, used, brk)'
  <2>1. Owned(L2, used') /\ Apart(L2, used', brk')
    BY <1>8, <1>14, <1>15
  <2> QED
    BY <2>1
<1> QED
  BY <1>14, <1>16, <1>17, <1>18 DEF PoolInv, Describes

\* Everything somebody owns lies below b.
LEMMA Below ==
    ASSUME NEW L, NEW U, NEW b \in Nat, Owned(L, U), Apart(L, U, b)
    PROVE  /\ \A l \in Lists : \A a \in BlocksOf(L[l]) : a < b
           /\ \A u \in U : u.at < b
<1>1. ASSUME NEW a, NEW n, Claimed(L, U, a, n)
      PROVE  a < b
  <2>1. a \in Cells /\ a \in Nat /\ n \in Nat \ {0}
    BY <1>1, ClaimSizes
  <2>2. a + n <= b
    BY <1>1, <2>1 DEF Apart
  <2> QED
    BY <2>1, <2>2
<1>2. \A l \in Lists : \A a \in BlocksOf(L[l]) : a < b
  BY <1>1, ListClaims
<1>3. \A u \in U : u.at < b
  <2> SUFFICES ASSUME NEW u \in U PROVE u.at < b
    OBVIOUS
  <2>1. Claimed(L, U, u.at, Room(u.capacity))
    BY DEF Claimed
  <2> QED
    BY <1>1, <2>1
<1> QED
  BY <1>2, <1>3

WasCut(mem0, mem, f, k) ==
    /\ mem \in MemoryType
    /\ SplitIn(mem, f, k)
    /\ k > 1 => mem[f[1]] = f[2]
    /\ \A a \in Cells : a \notin BlocksOf(f) => mem[a] = mem0[a]

\* A span that is cut into a batch of k blocks and the rest of its n blocks.
LEMMA Cutting ==
    ASSUME NEW mem0 \in MemoryType, NEW start, Aligned(start),
           NEW size, Aligned(size), size > 0,
           NEW n \in Nat, NEW k \in 1 .. n, start + n * size <= Memory,
           NEW f, f = Fresh(start, n, size),
           NEW batch, batch = IF k > 1 THEN Chain(mem0, start, k, size) ELSE mem0,
           NEW rest, rest = start + k * size,
           NEW mem, mem = IF n > k THEN Chain(batch, rest, n - k, size) ELSE batch
    PROVE  WasCut(mem0, mem, f, k)
<1> DEFINE g == Fresh(start, k, size)
<1> DEFINE h == Fresh(rest, n - k, size)
<1>1. start \in Nat /\ size \in Nat \ {0} /\ k \in Nat \ {0} /\ k <= n
  BY DEF Aligned
<1>2. k * size \in Nat /\ Aligned(k * size) /\ Aligned(rest)
  BY <1>1, AlignedTimes, AlignedSum
<1>3. n - k \in Nat /\ rest + (n - k) * size = start + n * size
  <2>1. (n - k) * size = n * size - k * size
    BY <1>1
  <2> QED
    BY <1>1, <1>2, <2>1
<1>4. start + k * size <= start + n * size
  <2>1. n * size \in Nat /\ (n - k) * size \in Nat
    BY <1>1, <1>3
  <2> QED
    BY <1>1, <1>2, <1>3, <2>1
<1>5. IsFresh(f, start, n, size) /\ IsFresh(g, start, k, size) /\ IsFresh(h, rest, n - k, size)
  <2>1. start + k * size <= Memory /\ rest + (n - k) * size <= Memory
    <3>1. Memory \in Nat /\ n * size \in Nat
      BY <1>1, MemoryAssumption
    <3> QED
      BY <1>1, <1>2, <1>3, <1>4, <3>1
  <2>2. IsFresh(f, start, n, size)
    BY <1>1, FreshBlocks
  <2>3. IsFresh(g, start, k, size)
    BY <1>1, <2>1, FreshBlocks
  <2>4. IsFresh(h, rest, n - k, size)
    BY <1>1, <1>2, <1>3, <2>1, FreshBlocks
  <2> QED
    BY <2>2, <2>3, <2>4
<1> HIDE DEF g, h
<1>6. /\ Len(f) = n /\ Len(g) = k /\ Len(h) = n - k
      /\ \A j \in 1 .. n : f[j] = start + (j - 1) * size /\ f[j] \in Cells /\ f[j] \in BlocksOf(f)
      /\ \A j \in 1 .. k : g[j] = start + (j - 1) * size
      /\ \A j \in 1 .. n - k : h[j] = rest + (j - 1) * size
      /\ Distinct(f)
  BY <1>5, BlocksAreCells DEF IsFresh
<1>7. \A j \in 1 .. k : g[j] = f[j]
  BY <1>1, <1>6
<1>8. \A j \in k + 1 .. n : j - k \in 1 .. n - k /\ h[j - k] = f[j]
  <2> SUFFICES ASSUME NEW j \in k + 1 .. n
               PROVE  j - k \in 1 .. n - k /\ h[j - k] = f[j]
    OBVIOUS
  <2>1. j \in Nat /\ j - k \in 1 .. n - k /\ j \in 1 .. n
    BY <1>1
  <2>2. h[j - k] = rest + (j - k - 1) * size /\ f[j] = start + (j - 1) * size
    BY <1>6, <2>1
  <2>3. (j - 1) * size = k * size + (j - k - 1) * size
    BY <1>1, <2>1
  <2> QED
    BY <1>1, <1>2, <2>1, <2>2, <2>3
<1>9. /\ \A a : a \in BlocksOf(g) => \E j \in 1 .. k : a = f[j]
      /\ \A a : a \in BlocksOf(h) => \E j \in k + 1 .. n : a = f[j]
  <2>1. \A a : a \in BlocksOf(g) => \E j \in 1 .. k : a = f[j]
    BY <1>6, <1>7 DEF BlocksOf
  <2>2. ASSUME NEW a \in BlocksOf(h)
        PROVE  \E j \in k + 1 .. n : a = f[j]
    <3>1. PICK p \in 1 .. n - k : a = h[p]
      BY <1>6 DEF BlocksOf
    <3>2. p + k \in k + 1 .. n /\ (p + k) - k = p
      BY <1>1
    <3>3. h[(p + k) - k] = f[p + k]
      BY <1>8, <3>2
    <3> QED
      BY <3>1, <3>2, <3>3
  <2> QED
    BY <2>1, <2>2
<1>10. /\ batch \in MemoryType
       /\ \A a \in Cells : a \notin BlocksOf(g) => batch[a] = mem0[a]
       /\ k > 1 => \A j \in 1 .. k : batch[f[j]] = IF j < k THEN f[j + 1] ELSE nullptr
  <2>1. CASE k > 1
    <3>1. start + k * size <= Memory
      <4>1. Memory \in Nat /\ n * size \in Nat
        BY <1>1, MemoryAssumption
      <4> QED
        BY <1>1, <1>2, <1>4, <4>1
    <3>2. g = Fresh(start, k, size) /\ batch = Chain(mem0, start, k, size)
      BY <2>1 DEF g
    <3>3. /\ batch \in MemoryType
          /\ \A a \in Cells : a \notin BlocksOf(g) => batch[a] = mem0[a]
          /\ \A j \in 1 .. k : batch[g[j]] = IF j < k THEN g[j + 1] ELSE nullptr
      BY <1>1, <3>1, <3>2, Chaining
    <3>4. \A j \in 1 .. k : batch[f[j]] = IF j < k THEN f[j + 1] ELSE nullptr
      <4> SUFFICES ASSUME NEW j \in 1 .. k
                   PROVE  batch[f[j]] = IF j < k THEN f[j + 1] ELSE nullptr
        OBVIOUS
      <4>1. g[j] = f[j] /\ (j < k => j + 1 \in 1 .. k /\ g[j + 1] = f[j + 1])
        BY <1>1, <1>7
      <4> QED
        BY <3>3, <4>1
    <3> QED
      BY <3>3, <3>4
  <2>2. CASE ~ (k > 1)
    BY <2>2
  <2> QED
    BY <2>1, <2>2
<1>11. /\ mem \in MemoryType
       /\ \A a \in Cells : a \notin BlocksOf(h) => mem[a] = batch[a]
       /\ \A j \in k + 1 .. n : mem[f[j]] = IF j < n THEN f[j + 1] ELSE nullptr
  <2>1. CASE n > k
    <3>1. rest + (n - k) * size <= Memory
      BY <1>3
    <3>2. h = Fresh(rest, n - k, size) /\ mem = Chain(batch, rest, n - k, size)
      BY <2>1 DEF h
    <3>3. /\ mem \in MemoryType
          /\ \A a \in Cells : a \notin BlocksOf(h) => mem[a] = batch[a]
          /\ \A j \in 1 .. n - k : mem[h[j]] = IF j < n - k THEN h[j + 1] ELSE nullptr
      BY <1>1, <1>2, <1>3, <1>10, <3>1, <3>2, Chaining
    <3>4. \A j \in k + 1 .. n : mem[f[j]] = IF j < n THEN f[j + 1] ELSE nullptr
      <4> SUFFICES ASSUME NEW j \in k + 1 .. n
                   PROVE  mem[f[j]] = IF j < n THEN f[j + 1] ELSE nullptr
        OBVIOUS
      <4>1. j - k \in 1 .. n - k /\ h[j - k] = f[j]
        BY <1>8
      <4>2. j < n => j + 1 \in k + 1 .. n /\ (j + 1) - k = (j - k) + 1 /\ h[(j + 1) - k] = f[j + 1]
        BY <1>1, <1>8
      <4>3. j < n <=> j - k < n - k
        BY <1>1
      <4> QED
        BY <3>3, <4>1, <4>2, <4>3
    <3> QED
      BY <3>3, <3>4
  <2>2. CASE ~ (n > k)
    <3>1. mem = batch /\ n = k
      BY <1>1, <2>2
    <3> QED
      BY <1>1, <1>10, <3>1
  <2> QED
    BY <2>1, <2>2
<1>12. k > 1 => \A j \in 1 .. k : mem[f[j]] = IF j < k THEN f[j + 1] ELSE nullptr
  <2> SUFFICES ASSUME k > 1, NEW j \in 1 .. k
               PROVE  mem[f[j]] = IF j < k THEN f[j + 1] ELSE nullptr
    OBVIOUS
  <2>1. j \in 1 .. n
    BY <1>1
  <2>2. f[j] \notin BlocksOf(h)
    <3> SUFFICES ASSUME f[j] \in BlocksOf(h) PROVE FALSE
      OBVIOUS
    <3>1. PICK p \in k + 1 .. n : f[j] = f[p]
      BY <1>9
    <3>2. p \in 1 .. n /\ p # j
      BY <1>1
    <3> QED
      BY <1>6, <2>1, <3>1, <3>2 DEF Distinct
  <2> QED
    BY <1>6, <1>10, <1>11, <2>1, <2>2
<1>13. \A a \in Cells : a \notin BlocksOf(f) => mem[a] = mem0[a]
  <2> SUFFICES ASSUME NEW a \in Cells, a \notin BlocksOf(f) PROVE mem[a] = mem0[a]
    OBVIOUS
  <2>1. \A j \in 1 .. n : a # f[j]
    BY <1>6
  <2>2. a \notin BlocksOf(g) /\ a \notin BlocksOf(h)
    BY <1>1, <1>9, <2>1
  <2> QED
    BY <1>10, <1>11, <2>2
<1>14. SplitIn(mem, f, k)
  <2>1. /\ \A j \in 2 .. k : j < k => mem[f[j]] = f[j + 1]
        /\ 2 <= k => mem[f[k]] = nullptr
    BY <1>1, <1>12
  <2>2. /\ \A j \in k + 1 .. Len(f) : j < Len(f) => mem[f[j]] = f[j + 1]
        /\ k + 1 <= Len(f) => mem[f[Len(f)]] = nullptr
    BY <1>1, <1>6, <1>11
  <2> QED
    BY <2>1, <2>2 DEF SplitIn
<1>15. k > 1 => mem[f[1]] = f[2]
  <2> SUFFICES ASSUME k > 1 PROVE mem[f[1]] = f[2]
    OBVIOUS
  <2>1. 1 \in 1 .. k /\ 1 < k /\ 1 + 1 = 2
    BY <1>1
  <2> QED
    BY <1>12, <2>1
<1> QED
  BY <1>11, <1>13, <1>14, <1>15 DEF WasCut

\* The blocks B of a new span are somewhere, and the others still are.
LEMMA SpanSaved ==
    ASSUME NEW L, SavedBy(L), NEW L2, NEW v, NEW B, brk \in Nat, brk' \in Nat, brk <= brk',
           ~ (v.capacity > MAXBYTE),
           used' = used \union {v}, cut' = cut \union B, short' = short,
           B \subseteq Nat, \A a \in B : brk <= a /\ a < brk',
           cut \subseteq Nat, \A u \in used : u.at \in Nat /\ u.at < brk,
           \A a \in cut \union B : Somewhere(L, used, a) \/ a \in B => Somewhere(L2, used', a)
    PROVE  SavedBy(L2)'
<1>1. \A a \in cut' : a < brk'
  BY DEF SavedBy
<1>2. \A u \in used' : u.capacity > MAXBYTE => u.at \notin cut'
  <2> SUFFICES ASSUME NEW u \in used', u.capacity > MAXBYTE PROVE u.at \notin cut'
    OBVIOUS
  <2>1. u \in used /\ u.at \notin cut
    BY DEF SavedBy
  <2>2. u.at \notin B
    BY <2>1
  <2> QED
    BY <2>1, <2>2
<1>3. LosesNone => \A a \in cut' : Somewhere(L2, used', a)
  BY DEF SavedBy
<1>4. LosesNone' <=> LosesNone
  BY DEF LosesNone
<1> QED
  BY <1>1, <1>2, <1>3, <1>4 DEF SavedBy, Somewhere

\* What the step has to do with a span of at least one block.
LEMMA SpanRefills ==
    ASSUME TypeOK, Aligned(brk), NEW L, Describes(L),
           NEW t \in Threads, NEW capacity \in Capacities, allocate_span(t, capacity),
           SpanSize \div ClassSize(getIndex(capacity)) >= 1
    PROVE  PoolInv'
<1> DEFINE i == getIndex(capacity)
<1> DEFINE lc == <<Shared, i>>
<1> DEFINE size == ClassSize(i)
<1> DEFINE n == SpanSize \div size
<1> DEFINE m == Least(BatchNum[i], n)
<1> DEFINE rest == brk + m * size
<1> DEFINE batch == IF m > 1 THEN Chain(next, brk, m, size) ELSE next
<1> DEFINE mem == IF n > m THEN Chain(batch, rest, n - m, size) ELSE batch
<1> DEFINE B == {brk + k * size : k \in 0 .. Most(n, 1) - 1}
<1>0. PICK f : f = Fresh(brk, n, size)
  OBVIOUS
<1> DEFINE L1 == [L EXCEPT ![lc] = f]
<1> DEFINE L2 == BatchTaken(L1, lc, <<t, i>>, m)
<1> DEFINE v == [at |-> f[1], capacity |-> capacity]
<1>1. i \in Classes /\ capacity <= MAXBYTE /\ ~ (capacity > MAXBYTE)
  <2>1. capacity <= MAXBYTE /\ capacity \in Nat /\ MAXBYTE \in Nat
    BY Types, Positive DEF allocate_span
  <2> QED
    BY <2>1, Types
<1>2. /\ Owned(L, used) /\ Apart(L, used, brk) /\ LinksOf(L)
      /\ HeadsOf(L) /\ CountsOf(L) /\ SavedBy(L)
  BY DEF Describes
<1>3. next \in MemoryType /\ brk \in Nat
  BY InvFacts
<1>4. /\ freeList_[t][i] = nullptr
      /\ centralFreeList_[i] = nullptr
      /\ systemAlloc(SpanFor(size))
      /\ cut' = cut \union B
      /\ short' = short
      /\ IF n > m
         THEN /\ centralFreeList_' = [centralFreeList_ EXCEPT ![i] = rest]
              /\ Fetched(t, i, capacity, brk, m, Chain(batch, rest, n - m, size))
         ELSE /\ UNCHANGED centralFreeList_
              /\ Fetched(t, i, capacity, brk, m, batch)
  BY DEF allocate_span
<1>5. n >= 1
  OBVIOUS
<1> HIDE DEF i
<1>6. /\ n \in Nat \ {0} /\ n * size <= SpanSize /\ size <= SpanSize
      /\ BatchNum[i] \in Nat \ {0} /\ size \in Nat \ {0} /\ Aligned(size) /\ size > 0
  BY <1>1, <1>5, SpanBlocks, ClassSizes
<1> HIDE DEF size
<1> HIDE DEF n
<1>7. m \in 1 .. n /\ (BatchNum[i] = 1 => m = 1)
  <2> DEFINE p == BatchNum[i]
  <2>1. p \in Nat \ {0} /\ m = Least(p, n)
    BY <1>6
  <2> HIDE DEF p, m
  <2>2. m \in 1 .. n /\ (p = 1 => m = 1)
    BY <1>6, <2>1 DEF Least
  <2> QED
    BY <2>2 DEF p
<1>8. BatchNum[i] > 1 => m > 1
  <2>1. BatchNum[i] > 1 => BatchNum[i] <= n
    BY <1>1, SpanBlocks DEF n, size
  <2> DEFINE p == BatchNum[i]
  <2>2. p \in Nat \ {0} /\ m = Least(p, n) /\ (p > 1 => p <= n)
    BY <1>6, <2>1
  <2> HIDE DEF p, m
  <2>3. p > 1 => m > 1
    BY <1>6, <2>2 DEF Least
  <2> QED
    BY <2>3 DEF p
<1> HIDE DEF m, rest, batch, mem, B, L1, L2, v, lc
<1>9. /\ brk' = brk + SpanSize /\ brk' \in Nat /\ brk' <= Memory /\ brk + n * size <= brk'
      /\ brk + n * size <= Memory /\ brk <= brk' /\ Aligned(brk') /\ n * size \in Nat
  <2>1. SpanSize \in Nat \ {0} /\ Aligned(SpanSize) /\ Memory \in Nat
    BY Spans, MemoryAssumption
  <2>2. n * size \in Nat
    BY <1>6
  <2>3. brk' = brk + SpanSize /\ brk + SpanSize <= Memory
    BY <1>4, <1>6 DEF systemAlloc, SpanFor
  <2>4. Aligned(brk + SpanSize)
    BY <2>1, AlignedSum
  <2> QED
    BY <1>3, <1>6, <2>1, <2>2, <2>3, <2>4
<1>10. IsFresh(f, brk, n, size)
  BY <1>0, <1>6, <1>9, FreshBlocks
<1>11. /\ f \in Seq(Cells) /\ Len(f) = n /\ Distinct(f)
       /\ f[1] = brk
       /\ m < n => f[m + 1] = rest
       /\ BlocksOf(f) = B
       /\ \A a \in BlocksOf(f) : a \in Nat /\ brk <= a /\ a + size <= brk' /\ a < brk'
       /\ \A a, x \in BlocksOf(f) : a < x => a + size <= x
  <2>1. f \in Seq(Cells) /\ Len(f) = n /\ Distinct(f)
    BY <1>10 DEF IsFresh
  <2>2. f[1] = brk
    <3>1. 1 \in 1 .. n /\ f[1] = brk + (1 - 1) * size
      BY <1>6, <1>10 DEF IsFresh
    <3>2. (1 - 1) * size = 0
      BY <1>6
    <3> QED
      BY <1>3, <3>1, <3>2
  <2>3. m < n => f[m + 1] = rest
    <3> SUFFICES ASSUME m < n PROVE f[m + 1] = rest
      OBVIOUS
    <3>1. m + 1 \in 1 .. n /\ (m + 1) - 1 = m
      BY <1>6, <1>7
    <3>2. f[m + 1] = brk + ((m + 1) - 1) * size
      BY <1>10, <3>1 DEF IsFresh
    <3> QED
      BY <3>1, <3>2 DEF rest
  <2>4. BlocksOf(f) = B
    <3>1. Most(n, 1) = n
      BY <1>6 DEF Most
    <3> QED
      BY <1>10, <3>1 DEF IsFresh, B
  <2>5. ASSUME NEW a \in BlocksOf(f)
        PROVE  a \in Nat /\ brk <= a /\ a + size <= brk' /\ a < brk'
    <3>1. PICK k \in 1 .. n : a = f[k]
      BY <2>1 DEF BlocksOf
    <3>2. brk <= a /\ a + size <= brk + n * size
      BY <1>10, <3>1 DEF IsFresh
    <3>3. a \in Nat
      BY <2>1, BlocksAreCells, CellsAre
    <3> QED
      BY <1>3, <1>6, <1>9, <3>2, <3>3
  <2>6. \A a, x \in BlocksOf(f) : a < x => a + size <= x
    BY <1>10 DEF IsFresh
  <2> QED
    BY <2>1, <2>2, <2>3, <2>4, <2>5, <2>6
<1>12. WasCut(next, mem, f, m)
  <2>1. /\ batch = IF m > 1 THEN Chain(next, brk, m, size) ELSE next
        /\ rest = brk + m * size
        /\ mem = IF n > m THEN Chain(batch, rest, n - m, size) ELSE batch
        /\ f = Fresh(brk, n, size)
    BY <1>0 DEF batch, rest, mem
  <2>2. n \in Nat /\ brk + n * size <= Memory /\ Aligned(size) /\ size > 0
    BY <1>6, <1>9
  <2> QED
    BY ONLY Aligned(brk), <1>3, <1>7, <2>1, <2>2, Cutting
<1>13. /\ mem \in MemoryType /\ SplitIn(mem, f, m)
       /\ m > 1 => mem[f[1]] = f[2]
       /\ \A a \in Cells : a \notin BlocksOf(f) => mem[a] = next[a]
  BY <1>12 DEF WasCut
<1>14. lc \in Lists /\ lc[2] = i /\ L[lc] = <<>> /\ L \in [Lists -> Seq(Cells)]
  <2>1. lc \in Lists /\ lc[2] = i /\ L \in [Lists -> Seq(Cells)]
    BY <1>1, <1>2, ListNames DEF lc, Owned
  <2>2. First(L[lc]) = nullptr
    BY <1>1, <1>2, <1>4 DEF HeadsOf, lc
  <2> QED
    BY <2>1, <2>2, FirstOf
<1>15. Owned(L1, used) /\ Apart(L1, used, brk')
  <2>1. /\ \A a \in BlocksOf(f) : brk <= a /\ a + ClassSize(i) <= brk'
        /\ \A a, x \in BlocksOf(f) : a < x => a + ClassSize(i) <= x
    BY <1>11 DEF size
  <2>2. f \in Seq(Cells) /\ Distinct(f) /\ brk' \in Nat /\ brk <= brk'
    BY <1>9, <1>11
  <2>3. L1 = [L EXCEPT ![lc] = f]
    BY DEF L1
  <2> QED
    BY <1>1, <1>2, <1>3, <1>14, <2>1, <2>2, <2>3, Refilling
<1>16. SameBut(L, L1, {lc}) /\ L1[lc] = f
  BY <1>14 DEF SameBut, L1
<1>17. \A l \in Lists \ {lc} : Linked(mem, L1[l])
  <2> SUFFICES ASSUME NEW l \in Lists \ {lc} PROVE Linked(mem, L1[l])
    OBVIOUS
  <2>1. L1[l] = L[l] /\ L[l] \in Seq(Cells) /\ Linked(next, L[l])
    BY <1>14, <1>16, <1>2 DEF SameBut, LinksOf
  <2>2. \A a \in BlocksOf(L[l]) : a \in Cells /\ a \in Nat /\ a < brk
    BY <1>2, <1>3, <2>1, Below, BlocksAreCells, CellsAre
  <2>3. \A a \in BlocksOf(L[l]) : mem[a] = next[a]
    BY <1>3, <1>11, <1>13, <2>2
  <2> QED
    BY <2>1, <2>3, LinksFrame
<1>18. /\ Fetched(t, i, capacity, f[1], m, mem)
       /\ centralFreeList_' = [centralFreeList_ EXCEPT ![i] =
                                  IF m < Len(f) THEN f[m + 1] ELSE nullptr]
  <2>1. CASE n > m
    BY <1>4, <1>6, <1>7, <1>11, <2>1 DEF mem
  <2>2. CASE ~ (n > m)
    <3>1. centralFreeList_' = centralFreeList_ /\ Fetched(t, i, capacity, brk, m, mem)
      BY <1>4, <2>2 DEF mem
    <3>2. centralFreeList_ \in [Classes -> Cells \union {nullptr}]
      BY DEF TypeOK
    <3>3. [centralFreeList_ EXCEPT ![i] = centralFreeList_[i]] = centralFreeList_
      BY <1>1, <3>2, SameRow
    <3>4. ~ (m < Len(f))
      BY <1>6, <1>7, <1>11, <2>2
    <3> QED
      BY <1>4, <1>11, <3>1, <3>3, <3>4
  <2> QED
    BY <2>1, <2>2
<1>19. FetchDone(L1, L2, brk', t, i, m, v)
  <2>1. i = getIndex(capacity) /\ f = L1[<<Shared, i>>] /\ lc = <<Shared, i>>
    BY <1>16 DEF i, lc
  <2>2. SameBut(L, L1, {<<Shared, i>>}) /\ \A l \in Lists \ {<<Shared, i>>} : Linked(mem, L1[l])
    BY <1>16, <1>17, <2>1
  <2>3. v = [at |-> f[1], capacity |-> capacity] /\ brk' \in Nat
    BY <1>9 DEF v
  <2>4. L2 = BatchTaken(L1, <<Shared, i>>, <<t, i>>, m)
    BY <2>1 DEF L2
  <2>5. m \in 1 .. Len(f)
    BY <1>7, <1>11
  <2>6. BatchNum[i] > 1 => mem[f[1]] = IF 2 <= m THEN f[2] ELSE nullptr
    BY <1>7, <1>8, <1>13
  <2>7. mem \in MemoryType /\ SplitIn(mem, f, m) /\ freeList_[t][i] = nullptr
    BY <1>4, <1>13
  <2>8. BatchNum[i] = 1 => m = 1
    BY <1>7
  <2> QED
    BY ONLY TypeOK, <1>1, <1>2, <1>15, <1>18, <2>1, <2>2, <2>3, <2>4, <2>5, <2>6, <2>7, <2>8,
       t \in Threads, capacity \in Capacities, FetchKeeps
<1>20. /\ used' = used \union {v}
       /\ next' \in MemoryType
       /\ LinksOf(L2)' /\ HeadsOf(L2)' /\ CountsOf(L2)'
       /\ freeList_' \in [Threads -> [Classes -> Cells \union {nullptr}]]
       /\ centralFreeList_' \in [Classes -> Cells \union {nullptr}]
       /\ freeListSize_' \in [Threads -> [Classes -> 0 .. SizeMod - 1]]
       /\ \A u \in used' : u.at \in Cells /\ u.capacity \in Capacities
  BY <1>19 DEF FetchDone
<1>21. /\ Owned(L2, used \union {v}) /\ Apart(L2, used \union {v}, brk')
       /\ KeepsAllBut(L1, L2, v.at)
  BY <1>19 DEF FetchDone, TookBatch
<1>22. B \subseteq Cells /\ B \subseteq Nat
  BY <1>11, BlocksAreCells, CellsAre
<1>23. SavedBy(L2)'
  <2>1. ~ (v.capacity > MAXBYTE)
    BY <1>1 DEF v
  <2>2. \A a \in B : brk <= a /\ a < brk'
    BY <1>11
  <2>3. cut \subseteq Nat /\ \A u \in used : u.at \in Nat /\ u.at < brk
    BY <1>2, <1>3, Below, CellsAre DEF TypeOK
  <2>4. ASSUME NEW a, Somewhere(L, used, a) \/ a \in B
        PROVE  Somewhere(L2, used', a)
    <3>1. CASE a \in B
      <4>1. a \in BlocksOf(L1[lc])
        BY <1>11, <1>16, <3>1
      <4>2. a = v.at \/ \E k \in Lists : a \in BlocksOf(L2[k])
        BY <1>14, <1>21, <4>1 DEF KeepsAllBut
      <4> QED
        BY <1>20, <4>2 DEF Somewhere
    <3>2. CASE \E u \in used : a = u.at
      BY <1>20, <3>2 DEF Somewhere
    <3>3. CASE \E l \in Lists : a \in BlocksOf(L[l])
      <4>1. PICK l \in Lists : a \in BlocksOf(L[l])
        BY <3>3
      <4>2. l # lc
        BY <1>14, <4>1, EmptyBlocks
      <4>3. a \in BlocksOf(L1[l])
        BY <1>16, <4>1, <4>2 DEF SameBut
      <4>4. a = v.at \/ \E k \in Lists : a \in BlocksOf(L2[k])
        BY <1>21, <4>3 DEF KeepsAllBut
      <4> QED
        BY <1>20, <4>4 DEF Somewhere
    <3> QED
      BY <2>4, <3>1, <3>2, <3>3 DEF Somewhere
  <2>5. cut' = cut \union B /\ short' = short /\ B \subseteq Nat /\ brk' \in Nat /\ brk <= brk'
    BY <1>4, <1>9, <1>22
  <2> QED
    BY <1>2, <1>3, <1>20, <2>1, <2>2, <2>3, <2>4, <2>5, SpanSaved
<1>24. TypeOK' /\ Aligned(brk)'
  <2>1. Aligned(brk)' /\ brk' \in 0 .. Memory
    BY <1>9, MemoryAssumption DEF Aligned
  <2>2. cut' \subseteq Cells /\ short' \in BOOLEAN
    BY <1>4, <1>22 DEF TypeOK
  <2> QED
    BY <1>20, <2>1, <2>2 DEF TypeOK, MemoryType
<1>25. Owned(L2, used)' /\ Apart(L2, used, brk)'
  BY <1>20, <1>21
<1> QED
  BY <1>20, <1>23, <1>24, <1>25 DEF PoolInv, Describes

GotFresh(L, v, capacity) ==
    /\ v \in Block /\ v.at = brk /\ v.capacity = capacity
    /\ used' = used \union {v}
    /\ next' \in MemoryType
    /\ LinksOf(L)'
    /\ Owned(L, used') /\ Apart(L, used', brk')
    /\ brk < brk' /\ brk' \in 0 .. Memory /\ Aligned(brk')
    /\ \A u \in used' : u.at \in Cells /\ u.capacity \in Capacities

\* A block straight from the system.
LEMMA FromSystem ==
    ASSUME TypeOK, Aligned(brk), NEW L, Describes(L),
           NEW capacity \in Capacities,
           NEW n, Aligned(n), n > 0, Room(capacity) <= n,
           systemAlloc(n), Hand(brk, capacity, next),
           NEW v, v = [at |-> brk, capacity |-> capacity]
    PROVE  GotFresh(L, v, capacity)
<1>1. /\ next \in MemoryType /\ brk \in Nat /\ n \in Nat \ {0} /\ Memory \in Nat
      /\ brk' = brk + n /\ brk + n <= Memory
  BY InvFacts, MemoryAssumption DEF Aligned, systemAlloc
<1>2. brk < brk' /\ brk' \in 0 .. Memory /\ Aligned(brk')
  BY <1>1, AlignedSum
<1>3. v \in Block /\ v.at = brk /\ v.capacity = capacity
  <2>1. brk \in Cells
    BY <1>1, CellsAre
  <2> QED
    BY <2>1 DEF Block
<1>4. Owned(L, used) /\ Apart(L, used, brk) /\ LinksOf(L)
  BY DEF Describes
<1>5. Owned(L, used \union {v}) /\ Apart(L, used \union {v}, brk')
  <2>1. Room(v.capacity) \in Nat
    <3>1. capacity \in Nat
      BY Types
    <3> QED
      BY <1>3, <3>1, Rooms
  <2>2. brk' \in Nat /\ brk + Room(v.capacity) <= brk'
    BY <1>1, <1>3, <2>1
  <2> QED
    BY <1>1, <1>3, <1>4, <2>2, HandingFresh
<1>6. /\ used' = used \union {v}
      /\ next' \in MemoryType
      /\ LinksOf(L)'
  <2>1. Hand(v.at, v.capacity, next)
    BY <1>3
  <2>2. \A l \in Lists : Linked(next, L[l])
    BY <1>4 DEF LinksOf
  <2> QED
    BY <1>1, <1>3, <1>5, <2>1, <2>2, HandKeeps
<1>7. \A u \in used' : u.at \in Cells /\ u.capacity \in Capacities
  BY <1>3, <1>6 DEF TypeOK, Block
<1> QED
  BY <1>2, <1>3, <1>5, <1>6, <1>7 DEF GotFresh

LEMMA MallocKeeps ==
    ASSUME PoolInv, NEW capacity \in Capacities, allocate_malloc(capacity)
    PROVE  PoolInv'
<1>1. TypeOK /\ Aligned(brk)
  BY DEF PoolInv
<1>2. PICK L : Describes(L)
  BY DEF PoolInv
<1>3. PICK v : v = [at |-> brk, capacity |-> capacity]
  OBVIOUS
<1>4. /\ capacity > MAXBYTE
      /\ systemAlloc(SpanFor(capacity))
      /\ Hand(brk, capacity, next)
      /\ UNCHANGED <<freeList_, freeListSize_, centralFreeList_, cut, short>>
  BY DEF allocate_malloc
<1>5. GotFresh(L, v, capacity)
  <2>1. capacity \in Nat \ {0}
    BY SizesAssumption
  <2>2. /\ Aligned(SpanFor(capacity)) /\ SpanFor(capacity) > 0
        /\ Room(capacity) <= SpanFor(capacity)
    BY <2>1, SpanRoom
  <2> QED
    BY <1>1, <1>2, <1>3, <1>4, <2>2, FromSystem
<1>6. /\ v \in Block /\ v.at = brk /\ v.capacity = capacity
      /\ used' = used \union {v}
      /\ next' \in MemoryType
      /\ LinksOf(L)'
      /\ Owned(L, used') /\ Apart(L, used', brk')
      /\ brk < brk' /\ brk' \in 0 .. Memory /\ Aligned(brk')
      /\ \A u \in used' : u.at \in Cells /\ u.capacity \in Capacities
  BY <1>5 DEF GotFresh
<1>7. HeadsOf(L)' /\ CountsOf(L)'
  BY <1>2, <1>4 DEF Describes, HeadsOf, CountsOf
<1>8. SavedBy(L)'
  <2>1. SavedBy(L) /\ cut' = cut /\ cut \subseteq Nat /\ brk \in Nat /\ brk' \in Nat
    BY <1>1, <1>2, <1>4, <1>6, CellsAre DEF Describes, TypeOK, Aligned
  <2>2. \A a \in cut' : a < brk'
    BY <1>6, <2>1 DEF SavedBy
  <2>3. \A u \in used' : u.capacity > MAXBYTE => u.at \notin cut'
    <3>1. brk \notin cut
      BY <2>1 DEF SavedBy
    <3> QED
      BY <1>6, <2>1, <3>1 DEF SavedBy
  <2>4. LosesNone => \A a \in cut' : Somewhere(L, used', a)
    BY <1>6, <2>1 DEF SavedBy, Somewhere
  <2>5. LosesNone' <=> LosesNone
    BY <1>4 DEF LosesNone
  <2> QED
    BY <2>2, <2>3, <2>4, <2>5 DEF SavedBy, Somewhere
<1>9. TypeOK' /\ Aligned(brk)'
  BY <1>1, <1>4, <1>6 DEF TypeOK, MemoryType
<1>10. Owned(L, used)' /\ Apart(L, used, brk)'
  BY <1>6
<1> QED
  BY <1>6, <1>7, <1>8, <1>9, <1>10 DEF PoolInv, Describes

\* What the step has to do with a block that is larger than a span.
LEMMA SpanHands ==
    ASSUME TypeOK, Aligned(brk), NEW L, Describes(L),
           NEW t \in Threads, NEW capacity \in Capacities, allocate_span(t, capacity),
           ~ (SpanSize \div ClassSize(getIndex(capacity)) >= 1)
    PROVE  PoolInv'
<1> DEFINE i == getIndex(capacity)
<1> DEFINE size == ClassSize(i)
<1> DEFINE k == Least(BatchNum[i], SpanSize \div size)
<1> DEFINE count == (freeListSize_[t][i] + Cached(k)) % SizeMod
<1>1. i \in Classes /\ capacity <= MAXBYTE /\ ~ (capacity > MAXBYTE) /\ Room(capacity) = size
  <2>1. capacity <= MAXBYTE /\ capacity \in Nat /\ MAXBYTE \in Nat
    BY Types, Positive DEF allocate_span
  <2> QED
    BY <2>1, Types
<1>2. PICK v : v = [at |-> brk, capacity |-> capacity]
  OBVIOUS
<1> HIDE DEF i
<1>3. /\ SpanSize \div size = 0 /\ ~ (ClassSize(i) <= SpanSize) /\ BatchNum[i] = 1
  <2>1. ~ (SpanSize \div ClassSize(i) >= 1)
    BY DEF i
  <2>2. SpanSize \div ClassSize(i) \in Nat
    BY <1>1, SpanBlocks
  <2>3. SpanSize \div ClassSize(i) = 0 /\ ~ (ClassSize(i) <= SpanSize)
    BY <1>1, <2>1, <2>2, SpanBlocks
  <2>4. BatchNum[i] \in Nat \ {0} /\ (BatchNum[i] > 1 => BatchNum[i] <= 0)
    BY <1>1, <2>3, SpanBlocks
  <2> DEFINE p == BatchNum[i]
  <2> HIDE DEF p
  <2>5. p \in Nat \ {0} /\ (p > 1 => p <= 0)
    BY <2>4 DEF p
  <2>6. p = 1
    BY <2>5
  <2> QED
    BY <2>3, <2>6 DEF p
<1>4. k = 0
  BY <1>3 DEF Least
<1>5. /\ systemAlloc(SpanFor(size))
      /\ cut' = cut \union {brk + j * size : j \in 0 .. Most(0, 1) - 1}
      /\ centralFreeList_' = centralFreeList_ /\ short' = short
      /\ Fetched(t, i, capacity, brk, k, next)
  <2>1. /\ systemAlloc(SpanFor(size))
        /\ cut' = cut \union {brk + j * size : j \in 0 .. Most(SpanSize \div size, 1) - 1}
        /\ short' = short
        /\ LET batch == IF k > 1 THEN Chain(next, brk, k, size) ELSE next
               rest == brk + k * size
           IN  IF SpanSize \div size > k
               THEN /\ centralFreeList_' = [centralFreeList_ EXCEPT ![i] = rest]
                    /\ Fetched(t, i, capacity, brk, k,
                               Chain(batch, rest, SpanSize \div size - k, size))
               ELSE /\ UNCHANGED centralFreeList_
                    /\ Fetched(t, i, capacity, brk, k, batch)
    BY DEF allocate_span, i
  <2>2. ~ (SpanSize \div size > k) /\ ~ (k > 1)
    BY <1>3, <1>4
  <2> HIDE DEF k, size
  <2> QED
    BY <1>3, <2>1, <2>2 DEF size
<1>6. freeList_' = freeList_ /\ Hand(brk, capacity, next)
      /\ freeListSize_' = [freeListSize_ EXCEPT ![t][i] = count]
  BY <1>3, <1>5 DEF Fetched
<1>7. count \in 0 .. SizeMod - 1
  <2>1. freeListSize_[t][i] \in Int /\ Cached(k) \in Int
    BY <1>1, <1>4, Positive DEF TypeOK, Cached
  <2>2. freeListSize_[t][i] + Cached(k) \in Int
    BY <2>1
  <2> QED
    BY <2>2, Modulo
<1> HIDE DEF k, count
<1>8. cut' = cut \union {brk} /\ brk \in Nat
  <2>1. brk \in Nat /\ size \in Nat \ {0} /\ 0 * size = 0 /\ brk + 0 = brk
    BY <1>1, ClassSizes DEF Aligned
  <2>2. 0 .. Most(0, 1) - 1 = {0}
    BY DEF Most
  <2> HIDE DEF size
  <2>3. {brk + j * size : j \in {0}} = {brk}
    BY <2>1
  <2> QED
    BY <1>5, <2>1, <2>2, <2>3
<1>9. GotFresh(L, v, capacity)
  <2>1. size \in Nat \ {0}
    BY <1>1, ClassSizes
  <2>2. Aligned(SpanFor(size)) /\ SpanFor(size) > 0 /\ Room(capacity) <= SpanFor(size)
    BY <1>1, <2>1, SpanRoom
  <2> QED
    BY <1>2, <1>5, <1>6, <2>2, FromSystem
<1>10. /\ v \in Block /\ v.at = brk /\ v.capacity = capacity
       /\ used' = used \union {v}
       /\ next' \in MemoryType
       /\ LinksOf(L)'
       /\ Owned(L, used') /\ Apart(L, used', brk')
       /\ brk < brk' /\ brk' \in 0 .. Memory /\ Aligned(brk')
       /\ \A u \in used' : u.at \in Cells /\ u.capacity \in Capacities
  BY <1>9 DEF GotFresh
<1>11. HeadsOf(L)'
  BY <1>5, <1>6 DEF Describes, HeadsOf
<1>12. CountsOf(L)' /\ freeListSize_' \in [Threads -> [Classes -> 0 .. SizeMod - 1]]
  <2>1. CountsOf(L) /\ SameBut(L, L, {<<t, i>>, <<Shared, i>>})
    BY DEF Describes, SameBut
  <2>2. ClassSize(i) <= SpanSize => count = Len(L[<<t, i>>])
    BY <1>3
  <2> QED
    BY <1>1, <1>6, <1>7, <2>1, <2>2, CountsAfter
<1>13. SavedBy(L)'
  <2>1. SavedBy(L) /\ cut \subseteq Nat /\ brk' \in Nat /\ brk <= brk'
    BY <1>8, <1>10, CellsAre DEF Describes, TypeOK, Aligned
  <2>2. \A u \in used : u.at \in Nat /\ u.at < brk
    BY <1>8, Below, CellsAre DEF Describes, TypeOK
  <2>3. PICK B : B = {brk}
    OBVIOUS
  <2>4. \A a \in B : brk <= a /\ a < brk'
    BY <1>8, <1>10, <2>3
  <2>5. \A a \in cut \union B : Somewhere(L, used, a) \/ a \in B => Somewhere(L, used', a)
    BY <1>10, <2>3 DEF Somewhere
  <2>6. cut' = cut \union B /\ B \subseteq Nat /\ ~ (v.capacity > MAXBYTE)
    BY <1>1, <1>8, <1>10, <2>3
  <2> QED
    BY <1>5, <1>8, <1>10, <2>1, <2>2, <2>4, <2>5, <2>6, SpanSaved
<1>14. TypeOK' /\ Aligned(brk)'
  <2>1. cut' \subseteq Cells
    BY <1>8, <1>10 DEF TypeOK, Block
  <2> QED
    BY <1>5, <1>6, <1>10, <1>12, <2>1 DEF TypeOK, MemoryType
<1>15. Owned(L, used)' /\ Apart(L, used, brk)'
  BY <1>10
<1> QED
  BY <1>10, <1>11, <1>12, <1>13, <1>14, <1>15 DEF PoolInv, Describes

LEMMA SpanKeeps ==
    ASSUME PoolInv, NEW t \in Threads, NEW capacity \in Capacities, allocate_span(t, capacity)
    PROVE  PoolInv'
<1>1. TypeOK /\ Aligned(brk)
  BY DEF PoolInv
<1>2. PICK L : Describes(L)
  BY DEF PoolInv
<1>3. CASE SpanSize \div ClassSize(getIndex(capacity)) >= 1
  BY <1>1, <1>2, <1>3, SpanRefills
<1>4. CASE ~ (SpanSize \div ClassSize(getIndex(capacity)) >= 1)
  BY <1>1, <1>2, <1>4, SpanHands
<1> QED
  BY <1>3, <1>4

----------------------------------------------------------------------------
(* Deallocation.                                                           *)

PushFact(L, L1, b, t, i, s, mem) ==
    /\ s \in Seq(Cells) /\ Distinct(s) /\ Linked(mem, s) /\ First(s) = b.at
    /\ Len(s) = Len(L[<<t, i>>]) + 1 /\ Len(s) \in Nat \ {0}
    /\ BlocksOf(s) = {b.at} \union BlocksOf(L[<<t, i>>])
    /\ mem \in MemoryType
    /\ \A a \in Cells : a # b.at => mem[a] = next[a]
    /\ L1 \in [Lists -> Seq(Cells)] /\ L1[<<t, i>>] = s
    /\ SameBut(L, L1, {<<t, i>>})
    /\ Owned(L1, used \ {b}) /\ Apart(L1, used \ {b}, brk)

\* The block that is given back, before the thread's own list.
LEMMA Pushing ==
    ASSUME TypeOK, Aligned(brk), NEW L, Describes(L),
           NEW t \in Threads, NEW i \in Classes, NEW b \in used,
           ClassSize(i) <= Room(b.capacity),
           NEW s, s = <<b.at>> \o L[<<t, i>>],
           NEW mem, mem = [next EXCEPT ![b.at] = freeList_[t][i]],
           NEW L1, L1 = [L EXCEPT ![<<t, i>>] = s]
    PROVE  PushFact(L, L1, b, t, i, s, mem)
<1> DEFINE lt == <<t, i>>
<1> DEFINE c == L[lt]
<1> DEFINE p == <<b.at>>
<1>1. /\ Owned(L, used) /\ Apart(L, used, brk) /\ LinksOf(L) /\ HeadsOf(L)
      /\ next \in MemoryType /\ brk \in Nat
      /\ lt \in Lists /\ lt[2] = i
      /\ c \in Seq(Cells) /\ Distinct(c) /\ Linked(next, c)
      /\ freeList_[t][i] = First(c)
  BY ListNames, InvFacts DEF Describes, HeadsOf
<1>2. b.at \in Cells /\ b.at \notin BlocksOf(c)
  BY <1>1 DEF TypeOK, Owned
<1>3. s = p \o c /\ L1 = [L EXCEPT ![lt] = s] /\ mem = [next EXCEPT ![b.at] = First(c)]
  BY <1>1
<1> HIDE DEF c
<1>4. /\ p \in Seq(Cells) /\ p # <<>> /\ Len(p) = 1 /\ p[1] = b.at /\ Distinct(p)
      /\ BlocksOf(p) = {b.at}
  <2>1. p \in Seq(Cells) /\ p # <<>> /\ Len(p) = 1 /\ p[1] = b.at
    BY <1>2
  <2> HIDE DEF p
  <2>2. 1 .. Len(p) = {1}
    BY <2>1
  <2> QED
    BY <2>1, <2>2 DEF Distinct, BlocksOf
<1> HIDE DEF p, lt
<1>5. First(c) \in Cells \union {nullptr} /\ Len(c) \in Nat
  BY <1>1, FirstOf
<1>6. /\ mem \in MemoryType /\ mem[b.at] = First(c)
      /\ \A a \in Cells : a # b.at => mem[a] = next[a]
  BY <1>1, <1>2, <1>3, <1>5 DEF MemoryType
<1>7. Linked(mem, c)
  <2>1. \A a \in BlocksOf(c) : mem[a] = next[a]
    BY <1>1, <1>2, <1>6, BlocksAreCells
  <2> QED
    BY <1>1, <2>1, LinksFrame
<1>8. IsJoined(mem, p, c, s)
  <2>1. BlocksOf(p) \cap BlocksOf(c) = {}
    BY <1>2, <1>4
  <2>2. \A k \in 1 .. Len(p) : k < Len(p) => mem[p[k]] = p[k + 1]
    BY <1>4
  <2>3. mem[p[Len(p)]] = First(c)
    BY <1>4, <1>6
  <2> QED
    BY <1>1, <1>3, <1>4, <1>7, <2>1, <2>2, <2>3, Join
<1>9. /\ s \in Seq(Cells) /\ Distinct(s) /\ Linked(mem, s) /\ First(s) = b.at
      /\ Len(s) = Len(c) + 1 /\ Len(s) \in Nat \ {0}
      /\ BlocksOf(s) = {b.at} \union BlocksOf(c)
  <2>1. /\ s \in Seq(Cells) /\ Distinct(s) /\ Linked(mem, s) /\ First(s) = p[1]
        /\ Len(s) = Len(p) + Len(c)
        /\ BlocksOf(s) = BlocksOf(p) \union BlocksOf(c)
    BY ONLY <1>8 DEF IsJoined
  <2>2. Len(s) = Len(c) + 1 /\ Len(s) \in Nat \ {0}
    BY ONLY <1>4, <1>5, <2>1
  <2> QED
    BY ONLY <1>4, <2>1, <2>2
<1>10. /\ L1 \in [Lists -> Seq(Cells)] /\ L1[lt] = s
       /\ \A l \in Lists \ {lt} : L1[l] = L[l]
  <2>1. L \in [Lists -> Seq(Cells)] /\ s \in Seq(Cells) /\ L1 = [L EXCEPT ![lt] = s] /\ lt \in Lists
    BY <1>1, <1>3, <1>9 DEF Owned
  <2> QED
    BY <2>1
<1>11. Owned(L1, used \ {b}) /\ Apart(L1, used \ {b}, brk)
  <2> DEFINE T == {lt}
  <2>1. Changes(L, L1, T, i)
    BY <1>1, <1>9, <1>10 DEF Changes
  <2>2. Receives(L, L1, T, b.at)
    BY <1>9, <1>10 DEF Receives, c
  <2> HIDE DEF T
  <2>3. b \in Block
    BY <1>1 DEF Owned
  <2> QED
    BY <1>1, <2>1, <2>2, <2>3, Giving
<1> QED
  BY <1>6, <1>9, <1>10, <1>11 DEF PushFact, SameBut, lt, c

\* Nothing of the list is returned.
LEMMA PushStays ==
    ASSUME TypeOK, Aligned(brk), NEW L, Describes(L),
           NEW t \in Threads, NEW i \in Classes, NEW b \in used,
           NEW s, NEW mem, NEW L1, PushFact(L, L1, b, t, i, s, mem),
           used' = used \ {b}, brk' = brk, cut' = cut, short' = short,
           freeList_' = [freeList_ EXCEPT ![t][i] = b.at],
           next' = mem, centralFreeList_' = centralFreeList_,
           NEW n \in 0 .. SizeMod - 1,
           freeListSize_' = [freeListSize_ EXCEPT ![t][i] = n],
           ClassSize(i) <= SpanSize => n = Len(s)
    PROVE  PoolInv'
<1> DEFINE lt == <<t, i>>
<1>1. /\ s \in Seq(Cells) /\ Distinct(s) /\ Linked(mem, s) /\ First(s) = b.at
      /\ BlocksOf(s) = {b.at} \union BlocksOf(L[lt])
      /\ mem \in MemoryType
      /\ \A a \in Cells : a # b.at => mem[a] = next[a]
      /\ L1 \in [Lists -> Seq(Cells)] /\ L1[lt] = s
      /\ SameBut(L, L1, {lt})
      /\ Owned(L1, used \ {b}) /\ Apart(L1, used \ {b}, brk)
  BY DEF PushFact
<1>2. /\ Owned(L, used) /\ LinksOf(L) /\ HeadsOf(L) /\ CountsOf(L) /\ SavedBy(L)
      /\ lt \in Lists /\ <<Shared, i>> \in Lists /\ lt # <<Shared, i>>
  BY ListNames DEF Describes
<1>3. SameBut(L, L1, {lt, <<Shared, i>>})
  BY <1>1 DEF SameBut
<1> HIDE DEF lt
<1>4. \A l \in Lists : Linked(mem, L1[l])
  <2> SUFFICES ASSUME NEW l \in Lists, l # lt PROVE Linked(mem, L1[l])
    BY <1>1
  <2>1. L1[l] = L[l] /\ L[l] \in Seq(Cells) /\ Linked(next, L[l]) /\ b.at \notin BlocksOf(L[l])
    BY <1>1, <1>2 DEF SameBut, LinksOf, Owned
  <2>2. \A a \in BlocksOf(L[l]) : mem[a] = next[a]
    BY <1>1, <2>1, BlocksAreCells
  <2> QED
    BY <2>1, <2>2, LinksFrame
<1>5. LinksOf(L1)'
  BY <1>4 DEF LinksOf
<1>6. /\ HeadsOf(L1)'
      /\ freeList_' \in [Threads -> [Classes -> Cells \union {nullptr}]]
      /\ centralFreeList_' \in [Classes -> Cells \union {nullptr}]
  <2>1. freeList_' = [freeList_ EXCEPT ![t][i] = First(L1[<<t, i>>])]
    BY <1>1 DEF lt
  <2>2. centralFreeList_' = [centralFreeList_ EXCEPT ![i] = First(L1[<<Shared, i>>])]
    <3>1. First(L1[<<Shared, i>>]) = centralFreeList_[i]
      BY <1>1, <1>2 DEF SameBut, HeadsOf
    <3>2. centralFreeList_ \in [Classes -> Cells \union {nullptr}]
      BY DEF TypeOK
    <3> QED
      BY <3>1, <3>2, SameRow
  <2> QED
    BY <1>1, <1>2, <1>3, <2>1, <2>2, HeadsAfter DEF lt
<1>7. /\ CountsOf(L1)'
      /\ freeListSize_' \in [Threads -> [Classes -> 0 .. SizeMod - 1]]
  BY <1>1, <1>2, <1>3, CountsAfter DEF lt
<1>8. SavedBy(L1)'
  <2>1. ASSUME NEW a, Somewhere(L, used, a)
        PROVE  Somewhere(L1, used', a)
    <3>1. CASE \E u \in used : a = u.at
      <4>1. b.at \in BlocksOf(L1[lt])
        BY <1>1
      <4> QED
        BY <1>2, <3>1, <4>1 DEF Somewhere
    <3>2. CASE \E l \in Lists : a \in BlocksOf(L[l])
      <4>1. PICK l \in Lists : a \in BlocksOf(L[l])
        BY <3>2
      <4>2. a \in BlocksOf(L1[l])
        BY <1>1, <4>1 DEF SameBut
      <4> QED
        BY <4>2 DEF Somewhere
    <3> QED
      BY <2>1, <3>1, <3>2 DEF Somewhere
  <2>2. /\ \A a \in cut' : a < brk'
        /\ \A u \in used' : u.capacity > MAXBYTE => u.at \notin cut'
        /\ LosesNone' => \A a \in cut' : Somewhere(L1, used', a)
    BY <1>2, <2>1 DEF SavedBy, LosesNone
  <2> QED
    BY <2>2 DEF SavedBy, Somewhere
<1>9. TypeOK' /\ Aligned(brk)'
  BY <1>1, <1>6, <1>7 DEF TypeOK, MemoryType
<1>10. Owned(L1, used)' /\ Apart(L1, used, brk)'
  BY <1>1
<1> QED
  BY <1>5, <1>6, <1>7, <1>8, <1>9, <1>10 DEF PoolInv, Describes

\* Numbers that are n apart have different quotients.
LEMMA QuotientOrder ==
    ASSUME NEW n \in Nat \ {0}, NEW a \in Nat, NEW b \in Nat, a + n <= b
    PROVE  a \div n \in Nat /\ b \div n \in Nat /\ a \div n < b \div n
<1>1. PICK q \in Nat, r \in 0 .. n - 1 : a \div n = q /\ a = q * n + r
  BY DivMod
<1>2. PICK p \in Nat, z \in 0 .. n - 1 : b \div n = p /\ b = p * n + z
  BY DivMod
<1>3. PICK x \in Nat : x = q * n
  OBVIOUS
<1>4. PICK y \in Nat : y = p * n
  OBVIOUS
<1>5. p <= q => y <= x
  <2>1. CASE p = q
    BY <1>3, <1>4, <2>1
  <2>2. CASE p < q
    <3>1. p * n + n <= q * n
      BY <2>2, TimesOrder
    <3> QED
      BY <1>3, <1>4, <3>1
  <2> QED
    BY <2>1, <2>2
<1>6. a = x + r /\ b = y + z
  BY <1>1, <1>2, <1>3, <1>4
<1>7. ~ (y <= x)
  BY <1>6
<1>8. q < p
  BY <1>5, <1>7
<1> QED
  BY <1>1, <1>2, <1>8

\* Blocks that are n bytes apart: so many of them memory holds.
LEMMA Packing ==
    ASSUME NEW n \in Nat \ {0}, NEW s \in Seq(Cells), Distinct(s),
           \A a \in BlocksOf(s) : a + n <= Memory,
           \A a, x \in BlocksOf(s) : a < x => a + n <= x
    PROVE  Len(s) <= Memory \div n
<1> DEFINE m == Memory \div n
<1>1. /\ Len(s) \in Nat /\ Memory \in Nat
      /\ \A k \in 1 .. Len(s) : s[k] \in Nat /\ s[k] \in BlocksOf(s)
  BY BlocksAreCells, CellsAre, MemoryAssumption
<1>2. m \in Nat
  BY <1>1, DivMod
<1>3. \A k \in 1 .. Len(s) : s[k] \div n \in 0 .. m - 1
  <2> SUFFICES ASSUME NEW k \in 1 .. Len(s) PROVE s[k] \div n \in 0 .. m - 1
    OBVIOUS
  <2>1. s[k] \in Nat /\ s[k] + n <= Memory
    BY <1>1
  <2>2. s[k] \div n \in Nat /\ s[k] \div n < m
    BY <1>1, <2>1, QuotientOrder
  <2> HIDE DEF m
  <2> QED
    BY <1>2, <2>2
<1>4. \A j, k \in 1 .. Len(s) : s[j] \div n = s[k] \div n => j = k
  <2>1. ASSUME NEW j \in 1 .. Len(s), NEW k \in 1 .. Len(s), s[j] < s[k]
        PROVE  s[j] \div n # s[k] \div n
    <3>1. s[j] \in Nat /\ s[k] \in Nat /\ s[j] + n <= s[k]
      BY <1>1, <2>1
    <3>2. s[j] \div n \in Nat /\ s[k] \div n \in Nat /\ s[j] \div n < s[k] \div n
      BY <3>1, QuotientOrder
    <3> QED
      BY <3>2
  <2>2. ASSUME NEW j \in 1 .. Len(s), NEW k \in 1 .. Len(s), s[j] \div n = s[k] \div n
        PROVE  j = k
    <3>1. ~ (s[j] < s[k]) /\ ~ (s[k] < s[j])
      BY <2>1, <2>2
    <3>2. s[j] = s[k]
      BY <1>1, <3>1
    <3> QED
      BY <3>2 DEF Distinct
  <2> QED
    BY <2>2
<1> HIDE DEF m
<1>5. Len(s) <= m
  <2> DEFINE A == 1 .. Len(s)
  <2> DEFINE B == 0 .. m - 1
  <2> DEFINE g == [k \in A |-> s[k] \div n]
  <2>1. IsFiniteSet(A) /\ Cardinality(A) = Len(s) /\ IsFiniteSet(B) /\ Cardinality(B) = m
    <3>1. /\ IsFiniteSet(1 .. Len(s))
          /\ Cardinality(1 .. Len(s)) = IF 1 > Len(s) THEN 0 ELSE Len(s) - 1 + 1
      <4>1. 1 \in Int /\ Len(s) \in Int
        BY <1>1
      <4> QED
        BY ONLY <4>1, FS_Interval
    <3>2. /\ IsFiniteSet(0 .. m - 1)
          /\ Cardinality(0 .. m - 1) = IF 0 > m - 1 THEN 0 ELSE (m - 1) - 0 + 1
      <4>1. 0 \in Int /\ m - 1 \in Int
        BY <1>2
      <4> QED
        BY ONLY <4>1, FS_Interval
    <3> QED
      BY <1>1, <1>2, <3>1, <3>2
  <2>2. g \in [A -> B]
    BY <1>3
  <2>3. \A x, y \in A : x # y => g[x] # g[y]
    BY <1>4
  <2> HIDE DEF A, B, g
  <2>4. g \in Injection(A, B)
    BY <2>2, <2>3 DEF Injection, IsInjective
  <2> QED
    BY <2>1, <2>4, FS_Injection
<1> QED
  BY <1>5 DEF m

Parted(mem, mem2, s, n, c, z, K, C) ==
    /\ mem2 \in MemoryType
    /\ K \in Seq(Cells) /\ Distinct(K) /\ Linked(mem2, K) /\ First(K) = s[1] /\ Len(K) = n
    /\ C \in Seq(Cells) /\ Distinct(C) /\ Linked(mem2, C) /\ First(C) = s[n + 1]
    /\ \A a \in BlocksOf(K) : a \in BlocksOf(s) /\ a \notin BlocksOf(C)
    /\ \A a \in BlocksOf(C) : a \in BlocksOf(s) \/ a \in BlocksOf(c)
    /\ BlocksOf(c) \subseteq BlocksOf(C)
    /\ Len(s) - n <= z => \A a \in BlocksOf(s) : a \in BlocksOf(K) \/ a \in BlocksOf(C)
    /\ \A a \in Cells : a \notin BlocksOf(s) => mem2[a] = mem[a]

Parts(mem, s, n, c, z, mem1, list, m, mem2, K, q, C) ==
    /\ mem1 = [mem EXCEPT ![s[n]] = nullptr]
    /\ list = List(mem1, s[n + 1])
    /\ m = Least(Most(z, 1), Len(list))
    /\ mem2 = [mem1 EXCEPT ![list[m]] = First(c)]
    /\ K = SubSeq(s, 1, n)
    /\ q = SubSeq(s, n + 1, n + m)
    /\ C = q \o c

\* The first n blocks of a list stay, the next ones up to z, and one at least, go before list c.
LEMMA Parting ==
    ASSUME NEW mem \in MemoryType,
           NEW s \in Seq(Cells), Distinct(s), Linked(mem, s),
           NEW n \in Nat \ {0}, n < Len(s),
           NEW c \in Seq(Cells), Distinct(c), Linked(mem, c),
           \A a : ~ (a \in BlocksOf(s) /\ a \in BlocksOf(c)),
           NEW z \in Nat,
           NEW mem1, NEW list, NEW m, NEW mem2, NEW K, NEW q, NEW C,
           Parts(mem, s, n, c, z, mem1, list, m, mem2, K, q, C)
    PROVE  Parted(mem, mem2, s, n, c, z, K, C)
<1> DEFINE r == SubSeq(s, n + 1, Len(s))
<1> HIDE DEF r
<1>1. /\ Len(s) \in Nat /\ n \in 1 .. Len(s) /\ n + 1 \in 1 .. Len(s)
      /\ \A k \in 1 .. Len(s) : s[k] \in Cells /\ s[k] \in BlocksOf(s)
      /\ First(c) \in Cells \union {nullptr} /\ Len(s) - n \in Nat \ {0}
  BY BlocksAreCells, FirstOf
<1>2. /\ mem1 \in MemoryType /\ mem1[s[n]] = nullptr
      /\ \A a \in Cells : a # s[n] => mem1[a] = mem[a]
  <2>1. mem1 = [mem EXCEPT ![s[n]] = nullptr]
    BY DEF Parts
  <2> QED
    BY <1>1, <2>1 DEF MemoryType
<1>3. \A j, k \in 1 .. Len(s) : j # k => s[j] # s[k]
  BY DEF Distinct
<1>4. \A k \in 1 .. Len(s) : mem[s[k]] = IF k < Len(s) THEN s[k + 1] ELSE nullptr
  BY DEF Linked
<1>5. IsSlice(r, s, n + 1, Len(s))
  <2>1. n + 1 \in 1 .. Len(s) + 1 /\ Len(s) \in 0 .. Len(s) /\ n + 1 <= Len(s) + 1
    BY <1>1
  <2> QED
    BY <2>1, Slice DEF r
<1>6. Linked(mem1, r)
  <2>0. PICK j \in Nat : j = n + 1
    OBVIOUS
  <2>1. PICK e \in Nat : e = Len(s) /\ j = n + 1
    BY <1>1, <2>0
  <2>2. j \in 1 .. Len(s) + 1 /\ e \in 0 .. Len(s) /\ j <= e + 1
    BY <1>1, <2>1
  <2>3. \A k \in j .. e : k < e => mem1[s[k]] = s[k + 1]
    BY <1>1, <1>2, <1>3, <1>4, <2>1
  <2>4. j <= e => mem1[s[e]] = nullptr
    BY <1>1, <1>2, <1>3, <1>4, <2>1
  <2>5. Linked(mem1, SubSeq(s, j, e))
    BY <1>1, <2>2, <2>3, <2>4, SliceChained
  <2> QED
    BY <2>1, <2>5 DEF r
<1>7. /\ r \in Seq(Cells) /\ Distinct(r) /\ Len(r) = Len(s) - n /\ First(r) = s[n + 1]
      /\ \A k \in 1 .. Len(s) - n : r[k] = s[n + k]
  <2>1. /\ r \in Seq(Cells) /\ Distinct(r) /\ Len(r) = Len(s) - (n + 1) + 1
        /\ \A k \in 1 .. Len(r) : r[k] = s[(n + 1) + k - 1]
        /\ First(r) = IF n + 1 <= Len(s) THEN s[n + 1] ELSE nullptr
    BY <1>5 DEF IsSlice
  <2>2. Len(r) = Len(s) - n
    BY <1>1, <2>1
  <2>3. \A k \in 1 .. Len(s) - n : (n + 1) + k - 1 = n + k
    BY <1>1
  <2> QED
    BY <1>1, <2>1, <2>2, <2>3
<1>8. list = r
  <2>1. List(mem1, First(r)) = r
    BY <1>6, <1>7, ListOf
  <2> QED
    BY <1>7, <2>1 DEF Parts
<1>9. /\ m \in 1 .. Len(s) - n /\ m \in Nat /\ n + m \in 1 .. Len(s) /\ n + m # n
      /\ Len(s) - n <= z => m = Len(s) - n
  <2>1. m = Least(Most(z, 1), Len(s) - n)
    BY <1>7, <1>8 DEF Parts
  <2> QED
    BY <1>1, <2>1 DEF Least, Most
<1>10. list[m] = s[n + m]
  BY <1>7, <1>8, <1>9
<1>11. /\ mem2 \in MemoryType /\ mem2[s[n + m]] = First(c)
       /\ \A a \in Cells : a # s[n + m] => mem2[a] = mem1[a]
  <2>1. mem2 = [mem1 EXCEPT ![s[n + m]] = First(c)]
    BY <1>10 DEF Parts
  <2> QED
    BY <1>1, <1>2, <1>9, <2>1 DEF MemoryType
<1>12. \A k \in 1 .. Len(s) : k # n /\ k # n + m => mem2[s[k]] = mem[s[k]]
  BY <1>1, <1>2, <1>3, <1>9, <1>11
<1>13. mem2[s[n]] = nullptr
  BY <1>1, <1>2, <1>3, <1>9, <1>11
<1>14. \A a \in Cells : a \notin BlocksOf(s) => mem2[a] = mem[a]
  BY <1>1, <1>2, <1>9, <1>11
<1>15. /\ 1 \in 1 .. Len(s) + 1 /\ n \in 0 .. Len(s) /\ 1 <= n + 1
       /\ n + 1 \in 1 .. Len(s) + 1 /\ n + m \in 0 .. Len(s) /\ n + 1 <= (n + m) + 1
  BY <1>1, <1>9
<1>16. IsSlice(K, s, 1, n) /\ IsSlice(q, s, n + 1, n + m)
  BY <1>15, Slice DEF Parts
<1>17. Linked(mem2, K)
  <2>1. \A k \in 1 .. n : k < n => mem2[s[k]] = mem[s[k]]
    BY <1>1, <1>9, <1>12
  <2>2. Linked(mem2, SubSeq(s, 1, n))
    BY <1>13, <1>15, <2>1, SliceLinked
  <2> QED
    BY <2>2 DEF Parts
<1>18. /\ K \in Seq(Cells) /\ Distinct(K) /\ First(K) = s[1] /\ Len(K) = n
       /\ \A a \in BlocksOf(K) : \E k \in 1 .. n : a = s[k]
       /\ \A k \in 1 .. n : s[k] \in BlocksOf(K)
  <2>1. /\ K \in Seq(Cells) /\ Distinct(K) /\ Len(K) = n - 1 + 1
        /\ BlocksOf(K) = {s[k] : k \in 1 .. n}
        /\ First(K) = IF 1 <= n THEN s[1] ELSE nullptr
    BY <1>16 DEF IsSlice
  <2> QED
    BY <1>1, <2>1
<1>19. /\ q \in Seq(Cells) /\ Distinct(q) /\ First(q) = s[n + 1] /\ Len(q) = m
       /\ \A k \in 1 .. m : q[k] = s[n + k]
       /\ \A a \in BlocksOf(q) : \E k \in n + 1 .. n + m : a = s[k]
       /\ \A k \in n + 1 .. n + m : s[k] \in BlocksOf(q)
  <2>1. /\ q \in Seq(Cells) /\ Distinct(q) /\ Len(q) = (n + m) - (n + 1) + 1
        /\ \A k \in 1 .. Len(q) : q[k] = s[(n + 1) + k - 1]
        /\ BlocksOf(q) = {s[k] : k \in n + 1 .. n + m}
        /\ First(q) = IF n + 1 <= n + m THEN s[n + 1] ELSE nullptr
    BY <1>16 DEF IsSlice
  <2>2. Len(q) = m /\ n + 1 <= n + m
    <3>1. n \in Nat /\ m \in Nat \ {0}
      BY <1>9
    <3>2. (n + m) - (n + 1) + 1 = m /\ n + 1 <= n + m
      BY ONLY <3>1
    <3> QED
      BY ONLY <2>1, <3>2
  <2>3. \A k \in 1 .. m : (n + 1) + k - 1 = n + k
    BY <1>1, <1>9
  <2> QED
    BY <2>1, <2>2, <2>3
<1>20. q # <<>> /\ q[1] = s[n + 1]
  <2>1. 1 \in 1 .. m
    BY <1>9
  <2> QED
    BY <1>9, <1>19, <2>1, FirstOf
<1>21. IsJoined(mem2, q, c, C)
  <2>1. BlocksOf(q) \cap BlocksOf(c) = {}
    <3> SUFFICES ASSUME NEW a \in BlocksOf(q), a \in BlocksOf(c) PROVE FALSE
      OBVIOUS
    <3>1. PICK k \in n + 1 .. n + m : a = s[k]
      BY <1>19
    <3>2. k \in 1 .. Len(s)
      BY <1>1, <1>9
    <3> QED
      BY <1>1, <3>1, <3>2
  <2>2. \A k \in 1 .. Len(q) : k < Len(q) => mem2[q[k]] = q[k + 1]
    <3> SUFFICES ASSUME NEW k \in 1 .. m, k < m PROVE mem2[q[k]] = q[k + 1]
      BY <1>19
    <3>1. /\ n + k \in 1 .. Len(s) /\ n + k # n /\ n + k # n + m /\ n + k < Len(s)
          /\ k + 1 \in 1 .. m /\ n + (k + 1) = (n + k) + 1
      BY <1>1, <1>9
    <3>2. mem2[s[n + k]] = s[(n + k) + 1]
      BY <1>4, <1>12, <3>1
    <3>3. q[k] = s[n + k] /\ q[k + 1] = s[n + (k + 1)]
      BY <1>19, <3>1
    <3> QED
      BY <3>1, <3>2, <3>3
  <2>3. mem2[q[Len(q)]] = First(c)
    <3>1. m \in 1 .. m
      BY <1>9
    <3> QED
      BY <1>11, <1>19, <3>1
  <2>4. Linked(mem2, c)
    <3>1. \A a \in BlocksOf(c) : mem2[a] = mem[a]
      BY <1>14, BlocksAreCells
    <3> QED
      BY <3>1, LinksFrame
  <2> QED
    BY <1>19, <1>20, <2>1, <2>2, <2>3, <2>4, Join DEF Parts
<1>22. /\ C \in Seq(Cells) /\ Distinct(C) /\ Linked(mem2, C) /\ First(C) = s[n + 1]
       /\ BlocksOf(C) = BlocksOf(q) \union BlocksOf(c)
  BY <1>20, <1>21 DEF IsJoined
<1>23. ASSUME NEW a \in BlocksOf(K)
       PROVE  a \in BlocksOf(s) /\ a \notin BlocksOf(C)
  <2>1. PICK k \in 1 .. n : a = s[k]
    BY <1>18
  <2>2. k \in 1 .. Len(s) /\ a \in BlocksOf(s)
    BY <1>1, <2>1
  <2>3. a \notin BlocksOf(q)
    <3> SUFFICES ASSUME a \in BlocksOf(q) PROVE FALSE
      OBVIOUS
    <3>1. PICK j \in n + 1 .. n + m : a = s[j]
      BY <1>19
    <3>2. j \in 1 .. Len(s) /\ j # k
      BY <1>1, <1>9
    <3> QED
      BY <1>3, <2>1, <2>2, <3>1, <3>2
  <2> QED
    BY <1>22, <2>2, <2>3
<1>24. \A a \in BlocksOf(C) : a \in BlocksOf(s) \/ a \in BlocksOf(c)
  <2>1. \A a \in BlocksOf(q) : a \in BlocksOf(s)
    <3> SUFFICES ASSUME NEW a \in BlocksOf(q) PROVE a \in BlocksOf(s)
      OBVIOUS
    <3>1. PICK j \in n + 1 .. n + m : a = s[j]
      BY <1>19
    <3>2. j \in 1 .. Len(s)
      BY <1>1, <1>9
    <3> QED
      BY <1>1, <3>1, <3>2
  <2> QED
    BY <1>22, <2>1
<1>25. ASSUME Len(s) - n <= z, NEW a \in BlocksOf(s)
       PROVE  a \in BlocksOf(K) \/ a \in BlocksOf(C)
  <2>1. PICK k \in 1 .. Len(s) : a = s[k]
    BY DEF BlocksOf
  <2>2. n + m = Len(s)
    BY <1>1, <1>9, <1>25
  <2>3. k \in 1 .. n \/ k \in n + 1 .. n + m
    BY <1>1, <2>2
  <2> QED
    BY <1>18, <1>19, <1>22, <2>1, <2>3
<1> QED
  BY <1>11, <1>14, <1>17, <1>18, <1>22, <1>23, <1>24, <1>25 DEF Parted

LEMMA TimesMonotone ==
    ASSUME NEW a \in Nat, NEW b \in Nat, NEW d \in Nat, a <= b
    PROVE  a * d \in Nat /\ b * d \in Nat /\ a * d <= b * d
<1>1. CASE a = b
  BY <1>1
<1>2. CASE a < b
  <2>1. a * d \in Nat /\ b * d \in Nat /\ a * d + d <= b * d
    BY <1>2, TimesOrder
  <2> QED
    BY <2>1
<1> QED
  BY <1>1, <1>2

\* At most half of a list is kept.
LEMMA KeptHalf ==
    ASSUME NEW count \in Nat, count > 1, NEW n, n = Kept(count)
    PROVE  n \in Nat \ {0} /\ n < count /\ count <= 2 * (count - n)
<1>1. PICK d \in Nat, r \in 0 .. 3 : count \div 4 = d /\ count = 4 * d + r
  <2>1. 4 \in Nat \ {0}
    OBVIOUS
  <2>2. count \div 4 \in Nat /\ count % 4 \in 0 .. 4 - 1 /\ count = (count \div 4) * 4 + (count % 4)
    BY <2>1, DivMod
  <2> QED
    BY <2>2
<1>2. n = IF d < 1 THEN 1 ELSE d
  BY <1>1 DEF Kept, Most
<1> QED
  BY <1>1, <1>2

\* What is returned, counted in bytes of blocks.
ReturnedBytes(count, n, i) == (count - n) * ClassSize(i)

\* What is returned is not cut off.
LEMMA EnoughReturned ==
    ASSUME NEW i \in Classes, FewLargeBlocks,
           NEW s \in Seq(Cells), Distinct(s),
           \A a \in BlocksOf(s) : a + ClassSize(i) <= Memory,
           \A a, x \in BlocksOf(s) : a < x => a + ClassSize(i) <= x,
           NEW count \in Nat, count > ShouldReturn, count > 1,
           ClassSize(i) <= SpanSize => count = Len(s),
           NEW n, n = Kept(count)
    PROVE  Len(s) - n <= ReturnedBytes(count, n, i)
<1>1. n \in Nat \ {0} /\ n < count /\ count <= 2 * (count - n)
  BY KeptHalf
<1>2. PICK e \in Nat : e = count - n
  BY <1>1
<1>3. PICK g \in Nat \ {0} : g = ClassSize(i)
  BY ClassSizes
<1>4. PICK z \in Nat : z = e * g
  BY <1>3
<1>5. ReturnedBytes(count, n, i) = z /\ Len(s) \in Nat
  BY <1>2, <1>3, <1>4, BlocksAreCells DEF ReturnedBytes
<1>6. CASE ClassSize(i) <= SpanSize
  <2>1. Len(s) - n = e
    BY <1>2, <1>6
  <2>2. 1 * e <= g * e
    BY <1>3, TimesMonotone
  <2>3. 1 * e = e /\ g * e = e * g
    BY <1>3
  <2> QED
    BY <1>4, <1>5, <2>1, <2>2, <2>3
<1>7. CASE ClassSize(i) > SpanSize
  <2>1. PICK m \in Nat : m = Memory \div g
    BY <1>3, MemoryAssumption, DivMod
  <2>2. Len(s) <= m
    BY <1>3, <2>1, Packing
  <2>3. 2 * m <= ShouldReturn * g
    BY <1>3, <1>7, <2>1 DEF FewLargeBlocks
  <2>4. ShouldReturn * g <= (2 * e) * g
    <3>1. ShouldReturn \in Nat /\ 2 * e \in Nat /\ ShouldReturn <= 2 * e
      BY <1>1, <1>2, Positive
    <3> QED
      BY <1>3, <3>1, TimesMonotone
  <2>5. (2 * e) * g = 2 * z
    BY <1>3, <1>4
  <2>6. PICK y \in Nat : y = ShouldReturn * g
    BY <1>3, Positive
  <2>7. m <= z
    BY <2>3, <2>4, <2>5, <2>6
  <2> QED
    BY <1>1, <1>5, <2>2, <2>7
<1>8. ClassSize(i) \in Int /\ SpanSize \in Int
  BY ClassSizes, Spans
<1> QED
  BY <1>6, <1>7, <1>8

\* What a push writes apart from memory and the shared list.
PushRest(t, i, b, n) ==
    /\ used' = used \ {b} /\ brk' = brk /\ cut' = cut
    /\ freeList_' = [freeList_ EXCEPT ![t][i] = b.at]
    /\ freeListSize_' = [freeListSize_ EXCEPT ![t][i] = n]

\* A part of the list is returned.
LEMMA PushReturns ==
    ASSUME TypeOK, Aligned(brk), NEW L, Describes(L),
           NEW t \in Threads, NEW i \in Classes, NEW b \in used,
           ClassSize(i) <= Room(b.capacity),
           NEW s, NEW mem, NEW L1, PushFact(L, L1, b, t, i, s, mem),
           NEW count \in 0 .. SizeMod - 1, count > ShouldReturn, count > 1,
           ClassSize(i) <= SpanSize => count = Len(s),
           NEW n, n = Kept(count), n < Len(s),
           PushRest(t, i, b, n),
           NEW size \in Nat, short' = (short \/ size = 0),
           NEW z \in Nat, size # 0 => z = ReturnedBytes(count, n, i),
           NEW mem1, NEW list, NEW m, NEW mem2, NEW K, NEW q, NEW C,
           Parts(mem, s, n, L[<<Shared, i>>], z, mem1, list, m, mem2, K, q, C),
           next' = mem2,
           centralFreeList_' = [centralFreeList_ EXCEPT ![i] = s[n + 1]]
    PROVE  PoolInv'
<1> DEFINE lt == <<t, i>>
<1> DEFINE lc == <<Shared, i>>
<1> DEFINE c == L[lc]
<1>1. /\ s \in Seq(Cells) /\ Distinct(s) /\ Linked(mem, s) /\ First(s) = b.at
      /\ Len(s) \in Nat \ {0}
      /\ BlocksOf(s) = {b.at} \union BlocksOf(L[lt])
      /\ mem \in MemoryType
      /\ \A a \in Cells : a # b.at => mem[a] = next[a]
      /\ L1 \in [Lists -> Seq(Cells)] /\ L1[lt] = s
      /\ SameBut(L, L1, {lt})
      /\ Owned(L1, used \ {b}) /\ Apart(L1, used \ {b}, brk)
  BY DEF PushFact
<1>2. /\ Owned(L, used) /\ Apart(L, used, brk) /\ LinksOf(L) /\ HeadsOf(L)
      /\ CountsOf(L) /\ SavedBy(L) /\ L \in [Lists -> Seq(Cells)] /\ brk \in Nat
      /\ lt \in Lists /\ lc \in Lists /\ lt # lc /\ lt[2] = i /\ lc[2] = i
      /\ b \in Block
  BY ListNames DEF Describes, Owned, Aligned
<1>3. count \in Nat /\ n \in Nat \ {0} /\ n < count
  <2>1. count \in Nat
    BY Positive
  <2> QED
    BY <2>1, KeptHalf
<1> HIDE DEF lt, lc, c
<1>4. /\ c \in Seq(Cells) /\ Distinct(c) /\ Linked(next, c)
      /\ \A a \in BlocksOf(c) : a # b.at /\ a \notin BlocksOf(L[lt])
  BY <1>2 DEF c, Owned, LinksOf
<1>5. Linked(mem, c)
  <2>1. \A a \in BlocksOf(c) : mem[a] = next[a]
    BY <1>1, <1>4, BlocksAreCells
  <2> QED
    BY <1>4, <2>1, LinksFrame
<1>6. \A a : ~ (a \in BlocksOf(s) /\ a \in BlocksOf(c))
  BY <1>1, <1>4
<1>7. z \in Nat
  OBVIOUS
<1>8. Parted(mem, mem2, s, n, c, z, K, C)
  <2>1. Parts(mem, s, n, c, z, mem1, list, m, mem2, K, q, C)
    BY DEF c, lc
  <2>2. n < Len(s) /\ n \in Nat \ {0}
    BY <1>3
  <2> QED
    BY ONLY <1>1, <1>4, <1>5, <1>6, <1>7, <2>1, <2>2, Parting
<1>9. /\ mem2 \in MemoryType
      /\ K \in Seq(Cells) /\ Distinct(K) /\ Linked(mem2, K) /\ First(K) = s[1] /\ Len(K) = n
      /\ C \in Seq(Cells) /\ Distinct(C) /\ Linked(mem2, C) /\ First(C) = s[n + 1]
      /\ \A a \in BlocksOf(K) : a \in BlocksOf(s) /\ a \notin BlocksOf(C)
      /\ \A a \in BlocksOf(C) : a \in BlocksOf(s) \/ a \in BlocksOf(c)
      /\ BlocksOf(c) \subseteq BlocksOf(C)
      /\ Len(s) - n <= z => \A a \in BlocksOf(s) : a \in BlocksOf(K) \/ a \in BlocksOf(C)
      /\ \A a \in Cells : a \notin BlocksOf(s) => mem2[a] = mem[a]
  BY <1>8 DEF Parted
<1>10. PICK L2 : L2 = [L EXCEPT ![lt] = K, ![lc] = C]
  OBVIOUS
<1>11. /\ L2 \in [Lists -> Seq(Cells)]
       /\ L2[lt] = K /\ L2[lc] = C
       /\ \A l \in Lists \ {lt, lc} : L2[l] = L[l]
  <2> DEFINE S == Seq(Cells)
  <2> HIDE DEF S
  <2>1. /\ L \in [Lists -> S] /\ K \in S /\ C \in S
        /\ lt \in Lists /\ lc \in Lists /\ lt # lc
    BY <1>2, <1>9 DEF S
  <2>2. /\ L2 \in [Lists -> S]
        /\ L2[lt] = K /\ L2[lc] = C
        /\ \A l \in Lists \ {lt, lc} : L2[l] = L[l]
    BY ONLY <1>10, <2>1, TwoRows
  <2> QED
    BY <2>2 DEF S
<1>12. used' = used \ {b} /\ brk' = brk /\ cut' = cut
  BY DEF PushRest
<1>13. Owned(L2, used \ {b}) /\ Apart(L2, used \ {b}, brk)
  <2> DEFINE T == {lt, lc}
  <2>1. /\ T \in SUBSET Lists
        /\ \A l \in T : l[2] = i
        /\ \A l \in T : Distinct(L2[l])
    BY <1>2, <1>9, <1>11
  <2>2. \A l, k \in T : \A a \in BlocksOf(L2[l]) : a \in BlocksOf(L2[k]) => l = k
    BY <1>9, <1>11
  <2>3. Changes(L, L2, T, i)
    BY <1>11, <2>1, <2>2 DEF Changes
  <2>4. Receives(L, L2, T, b.at)
    <3>1. \A a \in BlocksOf(s) : a = b.at \/ \E k \in T : a \in BlocksOf(L[k])
      BY <1>1
    <3>2. \A a \in BlocksOf(c) : \E k \in T : a \in BlocksOf(L[k])
      BY DEF c
    <3>3. \A a \in BlocksOf(K) : a = b.at \/ \E k \in T : a \in BlocksOf(L[k])
      BY <1>9, <3>1
    <3>4. \A a \in BlocksOf(C) : a = b.at \/ \E k \in T : a \in BlocksOf(L[k])
      BY <1>9, <3>1, <3>2
    <3> HIDE DEF T
    <3>5. \A l \in T : l = lt \/ l = lc
      BY DEF T
    <3> QED
      BY <1>11, <3>3, <3>4, <3>5 DEF Receives
  <2> HIDE DEF T
  <2> QED
    BY <1>2, <2>3, <2>4, Giving
<1>14. \A l \in Lists : Linked(mem2, L2[l])
  <2>1. ASSUME NEW l \in Lists \ {lt, lc}
        PROVE  Linked(mem2, L2[l])
    <3>1. L2[l] = L[l] /\ L[l] \in Seq(Cells) /\ Linked(next, L[l])
      BY <1>2, <1>11 DEF LinksOf
    <3>2. \A a \in BlocksOf(L[l]) : a \notin BlocksOf(s) /\ a # b.at
      <4>1. \A a \in BlocksOf(L[l]) : a \notin BlocksOf(L[lt]) /\ a # b.at
        BY <1>2 DEF Owned
      <4> QED
        BY <1>1, <4>1
    <3>3. \A a \in BlocksOf(L[l]) : mem2[a] = next[a]
      BY <1>1, <1>9, <3>1, <3>2, BlocksAreCells
    <3> QED
      BY <3>1, <3>3, LinksFrame
  <2> QED
    BY <1>9, <1>11, <2>1
<1>15. LinksOf(L2)'
  BY <1>14 DEF LinksOf
<1>16. SameBut(L, L2, {<<t, i>>, <<Shared, i>>})
  BY <1>11 DEF SameBut, lt, lc
<1>17. /\ HeadsOf(L2)'
       /\ freeList_' \in [Threads -> [Classes -> Cells \union {nullptr}]]
       /\ centralFreeList_' \in [Classes -> Cells \union {nullptr}]
  <2>1. s[1] = b.at
    BY <1>1, FirstOf
  <2>2. freeList_' = [freeList_ EXCEPT ![t][i] = First(L2[<<t, i>>])]
    BY <1>9, <1>11, <2>1 DEF PushRest, lt
  <2>3. centralFreeList_' = [centralFreeList_ EXCEPT ![i] = First(L2[<<Shared, i>>])]
    BY <1>9, <1>11 DEF lc
  <2> QED
    BY <1>2, <1>11, <1>16, <2>2, <2>3, HeadsAfter
<1>18. /\ CountsOf(L2)'
       /\ freeListSize_' \in [Threads -> [Classes -> 0 .. SizeMod - 1]]
  <2>1. n \in 0 .. SizeMod - 1
    BY <1>3, Positive
  <2>2. freeListSize_' = [freeListSize_ EXCEPT ![t][i] = n]
    BY DEF PushRest
  <2>3. ClassSize(i) <= SpanSize => n = Len(L2[<<t, i>>])
    BY <1>9, <1>11 DEF lt
  <2> QED
    BY <1>2, <1>16, <2>1, <2>2, <2>3, CountsAfter
<1>19. LosesNone' => Len(s) - n <= z
  <2> SUFFICES ASSUME FewLargeBlocks PROVE Len(s) - n <= ReturnedBytes(count, n, i)
    BY DEF LosesNone
  <2>1. ASSUME NEW a \in BlocksOf(s), NEW x \in BlocksOf(s)
        PROVE  a + ClassSize(i) <= Memory /\ (a < x => a + ClassSize(i) <= x)
    <3>1. Claimed(L1, used \ {b}, a, ClassSize(i)) /\ Claimed(L1, used \ {b}, x, ClassSize(i))
      BY <1>1, <1>2, ListClaims
    <3>2. a \in Cells /\ x \in Cells /\ ClassSize(i) \in Nat /\ a \in Nat
      BY <1>1, BlocksAreCells, CellsAre, ClassSizes
    <3>3. a + ClassSize(i) <= brk /\ (a < x => a + ClassSize(i) <= x)
      BY <1>1, <3>1, <3>2 DEF Apart
    <3>4. brk <= Memory /\ Memory \in Nat
      BY MemoryAssumption DEF TypeOK
    <3> QED
      BY <1>2, <3>2, <3>3, <3>4
  <2> QED
    BY <1>1, <1>3, <2>1, EnoughReturned
<1>20. SavedBy(L2)'
  <2>1. ASSUME NEW a, Somewhere(L, used, a), LosesNone'
        PROVE  Somewhere(L2, used', a)
    <3>1. a \in BlocksOf(s) => Somewhere(L2, used', a)
      BY <1>2, <1>9, <1>11, <1>19, <2>1 DEF Somewhere
    <3>2. CASE \E u \in used : a = u.at
      <4>1. PICK u \in used : a = u.at
        BY <3>2
      <4>2. CASE u = b
        BY <1>1, <3>1, <4>1, <4>2
      <4>3. CASE u # b
        BY <1>12, <4>1, <4>3 DEF Somewhere
      <4> QED
        BY <4>2, <4>3
    <3>3. CASE \E l \in Lists : a \in BlocksOf(L[l])
      <4>1. PICK l \in Lists : a \in BlocksOf(L[l])
        BY <3>3
      <4>2. CASE l = lt
        BY <1>1, <3>1, <4>1, <4>2
      <4>3. CASE l = lc
        <5>1. a \in BlocksOf(L2[lc])
          BY <1>9, <1>11, <4>1, <4>3 DEF c
        <5> QED
          BY <1>2, <5>1 DEF Somewhere
      <4>4. CASE l \notin {lt, lc}
        BY <1>11, <4>1, <4>4 DEF Somewhere
      <4> QED
        BY <4>2, <4>3, <4>4
    <3> QED
      BY <2>1, <3>2, <3>3 DEF Somewhere
  <2>2. /\ \A a \in cut' : a < brk'
        /\ \A u \in used' : u.capacity > MAXBYTE => u.at \notin cut'
        /\ LosesNone' => \A a \in cut' : Somewhere(L2, used', a)
    BY <1>2, <1>12, <2>1 DEF SavedBy, LosesNone
  <2> QED
    BY <2>2 DEF SavedBy, Somewhere
<1>21. TypeOK' /\ Aligned(brk)'
  BY <1>9, <1>12, <1>17, <1>18 DEF TypeOK, MemoryType
<1>22. Owned(L2, used)' /\ Apart(L2, used, brk)'
  BY <1>12, <1>13
<1> QED
  BY <1>15, <1>17, <1>18, <1>20, <1>21, <1>22 DEF PoolInv, Describes

LEMMA DropKeeps ==
    ASSUME PoolInv, NEW b \in used, b.capacity > MAXBYTE, used' = used \ {b},
           UNCHANGED <<next, freeList_, freeListSize_, centralFreeList_, brk, cut, short>>
    PROVE  PoolInv'
<1>1. TypeOK /\ Aligned(brk)
  BY DEF PoolInv
<1>2. PICK L : Describes(L)
  BY DEF PoolInv
<1>3. /\ Owned(L, used) /\ Apart(L, used, brk) /\ LinksOf(L)
      /\ HeadsOf(L) /\ CountsOf(L) /\ SavedBy(L) /\ brk \in Nat
  BY <1>1, <1>2 DEF Describes, Aligned
<1>4. Owned(L, used') /\ Apart(L, used', brk')
  BY <1>3, Dropping
<1>5. SavedBy(L)'
  <2>1. /\ \A a \in cut' : a < brk'
        /\ \A u \in used' : u.capacity > MAXBYTE => u.at \notin cut'
    BY <1>3 DEF SavedBy
  <2>2. ASSUME LosesNone, NEW a \in cut
        PROVE  Somewhere(L, used', a)
    <3>1. Somewhere(L, used, a) /\ a # b.at
      BY <1>3, <2>2 DEF SavedBy
    <3> QED
      BY <3>1 DEF Somewhere
  <2>3. LosesNone' <=> LosesNone
    BY DEF LosesNone
  <2> QED
    BY <2>1, <2>2, <2>3 DEF SavedBy, Somewhere
<1>6. LinksOf(L)' /\ HeadsOf(L)' /\ CountsOf(L)'
  BY <1>3 DEF LinksOf, HeadsOf, CountsOf
<1>7. TypeOK' /\ Aligned(brk)'
  BY <1>1 DEF TypeOK
<1>8. Owned(L, used)' /\ Apart(L, used, brk)'
  BY <1>4
<1> QED
  BY <1>5, <1>6, <1>7, <1>8 DEF PoolInv, Describes

LEMMA PushKeeps ==
    ASSUME PoolInv, NEW t \in Threads, NEW b \in used, NEW size \in 0 .. b.capacity,
           ~ (size > MAXBYTE), used' = used \ {b}, push(t, b.at, size), brk' = brk, cut' = cut
    PROVE  PoolInv'
<1>1. TypeOK /\ Aligned(brk)
  BY DEF PoolInv
<1>2. PICK L : Describes(L)
  BY DEF PoolInv
<1>3. PICK i : i = getIndex(size)
  OBVIOUS
<1>4. i \in Classes /\ ClassSize(i) <= Room(b.capacity) /\ size \in Nat
  <2>1. b.capacity \in Nat /\ size \in Nat /\ size <= b.capacity /\ size <= MAXBYTE
    <3>1. b.capacity \in Nat
      BY <1>1, Types DEF TypeOK
    <3>2. MAXBYTE \in Nat
      BY Positive
    <3> QED
      BY ONLY <3>1, <3>2, size \in 0 .. b.capacity, ~ (size > MAXBYTE)
  <2>2. Room(size) <= Room(b.capacity)
    BY <2>1, RoomOrder
  <2> QED
    BY <1>3, <2>1, <2>2, IndexIsClass DEF Room
<1>5. /\ L \in [Lists -> Seq(Cells)] /\ CountsOf(L) /\ HeadsOf(L)
      /\ freeListSize_[t][i] \in Nat
  BY <1>1, <1>2, <1>4, InvFacts, Positive DEF Describes, TypeOK
<1>6. PICK s : s = <<b.at>> \o L[<<t, i>>]
  OBVIOUS
<1>7. PICK mem : mem = [next EXCEPT ![b.at] = freeList_[t][i]]
  OBVIOUS
<1>8. PICK L1 : L1 = [L EXCEPT ![<<t, i>>] = s]
  OBVIOUS
<1>9. PushFact(L, L1, b, t, i, s, mem)
  BY <1>1, <1>2, <1>4, <1>6, <1>7, <1>8, Pushing
<1>10. /\ s \in Seq(Cells) /\ Distinct(s) /\ Linked(mem, s) /\ First(s) = b.at
       /\ Len(s) = Len(L[<<t, i>>]) + 1 /\ Len(s) \in Nat \ {0} /\ Len(s) < SizeMod
  BY <1>9, LengthFits DEF PushFact
<1>11. List(mem, b.at) = s
  BY <1>10, ListOf
<1>12. PICK count : count = (freeListSize_[t][i] + 1) % SizeMod
  OBVIOUS
<1>13. count \in 0 .. SizeMod - 1 /\ (ClassSize(i) <= SpanSize => count = Len(s))
  <2>1. freeListSize_[t][i] + 1 \in Nat
    BY <1>5
  <2>2. ClassSize(i) <= SpanSize => freeListSize_[t][i] + 1 = Len(s)
    BY <1>4, <1>5, <1>10 DEF CountsOf
  <2>3. count \in 0 .. SizeMod - 1
    BY <1>12, <2>1, Modulo
  <2>4. Len(s) \in Nat /\ Len(s) % SizeMod = Len(s)
    BY <1>10, Modulo
  <2> QED
    BY <1>12, <2>2, <2>3, <2>4
<1>14. PICK n : n = Kept(count)
  OBVIOUS
<1> DEFINE mem1 == [mem EXCEPT ![s[n]] = nullptr]
<1> DEFINE z == (count - n) * roundUp(size)
<1>15. /\ freeList_' = [freeList_ EXCEPT ![t][i] = b.at]
       /\ IF count > ShouldReturn /\ count > 1 /\ Len(s) >= n
          THEN /\ freeListSize_' = [freeListSize_ EXCEPT ![t][i] = n]
               /\ IF Len(s) > n
                  THEN returnRange(mem1, i, s[n + 1], z) /\ short' = (short \/ size = 0)
                  ELSE next' = mem /\ UNCHANGED <<centralFreeList_, short>>
          ELSE /\ freeListSize_' = [freeListSize_ EXCEPT ![t][i] = count]
               /\ next' = mem
               /\ UNCHANGED <<centralFreeList_, short>>
  BY ONLY <1>3, <1>7, <1>11, <1>12, <1>14, push(t, b.at, size) DEF push
<1> HIDE DEF mem1, z
<1>16. CASE ~ (count > ShouldReturn /\ count > 1 /\ Len(s) >= n)
  <2>1. freeListSize_' = [freeListSize_ EXCEPT ![t][i] = count]
    BY <1>15, <1>16
  <2>2. next' = mem /\ centralFreeList_' = centralFreeList_ /\ short' = short
    BY <1>15, <1>16
  <2> QED
    BY <1>1, <1>2, <1>4, <1>9, <1>13, <1>15, <2>1, <2>2, PushStays
<1>17. CASE count > ShouldReturn /\ count > 1 /\ Len(s) >= n
  <2>1. n \in Nat \ {0} /\ n < count /\ n \in 0 .. SizeMod - 1 /\ count \in Nat
    <3>1. count \in Nat
      BY <1>13, Positive
    <3>2. n \in Nat \ {0} /\ n < count
      BY <1>14, <1>17, <3>1, KeptHalf
    <3> QED
      BY <1>13, <3>1, <3>2, Positive
  <2>2. freeListSize_' = [freeListSize_ EXCEPT ![t][i] = n]
    BY <1>15, <1>17
  <2>3. CASE ~ (Len(s) > n)
    <3>1. /\ next' = mem /\ centralFreeList_' = centralFreeList_ /\ short' = short
          /\ n = Len(s)
      BY <1>10, <1>15, <1>17, <2>1, <2>3
    <3> QED
      BY <1>1, <1>2, <1>4, <1>9, <1>15, <2>1, <2>2, <3>1, PushStays
  <2>4. CASE Len(s) > n
    <3>1. PushRest(t, i, b, n)
      BY <1>15, <2>2 DEF PushRest
    <3>2. PICK list : list = List(mem1, s[n + 1])
      OBVIOUS
    <3>3. PICK m : m = Least(Most(z, 1), Len(list))
      OBVIOUS
    <3>4. PICK c : c = L[<<Shared, i>>]
      OBVIOUS
    <3>5. PICK mem2 : mem2 = [mem1 EXCEPT ![list[m]] = First(c)]
      OBVIOUS
    <3>6. PICK K : K = SubSeq(s, 1, n)
      OBVIOUS
    <3>7. PICK q : q = SubSeq(s, n + 1, n + m)
      OBVIOUS
    <3>8. PICK C : C = q \o c
      OBVIOUS
    <3>9. PICK old : old = mem1
      OBVIOUS
    <3>10. Parts(mem, s, n, c, z, old, list, m, mem2, K, q, C)
      BY ONLY <3>2, <3>3, <3>5, <3>6, <3>7, <3>8, <3>9 DEF Parts, mem1
    <3>11. next' = mem2 /\ centralFreeList_' = [centralFreeList_ EXCEPT ![i] = s[n + 1]]
      <4>1. returnRange(mem1, i, s[n + 1], z)
        BY <1>15, <1>17, <2>4
      <4>2. First(c) = centralFreeList_[i]
        BY <1>4, <1>5, <3>4 DEF HeadsOf
      <4> QED
        BY ONLY <3>2, <3>3, <3>5, <4>1, <4>2 DEF returnRange
    <3>12. n < Len(s) /\ size \in Nat /\ short' = (short \/ size = 0)
      BY <1>4, <1>15, <1>17, <2>4
    <3>14. z \in Nat /\ (size # 0 => z = ReturnedBytes(count, n, i))
      <4>1. PICK e \in Nat : e = count - n
        BY <2>1
      <4>2. PICK g \in Nat : g = roundUp(size)
        BY <3>12, Rounding
      <4>3. z = e * g
        BY <4>1, <4>2 DEF z
      <4>4. size # 0 => g = ClassSize(i)
        BY <1>3, <3>12, <4>2, Rounding DEF Room
      <4> QED
        BY <4>1, <4>3, <4>4 DEF ReturnedBytes
    <3>13. Parts(mem, s, n, L[<<Shared, i>>], z, old, list, m, mem2, K, q, C)
      BY ONLY <3>4, <3>10
    <3> QED
      BY ONLY <1>1, <1>2, <1>4, <1>9, <1>13, <1>14, <1>17, <3>1, <3>11, <3>12, <3>13, <3>14,
         t \in Threads, b \in used, PushReturns
  <2>5. Len(s) \in Nat
    BY <1>10
  <2> QED
    BY <2>3, <2>4
<1> QED
  BY <1>16, <1>17

LEMMA DeallocateKeeps ==
    ASSUME PoolInv, NEW t \in Threads, NEW b \in used, NEW size \in 0 .. b.capacity,
           deallocate(t, b, size)
    PROVE  PoolInv'
<1>1. size <= b.capacity /\ used' = used \ {b} /\ brk' = brk /\ cut' = cut
  BY DEF deallocate
<1>2. CASE size > MAXBYTE
  <2>1. UNCHANGED <<next, freeList_, freeListSize_, centralFreeList_, brk, cut, short>>
    BY <1>2 DEF deallocate
  <2>2. b.capacity > MAXBYTE
    <3>1. b.capacity \in Nat /\ MAXBYTE \in Nat
      BY Types, Positive DEF PoolInv, TypeOK
    <3> QED
      BY <1>1, <1>2, <3>1
  <2> QED
    BY <1>1, <2>1, <2>2, DropKeeps
<1>3. CASE ~ (size > MAXBYTE)
  <2>1. push(t, b.at, size)
    BY <1>3 DEF deallocate
  <2> QED
    BY <1>1, <1>3, <2>1, PushKeeps
<1> QED
  BY <1>2, <1>3

----------------------------------------------------------------------------
(* The invariant of every behaviour.                                       *)

LEMMA InitPool ==
    ASSUME Init
    PROVE  PoolInv
<1>1. PICK L : L = [l \in Lists |-> <<>>]
  OBVIOUS
<1>2. /\ L \in [Lists -> Seq(Cells)]
      /\ \A l \in Lists :
             L[l] = <<>> /\ BlocksOf(L[l]) = {} /\ First(L[l]) = nullptr /\ Len(L[l]) = 0
  <2>1. \A l \in Lists : L[l] = <<>>
    BY <1>1
  <2>2. L \in [Lists -> Seq(Cells)]
    BY <1>1
  <2> QED
    BY <2>1, <2>2, EmptyBlocks
<1>3. Owned(L, used)
  <2>1. \A l \in Lists : Distinct(L[l])
    BY <1>2 DEF Distinct
  <2> QED
    BY <1>2, <2>1 DEF Owned, Init
<1>4. Apart(L, used, brk)
  <2>1. \A a, n : ~ Claimed(L, used, a, n)
    BY <1>2 DEF Claimed, Init
  <2> QED
    BY <2>1 DEF Apart
<1>5. LinksOf(L)
  BY <1>2 DEF LinksOf, Linked
<1>6. HeadsOf(L) /\ CountsOf(L) /\ SavedBy(L)
  BY <1>2, ListNames DEF Init, HeadsOf, CountsOf, SavedBy
<1>7. TypeOK /\ Aligned(brk)
  <2>1. Aligned(0) /\ 0 \in 0 .. Memory /\ 0 \in 0 .. SizeMod - 1
    <3>1. 0 % ALIGNMENT = 0 /\ SizeMod \in Nat \ {0} /\ Memory \in Nat
      <4>1. 0 = 0 * ALIGNMENT + 0 /\ 0 \in 0 .. ALIGNMENT - 1
        BY Positive
      <4> QED
        BY <4>1, Positive, MemoryAssumption, DivModUnique
    <3> QED
      BY <3>1 DEF Aligned
  <2> QED
    BY <2>1 DEF Init, TypeOK
<1> QED
  BY <1>3, <1>4, <1>5, <1>6, <1>7 DEF PoolInv, Describes

LEMMA NextPool ==
    ASSUME PoolInv, [Next]_vars
    PROVE  PoolInv'
<1>1. ASSUME NEW t \in Threads, NEW capacity \in Capacities,
             \/ allocate_local(t, capacity)
             \/ allocate_central(t, capacity)
             \/ allocate_span(t, capacity)
             \/ allocate_malloc(capacity)
      PROVE  PoolInv'
  BY <1>1, LocalKeeps, CentralKeeps, SpanKeeps, MallocKeeps
<1>2. ASSUME NEW t \in Threads, NEW b \in used, NEW size \in 0 .. b.capacity,
             deallocate(t, b, size)
      PROVE  PoolInv'
  BY <1>2, DeallocateKeeps
<1>3. CASE UNCHANGED vars
  <2>1. UNCHANGED <<next, freeList_, freeListSize_, centralFreeList_, brk, used, cut, short>>
    BY <1>3 DEF vars
  <2>2. TypeOK' /\ Aligned(brk)'
    BY <2>1 DEF PoolInv, TypeOK
  <2>3. PICK L : Describes(L)
    BY DEF PoolInv
  <2>4. Owned(L, used)' /\ Apart(L, used, brk)'
    BY <2>1, <2>3 DEF Describes
  <2>5. LinksOf(L)' /\ HeadsOf(L)' /\ CountsOf(L)'
    BY <2>1, <2>3 DEF Describes, LinksOf, HeadsOf, CountsOf
  <2>6. SavedBy(L)'
    <3>1. LosesNone' <=> LosesNone
      BY <2>1 DEF LosesNone
    <3> QED
      BY <2>1, <2>3, <3>1 DEF Describes, SavedBy, Somewhere
  <2> QED
    BY <2>2, <2>4, <2>5, <2>6 DEF PoolInv, Describes
<1> QED
  BY <1>1, <1>2, <1>3 DEF Next

----------------------------------------------------------------------------
(* What the invariant says of the properties.                              *)

\* The name that Heads gives to a list.
NameOf(l) == IF l[1] = Shared THEN <<"central", l[2]>> ELSE l

ListPiece(L, l, k) ==
    [owner |-> NameOf(l), place |-> k, at |-> L[l][k], size |-> ClassSize(l[2])]

UserPiece(b) ==
    [owner |-> <<"user", 0>>, place |-> b.at, at |-> b.at, size |-> b.capacity]

LEMMA HeadsAre ==
    ASSUME NEW L, HeadsOf(L)
    PROVE  /\ \A h \in Heads : \E l \in Lists :
                  h = [list |-> NameOf(l), class |-> l[2], at |-> First(L[l])]
           /\ \A l \in Lists :
                  [list |-> NameOf(l), class |-> l[2], at |-> First(L[l])] \in Heads
<1>1. /\ \A i \in Classes : <<Shared, i>> \in Lists /\ NameOf(<<Shared, i>>) = <<"central", i>>
      /\ \A t \in Threads, i \in Classes : <<t, i>> \in Lists /\ NameOf(<<t, i>>) = <<t, i>>
  BY ListNames DEF NameOf
<1>2. /\ \A i \in Classes : centralFreeList_[i] = First(L[<<Shared, i>>])
      /\ \A t \in Threads, i \in Classes : freeList_[t][i] = First(L[<<t, i>>])
  BY DEF HeadsOf
<1>3. ASSUME NEW h \in Heads
      PROVE  \E l \in Lists : h = [list |-> NameOf(l), class |-> l[2], at |-> First(L[l])]
  <2>1. CASE \E i \in Classes :
               h = [list |-> <<"central", i>>, class |-> i, at |-> centralFreeList_[i]]
    <3>1. PICK i \in Classes :
               h = [list |-> <<"central", i>>, class |-> i, at |-> centralFreeList_[i]]
      BY <2>1
    <3>2. PICK l : l = <<Shared, i>>
      OBVIOUS
    <3>3. /\ l \in Lists /\ NameOf(l) = <<"central", i>> /\ l[2] = i
          /\ First(L[l]) = centralFreeList_[i]
      BY <1>1, <1>2, <3>2, ListNames
    <3> QED
      BY <3>1, <3>3
  <2>2. CASE \E t \in Threads, i \in Classes :
               h = [list |-> <<t, i>>, class |-> i, at |-> freeList_[t][i]]
    <3>1. PICK t \in Threads, i \in Classes :
               h = [list |-> <<t, i>>, class |-> i, at |-> freeList_[t][i]]
      BY <2>2
    <3>2. PICK l : l = <<t, i>>
      OBVIOUS
    <3>3. l \in Lists /\ NameOf(l) = <<t, i>> /\ l[2] = i /\ First(L[l]) = freeList_[t][i]
      BY <1>1, <1>2, <3>2, ListNames
    <3> QED
      BY <3>1, <3>3
  <2> QED
    BY <1>3, <2>1, <2>2 DEF Heads
<1>4. ASSUME NEW l \in Lists
      PROVE  [list |-> NameOf(l), class |-> l[2], at |-> First(L[l])] \in Heads
  <2>1. CASE \E i \in Classes : l = <<Shared, i>>
    <3>1. PICK i \in Classes : l = <<Shared, i>>
      BY <2>1
    <3>2. NameOf(l) = <<"central", i>> /\ l[2] = i /\ First(L[l]) = centralFreeList_[i]
      BY <1>1, <1>2, <3>1, ListNames
    <3>3. [list |-> <<"central", i>>, class |-> i, at |-> centralFreeList_[i]] \in Heads
      BY DEF Heads
    <3> QED
      BY <3>2, <3>3
  <2>2. CASE \E t \in Threads, i \in Classes : l = <<t, i>>
    <3>1. PICK t \in Threads, i \in Classes : l = <<t, i>>
      BY <2>2
    <3>2. NameOf(l) = <<t, i>> /\ l[2] = i /\ First(L[l]) = freeList_[t][i]
      BY <1>1, <1>2, <3>1, ListNames
    <3>3. [list |-> <<t, i>>, class |-> i, at |-> freeList_[t][i]] \in Heads
      BY DEF Heads
    <3> QED
      BY <3>2, <3>3
  <2> QED
    BY <2>1, <2>2, ListNames
<1> QED
  BY <1>3, <1>4

LEMMA PiecesAre ==
    ASSUME TypeOK, NEW L, Describes(L)
    PROVE  /\ \A p \in Pieces :
                  \/ \E l \in Lists : \E k \in 1 .. Len(L[l]) : p = ListPiece(L, l, k)
                  \/ \E b \in used : p = UserPiece(b)
           /\ \A l \in Lists : \A k \in 1 .. Len(L[l]) : ListPiece(L, l, k) \in Pieces
           /\ \A b \in used : UserPiece(b) \in Pieces
<1> DEFINE Free(h) ==
        LET list == List(next, h.at) IN
        {[owner |-> h.list, place |-> k, at |-> list[k], size |-> ClassSize(h.class)] :
             k \in DOMAIN list}
<1>0. Pieces = (UNION {Free(h) : h \in Heads}) \union {UserPiece(b) : b \in used}
  BY DEF Pieces, UserPiece
<1> HIDE DEF Free
<1>1. \A p : p \in Pieces <=> \/ \E h \in Heads : p \in Free(h)
                              \/ \E b \in used : p = UserPiece(b)
  BY <1>0
<1>2. HeadsOf(L) /\ \A l \in Lists : L[l] \in Seq(Cells) /\ List(next, First(L[l])) = L[l]
  <2>1. \A l \in Lists : L[l] \in Seq(Cells) /\ Distinct(L[l]) /\ Linked(next, L[l])
    BY InvFacts
  <2>2. \A l \in Lists : List(next, First(L[l])) = L[l]
    BY <2>1, ListOf
  <2> QED
    BY <2>1, <2>2 DEF Describes
<1>3. ASSUME NEW l \in Lists, NEW h,
             h = [list |-> NameOf(l), class |-> l[2], at |-> First(L[l])]
      PROVE  Free(h) = {ListPiece(L, l, k) : k \in 1 .. Len(L[l])}
  <2>1. h.list = NameOf(l) /\ h.class = l[2] /\ h.at = First(L[l])
    BY <1>3
  <2>2. List(next, h.at) = L[l]
    BY <1>2, <2>1
  <2>3. DOMAIN L[l] = 1 .. Len(L[l])
    BY <1>2, LenProperties
  <2> QED
    BY <2>1, <2>2, <2>3 DEF ListPiece, Free
<1>4. ASSUME NEW p \in Pieces
      PROVE  \/ \E l \in Lists : \E k \in 1 .. Len(L[l]) : p = ListPiece(L, l, k)
             \/ \E b \in used : p = UserPiece(b)
  <2>1. CASE \E b \in used : p = UserPiece(b)
    BY <2>1
  <2>2. CASE \E h \in Heads : p \in Free(h)
    <3>1. PICK h \in Heads : p \in Free(h)
      BY <2>2
    <3>2. PICK l \in Lists : h = [list |-> NameOf(l), class |-> l[2], at |-> First(L[l])]
      BY <1>2, HeadsAre
    <3>3. p \in {ListPiece(L, l, k) : k \in 1 .. Len(L[l])}
      BY <1>3, <3>1, <3>2
    <3> QED
      BY <3>3
  <2> QED
    BY <1>1, <1>4, <2>1, <2>2
<1>5. ASSUME NEW l \in Lists, NEW k \in 1 .. Len(L[l])
      PROVE  ListPiece(L, l, k) \in Pieces
  <2>1. PICK h : h = [list |-> NameOf(l), class |-> l[2], at |-> First(L[l])]
    OBVIOUS
  <2>2. h \in Heads
    BY <1>2, <2>1, HeadsAre
  <2>3. ListPiece(L, l, k) \in Free(h)
    BY <1>3, <2>1
  <2> QED
    BY <1>1, <2>2, <2>3
<1>6. \A b \in used : UserPiece(b) \in Pieces
  BY <1>1
<1> QED
  BY <1>4, <1>5, <1>6

LEMMA SameBytes ==
    ASSUME NEW L, NEW U, NEW b \in Nat, Owned(L, U), Apart(L, U, b),
           NEW a, NEW n, NEW x, NEW m, Claimed(L, U, a, n), Claimed(L, U, x, m),
           NEW i \in Nat, i <= n, NEW j \in Nat, j <= m
    PROVE  /\ a + i <= b
           /\ a # x => a + i <= x \/ x + j <= a
<1>1. /\ a \in Cells /\ a \in Nat /\ n \in Nat
      /\ x \in Cells /\ x \in Nat /\ m \in Nat
  BY ClaimSizes
<1>2. a + n <= b /\ (a < x => a + n <= x) /\ (x < a => x + m <= a)
  BY <1>1 DEF Apart
<1> QED
  BY <1>1, <1>2

\* What each piece claims.
LEMMA PieceClaims ==
    ASSUME TypeOK, NEW L, Describes(L), NEW p \in Pieces
    PROVE  p.size \in Nat /\ \E n \in Nat : p.size <= n /\ Claimed(L, used, p.at, n)
<1>1. CASE \E l \in Lists : \E k \in 1 .. Len(L[l]) : p = ListPiece(L, l, k)
  <2>0. PICK l \in Lists : \E k \in 1 .. Len(L[l]) : p = ListPiece(L, l, k)
    BY <1>1
  <2>1. PICK k \in 1 .. Len(L[l]) : p = ListPiece(L, l, k)
    BY <2>0
  <2>2. p.at = L[l][k] /\ p.size = ClassSize(l[2])
    BY <2>1 DEF ListPiece
  <2>3. L[l][k] \in BlocksOf(L[l]) /\ l[2] \in Classes
    BY InvFacts, BlocksAreCells, ListNames
  <2>4. Claimed(L, used, p.at, p.size) /\ p.size \in Nat
    BY <2>2, <2>3, ListClaims, ClassSizes
  <2> QED
    BY <2>4
<1>2. CASE \E b \in used : p = UserPiece(b)
  <2>1. PICK b \in used : p = UserPiece(b)
    BY <1>2
  <2>2. p.at = b.at /\ p.size = b.capacity /\ b.capacity \in Nat
    BY <2>1, Types DEF UserPiece, TypeOK
  <2>3. Claimed(L, used, p.at, Room(b.capacity)) /\ p.size <= Room(b.capacity)
        /\ Room(b.capacity) \in Nat
    BY <2>2, Rooms DEF Claimed
  <2> QED
    BY <2>2, <2>3
<1> QED
  BY <1>1, <1>2, PiecesAre

\* A place belongs to one piece.
LEMMA OnePiece ==
    ASSUME TypeOK, NEW L, Describes(L), NEW p \in Pieces, NEW q \in Pieces, p.at = q.at
    PROVE  p = q
<1>1. /\ \A l \in Lists : Distinct(L[l])
      /\ \A l, m \in Lists : \A a \in BlocksOf(L[l]) : a \in BlocksOf(L[m]) => l = m
      /\ \A l \in Lists : \A u \in used : u.at \notin BlocksOf(L[l])
      /\ \A u, v \in used : u.at = v.at => u = v
  BY DEF Describes, Owned
<1>2. \A l \in Lists : \A k \in 1 .. Len(L[l]) :
          ListPiece(L, l, k).at = L[l][k] /\ L[l][k] \in BlocksOf(L[l])
  BY InvFacts, BlocksAreCells DEF ListPiece
<1>3. \A b \in used : UserPiece(b).at = b.at
  BY DEF UserPiece
<1>4. ASSUME NEW l \in Lists, NEW k \in 1 .. Len(L[l]), p = ListPiece(L, l, k),
             NEW m \in Lists, NEW j \in 1 .. Len(L[m]), q = ListPiece(L, m, j)
      PROVE  p = q
  <2>1. L[l][k] = L[m][j]
    BY <1>2, <1>4
  <2>2. l = m
    BY <1>1, <1>2, <2>1
  <2>3. k = j
    BY <1>1, <2>1, <2>2 DEF Distinct
  <2> QED
    BY <1>4, <2>2, <2>3
<1>5. ASSUME NEW l \in Lists, NEW k \in 1 .. Len(L[l]), NEW b \in used,
             ListPiece(L, l, k).at = UserPiece(b).at
      PROVE  FALSE
  BY <1>1, <1>2, <1>3, <1>5
<1>6. ASSUME NEW b \in used, NEW d \in used, p = UserPiece(b), q = UserPiece(d)
      PROVE  p = q
  BY <1>1, <1>3, <1>6
<1>7. \/ \E l \in Lists : \E k \in 1 .. Len(L[l]) : p = ListPiece(L, l, k)
      \/ \E b \in used : p = UserPiece(b)
  BY PiecesAre
<1>8. \/ \E l \in Lists : \E k \in 1 .. Len(L[l]) : q = ListPiece(L, l, k)
      \/ \E b \in used : q = UserPiece(b)
  BY PiecesAre
<1> QED
  BY <1>4, <1>5, <1>6, <1>7, <1>8

LEMMA PoolNoOverlap ==
    ASSUME PoolInv
    PROVE  NoOverlap
<1>1. TypeOK /\ brk \in Nat
  BY DEF PoolInv, Aligned
<1>2. PICK L : Describes(L)
  BY DEF PoolInv
<1>3. Owned(L, used) /\ Apart(L, used, brk)
  BY <1>2 DEF Describes
<1>4. ASSUME NEW p \in Pieces, NEW q \in Pieces
      PROVE  /\ p.at + p.size <= brk
             /\ p # q => p.at + p.size <= q.at \/ q.at + q.size <= p.at
  <2>1. p.size \in Nat /\ q.size \in Nat
    BY <1>1, <1>2, PieceClaims
  <2>2. PICK n \in Nat : p.size <= n /\ Claimed(L, used, p.at, n)
    BY <1>1, <1>2, PieceClaims
  <2>3. PICK m \in Nat : q.size <= m /\ Claimed(L, used, q.at, m)
    BY <1>1, <1>2, PieceClaims
  <2>4. /\ p.at + p.size <= brk
        /\ p.at # q.at => p.at + p.size <= q.at \/ q.at + q.size <= p.at
    BY <1>1, <1>3, <2>1, <2>2, <2>3, SameBytes
  <2>5. p # q => p.at # q.at
    BY <1>1, <1>2, OnePiece
  <2> QED
    BY <2>4, <2>5
<1> QED
  BY <1>4 DEF NoOverlap

LEMMA PoolCounts ==
    ASSUME PoolInv
    PROVE  CountsAgree
<1>1. TypeOK
  BY DEF PoolInv
<1>2. PICK L : Describes(L)
  BY DEF PoolInv
<1>3. HeadsOf(L) /\ CountsOf(L)
  BY <1>2 DEF Describes
<1>4. ASSUME NEW t \in Threads, NEW i \in Classes, ClassSize(i) <= SpanSize
      PROVE  freeListSize_[t][i] = Len(List(next, freeList_[t][i]))
  <2>1. /\ L[<<t, i>>] \in Seq(Cells) /\ Distinct(L[<<t, i>>]) /\ Linked(next, L[<<t, i>>])
    BY <1>1, <1>2, InvFacts, ListNames
  <2>2. List(next, First(L[<<t, i>>])) = L[<<t, i>>]
    BY <2>1, ListOf
  <2>3. freeList_[t][i] = First(L[<<t, i>>])
    BY <1>3 DEF HeadsOf
  <2>4. freeListSize_[t][i] = Len(L[<<t, i>>])
    BY <1>3, <1>4 DEF CountsOf
  <2> QED
    BY <2>2, <2>3, <2>4
<1> QED
  BY <1>4 DEF CountsAgree

LEMMA PoolKeepsAll ==
    ASSUME PoolInv, FewLargeBlocks
    PROVE  NothingLost
<1> SUFFICES ASSUME ~short
             PROVE  \A a \in cut : \E p \in Pieces : a = p.at
  BY DEF NothingLost
<1>1. TypeOK
  BY DEF PoolInv
<1>2. PICK L : Describes(L)
  BY DEF PoolInv
<1>3. ASSUME NEW a \in cut
      PROVE  \E p \in Pieces : a = p.at
  <2>1. Somewhere(L, used, a)
    BY <1>2 DEF Describes, SavedBy, LosesNone
  <2>2. CASE \E u \in used : a = u.at
    <3>1. PICK u \in used : a = u.at
      BY <2>2
    <3>2. UserPiece(u) \in Pieces /\ UserPiece(u).at = a
      BY <1>1, <1>2, <3>1, PiecesAre DEF UserPiece
    <3> QED
      BY <3>2
  <2>3. CASE \E l \in Lists : a \in BlocksOf(L[l])
    <3>1. PICK l \in Lists : a \in BlocksOf(L[l])
      BY <2>3
    <3>2. PICK k \in 1 .. Len(L[l]) : a = L[l][k]
      BY <3>1 DEF BlocksOf
    <3>3. ListPiece(L, l, k) \in Pieces
      BY <1>1, <1>2, PiecesAre
    <3>4. ListPiece(L, l, k).at = a
      BY <3>2 DEF ListPiece
    <3> QED
      BY <3>3, <3>4
  <2> QED
    BY <2>1, <2>2, <2>3 DEF Somewhere
<1> QED
  BY <1>3

----------------------------------------------------------------------------
(* The theorems.                                                           *)

\* Whatever capacities the threads allocate and whatever sizes they give back, in
\* any order: the heads, the pointers in memory and the counts describe lists of
\* blocks that nobody uses.
THEOREM Invariance == Spec => []PoolInv
<1>1. Init => PoolInv
  BY InitPool
<1>2. PoolInv /\ [Next]_vars => PoolInv'
  BY NextPool
<1> QED
  BY <1>1, <1>2, PTL DEF Spec

\* Every variable holds a value of its type: no list runs into what a user wrote
\* into its block (freeList_ of threadcache.h and centralFreeList_ of
\* centralCache.h).
THEOREM TypeCorrect == Spec => []TypeOK
<1>1. PoolInv => TypeOK
  BY DEF PoolInv
<1> QED
  BY <1>1, Invariance, PTL

\* threadcache::allocate never gives out memory that is in use or in a list, and
\* no two of those overlap, although blocks come back by the bytes written and on
\* other threads.
THEOREM NeverOverlaps == Spec => []NoOverlap
<1>1. PoolInv => NoOverlap
  BY PoolNoOverlap
<1> QED
  BY <1>1, Invariance, PTL

\* freeListSize_ is the length of its list whenever the blocks of the class fit
\* into a span: allocate, fetchFromCentralCache, deallocate and
\* returnToCentralCache keep it so.
THEOREM CountsAlwaysAgree == Spec => []CountsAgree
<1>1. PoolInv => CountsAgree
  BY PoolCounts
<1> QED
  BY <1>1, Invariance, PTL

\* No block of a span is lost by returnRange, which cuts off what it is not told
\* the number of, nor by fetchRange, as long as no list has been returned with a
\* Block of no bytes: it needs memory that does not hold so many blocks larger
\* than a span that their count, too low, cuts some off.
THEOREM NothingIsLost == FewLargeBlocks => (Spec => []NothingLost)
<1> SUFFICES ASSUME FewLargeBlocks
             PROVE  Spec => []NothingLost
  OBVIOUS
<1>1. PoolInv => NothingLost
  BY PoolKeepsAll
<1> QED
  BY <1>1, Invariance, PTL
=============================================================================
