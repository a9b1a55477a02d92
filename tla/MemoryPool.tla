---------------------------- MODULE MemoryPool ----------------------------
(***************************************************************************)
(* memory_pool2: a cache of free lists per thread (threadcache), a list    *)
(* per class that the threads share (centralCache), and spans of pages     *)
(* from the system (pageCache).  A free block holds in its first bytes the *)
(* pointer to the next one; a block in use holds whatever its user wrote.  *)
(*                                                                         *)
(* An operation works on the thread's own lists and enters at most one     *)
(* critical section, the spin lock of its class in centralCache (with the  *)
(* mutex of pageCache inside), so it is one action.                        *)
(*                                                                         *)
(* The users are the Blocks of reactor/Buffer.h: they allocate by capacity *)
(* and give back by the bytes written, on whichever thread destroys them.  *)
(* deallocateSpan is never called, so no span is ever free again and       *)
(* allocateSpan always asks the system, which here always has memory.      *)
(***************************************************************************)
EXTENDS Integers, FiniteSets, Sequences

CONSTANTS
    Threads,
    ALIGNMENT, MAXBYTE,     \* bytes; a pointer takes ALIGNMENT bytes
    PAGE_SIZE, SPAN_PAGES,
    BatchNum,               \* BatchNum[i]: getBatchNum of the size of class i
    ShouldReturn,           \* threshold of shouldReturnToCentralCache
    SizeMod,                \* size_t wraps at SizeMod
    Capacities,             \* capacities of Blocks
    Memory                  \* bound: bytes the system gives out

ClassSize(i) == (i + 1) * ALIGNMENT
Classes == 0 .. (MAXBYTE \div ALIGNMENT) - 1
SpanSize == SPAN_PAGES * PAGE_SIZE

ASSUME SizesAssumption ==
    /\ {ALIGNMENT, MAXBYTE, PAGE_SIZE, SPAN_PAGES, ShouldReturn, SizeMod} \subseteq Nat \ {0}
    /\ MAXBYTE % ALIGNMENT = 0 /\ PAGE_SIZE % ALIGNMENT = 0
    /\ Capacities \subseteq Nat \ {0}
\* size_t can count the bytes of memory.
ASSUME MemoryAssumption == Memory \in Nat /\ Memory < SizeMod
\* A batch of more than one block fits into a span.
ASSUME BatchAssumption ==
    /\ BatchNum \in [Classes -> Nat \ {0}]
    /\ \A i \in Classes : BatchNum[i] > 1 => BatchNum[i] * ClassSize(i) <= SpanSize

VARIABLES
    next,           \* next[a]: the pointer stored at address a
    freeList_,      \* freeList_[t][i], freeListSize_[t][i]: the cache of thread t
    freeListSize_,
    centralFreeList_,
    brk,            \* the first address the system has not given out
    used,           \* Blocks in use: [at, capacity]
    cut,            \* history: the blocks spans were cut into
    short           \* history: a list was returned with a Block of no bytes

vars == <<next, freeList_, freeListSize_, centralFreeList_, brk, used, cut, short>>

Cells == {a \in 0 .. Memory - 1 : a % ALIGNMENT = 0}
nullptr == -1
junk == -2      \* user's data, or a pointer to nowhere

Least(a, b) == IF a < b THEN a ELSE b
Most(a, b) == IF a < b THEN b ELSE a

----------------------------------------------------------------------------
(* Lists.                                                                  *)

\* The blocks of the list that starts at head.  A list that runs in a circle has
\* more of them than there are cells.
List(mem, head) ==
    LET path[n \in 0 .. Cardinality(Cells) + 1] ==
            IF n = 0 THEN <<>>
            ELSE LET before == path[n - 1]
                     at == IF before = <<>> THEN head ELSE mem[before[Len(before)]]
                 IN  IF at \in Cells THEN Append(before, at) ELSE before
    IN  path[Cardinality(Cells) + 1]

\* A bug for comparison: the last block points on as well.
Chain_unended(mem, start, n, size) ==
    [a \in Cells |->
        IF \E k \in 0 .. n - 1 : a = start + k * size THEN a + size ELSE mem[a]]

\* n blocks of a size from start on, each pointing to the following one.
Chain(mem, start, n, size) ==
    [a \in Cells |->
        IF \E k \in 0 .. n - 1 : a = start + k * size
        THEN IF a = start + (n - 1) * size THEN nullptr ELSE a + size
        ELSE mem[a]]

\* The user of a block writes as many bytes as it asked for.
Scribbled(mem, at, capacity) ==
    [a \in Cells |-> IF at <= a /\ a < at + capacity THEN junk ELSE mem[a]]

\* A bug for comparison: sizes are rounded down.
getIndex_down(bytes) == (Most(bytes, ALIGNMENT) \div ALIGNMENT) - 1

getIndex(bytes) == ((Most(bytes, ALIGNMENT) + ALIGNMENT - 1) \div ALIGNMENT) - 1

\* In multiples of ALIGNMENT; no bytes stay none, where getIndex takes them for one.
roundUp(bytes) == ((bytes + ALIGNMENT - 1) \div ALIGNMENT) * ALIGNMENT

----------------------------------------------------------------------------

Init ==
    /\ next = [a \in Cells |-> nullptr]
    /\ freeList_ = [t \in Threads |-> [i \in Classes |-> nullptr]]
    /\ freeListSize_ = [t \in Threads |-> [i \in Classes |-> 0]]
    /\ centralFreeList_ = [i \in Classes |-> nullptr]
    /\ brk = 0
    /\ used = {}
    /\ cut = {}
    /\ short = FALSE

----------------------------------------------------------------------------
(* threadcache::allocate                                                   *)

Hand(at, capacity, mem) ==
    /\ used' = used \union {[at |-> at, capacity |-> capacity]}
    /\ next' = Scribbled(mem, at, capacity)

\* The first block of the thread's own list.
allocate_local(t, capacity) ==
    LET i == getIndex(capacity)
        ptr == freeList_[t][i]
    IN  /\ capacity <= MAXBYTE
        /\ ptr # nullptr
        /\ freeList_' = [freeList_ EXCEPT ![t][i] = next[ptr]]
        /\ freeListSize_' = [freeListSize_ EXCEPT ![t][i] = (@ - 1) % SizeMod]
        /\ Hand(ptr, capacity, next)
        /\ UNCHANGED <<centralFreeList_, brk, cut, short>>

\* A bug for comparison: the block that is handed out is counted.
Cached_all(increase) == increase

\* Of the blocks fetched one is handed out.
Cached(increase) == increase - 1

\* fetchFromCentralCache, with a list of `increase` blocks from `start` on.
Fetched(t, i, capacity, start, increase, mem) ==
    /\ freeListSize_' = [freeListSize_ EXCEPT ![t][i] = (@ + Cached(increase)) % SizeMod]
    /\ freeList_' = IF BatchNum[i] > 1 THEN [freeList_ EXCEPT ![t][i] = mem[start]]
                    ELSE freeList_
    /\ Hand(start, capacity, mem)

\* fetchRange takes a batch, or what there is, from the shared list.
allocate_central(t, capacity) ==
    LET i == getIndex(capacity)
        list == List(next, centralFreeList_[i])
        count == Least(BatchNum[i], Len(list))
    IN  /\ capacity <= MAXBYTE
        /\ freeList_[t][i] = nullptr
        /\ centralFreeList_[i] # nullptr
        /\ centralFreeList_' = [centralFreeList_ EXCEPT ![i] = next[list[count]]]
        /\ Fetched(t, i, capacity, list[1], count, [next EXCEPT ![list[count]] = nullptr])
        /\ UNCHANGED <<brk, cut, short>>

\* fetchFromPageCache: eight pages, or as many as a larger block needs.
SpanFor(size) ==
    IF size <= SpanSize THEN SpanSize
    ELSE ((size + PAGE_SIZE - 1) \div PAGE_SIZE) * PAGE_SIZE

\* allocateSpan never finds a free span and asks the system.
systemAlloc(bytes) == brk + bytes <= Memory /\ brk' = brk + bytes

\* fetchRange cuts a new span: a batch for the thread, the rest for all.  A block
\* larger than the usual span is not counted as a block of it.
allocate_span(t, capacity) ==
    LET i == getIndex(capacity)
        size == ClassSize(i)
        totalBlocks == SpanSize \div size
        allocBlocks == Least(BatchNum[i], totalBlocks)
        rest == brk + allocBlocks * size
        batch == IF allocBlocks > 1 THEN Chain(next, brk, allocBlocks, size) ELSE next
    IN  /\ capacity <= MAXBYTE
        /\ freeList_[t][i] = nullptr
        /\ centralFreeList_[i] = nullptr
        /\ systemAlloc(SpanFor(size))
        /\ cut' = cut \union {brk + k * size : k \in 0 .. Most(totalBlocks, 1) - 1}
        /\ UNCHANGED short
        /\ IF totalBlocks > allocBlocks
           THEN /\ centralFreeList_' = [centralFreeList_ EXCEPT ![i] = rest]
                /\ Fetched(t, i, capacity, brk, allocBlocks,
                           Chain(batch, rest, totalBlocks - allocBlocks, size))
           ELSE /\ UNCHANGED centralFreeList_
                /\ Fetched(t, i, capacity, brk, allocBlocks, batch)

\* malloc, beyond the largest class.
allocate_malloc(capacity) ==
    /\ capacity > MAXBYTE
    /\ systemAlloc(SpanFor(capacity))
    /\ Hand(brk, capacity, next)
    /\ UNCHANGED <<freeList_, freeListSize_, centralFreeList_, cut, short>>

----------------------------------------------------------------------------
(* threadcache::deallocate                                                 *)

\* A bug for comparison: the shared list is replaced by the returned one.
returnRange_replaces(mem, i, start, size) ==
    LET list == List(mem, start) IN
    /\ next' = [mem EXCEPT ![list[Least(Most(size, 1), Len(list))]] = nullptr]
    /\ centralFreeList_' = [centralFreeList_ EXCEPT ![i] = start]

\* The list from start on, or its first blocks up to the number `size` and at
\* least one, goes before the shared list.
returnRange(mem, i, start, size) ==
    LET list == List(mem, start) IN
    /\ next' = [mem EXCEPT ![list[Least(Most(size, 1), Len(list))]] = centralFreeList_[i]]
    /\ centralFreeList_' = [centralFreeList_ EXCEPT ![i] = start]

\* keepNum: what stays in the cache.
Kept(batchNum) == Most(batchNum \div 4, 1)

\* The block is the first of its class's list in the cache; of a list that is
\* counted as too long all but a quarter is returned.  What is returned is
\* counted in bytes of the size given back: more than enough, unless that is 0.
push(t, at, size) ==
    LET i == getIndex(size)
        mem == [next EXCEPT ![at] = freeList_[t][i]]
        list == List(mem, at)
        count == (freeListSize_[t][i] + 1) % SizeMod
        keepNum == Kept(count)
    IN  /\ freeList_' = [freeList_ EXCEPT ![t][i] = at]
        /\ IF count > ShouldReturn /\ count > 1 /\ Len(list) >= keepNum
           THEN /\ freeListSize_' = [freeListSize_ EXCEPT ![t][i] = keepNum]
                /\ IF Len(list) > keepNum
                   THEN /\ returnRange([mem EXCEPT ![list[keepNum]] = nullptr], i,
                                       list[keepNum + 1], (count - keepNum) * roundUp(size))
                        /\ short' = (short \/ size = 0)
                   ELSE next' = mem /\ UNCHANGED <<centralFreeList_, short>>
           ELSE /\ freeListSize_' = [freeListSize_ EXCEPT ![t][i] = count]
                /\ next' = mem
                /\ UNCHANGED <<centralFreeList_, short>>

\* ~Block of b, with `size` bytes written.
deallocate(t, b, size) ==
    /\ b \in used
    /\ size <= b.capacity
    /\ used' = used \ {b}
    /\ IF size > MAXBYTE
       THEN UNCHANGED <<next, freeList_, freeListSize_, centralFreeList_, short>>
       ELSE push(t, b.at, size)
    /\ UNCHANGED <<brk, cut>>

----------------------------------------------------------------------------

Next ==
    \E t \in Threads :
        \/ \E capacity \in Capacities :
              \/ allocate_local(t, capacity)
              \/ allocate_central(t, capacity)
              \/ allocate_span(t, capacity)
              \/ allocate_malloc(capacity)
        \/ \E b \in used : \E size \in 0 .. b.capacity : deallocate(t, b, size)

Spec == Init /\ [][Next]_vars

----------------------------------------------------------------------------
(* Properties.                                                             *)

\* Every variable holds a value of its type; a list never runs into what a user
\* wrote into its block.
TypeOK ==
    /\ next \in [Cells -> Cells \union {nullptr, junk}]
    /\ freeList_ \in [Threads -> [Classes -> Cells \union {nullptr}]]
    /\ freeListSize_ \in [Threads -> [Classes -> 0 .. SizeMod - 1]]
    /\ centralFreeList_ \in [Classes -> Cells \union {nullptr}]
    /\ brk \in 0 .. Memory
    /\ \A b \in used : b.at \in Cells /\ b.capacity \in Capacities
    /\ cut \subseteq Cells
    /\ short \in BOOLEAN

\* The free lists, with the class each is for.
Heads ==
    {[list |-> <<"central", i>>, class |-> i, at |-> centralFreeList_[i]] : i \in Classes}
    \union {[list |-> <<t, i>>, class |-> i, at |-> freeList_[t][i]] :
               t \in Threads, i \in Classes}

\* The memory somebody counts on: the bytes of every Block in use, and the bytes
\* of its class of every free block.
Pieces ==
    (UNION {LET list == List(next, h.at) IN
                {[owner |-> h.list, place |-> k, at |-> list[k], size |-> ClassSize(h.class)] :
                     k \in DOMAIN list} : h \in Heads})
    \union {[owner |-> <<"user", 0>>, place |-> b.at, at |-> b.at, size |-> b.capacity] :
               b \in used}

\* No memory is given out twice, and none that is free is in use: whatever sizes
\* are given back, on whichever threads, a Block has the bytes it asked for to
\* itself.
NoOverlap ==
    LET pieces == Pieces IN
    \A p \in pieces :
        /\ p.at + p.size <= brk
        /\ \A q \in pieces \ {p} : p.at + p.size <= q.at \/ q.at + q.size <= p.at

\* freeListSize_ follows the length of every list (threadcache.h:35), of blocks
\* that fit into a span.
CountsAgree ==
    \A t \in Threads, i \in Classes :
        ClassSize(i) <= SpanSize =>
            freeListSize_[t][i] = Len(List(next, freeList_[t][i]))

\* No block of a span is lost: it is in use or in a list.  (A list returned with
\* a Block of no bytes loses all but its first block.)
NothingLost == ~short => cut \subseteq {p.at : p \in Pieces}
=============================================================================
