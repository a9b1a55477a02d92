--------------------------- MODULE UserDao_proofs ---------------------------
(***************************************************************************)
(* Proofs about the connection pool and the operations on top of it, for   *)
(* every finite set of IO threads, every number of connections, whichever  *)
(* of them open, every set of users and passwords, and with or without a   *)
(* unique key.                                                             *)
(***************************************************************************)
EXTENDS UserDao, FiniteSetTheorems, SequenceTheorems, TLAPS

----------------------------------------------------------------------------
(* The inductive invariant of the pool.                                    *)

\* Only a thread inside its operation has a connection.
HeldInside == \A t \in Threads : sql[t] # nullptr => step[t] = "have"

\* front and back count the pops and pushes of the queue (the two ends that
\* GetConn compares without the mutex).
EndsCount == Len(connque_) = back - front

\* The threads that have a permit and the semaphore together never exceed the
\* connections: a connection that failed to open loses its permit for good.
Permitted == {t \in Threads : step[t] = "pop" \/ sql[t] # nullptr}

PermitsBounded == semId_ + Cardinality(Permitted) <= MaxConn

PoolInv ==
    /\ TypeOK
    /\ HeldInside
    /\ EndsCount
    /\ PermitsBounded
    /\ PermitsCover
    /\ Exclusive

----------------------------------------------------------------------------
(* The inductive invariant of the operations.                              *)

\* With the unique key, or as long as a name was not contested, it has one row at
\* most, which is the one that Register has reported, if it has reported any.
RowsAsRegistered ==
    \A u \in Users :
        unique_key \/ u \notin contested =>
            /\ Len(user[u]) <= 1
            /\ registered[u] = <<>> \/ registered[u] = user[u]

\* A thread about to insert an uncontested name is the only one that is, and the
\* name has no row.
InsertsAlone ==
    \A t \in Threads :
        stage[t] = "insert" /\ row[t].user \notin contested =>
            user[row[t].user] = <<>> /\ ~Rivalled(t, row[t].user)

DaoInv == PoolInv /\ DaoTypeOK /\ RowsAsRegistered /\ InsertsAlone

----------------------------------------------------------------------------
(* Counting threads.                                                       *)

LEMMA CountThreads ==
    ASSUME NEW S \in SUBSET Threads, NEW t \in Threads
    PROVE  /\ Cardinality(S) \in Nat
           /\ t \notin S => Cardinality(S \union {t}) = Cardinality(S) + 1
           /\ t \in S => Cardinality(S \ {t}) = Cardinality(S) - 1
<1>1. IsFiniteSet(S)
  BY ThreadsAssumption, FS_Subset
<1> QED
  BY <1>1, FS_CardinalityType, FS_AddElement, FS_RemoveElement

LEMMA NobodyYet == Cardinality({}) = 0
BY FS_EmptySet

\* What pop() leaves of a queue, and what it takes.
LEMMA PopQueue ==
    ASSUME NEW S, NEW q \in Seq(S), q # <<>>
    PROVE  /\ Head(q) \in S
           /\ Head(q) = q[1]
           /\ 1 \in DOMAIN q
           /\ Tail(q) \in Seq(S)
           /\ Len(Tail(q)) = Len(q) - 1
           /\ \A i \in DOMAIN Tail(q) :
                 i \in Nat /\ i + 1 \in DOMAIN q /\ i + 1 # 1 /\ Tail(q)[i] = q[i + 1]
<1>1. /\ Tail(q) \in Seq(S)
      /\ Len(Tail(q)) = Len(q) - 1
      /\ \A i \in 1 .. Len(Tail(q)) : Tail(q)[i] = q[i + 1]
      /\ Head(q) \in S
  BY HeadTailProperties
<1>2. /\ Len(q) \in Nat \ {0}
      /\ DOMAIN q = 1 .. Len(q)
  BY EmptySeq, LenProperties
<1>3. DOMAIN Tail(q) = 1 .. Len(Tail(q))
  BY <1>1, LenProperties
<1>4. Head(q) = q[1]
  BY <1>2
<1> QED
  BY <1>1, <1>2, <1>3, <1>4

\* What push() makes of it.
LEMMA PushQueue ==
    ASSUME NEW S, NEW q \in Seq(S), NEW e \in S
    PROVE  /\ Append(q, e) \in Seq(S)
           /\ Len(Append(q, e)) = Len(q) + 1
           /\ DOMAIN q = 1 .. Len(q)
           /\ Len(q) \in Nat
           /\ DOMAIN Append(q, e) = 1 .. Len(q) + 1
           /\ \A i \in 1 .. Len(q) : Append(q, e)[i] = q[i]
           /\ Append(q, e)[Len(q) + 1] = e
<1>1. /\ Append(q, e) \in Seq(S)
      /\ Len(Append(q, e)) = Len(q) + 1
      /\ \A i \in 1 .. Len(q) : Append(q, e)[i] = q[i]
      /\ Append(q, e)[Len(q) + 1] = e
  BY AppendProperties
<1>2. /\ Len(q) \in Nat
      /\ DOMAIN q = 1 .. Len(q)
      /\ DOMAIN Append(q, e) = 1 .. Len(Append(q, e))
  BY <1>1, LenProperties
<1> QED
  BY <1>1, <1>2

----------------------------------------------------------------------------
(* The pool.                                                               *)

LEMMA InitPool == Init => PoolInv
<1> SUFFICES ASSUME Init PROVE PoolInv
  OBVIOUS
<1>1. PICK ok \in SUBSET Conns :
        connque_ = [i \in Conns |-> IF i \in ok THEN i ELSE nullptr]
  BY DEF Init
<1>2. /\ connque_ \in [Conns -> Conns \union {nullptr}]
      /\ MaxConn \in Nat
      /\ Conns = 1 .. MaxConn
  BY <1>1, MaxConnAssumption DEF Conns
<1>3. /\ connque_ \in Seq(Conns \union {nullptr})
      /\ Len(connque_) = MaxConn
  BY <1>2
<1>4. opened \in 0 .. MaxConn
  <2> DEFINE good == {i \in Conns : connque_[i] # nullptr}
  <2>1. IsFiniteSet(Conns) /\ Cardinality(Conns) = MaxConn
    BY <1>2, MaxConnAssumption, FS_Interval
  <2>2. good \in SUBSET Conns
    OBVIOUS
  <2>3. IsFiniteSet(good) /\ Cardinality(good) <= MaxConn
    BY <2>1, <2>2, FS_Subset
  <2>4. Cardinality(good) \in Nat
    BY <2>3, FS_CardinalityType
  <2>5. opened = Cardinality(good)
    BY DEF Init
  <2> QED
    BY <1>2, <2>3, <2>4, <2>5
<1>5. Popping = {} /\ Permitted = {}
  BY DEF Init, Popping, Permitted
<1>6. TypeOK
  BY <1>2, <1>3, <1>4, MaxCallsAssumption DEF Init, TypeOK
<1>7. HeldInside /\ EndsCount
  BY <1>2, <1>3 DEF Init, HeldInside, EndsCount
<1>8. PermitsBounded /\ PermitsCover
  BY <1>2, <1>3, <1>5, NobodyYet DEF Init, PermitsBounded, PermitsCover
<1>9. Exclusive
  BY <1>1, <1>2 DEF Init, Exclusive, nullptr
<1> QED
  BY <1>6, <1>7, <1>8, <1>9 DEF PoolInv

\* A step that leaves queue, permits and connections alone.
LEMMA Untouched ==
    ASSUME PoolInv, TypeOK', HeldInside',
           UNCHANGED <<connque_, front, back, semId_, sql>>,
           Popping' = Popping,
           pool' = "open" => pool = "open"
    PROVE  PoolInv'
<1>1. Permitted' = Permitted
  BY DEF Popping, Permitted
<1>2. EndsCount' /\ PermitsBounded'
  BY <1>1 DEF PoolInv, EndsCount, PermitsBounded
<1>3. PermitsCover'
  BY DEF PoolInv, PermitsCover
<1>4. Exclusive'
  BY DEF PoolInv, Exclusive
<1> QED
  BY <1>2, <1>3, <1>4 DEF PoolInv

LEMMA GetConnKeeps ==
    ASSUME PoolInv, NEW t \in Threads,
           GetConn(t) \/ check_one_end(t) \/ check_other_end(t)
    PROVE  PoolInv'
<1> USE DEF PoolInv, Goes, queueVars
<1>1. CASE GetConn(t)
  <2>1. TypeOK' /\ HeldInside' /\ Popping' = Popping
    BY <1>1, MaxCallsAssumption DEF GetConn, TypeOK, HeldInside, Popping
  <2> QED
    BY <1>1, <2>1, Untouched DEF GetConn
<1>2. CASE check_one_end(t)
  <2>1. TypeOK'
    <3>1. [end |-> "front", at |-> front] \in [end : {"none", "front", "back"}, at : Nat]
      BY DEF TypeOK
    <3>2. [end |-> "back", at |-> back] \in [end : {"none", "front", "back"}, at : Nat]
      BY DEF TypeOK
    <3>3. seen' \in [Threads -> [end : {"none", "front", "back"}, at : Nat]]
      BY <1>2, <3>1, <3>2 DEF check_one_end, TypeOK
    <3> QED
      BY <1>2, <3>3 DEF check_one_end, TypeOK
  <2>2. HeldInside' /\ Popping' = Popping
    BY <1>2 DEF check_one_end, TypeOK, HeldInside, Popping
  <2> QED
    BY <1>2, <2>1, <2>2, Untouched DEF check_one_end
<1>3. CASE check_other_end(t)
  <2>1. TypeOK' /\ HeldInside' /\ Popping' = Popping
    BY <1>3 DEF check_other_end, TypeOK, HeldInside, Popping
  <2> QED
    BY <1>3, <2>1, Untouched DEF check_other_end
<1> QED
  BY <1>1, <1>2, <1>3

\* A permit goes from the semaphore to the thread.
LEMMA WaitKeeps ==
    ASSUME PoolInv, NEW t \in Threads, sem_wait(t)
    PROVE  PoolInv'
<1> USE DEF PoolInv
<1>1. /\ step[t] = "wait" /\ sql[t] = nullptr
      /\ step' = [step EXCEPT ![t] = "pop"]
      /\ semId_' = semId_ - 1 /\ semId_ > 0
      /\ UNCHANGED <<connque_, opened, front, back, seen, sql, calls, pool>>
  BY DEF sem_wait, Goes, queueVars, HeldInside
<1>2. TypeOK'
  BY <1>1, MaxConnAssumption DEF TypeOK
<1>3. HeldInside' /\ EndsCount' /\ Exclusive'
  BY <1>1 DEF TypeOK, HeldInside, EndsCount, Exclusive
<1>4. /\ Popping' = Popping \union {t} /\ t \notin Popping
      /\ Permitted' = Permitted \union {t} /\ t \notin Permitted
      /\ Popping \in SUBSET Threads /\ Permitted \in SUBSET Threads
  BY <1>1 DEF TypeOK, Popping, Permitted
<1>5. /\ Cardinality(Popping) \in Nat /\ Cardinality(Permitted) \in Nat
      /\ Cardinality(Popping') = Cardinality(Popping) + 1
      /\ Cardinality(Permitted') = Cardinality(Permitted) + 1
  BY <1>4, CountThreads
<1>6. semId_ \in Int /\ MaxConn \in Nat
  BY MaxConnAssumption DEF TypeOK
<1>7. PermitsBounded' /\ PermitsCover'
  BY <1>1, <1>5, <1>6 DEF PermitsBounded, PermitsCover
<1> QED
  BY <1>2, <1>3, <1>7

\* The permit becomes the first connection of the queue, or nothing if that
\* one has not been opened.
LEMMA PopKeeps ==
    ASSUME PoolInv, NEW t \in Threads, pop(t)
    PROVE  PoolInv'
<1> USE DEF PoolInv
<1>1. /\ step[t] = "pop" /\ connque_ # <<>>
      /\ step' = [step EXCEPT ![t] = "have"]
      /\ sql' = [sql EXCEPT ![t] = Head(connque_)]
      /\ connque_' = Tail(connque_)
      /\ front' = front + 1
      /\ UNCHANGED <<opened, back, semId_, seen, calls, pool>>
  BY DEF pop, Goes
<1>2. connque_ \in Seq(Conns \union {nullptr})
  BY DEF TypeOK
<1>3. /\ Head(connque_) \in Conns \union {nullptr}
      /\ Head(connque_) = connque_[1]
      /\ 1 \in DOMAIN connque_
      /\ connque_' \in Seq(Conns \union {nullptr})
      /\ Len(connque_') = Len(connque_) - 1
      /\ \A i \in DOMAIN connque_' :
            i \in Nat /\ i + 1 \in DOMAIN connque_ /\ i + 1 # 1 /\ connque_'[i] = connque_[i + 1]
  BY <1>1, <1>2, PopQueue
<1>4. TypeOK'
  BY <1>1, <1>3 DEF TypeOK
<1>5. HeldInside' /\ EndsCount'
  <2>1. HeldInside'
    BY <1>1 DEF TypeOK, HeldInside
  <2>2. Len(connque_) \in Nat
    BY <1>2, LenProperties
  <2>3. EndsCount'
    BY <1>1, <1>3, <2>2 DEF TypeOK, EndsCount
  <2> QED
    BY <2>1, <2>3
<1>6. Exclusive'
  <2>1. ASSUME NEW r \in Threads, NEW u \in Threads, r # u, sql'[r] # nullptr
        PROVE  sql'[r] # sql'[u]
    BY <1>1, <1>3, <2>1 DEF TypeOK, Exclusive
  <2>2. ASSUME NEW i \in DOMAIN connque_', NEW j \in DOMAIN connque_',
               i # j, connque_'[i] # nullptr
        PROVE  connque_'[i] # connque_'[j]
    <3>1. i + 1 # j + 1
      BY <1>3, <2>2
    <3> QED
      BY <1>3, <2>2, <3>1 DEF Exclusive
  <2>3. ASSUME NEW r \in Threads, NEW i \in DOMAIN connque_', sql'[r] # nullptr
        PROVE  sql'[r] # connque_'[i]
    BY <1>1, <1>3, <2>3 DEF TypeOK, Exclusive
  <2> QED
    BY <2>1, <2>2, <2>3 DEF Exclusive
<1>7. /\ Popping' = Popping \ {t} /\ t \in Popping
      /\ t \in Permitted
      /\ Permitted' = Permitted \/ Permitted' = Permitted \ {t}
      /\ Popping \in SUBSET Threads /\ Permitted \in SUBSET Threads
  <2>1. /\ Popping' = Popping \ {t} /\ t \in Popping
        /\ Popping \in SUBSET Threads /\ Permitted \in SUBSET Threads
        /\ t \in Permitted
    BY <1>1 DEF TypeOK, Popping, Permitted
  <2>2. \A u \in Threads : u # t => step'[u] = step[u] /\ sql'[u] = sql[u]
    BY <1>1 DEF TypeOK
  <2>3. CASE sql'[t] = nullptr
    <3>1. t \notin Permitted'
      BY <1>1, <2>3 DEF TypeOK, Permitted
    <3>2. Permitted' = Permitted \ {t}
      BY <2>2, <3>1 DEF Permitted
    <3> QED
      BY <2>1, <3>2
  <2>4. CASE sql'[t] # nullptr
    <3>1. t \in Permitted'
      BY <2>4 DEF Permitted
    <3>2. Permitted' = Permitted
      BY <2>1, <2>2, <3>1 DEF Permitted
    <3> QED
      BY <2>1, <3>2
  <2> QED
    BY <2>3, <2>4
<1>8. /\ Cardinality(Popping) \in Nat /\ Cardinality(Permitted) \in Nat
      /\ Cardinality(Popping') = Cardinality(Popping) - 1
      /\ Cardinality(Permitted') \in {Cardinality(Permitted), Cardinality(Permitted) - 1}
  BY <1>7, CountThreads
<1>9. PermitsBounded' /\ PermitsCover'
  <2>1. Len(connque_) \in Nat /\ semId_ \in Int /\ MaxConn \in Nat
    BY <1>2, LenProperties, MaxConnAssumption DEF TypeOK
  <2>2. PermitsBounded'
    BY <1>1, <1>8, <2>1 DEF PermitsBounded
  <2>3. UNCHANGED <<semId_, pool>>
    BY <1>1
  <2>4. PermitsCover'
    BY <1>3, <1>8, <2>1, <2>3 DEF PermitsCover
  <2> QED
    BY <2>2, <2>4
<1> QED
  BY <1>4, <1>5, <1>6, <1>9

\* Once front() has been called on an empty queue nothing is promised of the
\* permits.
LEMMA PopEmptyKeeps ==
    ASSUME PoolInv, NEW t \in Threads, pop_empty(t)
    PROVE  PoolInv'
<1>1. TypeOK' /\ HeldInside' /\ Popping' = Popping
  BY DEF PoolInv, pop_empty, queueVars, TypeOK, HeldInside, Popping
<1> QED
  BY <1>1, Untouched DEF pop_empty, queueVars

\* The connection and its permit come back together.
LEMMA FreeConnKeeps ==
    ASSUME PoolInv, NEW t \in Threads, FreeConn(t)
    PROVE  PoolInv'
<1> USE DEF PoolInv
<1>1. /\ step[t] = "have" /\ sql[t] # nullptr
      /\ connque_' = Append(connque_, sql[t])
      /\ back' = back + 1
      /\ semId_' = semId_ + 1
      /\ sql' = [sql EXCEPT ![t] = nullptr]
      /\ step' = [step EXCEPT ![t] = "idle"]
      /\ UNCHANGED <<opened, front, seen, calls, pool>>
  BY DEF FreeConn, Goes
<1>2. /\ connque_ \in Seq(Conns \union {nullptr})
      /\ sql[t] \in Conns \union {nullptr}
  BY DEF TypeOK
<1>3. /\ connque_' \in Seq(Conns \union {nullptr})
      /\ Len(connque_') = Len(connque_) + 1
      /\ DOMAIN connque_ = 1 .. Len(connque_)
      /\ Len(connque_) \in Nat
      /\ DOMAIN connque_' = 1 .. Len(connque_) + 1
      /\ \A i \in 1 .. Len(connque_) : connque_'[i] = connque_[i]
      /\ connque_'[Len(connque_) + 1] = sql[t]
  BY <1>1, <1>2, PushQueue
<1>4. /\ Popping' = Popping /\ Popping \in SUBSET Threads
      /\ Permitted' = Permitted \ {t} /\ t \in Permitted /\ Permitted \in SUBSET Threads
  BY <1>1 DEF TypeOK, Popping, Permitted
<1>5. /\ Cardinality(Popping) \in Nat /\ Cardinality(Permitted) \in Nat
      /\ Cardinality(Permitted \ {t}) \in Nat
      /\ Cardinality(Permitted') = Cardinality(Permitted) - 1
  <2>1. Permitted \ {t} \in SUBSET Threads
    BY <1>4
  <2> QED
    BY <1>4, <2>1, CountThreads
<1>6. semId_ \in 0 .. MaxConn /\ MaxConn \in Nat
  BY MaxConnAssumption DEF TypeOK
<1>7. PermitsBounded' /\ PermitsCover' /\ semId_' \in 0 .. MaxConn
  <2>1. PermitsBounded'
    BY <1>1, <1>5, <1>6 DEF PermitsBounded
  <2>2. PermitsCover'
    <3>1. semId_' = semId_ + 1 /\ pool' = pool
      BY <1>1
    <3>2. Popping' = Popping
      BY <1>4
    <3> QED
      BY <1>3, <1>5, <1>6, <3>1, <3>2 DEF PermitsCover
  <2>3. semId_' \in 0 .. MaxConn
    BY <1>1, <1>4, <1>5, <1>6 DEF PermitsBounded
  <2> QED
    BY <2>1, <2>2, <2>3
<1>8. TypeOK'
  BY <1>1, <1>3, <1>7 DEF TypeOK
<1>9. HeldInside' /\ EndsCount'
  BY <1>1, <1>3 DEF TypeOK, HeldInside, EndsCount
<1>10. Exclusive'
  <2>0. \A u \in Threads : u # t => sql'[u] = sql[u]
    BY <1>1 DEF TypeOK
  <2>00. sql'[t] = nullptr
    BY <1>1 DEF TypeOK
  <2>1. ASSUME NEW r \in Threads, NEW u \in Threads, r # u, sql'[r] # nullptr
        PROVE  sql'[r] # sql'[u]
    BY <2>0, <2>00, <2>1 DEF Exclusive
  <2>2. ASSUME NEW i \in DOMAIN connque_', NEW j \in DOMAIN connque_',
               i # j, connque_'[i] # nullptr
        PROVE  connque_'[i] # connque_'[j]
    BY <1>1, <1>3, <2>2 DEF Exclusive
  <2>3. ASSUME NEW r \in Threads, NEW i \in DOMAIN connque_', sql'[r] # nullptr
        PROVE  sql'[r] # connque_'[i]
    BY <1>1, <1>3, <2>0, <2>00, <2>3 DEF Exclusive
  <2> QED
    BY <2>1, <2>2, <2>3 DEF Exclusive
<1> QED
  BY <1>7, <1>8, <1>9, <1>10

LEMMA ReleaseNothingKeeps ==
    ASSUME PoolInv, NEW t \in Threads, release_nothing(t)
    PROVE  PoolInv'
<1>1. TypeOK' /\ HeldInside' /\ Popping' = Popping
  BY DEF PoolInv, release_nothing, Goes, queueVars, TypeOK, HeldInside, Popping
<1> QED
  BY <1>1, Untouched DEF release_nothing, queueVars

\* ClosePool empties the queue: the connections in use stay distinct, and the
\* permits are not promised any more.
LEMMA ClosePoolKeeps ==
    ASSUME PoolInv, ClosePool
    PROVE  PoolInv'
<1> USE DEF PoolInv, ClosePool
<1>1. TypeOK' /\ HeldInside' /\ EndsCount'
  BY EmptySeq DEF TypeOK, HeldInside, EndsCount
<1>2. Permitted' = Permitted
  BY DEF Permitted
<1>3. PermitsBounded' /\ PermitsCover'
  BY <1>2 DEF PermitsBounded, PermitsCover
<1>4. Exclusive'
  BY DEF Exclusive
<1> QED
  BY <1>1, <1>3, <1>4

----------------------------------------------------------------------------
(* Register and Login.                                                     *)

LEMMA NoRowType == NoRow \in Rows
<1>1. PICK u \in Users, p \in Passwords : TRUE
  BY RowsAssumption
<1>2. [user |-> u, password |-> p] \in Rows
  BY <1>1 DEF Rows
<1> QED
  BY <1>2 DEF NoRow

LEMMA InitDao == DaoInit => DaoInv
<1> SUFFICES ASSUME DaoInit PROVE DaoInv
  OBVIOUS
<1>1. PoolInv
  BY InitPool DEF DaoInit
<1>2. DaoTypeOK
  BY <1>1, NoRowType, EmptySeq DEF DaoInit, PoolInv, DaoTypeOK
<1>3. RowsAsRegistered
  BY DEF DaoInit, RowsAsRegistered
<1>4. InsertsAlone
  BY DEF DaoInit, InsertsAlone
<1> QED
  BY <1>1, <1>2, <1>3, <1>4 DEF DaoInv

\* A step of the pool within an operation.
LEMMA PoolStepKeeps ==
    ASSUME DaoInv, PoolInv', NEW t \in Threads,
           step[t] # "have",
           \A u \in Threads : u # t => step'[u] = step[u] /\ sql'[u] = sql[u],
           UNCHANGED daoVars
    PROVE  DaoInv'
<1>1. DaoTypeOK'
  BY DEF DaoInv, PoolInv, DaoTypeOK, daoVars
<1>2. RowsAsRegistered'
  BY DEF DaoInv, RowsAsRegistered, daoVars
<1>3. InsertsAlone'
  BY DEF DaoInv, InsertsAlone, Rivalled, daoVars
<1> QED
  BY <1>1, <1>2, <1>3 DEF DaoInv

LEMMA AcquireKeeps ==
    ASSUME DaoInv, NEW t \in Threads, Acquire(t)
    PROVE  DaoInv'
<1>1. PoolInv'
  BY GetConnKeeps, WaitKeeps, PopKeeps, PopEmptyKeeps DEF DaoInv, Acquire
<1>2. step[t] # "have" /\ UNCHANGED daoVars
  BY DEF Acquire, check_one_end, check_other_end, sem_wait, pop, pop_empty
<1>3. \A u \in Threads : u # t => step'[u] = step[u] /\ sql'[u] = sql[u]
  BY DEF Acquire, check_one_end, check_other_end, sem_wait, pop, pop_empty, Goes, DaoInv, PoolInv, TypeOK
<1> QED
  BY <1>1, <1>2, <1>3, PoolStepKeeps

LEMMA CallKeeps ==
    ASSUME DaoInv, NEW t \in Threads, Call(t)
    PROVE  DaoInv'
<1>1. PoolInv'
  BY GetConnKeeps DEF DaoInv, Call
<1>2. DaoTypeOK'
  BY <1>1 DEF DaoInv, PoolInv, DaoTypeOK, TypeOK, Call, GetConn, Goes, tableVars
<1>3. RowsAsRegistered'
  BY DEF DaoInv, RowsAsRegistered, Call, tableVars
<1>4. InsertsAlone'
  <2>1. /\ stage' = [stage EXCEPT ![t] = "query"] /\ stage \in [Threads -> {"query", "insert", "done"}]
        /\ UNCHANGED <<row, user, contested>>
    BY DEF DaoInv, DaoTypeOK, Call, tableVars
  <2> QED
    BY <2>1 DEF DaoInv, InsertsAlone, Rivalled
<1> QED
  BY <1>1, <1>2, <1>3, <1>4 DEF DaoInv

\* The destructor gives the connection back when the operation is decided.
LEMMA ReturnKeeps ==
    ASSUME DaoInv, NEW t \in Threads, Return(t)
    PROVE  DaoInv'
<1>1. PoolInv'
  BY FreeConnKeeps, ReleaseNothingKeeps DEF DaoInv, Return, Release
<1>2. /\ stage[t] = "done"
      /\ success' = [success EXCEPT ![t] = FALSE]
      /\ UNCHANGED <<unique_key, stage, row, user, registered, contested>>
  BY DEF Return, tableVars
<1>3. \A u \in Threads : u # t => step'[u] = step[u] /\ sql'[u] = sql[u]
  BY DEF Return, Release, FreeConn, release_nothing, Goes, DaoInv, PoolInv, TypeOK
<1>4. DaoTypeOK'
  BY <1>1, <1>2, <1>3 DEF DaoInv, PoolInv, DaoTypeOK
<1>5. RowsAsRegistered'
  BY <1>2 DEF DaoInv, RowsAsRegistered
<1>6. InsertsAlone'
  BY <1>2 DEF DaoInv, InsertsAlone, Rivalled
<1> QED
  BY <1>1, <1>4, <1>5, <1>6 DEF DaoInv

LEMMA PoolIdles ==
    ASSUME PoolInv, UNCHANGED vars
    PROVE  PoolInv'
<1>1. Popping' = Popping /\ Permitted' = Permitted
  BY DEF vars, Popping, Permitted
<1> QED
  BY <1>1 DEF PoolInv, vars, TypeOK, HeldInside, EndsCount, PermitsBounded, PermitsCover, Exclusive

\* A thread that decides is about to insert no longer.
LEMMA DecidesStages ==
    ASSUME DaoInv, NEW t \in Threads, NEW b, Decides(t, b)
    PROVE  /\ UNCHANGED <<unique_key, contested>>
           /\ stage'[t] # "insert"
           /\ \A s \in Threads \ {t} : stage'[s] = stage[s] /\ row'[s] = row[s]
BY DEF DaoInv, DaoTypeOK, Decides

\* The operation is decided without another row in the table.
LEMMA DecisionKeeps ==
    ASSUME DaoInv, NEW t \in Threads, NEW b \in BOOLEAN,
           Decides(t, b), UNCHANGED <<user, registered>>
    PROVE  DaoInv'
<1>1. PoolInv'
  BY PoolIdles DEF DaoInv, Decides
<1>2. DaoTypeOK'
  BY <1>1, NoRowType DEF DaoInv, PoolInv, DaoTypeOK, Decides, vars
<1>3. RowsAsRegistered'
  BY DEF DaoInv, RowsAsRegistered, Decides
<1>4. InsertsAlone'
  BY DecidesStages DEF DaoInv, InsertsAlone, Rivalled
<1> QED
  BY <1>1, <1>2, <1>3, <1>4 DEF DaoInv

\* The second statement follows: the name is free, and contested if another thread
\* has seen so as well, or nothing is known of it.
LEMMA InsertsKeeps ==
    ASSUME DaoInv, NEW t \in Threads, NEW r \in Rows,
           InQuery(t), sql[t] # nullptr, Inserts(t, r), UNCHANGED tableVars,
           contested' \in {contested, contested \union {r.user}},
           r.user \in contested' \/ (user[r.user] = <<>> /\ ~Rivalled(t, r.user))
    PROVE  DaoInv'
<1>1. PoolInv'
  BY PoolIdles DEF DaoInv, Inserts
<1>2. r.user \in Users
  BY DEF Rows
<1>3. DaoTypeOK'
  BY <1>1, <1>2 DEF DaoInv, PoolInv, DaoTypeOK, Inserts, InQuery, vars, tableVars
<1>4. RowsAsRegistered'
  BY DEF DaoInv, RowsAsRegistered, tableVars
<1>5. InsertsAlone'
  <2> SUFFICES ASSUME NEW s \in Threads, stage'[s] = "insert", row'[s].user \notin contested'
               PROVE  /\ user[row'[s].user] = <<>>
                      /\ \A q \in Threads \ {s} :
                            stage'[q] = "insert" => row'[q].user # row'[s].user
    BY DEF InsertsAlone, Rivalled, tableVars
  <2>1. /\ stage'[t] = "insert" /\ row'[t] = r
        /\ \A q \in Threads \ {t} : stage'[q] = stage[q] /\ row'[q] = row[q]
    BY DEF DaoInv, DaoTypeOK, Inserts
  <2>2. CASE s = t
    BY <2>1, <2>2 DEF Rivalled
  <2>3. CASE s # t
    <3>1. stage[s] = "insert" /\ row'[s] = row[s] /\ row[s].user \notin contested
      BY <2>1, <2>3
    <3>2. user[row[s].user] = <<>> /\ ~Rivalled(s, row[s].user)
      BY <3>1 DEF DaoInv, InsertsAlone
    <3>3. row[s].user # r.user
      BY <2>3, <3>1 DEF Rivalled
    <3> QED
      BY <2>1, <3>1, <3>2, <3>3 DEF Rivalled
  <2> QED
    BY <2>2, <2>3
<1> QED
  BY <1>1, <1>3, <1>4, <1>5 DEF DaoInv

\* A row more in the table, reported or not: the table had none of the name, or
\* has no unique key and the name was contested.
LEMMA StoredKeeps ==
    ASSUME DaoInv, NEW t \in Threads, NEW b \in BOOLEAN,
           InInsert(t), ~Refused(t), Stored(t), Registered(t) \/ UNCHANGED registered,
           Decides(t, b)
    PROVE  DaoInv'
<1> DEFINE u == row[t].user
           p == row[t].password
<1>1. PoolInv'
  BY PoolIdles DEF DaoInv, Decides
<1>2. u \in Users /\ p \in Passwords
  BY DEF DaoInv, DaoTypeOK, Rows
<1>3. /\ user \in [Users -> Seq(Passwords)]
      /\ registered \in [Users -> Seq(Passwords)]
  BY DEF DaoInv, DaoTypeOK
<1>4. /\ Append(user[u], p) \in Seq(Passwords)
      /\ Append(registered[u], p) \in Seq(Passwords)
  BY <1>2, <1>3, AppendProperties
<1>5. /\ user' = [user EXCEPT ![u] = Append(@, p)]
      /\ \/ registered' = [registered EXCEPT ![u] = Append(@, p)]
         \/ registered' = registered
  BY DEF Stored, Registered
<1>6. /\ user' \in [Users -> Seq(Passwords)]
      /\ registered' \in [Users -> Seq(Passwords)]
  BY <1>2, <1>3, <1>4, <1>5
<1>7. DaoTypeOK'
  BY <1>1, <1>6, NoRowType DEF DaoInv, PoolInv, DaoTypeOK, Decides, vars
<1>8. RowsAsRegistered'
  <2> SUFFICES ASSUME NEW v \in Users, unique_key \/ v \notin contested
               PROVE  /\ Len(user'[v]) <= 1
                      /\ registered'[v] = <<>> \/ registered'[v] = user'[v]
    BY DecidesStages DEF RowsAsRegistered
  <2>3. CASE v = u
    <3>4. user[u] = <<>>
      BY <2>3 DEF Refused, DaoInv, InsertsAlone, InInsert
    <3>5. registered[u] = <<>>
      BY <1>2, <2>3, <3>4 DEF DaoInv, RowsAsRegistered
    <3>1. user'[v] = Append(<<>>, p)
      BY <1>2, <1>3, <1>5, <2>3, <3>4
    <3>2. registered'[v] = Append(<<>>, p) \/ registered'[v] = <<>>
      BY <1>2, <1>3, <1>5, <2>3, <3>5
    <3>3. Len(Append(<<>>, p)) <= 1
      BY <1>2
    <3> QED
      BY <3>1, <3>2, <3>3
  <2>4. CASE v # u
    BY <1>2, <1>3, <1>5, <2>4 DEF DaoInv, RowsAsRegistered
  <2> QED
    BY <2>3, <2>4
<1>9. InsertsAlone'
  <2> SUFFICES ASSUME NEW s \in Threads, stage'[s] = "insert", row'[s].user \notin contested'
               PROVE  /\ user'[row'[s].user] = <<>>
                      /\ \A q \in Threads \ {s} :
                            stage'[q] = "insert" => row'[q].user # row'[s].user
    BY DEF InsertsAlone, Rivalled
  <2>1. /\ s # t /\ stage[s] = "insert" /\ row'[s] = row[s] /\ row[s].user \notin contested
    BY DecidesStages
  <2>2. user[row[s].user] = <<>> /\ ~Rivalled(s, row[s].user)
    BY <2>1 DEF DaoInv, InsertsAlone
  <2>3. row[s].user # u
    BY <2>1, <2>2 DEF Rivalled, InInsert
  <2>4. user'[row[s].user] = user[row[s].user]
    BY <1>2, <1>3, <1>5, <2>3
  <2>5. \A q \in Threads \ {s} : stage'[q] = "insert" => row'[q].user # row'[s].user
    BY <2>1, <2>2, DecidesStages DEF Rivalled
  <2> QED
    BY <2>1, <2>2, <2>4, <2>5
<1> QED
  BY <1>1, <1>7, <1>8, <1>9 DEF DaoInv

LEMMA NextDao == DaoInv /\ [DaoNext]_allVars => DaoInv'
<1> SUFFICES ASSUME DaoInv, [DaoNext]_allVars PROVE DaoInv'
  OBVIOUS
<1>1. ASSUME NEW t \in Threads, Call(t) PROVE DaoInv'
  BY <1>1, CallKeeps
<1>2. ASSUME NEW t \in Threads, Acquire(t) PROVE DaoInv'
  BY <1>2, AcquireKeeps
<1>3. ASSUME NEW t \in Threads, no_connection(t) \/ query_fails(t) PROVE DaoInv'
  BY <1>3, DecisionKeeps DEF no_connection, query_fails, tableVars
<1>4. ASSUME NEW t \in Threads, NEW r \in Rows, check_exists(t, r) PROVE DaoInv'
  <2>1. CASE user[r.user] # <<>>
    BY <1>4, <2>1, DecisionKeeps DEF check_exists, tableVars
  <2>2. CASE user[r.user] = <<>>
    <3>1. /\ InQuery(t) /\ sql[t] # nullptr /\ Inserts(t, r) /\ UNCHANGED tableVars
          /\ contested' = IF Rivalled(t, r.user) THEN contested \union {r.user} ELSE contested
      BY <1>4, <2>2 DEF check_exists, InsertsNew
    <3>2. /\ contested' \in {contested, contested \union {r.user}}
          /\ r.user \in contested' \/ ~Rivalled(t, r.user)
      BY <3>1
    <3> QED
      BY <2>2, <3>1, <3>2, InsertsKeeps
  <2> QED
    BY <2>1, <2>2
<1>5. ASSUME NEW t \in Threads, NEW r \in Rows, check_unread(t, r) PROVE DaoInv'
  BY <1>5, InsertsKeeps DEF check_unread
<1>6. ASSUME NEW t \in Threads, NEW r \in Rows, query_password(t, r) PROVE DaoInv'
  <2>1. (user[r.user] = <<r.password>>) \in BOOLEAN
    OBVIOUS
  <2> QED
    BY <1>6, <2>1, DecisionKeeps DEF query_password, tableVars
<1>7. ASSUME NEW t \in Threads, insert(t) PROVE DaoInv'
  BY <1>7, StoredKeeps DEF insert
<1>8. ASSUME NEW t \in Threads, insert_fails(t) PROVE DaoInv'
  BY <1>8, StoredKeeps, DecisionKeeps DEF insert_fails
<1>9. ASSUME NEW t \in Threads, Return(t) PROVE DaoInv'
  BY <1>9, ReturnKeeps
<1>10. CASE ClosePool /\ UNCHANGED daoVars
  <2>1. PoolInv'
    BY <1>10, ClosePoolKeeps DEF DaoInv
  <2>2. DaoTypeOK'
    BY <1>10, <2>1 DEF DaoInv, PoolInv, DaoTypeOK, daoVars, ClosePool
  <2>3. RowsAsRegistered'
    BY <1>10 DEF DaoInv, RowsAsRegistered, daoVars
  <2>4. InsertsAlone'
    BY <1>10 DEF DaoInv, InsertsAlone, Rivalled, daoVars
  <2> QED
    BY <2>1, <2>2, <2>3, <2>4 DEF DaoInv
<1>11. CASE UNCHANGED allVars
  <2>1. PoolInv'
    BY <1>11, PoolIdles DEF DaoInv, allVars
  <2>2. DaoTypeOK'
    BY <1>11, <2>1 DEF DaoInv, PoolInv, DaoTypeOK, allVars, daoVars, vars
  <2>3. RowsAsRegistered'
    BY <1>11 DEF DaoInv, RowsAsRegistered, allVars, daoVars
  <2>4. InsertsAlone'
    BY <1>11 DEF DaoInv, InsertsAlone, Rivalled, allVars, daoVars
  <2> QED
    BY <2>1, <2>2, <2>3, <2>4 DEF DaoInv
<1> QED
  BY <1>1, <1>2, <1>3, <1>4, <1>5, <1>6, <1>7, <1>8, <1>9, <1>10, <1>11
     DEF DaoNext, ThreadStep, Work

----------------------------------------------------------------------------
(* What follows.                                                           *)

\* The inductive invariant holds of every behaviour: for every number of
\* threads and connections, with or without a unique key.
THEOREM Invariance == DaoSpec => []DaoInv
BY InitDao, NextDao, PTL DEF DaoSpec

\* Type correctness of the pool and of the operations: the semaphore never has
\* more permits than the pool has connections, and the INSERT of Register is
\* only ever sent over a connection.
THEOREM TypeCorrect == DaoSpec => []DaoTypeOK
<1>1. DaoInv => DaoTypeOK
  BY DEF DaoInv
<1> QED
  BY <1>1, Invariance, PTL

\* No connection is ever in the hands of two threads, or of a thread and the
\* queue: while the pool is open, after ClosePool has emptied it and after
\* connections come back to the closed pool.
THEOREM AlwaysExclusive == DaoSpec => []Exclusive
<1>1. DaoInv => Exclusive
  BY DEF DaoInv, PoolInv
<1> QED
  BY <1>1, Invariance, PTL

\* While the pool is open every permit stands for an entry of the queue.
THEOREM PermitsAlwaysCover == DaoSpec => []PermitsCover
<1>1. DaoInv => PermitsCover
  BY DEF DaoInv, PoolInv
<1> QED
  BY <1>1, Invariance, PTL

\* front() is called on an empty queue only after ClosePool: an open pool is
\* never broken by one of its threads.
THEOREM OnlyClosedBreaks ==
    DaoSpec => [][\A t \in Threads : pop_empty(t) => pool # "open"]_allVars
<1>1. ASSUME DaoInv, NEW t \in Threads, pop_empty(t), pool = "open"
      PROVE  FALSE
  <2>1. Popping \in SUBSET Threads /\ t \in Popping
    BY <1>1 DEF Popping, pop_empty
  <2>2. Cardinality(Popping) \in Nat /\ Cardinality(Popping \ {t}) \in Nat
    <3>1. Popping \ {t} \in SUBSET Threads
      BY <2>1
    <3> QED
      BY <1>1, <2>1, <3>1, CountThreads
  <2>3. Cardinality(Popping \ {t}) = Cardinality(Popping) - 1
    BY <1>1, <2>1, CountThreads
  <2>4. Len(connque_) = 0
    BY <1>1 DEF pop_empty
  <2>5. Len(connque_) = semId_ + Cardinality(Popping) /\ semId_ \in Nat
    BY <1>1, MaxConnAssumption DEF DaoInv, PoolInv, PermitsCover, TypeOK
  <2>6. Cardinality(Popping) > 0
    BY <2>2, <2>3
  <2>7. semId_ + Cardinality(Popping) = 0
    BY <2>4, <2>5
  <2> QED
    BY <2>2, <2>5, <2>6, <2>7
<1>2. DaoInv /\ [DaoNext]_allVars
        => [\A t \in Threads : pop_empty(t) => pool # "open"]_allVars
  BY <1>1
<1> QED
  BY <1>2, Invariance, PTL DEF DaoSpec

\* With or without a unique key: a name has one row, and Register succeeds for it
\* once, whatever calls run at the same time and whichever replies are lost, unless
\* it was contested and there is no key.
THEOREM AlwaysRegistersOnce == DaoSpec => []RegistersOnce
<1>1. DaoInv => RegistersOnce
  <2> SUFFICES ASSUME DaoInv, NEW u \in Users, unique_key \/ u \notin contested
               PROVE  ~(Len(user[u]) > 1) /\ ~(Len(registered[u]) > 1)
    BY DEF RegistersOnce, DaoInv, DaoTypeOK
  <2>1. /\ Len(user[u]) <= 1
        /\ registered[u] = <<>> \/ registered[u] = user[u]
    BY DEF DaoInv, RowsAsRegistered
  <2>2. Len(user[u]) \in Nat
    BY LenProperties DEF DaoInv, DaoTypeOK
  <2>3. ~(Len(user[u]) > 1)
    BY <2>1, <2>2
  <2>4. CASE registered[u] = <<>>
    BY <2>3, <2>4
  <2>5. CASE registered[u] = user[u]
    BY <2>3, <2>5
  <2> QED
    BY <2>1, <2>3, <2>4, <2>5
<1> QED
  BY <1>1, Invariance, PTL

\* With or without a unique key: once Register has succeeded the name and this
\* password log in at every later time, unless the name was contested and there is
\* no key.
THEOREM RegisteredLogsIn == DaoSpec => RegisteredCanLogin
<1> DEFINE A == \A t \in Threads, r \in Rows :
                   /\ query_password(t, r)
                   /\ \E i \in DOMAIN registered[r.user] : registered[r.user][i] = r.password
                   /\ unique_key \/ r.user \notin contested
                   => success'[t]
<1>1. DaoInv /\ [DaoNext]_allVars => [A]_allVars
  <2> SUFFICES ASSUME DaoInv, NEW t \in Threads, NEW r \in Rows, query_password(t, r),
                      NEW i \in DOMAIN registered[r.user],
                      registered[r.user][i] = r.password,
                      unique_key \/ r.user \notin contested
               PROVE  success'[t]
    OBVIOUS
  <2>1. r.user \in Users /\ r.password \in Passwords
    BY DEF Rows
  <2>2. /\ user[r.user] \in Seq(Passwords)
        /\ registered[r.user] \in Seq(Passwords)
        /\ success \in [Threads -> BOOLEAN]
    BY <2>1 DEF DaoInv, DaoTypeOK
  <2>3. registered[r.user] = user[r.user] /\ Len(user[r.user]) <= 1
    BY <2>1 DEF DaoInv, RowsAsRegistered
  <2>4. i \in 1 .. Len(user[r.user]) /\ Len(user[r.user]) \in Nat
    BY <2>2, <2>3, LenProperties
  <2>5. i = 1 /\ Len(user[r.user]) = 1
    <3> DEFINE n == Len(user[r.user])
    <3>1. i \in 1 .. n /\ n \in Nat /\ n <= 1
      BY <2>3, <2>4
    <3> HIDE DEF n
    <3>2. i = 1 /\ n = 1
      BY <3>1
    <3> QED
      BY <3>2 DEF n
  <2>6. user[r.user] = <<r.password>>
    BY <2>2, <2>3, <2>5
  <2>7. success' = [success EXCEPT ![t] = (user[r.user] = <<r.password>>)]
    BY DEF query_password, Decides
  <2> QED
    BY <2>2, <2>6, <2>7
<1> QED
  BY <1>1, Invariance, PTL DEF DaoSpec, RegisteredCanLogin
=============================================================================
