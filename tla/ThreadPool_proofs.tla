------------------------- MODULE ThreadPool_proofs -------------------------
(***************************************************************************)
(* Proofs about ThreadPool for every set of workers and tasks: PoolInv is  *)
(* inductive, so tasks are taken once and in order, no queued task is left *)
(* to workers that all wait, and the idle count is never wrong.            *)
(***************************************************************************)
EXTENDS ThreadPool, FiniteSetTheorems, SequenceTheorems, TLAPS

\* Moving the head of a queue to the end of a history keeps their
\* concatenation; appending to the queue appends to it.
LEMMA TakeKeepsOrder ==
    ASSUME NEW S, NEW s \in Seq(S), NEW q \in Seq(S), q # <<>>
    PROVE  Append(s, Head(q)) \o Tail(q) = s \o q
  BY SMTT(30)

LEMMA PushExtendsOrder ==
    ASSUME NEW S, NEW s \in Seq(S), NEW q \in Seq(S), NEW x \in S
    PROVE  s \o Append(q, x) = Append(s \o q, x)
  BY SMTT(30)

\* The number of idle workers is a number no greater than the pool, and
\* positive if one of them is idle.
LEMMA IdleIsFinite ==
    /\ IsFiniteSet(Idle)
    /\ Cardinality(Workers) \in Nat
    /\ Cardinality(Idle) \in 0 .. Cardinality(Workers)
    /\ (\E w \in Workers : pc[w] \notin {"unborn", "running"}) => Cardinality(Idle) > 0
<1>1. Idle \in SUBSET Workers
  BY DEF Idle
<1>2. /\ IsFiniteSet(Idle)
      /\ Cardinality(Idle) <= Cardinality(Workers)
      /\ Cardinality(Workers) \in Nat
      /\ Cardinality(Idle) \in Nat
  BY <1>1, WorkersAssumption, FS_Subset, FS_CardinalityType
<1>3. ASSUME \E w \in Workers : pc[w] \notin {"unborn", "running"}
      PROVE  Cardinality(Idle) > 0
  <2>1. Idle # {}
    BY <1>3 DEF Idle
  <2>2. Cardinality(Idle) # 0
    BY <2>1, <1>2, FS_EmptySet
  <2> QED
    BY <2>2, <1>2
<1> QED
  BY <1>2, <1>3

\* The idle count as PoolInv gives it is within its type.
LEMMA IdleInRange ==
    IdleCount /\ ConstructedFirst => tp_idl_tnum \in 0 .. Cardinality(Workers)
<1> SUFFICES ASSUME IdleCount, ConstructedFirst
             PROVE  tp_idl_tnum \in 0 .. Cardinality(Workers)
  OBVIOUS
<1>1. CASE owner = "count"
  <2>1. \E w \in Workers : pc[w] \notin {"unborn", "running"}
    BY <1>1 DEF ConstructedFirst, Constructing
  <2> QED
    BY <1>1, <2>1, IdleIsFinite DEF IdleCount
<1>2. CASE owner # "count"
  BY <1>2, IdleIsFinite DEF IdleCount
<1> QED
  BY <1>1, <1>2

LEMMA IdleInRangeNext ==
    (IdleCount /\ ConstructedFirst)' => (tp_idl_tnum \in 0 .. Cardinality(Workers))'
  BY IdleInRange, PTL

\* One worker becomes idle, or stops being idle.
LEMMA OneMoreIdle ==
    ASSUME NEW w \in Workers, w \notin Idle, Idle' = Idle \cup {w}
    PROVE  Cardinality(Idle)' = Cardinality(Idle) + 1
<1>1. Cardinality(Idle \cup {w}) = Cardinality(Idle) + 1
  BY IdleIsFinite, FS_AddElement
<1> QED
  BY <1>1

LEMMA OneLessIdle ==
    ASSUME NEW w \in Workers, w \in Idle, Idle' = Idle \ {w}
    PROVE  Cardinality(Idle)' = Cardinality(Idle) - 1
<1>1. Cardinality(Idle \ {w}) = Cardinality(Idle) - 1
  BY IdleIsFinite, FS_RemoveElement
<1> QED
  BY <1>1

----------------------------------------------------------------------------
(* PoolInv is inductive, one conjunct at a time.                           *)

LEMMA InitPoolInv == Init => PoolInv
<1> SUFFICES ASSUME Init PROVE PoolInv
  OBVIOUS
<1>1. Idle = {}
  BY DEF Init, Idle
<1>2. IdleCount
  BY <1>1, FS_EmptySet DEF Init, IdleCount
<1>3. ConstructedFirst
  BY DEF Init, ConstructedFirst, Constructing
<1>4. tp_idl_tnum \in 0 .. Cardinality(Workers)
  BY <1>2, <1>3, IdleInRange
<1>5. TypeOK
  <2>1. <<>> \in Seq(Tasks)
    OBVIOUS
  <2>2. /\ pc \in [Workers -> WorkerSteps]
        /\ task \in [Workers -> Tasks \union {None}]
        /\ adder \in [Tasks -> {"new", "pushed", "added"}]
    BY DEF Init, WorkerSteps
  <2> QED
    BY <1>4, <2>1, <2>2 DEF Init, TypeOK
<1>6. TakenInOrder
  BY DEF Init, TakenInOrder
<1> QED
  BY <1>2, <1>3, <1>5, <1>6 DEF Init, PoolInv, NoTaskStranded, WaitsOnEmpty

\* The parts of the type that do not count workers.
LEMMA NextTypes ==
    ASSUME TypeOK, Next
    PROVE  /\ taskqueue_' \in Seq(Tasks)
           /\ stop_' \in BOOLEAN
           /\ pc' \in [Workers -> WorkerSteps]
           /\ task' \in [Workers -> Tasks \union {None}]
           /\ adder' \in [Tasks -> {"new", "pushed", "added"}]
           /\ owner' \in {"create", "count", "use", "notify", "join", "joined"}
           /\ added' \in Seq(Tasks)
           /\ taken' \in Seq(Tasks)
<1> USE DEF TypeOK, WorkerSteps, Goes
<1>2. CASE OwnerStep
  BY <1>2 DEF OwnerStep, create, count, notify_all, join
<1>3. CASE stop_set
  BY <1>3 DEF stop_set
<1>4. ASSUME NEW t \in Tasks, push(t) \/ notify_one(t)
      PROVE  /\ taskqueue_' \in Seq(Tasks) /\ added' \in Seq(Tasks)
             /\ taken' \in Seq(Tasks) /\ pc' \in [Workers -> WorkerSteps]
             /\ adder' \in [Tasks -> {"new", "pushed", "added"}]
             /\ UNCHANGED <<stop_, task, owner>>
  <2>1. CASE push(t)
    <3>1. Append(taskqueue_, t) \in Seq(Tasks) /\ Append(added, t) \in Seq(Tasks)
      OBVIOUS
    <3>2. adder' \in [Tasks -> {"new", "pushed", "added"}]
      BY <2>1 DEF push
    <3> QED
      BY <2>1, <3>1, <3>2 DEF push
  <2>2. CASE notify_one(t)
    BY <2>2 DEF notify_one
  <2> QED
    BY <1>4, <2>1, <2>2
<1>5. ASSUME NEW w \in Workers, take(w)
      PROVE  /\ taskqueue_' \in Seq(Tasks) /\ taken' \in Seq(Tasks)
             /\ pc' \in [Workers -> WorkerSteps]
             /\ task' \in [Workers -> Tasks \union {None}]
             /\ UNCHANGED <<stop_, adder, owner, added>>
  <2>1. Head(taskqueue_) \in Tasks /\ Tail(taskqueue_) \in Seq(Tasks)
    BY <1>5 DEF take
  <2> QED
    BY <1>5, <2>1 DEF take
<1>6. ASSUME NEW w \in Workers, WorkerStep(w) \/ spurious_wakeup(w), ~take(w)
      PROVE  /\ pc' \in [Workers -> WorkerSteps]
             /\ task' \in [Workers -> Tasks \union {None}]
             /\ UNCHANGED <<taskqueue_, stop_, adder, owner, added, taken>>
  BY <1>6 DEF WorkerStep, spurious_wakeup, check_stop, predicate_fails, block,
              return_stopped, run_task, end_task, finish
<1> QED
  BY <1>2, <1>3, <1>4, <1>5, <1>6 DEF Next, addtask

LEMMA NextTakenInOrder ==
    ASSUME TypeOK, TakenInOrder, Next
    PROVE  TakenInOrder'
<1> USE DEF TypeOK, TakenInOrder
<1>1. ASSUME NEW t \in Tasks, push(t) PROVE TakenInOrder'
  <2>1. taken \o Append(taskqueue_, t) = Append(taken \o taskqueue_, t)
    BY PushExtendsOrder
  <2> QED
    BY <1>1, <2>1 DEF push
<1>2. ASSUME NEW w \in Workers, take(w) PROVE TakenInOrder'
  BY <1>2, TakeKeepsOrder DEF take
<1>3. CASE UNCHANGED <<taskqueue_, added, taken>>
  BY <1>3
<1>4. \/ \E t \in Tasks : push(t)
      \/ \E w \in Workers : take(w)
      \/ UNCHANGED <<taskqueue_, added, taken>>
  BY DEF Next, OwnerStep, create, count, notify_all, join, stop_set, addtask,
         notify_one, WorkerStep, spurious_wakeup, check_stop, predicate_fails,
         block, return_stopped, run_task, end_task, finish
<1> QED
  BY <1>1, <1>2, <1>3, <1>4

LEMMA NextConstructedFirst ==
    ASSUME TypeOK, ConstructedFirst, Next
    PROVE  ConstructedFirst'
<1> USE DEF TypeOK, WorkerSteps, ConstructedFirst, Constructing, Goes
<1>1. ASSUME NEW w \in Workers, create(w) PROVE ConstructedFirst'
  BY <1>1 DEF create
<1>2. CASE count
  BY <1>2 DEF count
<1>3. CASE notify_all \/ join \/ stop_set
  BY <1>3 DEF notify_all, join, stop_set
<1>4. ASSUME NEW t \in Tasks, addtask(t) PROVE ConstructedFirst'
  BY <1>4 DEF addtask, push, notify_one
<1>5. ASSUME NEW w \in Workers, WorkerStep(w) \/ spurious_wakeup(w)
      PROVE  ConstructedFirst'
  <2>1. CASE take(w) \/ run_task(w) \/ end_task(w)
    BY <2>1 DEF take, run_task, end_task, finish
  <2>2. CASE check_stop(w) \/ predicate_fails(w) \/ block(w) \/ return_stopped(w)
             \/ spurious_wakeup(w)
    BY <2>2 DEF spurious_wakeup, check_stop, predicate_fails, block, return_stopped
  <2> QED
    BY <1>5, <2>1, <2>2 DEF WorkerStep
<1> QED
  BY <1>1, <1>2, <1>3, <1>4, <1>5 DEF Next, OwnerStep

LEMMA NextWaitsOnEmpty ==
    ASSUME TypeOK, WaitsOnEmpty, Next
    PROVE  WaitsOnEmpty'
<1> USE DEF TypeOK, WorkerSteps, WaitsOnEmpty, Goes
<1>1. CASE OwnerStep \/ stop_set
  BY <1>1 DEF OwnerStep, create, count, notify_all, join, stop_set
<1>2. ASSUME NEW t \in Tasks, addtask(t) PROVE WaitsOnEmpty'
  BY <1>2 DEF addtask, push, notify_one, MutexFree
<1>3. ASSUME NEW w \in Workers, WorkerStep(w) \/ spurious_wakeup(w)
      PROVE  WaitsOnEmpty'
  BY <1>3 DEF WorkerStep, spurious_wakeup, check_stop, predicate_fails, block,
              return_stopped, take, run_task, end_task, finish, MutexFree
<1> QED
  BY <1>1, <1>2, <1>3 DEF Next

\* The steps that can strand a task: the push, the notify, and a worker that
\* goes to wait or leaves.
LEMMA NextNoTaskStranded ==
    ASSUME TypeOK, NoTaskStranded, WaitsOnEmpty, ConstructedFirst, Next
    PROVE  NoTaskStranded'
<1> USE DEF TypeOK, WorkerSteps, NoTaskStranded, Awake, Goes
<1>1. ASSUME NEW w \in Workers, create(w) PROVE NoTaskStranded'
  BY <1>1 DEF create
<1>2. CASE count \/ join \/ stop_set
  BY <1>2 DEF count, join, stop_set
<1>3. CASE notify_all
  BY <1>3 DEF notify_all
<1>4. ASSUME NEW t \in Tasks, push(t) PROVE NoTaskStranded'
  BY <1>4 DEF push
<1>5. ASSUME NEW t \in Tasks, notify_one(t) PROVE NoTaskStranded'
  <2>1. CASE \E w \in Workers : pc[w] = "waiting" /\ Goes(w, "lock")
    BY <2>1, <1>5 DEF notify_one
  <2>2. CASE (\A w \in Workers : pc[w] # "waiting") /\ UNCHANGED pc
    <3>1. ASSUME ~stop_, taskqueue_ # <<>> PROVE \E w \in Workers : Awake(w)
      <4>1. ~Constructing
        BY <3>1 DEF ConstructedFirst
      <4>2. PICK w \in Workers : TRUE
        BY WorkersAssumption
      <4>3. pc[w] \notin {"unborn", "towait", "exited", "waiting"}
        BY <3>1, <4>1, <2>2 DEF ConstructedFirst, WaitsOnEmpty
      <4> QED
        BY <4>3
    <3> QED
      BY <3>1, <2>2, <1>5 DEF notify_one
  <2> QED
    BY <1>5, <2>1, <2>2 DEF notify_one
<1>6. ASSUME NEW w \in Workers, WorkerStep(w) \/ spurious_wakeup(w)
      PROVE  NoTaskStranded'
  <2>1. CASE check_stop(w)
    BY <2>1 DEF check_stop
  <2>2. CASE predicate_fails(w) \/ return_stopped(w)
    BY <2>2 DEF predicate_fails, return_stopped
  <2>3. CASE block(w)
    BY <2>3 DEF block, WaitsOnEmpty
  <2>4. CASE take(w)
    BY <2>4 DEF take
  <2>5. CASE run_task(w) \/ end_task(w) \/ spurious_wakeup(w)
    BY <2>5 DEF run_task, end_task, finish, spurious_wakeup
  <2> QED
    BY <1>6, <2>1, <2>2, <2>3, <2>4, <2>5 DEF WorkerStep
<1> QED
  BY <1>1, <1>2, <1>3, <1>4, <1>5, <1>6 DEF Next, OwnerStep, addtask

\* create, run_task and end_task change the set of idle workers, count only the
\* number, every other step neither.
LEMMA NextIdleCount ==
    ASSUME TypeOK, IdleCount, Next
    PROVE  IdleCount'
<1> USE DEF TypeOK, WorkerSteps, IdleCount, Goes
<1>1. ASSUME NEW w \in Workers, create(w) PROVE IdleCount'
  <2>1. w \notin Idle /\ Idle' = Idle \cup {w}
    BY <1>1 DEF create, Idle
  <2>2. Cardinality(Idle)' = Cardinality(Idle) + 1
    BY <2>1, OneMoreIdle
  <2> QED
    BY <2>2, <1>1, IdleIsFinite DEF create
<1>2. CASE count
  <2>1. Idle' = Idle
    BY <1>2 DEF count, Idle
  <2> QED
    BY <2>1, <1>2, IdleIsFinite DEF count
<1>3. ASSUME NEW w \in Workers, run_task(w) PROVE IdleCount'
  <2>1. w \in Idle /\ Idle' = Idle \ {w}
    BY <1>3 DEF run_task, Idle
  <2>2. Cardinality(Idle)' = Cardinality(Idle) - 1
    BY <2>1, OneLessIdle
  <2> QED
    BY <2>2, <1>3, IdleIsFinite DEF run_task
<1>4. ASSUME NEW w \in Workers, end_task(w) PROVE IdleCount'
  <2>1. w \notin Idle /\ Idle' = Idle \cup {w}
    BY <1>4 DEF end_task, finish, Idle
  <2>2. Cardinality(Idle)' = Cardinality(Idle) + 1
    BY <2>1, OneMoreIdle
  <2> QED
    BY <2>2, <1>4, IdleIsFinite DEF end_task, finish
<1>5. ASSUME Idle' = Idle, UNCHANGED tp_idl_tnum, owner' = "count" <=> owner = "count"
      PROVE  IdleCount'
  BY <1>5
<1>6. CASE notify_all \/ join \/ stop_set
  <2>1. Idle' = Idle
    BY <1>6 DEF notify_all, join, stop_set, Idle
  <2> QED
    BY <2>1, <1>5, <1>6 DEF notify_all, join, stop_set
<1>7. ASSUME NEW t \in Tasks, addtask(t) PROVE IdleCount'
  <2>1. Idle' = Idle
    BY <1>7 DEF addtask, push, notify_one, Idle
  <2> QED
    BY <2>1, <1>5, <1>7 DEF addtask, push, notify_one
<1>8. ASSUME NEW w \in Workers,
             \/ check_stop(w) \/ predicate_fails(w) \/ block(w)
             \/ return_stopped(w) \/ take(w) \/ spurious_wakeup(w)
      PROVE  IdleCount'
  <2>1. Idle' = Idle
    BY <1>8 DEF check_stop, predicate_fails, block, return_stopped, take,
                spurious_wakeup, Idle
  <2> QED
    BY <2>1, <1>5, <1>8 DEF check_stop, predicate_fails, block, return_stopped,
                            take, spurious_wakeup
<1> QED
  BY <1>1, <1>2, <1>3, <1>4, <1>6, <1>7, <1>8 DEF Next, OwnerStep, WorkerStep

LEMMA NextPoolInv == PoolInv /\ [Next]_vars => PoolInv'
<1> SUFFICES ASSUME PoolInv, [Next]_vars PROVE PoolInv'
  OBVIOUS
<1>1. CASE Next
  <2>1. IdleCount' /\ ConstructedFirst'
    BY <1>1, NextIdleCount, NextConstructedFirst DEF PoolInv
  <2>2. tp_idl_tnum' \in 0 .. Cardinality(Workers)
    BY <2>1, IdleInRangeNext
  <2>3. TypeOK'
    BY <1>1, <2>2, NextTypes DEF PoolInv, TypeOK
  <2> QED
    BY <1>1, <2>1, <2>3, NextTakenInOrder, NextNoTaskStranded, NextWaitsOnEmpty
       DEF PoolInv
<1>2. CASE UNCHANGED vars
  BY <1>2 DEF vars, PoolInv, TypeOK, TakenInOrder, NoTaskStranded, Awake,
              ConstructedFirst, Constructing, IdleCount, Idle, WaitsOnEmpty
<1> QED
  BY <1>1, <1>2

----------------------------------------------------------------------------
(* The theorems.                                                           *)

\* PoolInv holds in every reachable state.
THEOREM PoolInvariance == Spec => []PoolInv
  BY InitPoolInv, NextPoolInv, PTL DEF Spec

\* The types hold, and idl_thread_cnt() is within 0 and the size of the pool.
THEOREM TypeCorrect == Spec => []TypeOK
<1>1. PoolInv => TypeOK
  BY DEF PoolInv
<1> QED
  BY PoolInvariance, <1>1, PTL

\* Every task is taken once, in the order of addtask().
THEOREM AlwaysInOrder == Spec => []TakenInOrder
<1>1. PoolInv => TakenInOrder
  BY DEF PoolInv
<1> QED
  BY PoolInvariance, <1>1, PTL

\* addtask() never loses a wakeup, for any number of workers and tasks.
THEOREM NeverStranded == Spec => []NoTaskStranded
<1>1. PoolInv => NoTaskStranded
  BY DEF PoolInv
<1> QED
  BY PoolInvariance, <1>1, PTL
=============================================================================
