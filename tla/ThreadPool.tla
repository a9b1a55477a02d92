---------------------------- MODULE ThreadPool ----------------------------
(***************************************************************************)
(* reactor/ThreadPool.cpp: workers that take tasks from one queue under a  *)
(* mutex and a condition variable, and a stop() that does not take the     *)
(* mutex.                                                                  *)
(*                                                                         *)
(* The mutex needs no variable: the only thread that can be seen holding   *)
(* it is a worker that has found the wait predicate false and does not     *)
(* wait yet (step "towait"); every other critical section is one action.   *)
(* The worker is then put in the wait set and the mutex released at once,  *)
(* as condition_variable::wait promises.                                   *)
(***************************************************************************)
EXTENDS Integers, Sequences, FiniteSets

CONSTANTS
    Workers,    \* the threads of threads_
    Tasks,      \* the tasks given to addtask, each once
    None,
    Endless     \* tasks that do not return, as EventLoop::run until its loop stops

ASSUME NoneAssumption == None \notin Workers \union Tasks
ASSUME WorkersAssumption == IsFiniteSet(Workers) /\ Workers # {}
ASSUME EndlessAssumption == Endless \subseteq Tasks

VARIABLES
    taskqueue_,
    stop_,
    tp_idl_tnum,    \* the count of idle workers
    pc,             \* pc[w]: step of a worker, "unborn" before it is created
    task,           \* task[w]: the task a worker took, or None
    adder,          \* adder[t]: progress of addtask(t): "new", "pushed", "added"
    owner,          \* the thread of the constructor and of stop()
    added,          \* history: the tasks in the order they were pushed
    taken           \* history: the tasks in the order the workers took them

vars == <<taskqueue_, stop_, tp_idl_tnum, pc, task, adder, owner, added, taken>>

----------------------------------------------------------------------------

Init ==
    /\ taskqueue_ = <<>>
    /\ stop_ = FALSE
    /\ tp_idl_tnum = 0
    /\ pc = [w \in Workers |-> "unborn"]
    /\ task = [w \in Workers |-> None]
    /\ adder = [t \in Tasks |-> "new"]
    /\ owner = "create"
    /\ added = <<>>
    /\ taken = <<>>

Goes(w, step) == pc' = [pc EXCEPT ![w] = step]

MutexFree == \A w \in Workers : pc[w] # "towait"

----------------------------------------------------------------------------
(* The constructor: each thread is created, then counted as idle.          *)

create(w) ==
    /\ owner = "create"
    /\ pc[w] = "unborn"
    /\ Goes(w, "check")
    /\ owner' = "count"
    /\ UNCHANGED <<taskqueue_, stop_, tp_idl_tnum, task, adder, added, taken>>

count ==
    /\ owner = "count"
    /\ tp_idl_tnum' = tp_idl_tnum + 1
    /\ owner' = IF \E w \in Workers : pc[w] = "unborn" THEN "create" ELSE "use"
    /\ UNCHANGED <<taskqueue_, stop_, pc, task, adder, added, taken>>

----------------------------------------------------------------------------
(* addtask, on any thread once the pool is constructed.                    *)

\* A bug for comparison: nobody is notified.
push_silently(t) ==
    /\ owner \notin {"create", "count", "joined"}
    /\ adder[t] = "new"
    /\ MutexFree
    /\ taskqueue_' = Append(taskqueue_, t)
    /\ added' = Append(added, t)
    /\ adder' = [adder EXCEPT ![t] = "added"]
    /\ UNCHANGED <<stop_, tp_idl_tnum, pc, task, owner, taken>>

push(t) ==
    /\ owner \notin {"create", "count", "joined"}
    /\ adder[t] = "new"
    /\ MutexFree
    /\ taskqueue_' = Append(taskqueue_, t)
    /\ added' = Append(added, t)
    /\ adder' = [adder EXCEPT ![t] = "pushed"]
    /\ UNCHANGED <<stop_, tp_idl_tnum, pc, task, owner, taken>>

\* notify_one wakes one of the waiting workers, if there is one.
notify_one(t) ==
    /\ adder[t] = "pushed"
    /\ adder' = [adder EXCEPT ![t] = "added"]
    /\ \/ \E w \in Workers : pc[w] = "waiting" /\ Goes(w, "lock")
       \/ (\A w \in Workers : pc[w] # "waiting") /\ UNCHANGED pc
    /\ UNCHANGED <<taskqueue_, stop_, tp_idl_tnum, task, owner, added, taken>>

addtask(t) == push(t) \/ notify_one(t)

----------------------------------------------------------------------------
(* A worker.                                                               *)

\* while(stop_==false)
check_stop(w) ==
    /\ pc[w] = "check"
    /\ Goes(w, IF stop_ THEN "exited" ELSE "lock")
    /\ UNCHANGED <<taskqueue_, stop_, tp_idl_tnum, task, adder, owner, added, taken>>

\* A bug for comparison: wait() without the predicate.
wait_blindly(w) ==
    /\ pc[w] = "lock"
    /\ MutexFree
    /\ task[w] = None
    /\ Goes(w, "towait")
    /\ UNCHANGED <<taskqueue_, stop_, tp_idl_tnum, task, adder, owner, added, taken>>

\* The mutex is taken and the wait predicate false.
predicate_fails(w) ==
    /\ pc[w] = "lock"
    /\ MutexFree
    /\ taskqueue_ = <<>> /\ ~stop_
    /\ Goes(w, "towait")
    /\ UNCHANGED <<taskqueue_, stop_, tp_idl_tnum, task, adder, owner, added, taken>>

block(w) ==
    /\ pc[w] = "towait"
    /\ Goes(w, "waiting")
    /\ UNCHANGED <<taskqueue_, stop_, tp_idl_tnum, task, adder, owner, added, taken>>

spurious_wakeup(w) ==
    /\ pc[w] = "waiting"
    /\ Goes(w, "lock")
    /\ UNCHANGED <<taskqueue_, stop_, tp_idl_tnum, task, adder, owner, added, taken>>

\* if(stop_ && taskqueue_.empty()) return
return_stopped(w) ==
    /\ pc[w] = "lock"
    /\ MutexFree
    /\ taskqueue_ = <<>> /\ stop_
    /\ Goes(w, "exited")
    /\ UNCHANGED <<taskqueue_, stop_, tp_idl_tnum, task, adder, owner, added, taken>>

\* A bug for comparison: front() without pop().
take_front(w) ==
    /\ pc[w] = "lock"
    /\ MutexFree
    /\ taskqueue_ # <<>>
    /\ task' = [task EXCEPT ![w] = Head(taskqueue_)]
    /\ taken' = Append(taken, Head(taskqueue_))
    /\ Goes(w, "taken")
    /\ UNCHANGED <<taskqueue_, stop_, tp_idl_tnum, adder, owner, added>>

take(w) ==
    /\ pc[w] = "lock"
    /\ MutexFree
    /\ taskqueue_ # <<>>
    /\ task' = [task EXCEPT ![w] = Head(taskqueue_)]
    /\ taken' = Append(taken, Head(taskqueue_))
    /\ taskqueue_' = Tail(taskqueue_)
    /\ Goes(w, "taken")
    /\ UNCHANGED <<stop_, tp_idl_tnum, adder, owner, added>>

run_task(w) ==
    /\ pc[w] = "taken"
    /\ tp_idl_tnum' = tp_idl_tnum - 1
    /\ Goes(w, "running")
    /\ UNCHANGED <<taskqueue_, stop_, task, adder, owner, added, taken>>

\* The task returns and the worker goes round its loop.
finish(w) ==
    /\ pc[w] = "running"
    /\ tp_idl_tnum' = tp_idl_tnum + 1
    /\ task' = [task EXCEPT ![w] = None]
    /\ Goes(w, "check")
    /\ UNCHANGED <<taskqueue_, stop_, adder, owner, added, taken>>

end_task(w) == task[w] \notin Endless /\ finish(w)

\* The steps of a worker that its own thread takes.
WorkerStep(w) ==
    \/ check_stop(w)
    \/ predicate_fails(w)
    \/ block(w)
    \/ return_stopped(w)
    \/ take(w)
    \/ run_task(w)
    \/ end_task(w)

----------------------------------------------------------------------------
(* stop(): the flag, notify_all and the joins, none under the mutex.  A    *)
(* second call, the destructor's, finds stop_ set and returns.             *)

stop_set ==
    /\ owner = "use"
    /\ stop_' = TRUE
    /\ owner' = "notify"
    /\ UNCHANGED <<taskqueue_, tp_idl_tnum, pc, task, adder, added, taken>>

notify_all ==
    /\ owner = "notify"
    /\ pc' = [w \in Workers |-> IF pc[w] = "waiting" THEN "lock" ELSE pc[w]]
    /\ owner' = "join"
    /\ UNCHANGED <<taskqueue_, stop_, tp_idl_tnum, task, adder, added, taken>>

join ==
    /\ owner = "join"
    /\ \A w \in Workers : pc[w] = "exited"
    /\ owner' = "joined"
    /\ UNCHANGED <<taskqueue_, stop_, tp_idl_tnum, pc, task, adder, added, taken>>

OwnerStep ==
    \/ \E w \in Workers : create(w)
    \/ count
    \/ notify_all
    \/ join

----------------------------------------------------------------------------

Next ==
    \/ OwnerStep
    \/ stop_set
    \/ \E t \in Tasks : addtask(t)
    \/ \E w \in Workers : WorkerStep(w) \/ spurious_wakeup(w)

Spec == Init /\ [][Next]_vars

\* Threads run: the constructor and stop() go on, addtask() notifies once it
\* has pushed, a worker that can step does.  Nobody has to call addtask() or
\* stop(), and spurious wakeups need not happen.
FairSpec ==
    /\ Spec
    /\ WF_vars(OwnerStep)
    /\ \A t \in Tasks : WF_vars(notify_one(t))
    /\ \A w \in Workers : WF_vars(WorkerStep(w))

----------------------------------------------------------------------------
(* Properties.                                                             *)

WorkerSteps == {"unborn", "check", "lock", "towait", "waiting", "taken",
                "running", "exited"}

\* Every variable holds a value of its type; the idle count stays between 0
\* and the size of the pool although it is not changed under the mutex.
TypeOK ==
    /\ taskqueue_ \in Seq(Tasks)
    /\ stop_ \in BOOLEAN
    /\ tp_idl_tnum \in 0 .. Cardinality(Workers)
    /\ pc \in [Workers -> WorkerSteps]
    /\ task \in [Workers -> Tasks \union {None}]
    /\ adder \in [Tasks -> {"new", "pushed", "added"}]
    /\ owner \in {"create", "count", "use", "notify", "join", "joined"}
    /\ added \in Seq(Tasks)
    /\ taken \in Seq(Tasks)

\* Tasks are taken once each, in the order addtask() pushed them, whichever
\* workers take them.
TakenInOrder == added = taken \o taskqueue_

\* A worker that will look at the queue without being notified.
Awake(w) == pc[w] \in {"check", "lock", "taken", "running"}

\* addtask() loses no wakeup: a queued task has an awake worker, or a notify
\* on its way; it is never left to workers that all wait.
NoTaskStranded ==
    \/ stop_
    \/ taskqueue_ = <<>>
    \/ \E w \in Workers : Awake(w)
    \/ \E t \in Tasks : adder[t] = "pushed"

\* What makes the three above inductive: no task is there before the pool is
\* constructed, a worker about to wait has seen an empty queue, a worker leaves
\* only after stop_ is set, and the idle count lags behind the creation of a
\* thread and nothing else.
Idle == {w \in Workers : pc[w] \notin {"unborn", "running"}}

Constructing == owner \in {"create", "count"}

ConstructedFirst ==
    /\ Constructing => /\ taskqueue_ = <<>>
                       /\ \A w \in Workers : pc[w] \notin {"taken", "running"}
    /\ ~Constructing => \A w \in Workers : pc[w] # "unborn"
    /\ owner = "count" => \E w \in Workers : pc[w] # "unborn"

IdleCount ==
    tp_idl_tnum = Cardinality(Idle) - (IF owner = "count" THEN 1 ELSE 0)

WaitsOnEmpty ==
    \A w \in Workers :
        /\ pc[w] = "towait" => taskqueue_ = <<>>
        /\ pc[w] = "exited" => stop_

PoolInv ==
    /\ TypeOK
    /\ TakenInOrder
    /\ NoTaskStranded
    /\ ConstructedFirst
    /\ IdleCount
    /\ WaitsOnEmpty

\* Tasks that do not return leave a worker for t.
WorkerLeft(t) == Cardinality(Endless \ {t}) < Cardinality(Workers)

\* A queued task is taken in the end, unless stop() is called first: a worker
\* that comes back finds stop_ set and leaves the queue as it is.
TasksStart ==
    \A t \in Tasks :
        WorkerLeft(t) /\ adder[t] # "new"
            ~> (stop_ \/ \E i \in DOMAIN taken : taken[i] = t)
=============================================================================
