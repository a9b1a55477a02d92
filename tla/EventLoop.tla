---------------------------- MODULE EventLoop -----------------------------
(***************************************************************************)
(* reactor/Eventloop.cpp: one loop and the tasks other threads hand to it. *)
(* A task is pushed under mutex_ and the loop woken through an eventfd     *)
(* afterwards; the loop reads the eventfd first and then runs the whole    *)
(* queue with mutex_ held, so a push waits while the queue is drained.     *)
(***************************************************************************)
EXTENDS Integers, Sequences

CONSTANTS
    Tasks,      \* tasks handed over with queueinloop, each by its own thread
    Stoppers    \* threads that call stop()

VARIABLES
    taskqueue_,
    wakeupfd_,      \* the counter of the eventfd
    stop_,
    loop,           \* step of the thread that runs the loop
    caller,         \* caller[t]: progress of queueinloop(t): "new", "pushed", "done"
    stopper,        \* stopper[s]: progress of stop(): "new", "set", "done"
    queued,         \* history: tasks in the order they were pushed
    ran             \* history: tasks in the order the loop ran them

loop_vars == <<taskqueue_, wakeupfd_, stop_, loop, caller, stopper, queued, ran>>

----------------------------------------------------------------------------

LoopInit ==
    /\ taskqueue_ = <<>>
    /\ wakeupfd_ = 0
    /\ stop_ = FALSE
    /\ loop = "new"
    /\ caller = [t \in Tasks |-> "new"]
    /\ stopper = [s \in Stoppers |-> "new"]
    /\ queued = <<>>
    /\ ran = <<>>

----------------------------------------------------------------------------
(* Other threads.                                                          *)

push(t) ==
    /\ caller[t] = "new"
    /\ loop # "drain"
    /\ taskqueue_' = Append(taskqueue_, t)
    /\ queued' = Append(queued, t)
    /\ caller' = [caller EXCEPT ![t] = "pushed"]
    /\ UNCHANGED <<wakeupfd_, stop_, loop, stopper, ran>>

wakeup(t) ==
    /\ caller[t] = "pushed"
    /\ wakeupfd_' = wakeupfd_ + 1
    /\ caller' = [caller EXCEPT ![t] = "done"]
    /\ UNCHANGED <<taskqueue_, stop_, loop, stopper, queued, ran>>

queueinloop(t) == push(t) \/ wakeup(t)

stop_set(s) ==
    /\ stopper[s] = "new"
    /\ stop_' = TRUE
    /\ stopper' = [stopper EXCEPT ![s] = "set"]
    /\ UNCHANGED <<taskqueue_, wakeupfd_, loop, caller, queued, ran>>

stop_wakeup(s) ==
    /\ stopper[s] = "set"
    /\ wakeupfd_' = wakeupfd_ + 1
    /\ stopper' = [stopper EXCEPT ![s] = "done"]
    /\ UNCHANGED <<taskqueue_, stop_, loop, caller, queued, ran>>

stop(s) == stop_set(s) \/ stop_wakeup(s)

----------------------------------------------------------------------------
(* The thread that calls run().                                            *)

run ==
    /\ loop = "new"
    /\ loop' = "check"
    /\ UNCHANGED <<taskqueue_, wakeupfd_, stop_, caller, stopper, queued, ran>>

check_stop ==
    /\ loop = "check"
    /\ loop' = IF stop_ THEN "returned" ELSE "wait"
    /\ UNCHANGED <<taskqueue_, wakeupfd_, stop_, caller, stopper, queued, ran>>

\* epoll_wait returns the wakeup channel as long as the eventfd is not read.
epoll_wakeup ==
    /\ loop = "wait"
    /\ wakeupfd_ > 0
    /\ loop' = "read"
    /\ UNCHANGED <<taskqueue_, wakeupfd_, stop_, caller, stopper, queued, ran>>

\* It returns other channels only, whose handlers are modelled in TcpServer, or
\* none after 10 s.
epoll_other ==
    /\ loop = "wait"
    /\ wakeupfd_ = 0
    /\ loop' = "check"
    /\ UNCHANGED <<taskqueue_, wakeupfd_, stop_, caller, stopper, queued, ran>>

\* handlewakeup: the eventfd is reset, before the mutex is taken.
read_wakeupfd ==
    /\ loop = "read"
    /\ wakeupfd_' = 0
    /\ loop' = "lock"
    /\ UNCHANGED <<taskqueue_, stop_, caller, stopper, queued, ran>>

lock ==
    /\ loop = "lock"
    /\ loop' = "drain"
    /\ UNCHANGED <<taskqueue_, wakeupfd_, stop_, caller, stopper, queued, ran>>

\* A bug for comparison: the task is not popped.
run_front ==
    /\ loop = "drain"
    /\ taskqueue_ # <<>>
    /\ Len(ran) < Len(queued)
    /\ ran' = Append(ran, Head(taskqueue_))
    /\ UNCHANGED <<taskqueue_, wakeupfd_, stop_, loop, caller, stopper, queued>>

run_next_task ==
    /\ loop = "drain"
    /\ taskqueue_ # <<>>
    /\ ran' = Append(ran, Head(taskqueue_))
    /\ taskqueue_' = Tail(taskqueue_)
    /\ UNCHANGED <<wakeupfd_, stop_, loop, caller, stopper, queued>>

\* A bug for comparison: the queue is not looked at again after a task.
unlock_after_one ==
    /\ loop = "drain"
    /\ loop' = "check"
    /\ UNCHANGED <<taskqueue_, wakeupfd_, stop_, caller, stopper, queued, ran>>

unlock ==
    /\ loop = "drain"
    /\ taskqueue_ = <<>>
    /\ loop' = "check"
    /\ UNCHANGED <<taskqueue_, wakeupfd_, stop_, caller, stopper, queued, ran>>

RunStep ==
    \/ run
    \/ check_stop
    \/ epoll_wakeup
    \/ epoll_other
    \/ read_wakeupfd
    \/ lock
    \/ run_next_task
    \/ unlock

----------------------------------------------------------------------------

LoopNext ==
    \/ RunStep
    \/ \E t \in Tasks : queueinloop(t)
    \/ \E s \in Stoppers : stop(s)

LoopSpec == LoopInit /\ [][LoopNext]_loop_vars

\* The loop's thread runs, and whoever has pushed a task or set stop_ goes on
\* to write the eventfd.  Nobody has to call queueinloop() or stop().
LoopFairSpec ==
    /\ LoopSpec
    /\ WF_loop_vars(RunStep)
    /\ \A t \in Tasks : WF_loop_vars(wakeup(t))
    /\ \A s \in Stoppers : WF_loop_vars(stop_wakeup(s))

----------------------------------------------------------------------------
(* Properties.                                                             *)

\* Every variable holds a value of its type, and handlewakeup() reads only an
\* eventfd that is set: its counter is a value the read returned.
LoopTypeOK ==
    /\ taskqueue_ \in Seq(Tasks)
    /\ wakeupfd_ \in Nat
    /\ stop_ \in BOOLEAN
    /\ loop \in {"new", "check", "wait", "read", "lock", "drain", "returned"}
    /\ caller \in [Tasks -> {"new", "pushed", "done"}]
    /\ stopper \in [Stoppers -> {"new", "set", "done"}]
    /\ queued \in Seq(Tasks)
    /\ ran \in Seq(Tasks)
    /\ loop = "read" => wakeupfd_ > 0

\* The loop runs every task once, in the order the tasks were queued.
RunInOrder == queued = ran \o taskqueue_

\* No wakeup is lost: while a task is queued the loop is about to drain the
\* queue, or the eventfd is readable, or its caller has not written it yet.
\* It depends on the loop reading the eventfd before it takes the mutex.
NoLostWakeup ==
    \/ taskqueue_ = <<>>
    \/ loop \in {"lock", "drain", "returned"}
    \/ wakeupfd_ > 0
    \/ \E t \in Tasks : caller[t] = "pushed"

\* A queued task is run, unless the loop is stopped first.
TasksRun ==
    \A t \in Tasks : caller[t] = "pushed" ~> (stop_ \/ \E i \in DOMAIN ran : ran[i] = t)
=============================================================================
