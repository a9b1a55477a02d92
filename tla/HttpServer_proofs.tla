------------------------- MODULE HttpServer_proofs -------------------------
(***************************************************************************)
(* Proofs about the Logger and about the process that uses it.  Of the     *)
(* Logger, for every set of lines: they come out once each in the order    *)
(* they were queued, and the destructor leaves none behind.  The process   *)
(* of HttpServer, whatever its threads interleave and whenever the signal  *)
(* comes, uses the Logger as Logger describes it; what is proved of the    *)
(* Logger then holds of the process.                                       *)
(***************************************************************************)
EXTENDS HttpServer, SequenceTheorems, TLAPS

\* The three places of a line, one behind the other, when the head of the queue
\* is taken, when the line in hand is written, and when a line is queued.
LEMMA TakeKeepsOrder ==
    ASSUME NEW S, NEW s \in Seq(S), NEW q \in Seq(S), q # <<>>
    PROVE  s \o <<>> \o q = s \o <<Head(q)>> \o Tail(q)
  BY SMTT(30)

LEMMA PushExtendsOrder ==
    ASSUME NEW S, NEW s \in Seq(S), NEW l \in Seq(S), NEW q \in Seq(S), NEW x \in S
    PROVE  s \o l \o Append(q, x) = Append(s \o l \o q, x)
  BY SMTT(30)

LEMMA EmptyInTheMiddle ==
    ASSUME NEW S, NEW s \in Seq(S), NEW q \in Seq(S)
    PROVE  s \o <<>> \o q = s \o q /\ s \o <<>> = s
  BY SMTT(30)

----------------------------------------------------------------------------

LEMMA InitLoggerInv == Init => LoggerInv
<1> SUFFICES ASSUME Init PROVE LoggerInv
  OBVIOUS
<1>1. workqueue_ \in Seq(Messages) /\ line \in Seq(Messages)
      /\ accepted \in Seq(Messages) /\ output \in Seq(Messages)
  BY DEF Init
<1>2. writer \in [Messages -> {"new", "dropped", "pushed", "written"}]
  BY DEF Init
<1>3. TypeOK
  BY <1>1, <1>2 DEF Init, TypeOK
<1>4. OutputInOrder
  BY EmptyInTheMiddle, <1>1 DEF Init, OutputInOrder
<1> QED
  BY <1>3, <1>4 DEF Init, LoggerInv, LineInHand, InitFirst, LeavesNothing, out_

\* Every step keeps the types, and the worker finds an output: it has a line only
\* if one was queued, which is after Init.
LEMMA NextTypeOK == LoggerInv /\ [Next]_vars => TypeOK'
<1> SUFFICES ASSUME LoggerInv, [Next]_vars PROVE TypeOK'
  OBVIOUS
<1> USE DEF LoggerInv, TypeOK, InitFirst, out_
<1>1. CASE Init_Thread \/ SetFormat \/ SetOutput
  BY <1>1 DEF Init_Thread, SetFormat, SetOutput
<1>2. ASSUME NEW m \in Messages, Write_dropped(m) PROVE TypeOK'
  BY <1>2 DEF Write_dropped
<1>3. ASSUME NEW m \in Messages, AddWorkLog_push(m) PROVE TypeOK'
  <2>1. Append(workqueue_, m) \in Seq(Messages) /\ Append(accepted, m) \in Seq(Messages)
    OBVIOUS
  <2>2. writer' \in [Messages -> {"new", "dropped", "pushed", "written"}]
    BY <1>3 DEF AddWorkLog_push
  <2> QED
    BY <1>3, <2>1, <2>2 DEF AddWorkLog_push
<1>4. ASSUME NEW m \in Messages, AddWorkLog_notify(m) PROVE TypeOK'
  BY <1>4 DEF AddWorkLog_notify
<1>5. CASE take_front
  <2>1. <<Head(workqueue_)>> \in Seq(Messages) /\ Tail(workqueue_) \in Seq(Messages)
    BY <1>5 DEF take_front
  <2> QED
    BY <1>5, <2>1 DEF take_front
<1>6. CASE Output
  <2>1. output \o line \in Seq(Messages) /\ <<>> \in Seq(Messages)
    OBVIOUS
  <2> QED
    BY <1>6, <2>1 DEF Output
<1>7. CASE wait \/ return_drained \/ spurious_wakeup
  BY <1>7 DEF wait, return_drained, spurious_wakeup
<1>8. CASE destructor_set \/ destructor_notify \/ destructor_join
  BY <1>8 DEF destructor_set, destructor_notify, destructor_join
<1>9. CASE UNCHANGED vars
  BY <1>9 DEF vars
<1> QED
  BY <1>1, <1>2, <1>3, <1>4, <1>5, <1>6, <1>7, <1>8, <1>9 DEF Next, WorkerStep

LEMMA NextOutputInOrder == LoggerInv /\ [Next]_vars => OutputInOrder'
<1> SUFFICES ASSUME LoggerInv, [Next]_vars PROVE OutputInOrder'
  OBVIOUS
<1> USE DEF LoggerInv, TypeOK, OutputInOrder, LineInHand
<1>1. ASSUME NEW m \in Messages, AddWorkLog_push(m) PROVE OutputInOrder'
  <2>1. output \o line \o Append(workqueue_, m) = Append(output \o line \o workqueue_, m)
    BY PushExtendsOrder
  <2> QED
    BY <1>1, <2>1 DEF AddWorkLog_push
<1>2. CASE take_front
  <2>1. line = <<>> /\ workqueue_ # <<>>
    BY <1>2 DEF take_front
  <2>2. output \o <<>> \o workqueue_ = output \o <<Head(workqueue_)>> \o Tail(workqueue_)
    BY <2>1, TakeKeepsOrder
  <2> QED
    BY <1>2, <2>1, <2>2 DEF take_front
<1>3. CASE Output
  <2>1. (output \o line) \o <<>> \o workqueue_ = (output \o line) \o workqueue_
    BY EmptyInTheMiddle
  <2> QED
    BY <1>3, <2>1 DEF Output
<1>4. CASE UNCHANGED <<accepted, output, line, workqueue_>>
  BY <1>4
<1> QED
  BY <1>1, <1>2, <1>3, <1>4
  DEF Next, WorkerStep, vars, Init_Thread, SetFormat, SetOutput, Write_dropped, AddWorkLog_notify,
      wait, return_drained, spurious_wakeup, destructor_set, destructor_notify, destructor_join

LEMMA NextLineInHand == LoggerInv /\ [Next]_vars => LineInHand'
<1> SUFFICES ASSUME LoggerInv, [Next]_vars PROVE LineInHand'
  OBVIOUS
<1> USE DEF LoggerInv, LineInHand, InitFirst
<1>1. CASE Init_Thread
  BY <1>1 DEF Init_Thread
<1>2. CASE take_front \/ Output
  BY <1>2 DEF take_front, Output
<1>3. CASE wait \/ return_drained \/ spurious_wakeup
  BY <1>3 DEF wait, return_drained, spurious_wakeup
<1>4. ASSUME NEW m \in Messages, AddWorkLog_notify(m) PROVE LineInHand'
  BY <1>4 DEF AddWorkLog_notify
<1>5. CASE destructor_notify
  BY <1>5 DEF destructor_notify
<1>6. CASE UNCHANGED <<worker, line>>
  BY <1>6
<1> QED
  BY <1>1, <1>2, <1>3, <1>4, <1>5, <1>6
  DEF Next, WorkerStep, vars, SetFormat, SetOutput, Write_dropped, AddWorkLog_push,
      destructor_set, destructor_join

LEMMA NextInitFirst == LoggerInv /\ [Next]_vars => InitFirst'
<1> SUFFICES ASSUME LoggerInv, [Next]_vars PROVE InitFirst'
  OBVIOUS
<1> USE DEF LoggerInv, InitFirst, out_
<1>1. CASE Init_Thread \/ SetFormat \/ SetOutput
  BY <1>1 DEF Init_Thread, SetFormat, SetOutput
<1>2. ASSUME NEW m \in Messages, AddWorkLog_push(m) PROVE InitFirst'
  BY <1>2 DEF AddWorkLog_push, Dropped
<1>3. ASSUME NEW m \in Messages, AddWorkLog_notify(m) PROVE InitFirst'
  BY <1>3 DEF AddWorkLog_notify
<1>4. CASE take_front \/ Output
  BY <1>4 DEF take_front, Output
<1>5. CASE wait \/ return_drained \/ spurious_wakeup \/ destructor_notify
  BY <1>5 DEF wait, return_drained, spurious_wakeup, destructor_notify
<1>6. CASE UNCHANGED <<init, worker, workqueue_>>
  BY <1>6
<1> QED
  BY <1>1, <1>2, <1>3, <1>4, <1>5, <1>6
  DEF Next, WorkerStep, vars, Write_dropped, destructor_set, destructor_join

\* Nobody writes any more once the destructor has begun, so the queue stays as
\* empty as the worker left it.
LEMMA NextLeavesNothing == LoggerInv /\ [Next]_vars => LeavesNothing'
<1> SUFFICES ASSUME LoggerInv, [Next]_vars PROVE LeavesNothing'
  OBVIOUS
<1> USE DEF LoggerInv, LeavesNothing, InitFirst
<1>1. CASE Init_Thread
  BY <1>1 DEF Init_Thread
<1>2. ASSUME NEW m \in Messages, AddWorkLog_push(m) PROVE LeavesNothing'
  BY <1>2 DEF AddWorkLog_push, MayWrite
<1>3. ASSUME NEW m \in Messages, AddWorkLog_notify(m) PROVE LeavesNothing'
  BY <1>3 DEF AddWorkLog_notify
<1>4. CASE take_front \/ Output
  BY <1>4 DEF take_front, Output
<1>5. CASE wait \/ return_drained \/ spurious_wakeup
  BY <1>5 DEF wait, return_drained, spurious_wakeup
<1>6. CASE destructor_set \/ destructor_notify \/ destructor_join
  BY <1>6 DEF destructor_set, destructor_notify, destructor_join
<1>7. CASE UNCHANGED <<th_stop_, destructor, worker, workqueue_>>
  BY <1>7
<1> QED
  BY <1>1, <1>2, <1>3, <1>4, <1>5, <1>6, <1>7
  DEF Next, WorkerStep, vars, SetFormat, SetOutput, Write_dropped

----------------------------------------------------------------------------

LEMMA NextLoggerInv == LoggerInv /\ [Next]_vars => LoggerInv'
  BY NextTypeOK, NextOutputInOrder, NextLineInHand, NextInitFirst, NextLeavesNothing DEF LoggerInv

\* LoggerInv is inductive.
THEOREM Invariance == Spec => []LoggerInv
  BY InitLoggerInv, NextLoggerInv, PTL DEF Spec

\* Every line is written once, in the order AddWorkLog queued them (logger.cpp).
THEOREM AlwaysInOrder == Spec => []OutputInOrder
<1>1. LoggerInv => OutputInOrder
  BY DEF LoggerInv
<1> QED
  BY <1>1, Invariance, PTL

\* When ~Logger returns, every line that was queued has been written.
THEOREM DrainedAfterJoin == Spec => []DrainedAtExit
<1>1. LoggerInv => DrainedAtExit
  <2> SUFFICES ASSUME LoggerInv, destructor = "done" PROVE output = accepted
    BY DEF DrainedAtExit
  <2>1. line = <<>> /\ workqueue_ = <<>>
    BY DEF LoggerInv, LineInHand, LeavesNothing
  <2>2. output \o <<>> \o <<>> = output
    BY EmptyInTheMiddle DEF LoggerInv, TypeOK
  <2> QED
    BY <2>1, <2>2 DEF LoggerInv, OutputInOrder
<1> QED
  BY <1>1, Invariance, PTL

----------------------------------------------------------------------------
(* The process.                                                            *)

\* The steps of the main thread.
LEMMA MainLogs == MainStep => [Next]_vars
<1>1. ASSUME MainStep, main_locks PROVE [Next]_vars
  BY <1>1 DEF main_locks, logger
<1>2. ASSUME MainStep, main_unlocks PROVE [Next]_vars
  BY <1>2 DEF main_unlocks, logger
<1>3. ASSUME NEW m \in Messages, main_logs(m) PROVE [Next]_vars
  BY <1>3 DEF main_logs, Next
<1>4. CASE construct_pool \/ addtask \/ constructed \/ start
  BY <1>4 DEF construct_pool, addtask, constructed, start, logger
<1>5. CASE log_Init
  BY <1>5 DEF log_Init, Next
<1> QED
  BY <1>1, <1>2, <1>3, <1>4, <1>5 DEF MainStep, MainAdvances

\* The steps of the signal handler, the destructor of the Logger among them.
LEMMA HandlerLogs == HandlerStep => [Next]_vars
<1>1. ASSUME NEW m \in Messages, LOGINFO(m) PROVE [Next]_vars
  BY <1>1 DEF LOGINFO, Next
<1>2. CASE null_httpserver \/ stop_loops \/ threadpool_stop \/ destroy \/ TimeWheel_stop
  BY <1>2 DEF null_httpserver, stop_loops, StopLoops, threadpool_stop, destroy, TimeWheel_stop, logger
<1>3. CASE TimeWheel_clear
  BY <1>3 DEF TimeWheel_clear, Logs, Notifies, Next, logger
<1>4. CASE exit
  BY <1>4 DEF exit, Next
<1> QED
  BY <1>1, <1>2, <1>3, <1>4 DEF HandlerStep

\* The steps of an IO thread.
LEMMA IoLogs == ASSUME NEW w \in IoThreads, IoStep(w) PROVE [Next]_vars
<1>1. CASE handle(w)
  BY <1>1 DEF handle, Logs, Next, logger
<1>2. CASE handle_on(w)
  BY <1>2 DEF handle_on, Notifies, Next, logger
<1>3. CASE UNCHANGED logger
  BY <1>3 DEF logger
<1> QED
  BY <1>1, <1>2, <1>3 DEF IoStep, loop_ends

\* The steps of the thread of the wheel.
LEMMA TickLogs == TickStep => [Next]_vars
<1>1. CASE wait_for \/ collect
  BY <1>1 DEF wait_for, collect, logger
<1>2. CASE closecallback
  BY <1>2 DEF closecallback, Logs, Notifies, Next, logger
<1> QED
  BY <1>1, <1>2 DEF TickStep

----------------------------------------------------------------------------

LEMMA StepLogs == [ServerNext]_server => [Next]_vars
<1>1. CASE SIGTERM \/ tick_destroyed
  BY <1>1 DEF SIGTERM, tick_destroyed, logger
<1>2. CASE LogStep
  BY <1>2 DEF LogStep, Next
<1>3. CASE spurious_wakeups
  BY <1>3 DEF spurious_wakeups, Next, logger
<1>4. CASE UNCHANGED server
  BY <1>4 DEF server, logger
<1> QED
  BY <1>1, <1>2, <1>3, <1>4, MainLogs, HandlerLogs, IoLogs, TickLogs DEF ServerNext

\* Every behaviour of the process is one of the Logger: lines are queued only
\* as Write queues them, and ~Logger runs once, after Init.
THEOREM ImplementsLogger == ServerSpec => Spec
<1>1. ServerInit => Init
  BY DEF ServerInit
<1> QED
  BY <1>1, StepLogs, PTL DEF ServerSpec, Spec

\* Whichever threads of the process log, their lines come out once each, in the
\* order they were queued.
THEOREM ServerOutputInOrder == ServerSpec => []OutputInOrder
  BY ImplementsLogger, AlwaysInOrder, PTL

\* When exit() has destroyed the Logger no line is missing, whatever the main
\* thread was doing when the signal came.
THEOREM ServerDrainedAtExit == ServerSpec => []DrainedAtExit
  BY ImplementsLogger, DrainedAfterJoin, PTL

----------------------------------------------------------------------------
(* The objects outlive the threads that use them.                          *)

\* The wheel is the last member, and the members before the threads of the pool
\* start are those up to threadpool_.
LEMMA WheelIsLast ==
    /\ MemberOrder # <<>>
    /\ MemberOrder[Len(MemberOrder)] = "time_wheel_"
  BY DEF MemberOrder

LEMMA FullIsAlive ==
    ASSUME members = MemberOrder
    PROVE  \A x \in {"subloops_", "threadpool_", "conns_", "time_wheel_"} : Alive(x)
<1>1. /\ members[1] = "subloops_" /\ members[2] = "threadpool_"
      /\ members[3] = "conns_" /\ members[4] = "time_wheel_"
      /\ DOMAIN members = 1 .. 4
  BY DEF MemberOrder
<1> QED
  BY <1>1 DEF Alive

LEMMA PoolIsAlive ==
    ASSUME members = UpToThreadpool
    PROVE  Alive("threadpool_")
<1> DEFINE at(i) == i \in DOMAIN MemberOrder /\ MemberOrder[i] = "threadpool_"
<1>1. \A i : at(i) <=> i = 2
  BY DEF MemberOrder
<1>2. (CHOOSE i \in DOMAIN MemberOrder : MemberOrder[i] = "threadpool_") = 2
  BY <1>1
<1>3. members = SubSeq(MemberOrder, 1, 2)
  BY <1>2 DEF UpToThreadpool
<1>4. members[2] = "threadpool_" /\ 2 \in DOMAIN members
  BY <1>3 DEF MemberOrder
<1> QED
  BY <1>4 DEF Alive

LEMMA InitServerInv == ServerInit => ServerInv
<1> SUFFICES ASSUME ServerInit PROVE ServerInv
  OBVIOUS
<1>1. LoggerInv
  BY InitLoggerInv DEF ServerInit
<1>2. LifeTypes
  BY DEF ServerInit, Pool!Init, Pool!WorkerSteps, LifeTypes
<1> QED
  BY <1>1, <1>2
  DEF ServerInit, Init, Pool!Init, ServerInv, LifeInv, IoBetween, MembersFit, WheelRuns, WheelJoined,
      TickEnded, LoggerLast, Deleting

\* What a step that changes no more than the logger, the mutexes and the stage of
\* the handler before the deletion cannot disturb.
LEMMA Undisturbed ==
    ASSUME LifeInv, ~Deleting, ~Deleting', destructor' = destructor,
           UNCHANGED <<frame, pc, taskqueue_, owner, members, running_, thread_, tick>>
    PROVE  LifeInv'
  BY DEF LifeInv, LifeTypes, IoBetween, MembersFit, WheelRuns, WheelJoined, LoggerLast, Deleting

\* The steps of the main thread before the signal.
LEMMA MainKeeps == ASSUME LifeInv, MainStep PROVE LifeInv'
<1> handler = "none" /\ handler' = "none"
  BY DEF MainStep, MainAdvances, Uninterrupted, main_locks, main_unlocks, main_logs, construct_pool,
         log_Init, addtask, constructed, start, process
<1> ~Deleting /\ ~Deleting' /\ destructor = "none"
  BY DEF Deleting, LifeInv, LoggerLast
<1> USE DEF LifeInv, LifeTypes, IoBetween, MembersFit, WheelRuns, WheelJoined, LoggerLast
<1>1. CASE construct_pool
  <2>1. CASE owner = "use"
    BY <1>1, <2>1 DEF construct_pool, pool, wheel, logger, vars
  <2>2. ASSUME NEW w \in IoThreads, Pool!create(w), frame' = frame, members' = members PROVE LifeInv'
    BY <1>1, <2>2 DEF construct_pool, Pool!create, Pool!Goes, Pool!WorkerSteps, wheel, logger, vars
  <2>3. CASE Pool!count /\ UNCHANGED <<frame, members>>
    BY <1>1, <2>3 DEF construct_pool, Pool!count, wheel, logger, vars
  <2> QED
    BY <1>1, <2>1, <2>2, <2>3 DEF construct_pool
<1>2. CASE log_Init
  BY <1>2 DEF log_Init, Init_Thread, SetFormat, SetOutput, pool, wheel
<1>3. CASE addtask
  <2>1. ASSUME NEW l \in Loops, Pool!push(l) PROVE LifeInv'
    BY <1>3, <2>1 DEF addtask, Pool!push, process, wheel, logger, vars
  <2>2. ASSUME NEW l \in Loops, Pool!notify_one(l) PROVE LifeInv'
    BY <1>3, <2>2 DEF addtask, Pool!notify_one, Pool!Goes, Pool!WorkerSteps, process, wheel, logger, vars
  <2> QED
    BY <1>3, <2>1, <2>2 DEF addtask
<1>4. CASE constructed
  BY <1>4 DEF constructed, pool, wheel, logger, vars
<1>5. CASE start
  BY <1>5 DEF start, pool, logger, vars
<1>6. CASE main_locks \/ main_unlocks
  BY <1>6, Undisturbed DEF main_locks, main_unlocks, pool, wheel, logger, vars
<1>7. ASSUME NEW m \in Messages, main_logs(m) PROVE LifeInv'
  BY <1>7, Undisturbed DEF main_logs, AddWorkLog_push, AddWorkLog_notify, pool, wheel, process
<1> QED
  BY <1>1, <1>2, <1>3, <1>4, <1>5, <1>6, <1>7 DEF MainStep, MainAdvances

\* The steps of the handler: the wheel is joined before it goes, the IO threads
\* before any member does, and the Logger goes last.
LEMMA HandlerKeeps == ASSUME LifeInv, HandlerStep PROVE LifeInv'
<1> USE DEF LifeInv, LifeTypes, IoBetween, MembersFit, WheelRuns, WheelJoined, LoggerLast, Handler
<1>1. ASSUME NEW m \in Messages, LOGINFO(m) PROVE LifeInv'
  <2>1. ~Deleting /\ ~Deleting' /\ destructor' = destructor
    BY <1>1 DEF LOGINFO, Deleting, Write_dropped, AddWorkLog_push, AddWorkLog_notify
  <2> QED
    BY <1>1, <2>1, Undisturbed DEF LOGINFO, pool, wheel
<1>2. CASE null_httpserver
  BY <1>2, Undisturbed DEF null_httpserver, Deleting, pool, wheel, logger, vars
<1>3. CASE stop_loops
  <2>1. ~Deleting /\ ~Deleting'
    BY <1>3 DEF stop_loops, StopLoops, Deleting
  <2> QED
    BY <1>3, <2>1, Undisturbed DEF stop_loops, StopLoops, pool, wheel, logger, vars
<1>4. CASE threadpool_stop
  <2>1. CASE Pool!stop_set \/ Pool!notify_all
    BY <1>4, <2>1
    DEF threadpool_stop, Deleting, Pool!stop_set, Pool!notify_all, Pool!join, Pool!WorkerSteps,
        wheel, logger, vars
  <2>2. CASE Pool!join
    BY <1>4, <2>2
    DEF threadpool_stop, Deleting, TickEnded, Pool!stop_set, Pool!notify_all, Pool!join, wheel, logger, vars
  <2> QED
    BY <1>4, <2>1, <2>2 DEF threadpool_stop
<1>5. CASE destroy
  <2>1. TickEnded /\ TickEnded'
    BY <1>5, WheelIsLast DEF destroy, Deleting, TickEnded, Last, wheel
  <2> QED
    BY <1>5, <2>1 DEF destroy, Deleting, pool, wheel, logger, vars
<1>6. CASE TimeWheel_stop
  BY <1>6 DEF TimeWheel_stop, Deleting, TickEnded, pool, logger, vars
<1>7. CASE TimeWheel_clear
  <2>1. TickEnded /\ TickEnded' /\ destructor' = destructor
    BY <1>7
    DEF TimeWheel_clear, Deleting, TickEnded, Logs, Notifies, AddWorkLog_push, AddWorkLog_notify,
        wheel, logger, vars
  <2>2. destructor = "none"
    BY <1>7 DEF TimeWheel_clear
  <2> QED
    BY <1>7, <2>1, <2>2 DEF TimeWheel_clear, Deleting, pool, wheel
<1>8. CASE exit
  BY <1>8, WheelIsLast DEF exit, Deleting, TickEnded, pool, wheel
<1> QED
  BY <1>1, <1>2, <1>3, <1>4, <1>5, <1>6, <1>7, <1>8 DEF HandlerStep

\* The steps of an IO thread.
LEMMA IoKeeps == ASSUME LifeInv, NEW w \in IoThreads, IoStep(w) PROVE LifeInv'
<1> USE DEF LifeInv, LifeTypes, IoBetween, MembersFit, WheelRuns, WheelJoined, LoggerLast
<1>1. /\ UNCHANGED <<frame, handler, members, running_, thread_, tick, destructor, owner>>
      /\ (Deleting' <=> Deleting) /\ (TickEnded' <=> TickEnded)
  BY DEF IoStep, handle, handle_on, loop_ends, Logs, Notifies, AddWorkLog_push, AddWorkLog_notify, pool,
         wheel, process, logger, vars, Deleting, TickEnded, Pool!finish, Pool!WorkerStep, Pool!check_stop,
         Pool!predicate_fails, Pool!block, Pool!return_stopped, Pool!take, Pool!run_task, Pool!end_task
<1>2. CASE handle(w) \/ handle_on(w)
  BY <1>1, <1>2 DEF handle, handle_on, pool
<1>3. CASE loop_ends(w) \/ Pool!end_task(w)
  BY <1>1, <1>3 DEF loop_ends, Pool!end_task, Pool!finish, Pool!Goes, Pool!WorkerSteps
<1>4. CASE Pool!take(w)
  BY <1>1, <1>4 DEF Pool!take, Pool!Goes, Pool!WorkerSteps
<1>5. CASE Pool!check_stop(w) \/ Pool!predicate_fails(w) \/ Pool!block(w)
  BY <1>1, <1>5
  DEF Pool!check_stop, Pool!predicate_fails, Pool!block, Pool!Goes, Pool!WorkerSteps
<1>6. CASE Pool!return_stopped(w) \/ Pool!run_task(w)
  BY <1>1, <1>6 DEF Pool!return_stopped, Pool!run_task, Pool!Goes, Pool!WorkerSteps
<1> QED
  BY <1>2, <1>3, <1>4, <1>5, <1>6 DEF IoStep, Pool!WorkerStep

\* The steps of the other threads, and wakeups without a reason.
LEMMA OthersKeep ==
    ASSUME LifeInv, TickStep \/ tick_destroyed \/ LogStep \/ spurious_wakeups \/ SIGTERM
    PROVE  LifeInv'
<1> USE DEF LifeInv, LifeTypes, IoBetween, MembersFit, WheelRuns, WheelJoined, LoggerLast
<1>1. CASE TickStep
  <2>1. /\ tick \notin {"none", "exited"}
        /\ UNCHANGED <<frame, handler, members, running_, thread_, destructor, owner, pc, taskqueue_>>
    BY <1>1
    DEF TickStep, wait_for, collect, closecallback, Ticks, Logs, Notifies, AddWorkLog_push,
        AddWorkLog_notify, pool, process, logger, vars
  <2> QED
    BY <2>1 DEF Deleting, TickEnded
<1>2. CASE tick_destroyed
  BY <1>2 DEF tick_destroyed, Deleting, TickEnded, pool, wheel, logger, vars
<1>3. CASE LogStep
  <2>1. destructor' = destructor
    BY <1>3 DEF LogStep, WorkerStep, wait, return_drained, take_front, Output
  <2> QED
    BY <1>3, <2>1 DEF LogStep, Deleting, TickEnded, pool, wheel, process
<1>4. CASE spurious_wakeups
  <2>1. CASE spurious_wakeup /\ UNCHANGED pool
    BY <1>4, <2>1 DEF spurious_wakeups, spurious_wakeup, Deleting, TickEnded, pool, wheel, process
  <2>2. ASSUME NEW w \in IoThreads, Pool!spurious_wakeup(w), UNCHANGED logger PROVE LifeInv'
    BY <1>4, <2>2
    DEF spurious_wakeups, Pool!spurious_wakeup, Pool!Goes, Pool!WorkerSteps, Deleting, TickEnded,
        wheel, process, logger, vars
  <2> QED
    BY <1>4, <2>1, <2>2 DEF spurious_wakeups
<1>5. CASE SIGTERM
  BY <1>5, Undisturbed DEF SIGTERM, Uninterrupted, Deleting, pool, wheel, logger, vars
<1> QED
  BY <1>1, <1>2, <1>3, <1>4, <1>5

\* ServerInv is inductive.
THEOREM ServerInvariance == ServerSpec => []ServerInv
<1>1. ServerInv /\ [ServerNext]_server => ServerInv'
  <2> SUFFICES ASSUME ServerInv, [ServerNext]_server PROVE ServerInv'
    OBVIOUS
  <2>1. LoggerInv'
    BY StepLogs, NextLoggerInv DEF ServerInv
  <2>2. CASE UNCHANGED server
    <3>1. LifeInv'
      BY <2>2
      DEF ServerInv, LifeInv, LifeTypes, IoBetween, MembersFit, WheelRuns, WheelJoined, LoggerLast,
          TickEnded, Deleting, server, logger, vars, pool, wheel, process
    <3> QED
      BY <2>1, <3>1 DEF ServerInv
  <2>3. CASE ServerNext
    <3>1. LifeInv'
      BY <2>3, MainKeeps, HandlerKeeps, IoKeeps, OthersKeep DEF ServerInv, ServerNext
    <3> QED
      BY <2>1, <3>1 DEF ServerInv
  <2> QED
    BY <2>2, <2>3
<1> QED
  BY InitServerInv, <1>1, PTL DEF ServerSpec

\* No thread uses a member of TcpServer before it is constructed or after it is
\* destroyed, for every number of IO threads and wherever the signal comes, but
\* for the moment in which the wheel's thread has no name yet.
THEOREM AlwaysUsesWhatLives == ServerSpec => []UsesOnlyWhatLives
<1>1. ServerInv => UsesOnlyWhatLives
  <2> SUFFICES ASSUME ServerInv PROVE UsesOnlyWhatLives
    OBVIOUS
  <2> USE DEF ServerInv, LifeInv, LifeTypes
  <2>1. ASSUME NEW w \in IoThreads, NEW x \in UsedByIo(w) PROVE Alive(x)
    <3>1. ~Deleting /\ (pc[w] = "running" => frame \notin {"pool", "log"})
      BY <2>1 DEF UsedByIo, IoBetween
    <3>2. CASE frame = "pool"
      BY <2>1, <3>1, <3>2, PoolIsAlive DEF UsedByIo, MembersFit
    <3>3. CASE frame # "pool"
      BY <2>1, <3>1, <3>3, FullIsAlive DEF UsedByIo, MembersFit
    <3> QED
      BY <3>2, <3>3
  <2>2. ASSUME frame # "spawned", NEW x \in UsedByTick PROVE Alive(x)
    <3>1. ~TickEnded /\ frame = "loop"
      BY <2>2 DEF UsedByTick, TickEnded, WheelRuns
    <3>2. members = MemberOrder
      BY <3>1 DEF MembersFit, WheelJoined
    <3> QED
      BY <2>2, <3>2, FullIsAlive DEF UsedByTick
  <2>3. worker = "output" => out_
    BY DEF LoggerInv, TypeOK
  <2>4. ASSUME destructor # "none"
        PROVE  (\A w \in IoThreads : pc[w] = "exited") /\ TickEnded
    <3>1. Deleting /\ handler = "delete" /\ members # MemberOrder
      BY <2>4, WheelIsLast DEF LoggerLast, Deleting
    <3> QED
      BY <3>1 DEF IoBetween, WheelJoined
  <2> QED
    BY <2>1, <2>2, <2>3, <2>4 DEF UsesOnlyWhatLives, TickEnded
<1> QED
  BY <1>1, ServerInvariance, PTL
=============================================================================
