---------------------------- MODULE HttpServer ----------------------------
(***************************************************************************)
(* The life of the process: main() and HttpServer.cpp, the constructor,    *)
(* start() and stop() of TcpServer, start() and stop() of TimeWheel, on    *)
(* the ThreadPool of the IO threads and the Logger.                        *)
(*                                                                         *)
(* SIGTERM runs Stop() on the main thread, on top of whatever that thread  *)
(* was doing (frame) and with the mutexes it had taken (held); the frame   *)
(* never continues, for the handler ends in exit().  The other threads     *)
(* are kept as far as they take these mutexes and use the objects the      *)
(* handler destroys; what they do with connections is in TcpServer.        *)
(***************************************************************************)
EXTENDS Logger, FiniteSets

CONSTANTS
    threadnum_, \* the number of IO threads and of loops
    None,
    Author      \* Author[m]: who logs m: HttpServer::Stop ("Stop"), or whoever
                \* comes first ("any")

ASSUME ThreadnumAssumption == threadnum_ \in Nat \ {0}
ASSUME AuthorAssumption == Author \in [Messages -> {"any", "Stop"}]

IoThreads == 1 .. threadnum_    \* the threads of threadpool_
Loops == 1 .. threadnum_        \* subloops_, each run by one task

VARIABLES
    status,     \* "up", "exited", "segv" or "undefined"
    frame,      \* what the main thread is in, below the handler
    held,       \* the mutexes the main thread holds there
    handler,    \* step of Stop(int), "none" before the signal
    members,    \* the members of TcpServer that live, in declaration order
    stopped,    \* the number of loops whose stop_ is set
    serving,    \* serving[w]: what an IO thread in a loop is about to do
    running_,   \* of the TimeWheel
    tick,       \* step of the thread of the TimeWheel
    thread_     \* whether TimeWheel::thread_ has been assigned

VARIABLES taskqueue_, stop_, tp_idl_tnum, pc, task, adder, owner, added, taken

Pool == INSTANCE ThreadPool WITH Workers <- IoThreads, Tasks <- Loops, Endless <- Loops

logger == vars
pool == <<taskqueue_, stop_, tp_idl_tnum, pc, task, adder, owner, added, taken>>
wheel == <<running_, tick, thread_>>
process == <<status, frame, held, handler, members>>
server == <<logger, pool, wheel, process, stopped, serving>>

----------------------------------------------------------------------------
(* The members of TcpServer that other threads use, as they are declared.  *)

\* A bug for comparison: the wheel is declared first and destroyed last.
WheelFirst ==
    <<"time_wheel_", "subloops_", "threadpool_", "conns_">>

MemberOrder ==
    <<"subloops_", "threadpool_", "conns_", "time_wheel_">>

Alive(x) == \E i \in DOMAIN members : members[i] = x

UpToThreadpool ==
    SubSeq(MemberOrder, 1, CHOOSE i \in DOMAIN MemberOrder : MemberOrder[i] = "threadpool_")

ServerInit ==
    /\ Init
    /\ Pool!Init
    /\ status = "up"
    /\ frame = "pool"
    /\ held = {}
    /\ handler = "none"
    /\ members = UpToThreadpool
    /\ stopped = 0
    /\ serving = [w \in IoThreads |-> "check"]
    /\ running_ = FALSE
    /\ tick = "none"
    /\ thread_ = FALSE

----------------------------------------------------------------------------
(* The main thread, until the signal.                                      *)

Uninterrupted == status = "up" /\ handler = "none"

\* The threads of the pool start before the members declared behind it.
construct_pool ==
    /\ frame = "pool"
    /\ \/ /\ owner # "use"
          /\ \/ \E w \in IoThreads : (\A v \in 1 .. w - 1 : pc[v] # "unborn") /\ Pool!create(w)
             \/ Pool!count
          /\ UNCHANGED <<frame, members>>
       \/ /\ owner = "use"
          /\ frame' = "log"
          /\ members' = MemberOrder
          /\ UNCHANGED pool
    /\ UNCHANGED <<logger, wheel, status, held, handler, stopped, serving>>

log_Init ==
    /\ frame = "log"
    /\ Init_Thread \/ SetFormat \/ SetOutput
    /\ frame' = IF init' = "done" THEN "tasks" ELSE "log"
    /\ UNCHANGED <<pool, wheel, status, held, handler, members, stopped, serving>>

addtask ==
    /\ frame = "tasks"
    /\ \E l \in Loops :
           \/ (\A k \in 1 .. l - 1 : adder[k] = "added") /\ Pool!push(l)
           \/ Pool!notify_one(l)
    /\ UNCHANGED <<logger, wheel, process, stopped, serving>>

\* httpserver is assigned when the constructor has returned.
constructed ==
    /\ frame = "tasks"
    /\ \A l \in Loops : adder[l] = "added"
    /\ frame' = "constructed"
    /\ UNCHANGED <<logger, pool, wheel, status, held, handler, members, stopped, serving>>

start ==
    /\ \/ /\ frame = "constructed" /\ frame' = "starting"
          /\ running_' = TRUE
          /\ UNCHANGED <<tick, thread_>>
       \/ /\ frame = "starting" /\ frame' = "spawned"
          /\ tick' = "wait"
          /\ UNCHANGED <<running_, thread_>>
       \/ /\ frame = "spawned" /\ frame' = "loop"
          /\ thread_' = TRUE
          /\ UNCHANGED <<running_, tick>>
    /\ UNCHANGED <<logger, pool, status, held, handler, members, stopped, serving>>

\* newconnection() takes the mutex of the wheel, then that of conns_, and logs
\* under both of them.
Takes == {<<{}, "log">>} \union
         IF frame = "loop" THEN {<<{}, "wheel">>, <<{}, "conns">>, <<{"wheel"}, "log">>, <<{"conns"}, "log">>}
                           ELSE {}

LineDue == \E m \in Messages : Author[m] = "any" /\ writer[m] = "new"

\* A line that neither an IO thread nor the wheel's has queued was main's.
NotifyDue ==
    /\ \A w \in IoThreads : serving[w] # "notify"
    /\ tick # "notify"
    /\ \E m \in Messages : Author[m] = "any" /\ writer[m] = "pushed"

\* AddWorkLog, step by step.
main_logs(m) ==
    /\ Author[m] = "any"
    /\ \/ "log" \in held /\ AddWorkLog_push(m)
       \/ "log" \notin held /\ NotifyDue /\ AddWorkLog_notify(m)
    /\ UNCHANGED <<pool, wheel, process, stopped, serving>>

main_locks ==
    /\ \E l \in {"log", "wheel", "conns"} :
           /\ <<held, l>> \in Takes
           /\ l = "log" => init = "done" /\ worker # "towait" /\ LineDue
           /\ held' = held \union {l}
    /\ ~NotifyDue
    /\ UNCHANGED <<logger, pool, wheel, status, frame, handler, members, stopped, serving>>

main_unlocks ==
    /\ held # {}
    /\ held' = IF "log" \in held THEN held \ {"log"} ELSE {}
    /\ IF "log" \in held THEN ~LineDue ELSE ~NotifyDue
    /\ UNCHANGED <<logger, pool, wheel, status, frame, handler, members, stopped, serving>>

\* The steps main does not stop before.
MainAdvances ==
    /\ Uninterrupted
    /\ \/ held = {} /\ ~NotifyDue /\ (construct_pool \/ log_Init \/ addtask \/ constructed \/ start)
       \/ main_unlocks
       \/ \E m \in Messages : main_logs(m)

MainStep == MainAdvances \/ (Uninterrupted /\ main_locks)

SIGTERM ==
    /\ Uninterrupted
    /\ handler' = "LOGINFO"
    /\ UNCHANGED <<logger, pool, wheel, status, frame, held, members, stopped, serving>>

\* A line of the server, from the thread that comes first.
Logs(m) == Author[m] = "any" /\ AddWorkLog_push(m)
Notifies(m) == Author[m] = "any" /\ AddWorkLog_notify(m)

----------------------------------------------------------------------------
(* The handler.                                                            *)

Handler(step, next) == status = "up" /\ handler = step /\ handler' = next

\* The line of HttpServer::Stop: dropped before Init is done.
LOGINFO(m) ==
    /\ Author[m] = "Stop"
    /\ \/ /\ Handler("LOGINFO", "stop")
          /\ Write_dropped(m)
       \/ /\ "log" \notin held
          /\ Handler("LOGINFO", "notify")
          /\ AddWorkLog_push(m)
       \/ /\ Handler("notify", "stop")
          /\ AddWorkLog_notify(m)
    /\ UNCHANGED <<pool, wheel, status, frame, held, members, stopped, serving>>

\* ClosePool is called on the instance of the pool; threadpool_.stop(), which
\* joins no thread, is the first use of httpserver.
null_httpserver ==
    /\ Handler("stop", "stop")
    /\ frame \in {"pool", "log", "tasks"}
    /\ status' = "segv"
    /\ UNCHANGED <<logger, pool, wheel, frame, held, members, stopped, serving>>

\* EventLoop::stop of each loop; the main loop does not go on anyway.
StopLoops(n) ==
    /\ frame \notin {"pool", "log", "tasks"}
    /\ Handler("stop", IF stopped + 1 = n THEN "threadpool_" ELSE "stop")
    /\ stopped' = stopped + 1
    /\ UNCHANGED <<logger, pool, wheel, status, frame, held, members, serving>>

\* A bug for comparison: the last loop is not stopped.
stop_but_one == StopLoops(threadnum_ - 1)

stop_loops == StopLoops(threadnum_)

threadpool_stop ==
    /\ \/ Handler("threadpool_", "threadpool_") /\ (Pool!stop_set \/ Pool!notify_all)
       \/ Handler("threadpool_", "delete") /\ Pool!join
    /\ UNCHANGED <<logger, wheel, status, frame, held, members, stopped, serving>>

\* delete httpserver: the members go in the reverse of their order, and the
\* wheel stops first if it runs.
Last == members[Len(members)]
Shortened == members' = SubSeq(members, 1, Len(members) - 1)

destroy ==
    /\ members # <<>>
    /\ Last = "time_wheel_" => ~running_
    /\ Handler("delete", "delete")
    /\ Shortened
    /\ UNCHANGED <<logger, pool, wheel, status, frame, held, stopped, serving>>

TimeWheel_stop ==
    /\ \/ /\ members # <<>> /\ Last = "time_wheel_"
          /\ running_
          /\ Handler("delete", "join")
          /\ running_' = FALSE
       \/ /\ thread_ => tick = "exited"
          /\ Handler("join", "clear")
          /\ UNCHANGED running_
    /\ UNCHANGED <<logger, pool, tick, thread_, status, frame, held, members, stopped, serving>>

\* Under its mutex, with a line at the end.
TimeWheel_clear ==
    /\ "wheel" \notin held
    /\ \/ Handler("clear", "cleared") /\ (\E m \in Messages : Logs(m)) /\ UNCHANGED members
       \/ Handler("cleared", "delete") /\ (\E m \in Messages : Notifies(m)) /\ Shortened
       \/ Handler("clear", "delete") /\ ~LineDue /\ Shortened /\ UNCHANGED logger
    /\ UNCHANGED <<pool, wheel, status, frame, held, stopped, serving>>

\* exit(0) destroys the Logger.
exit ==
    /\ members = <<>>
    /\ Handler("delete", "delete")
    /\ destructor_set \/ destructor_notify \/ destructor_join
    /\ status' = IF destructor' = "done" THEN "exited" ELSE "up"
    /\ UNCHANGED <<pool, wheel, frame, held, members, stopped, serving>>

HandlerStep ==
    \/ \E m \in Messages : LOGINFO(m)
    \/ null_httpserver
    \/ stop_loops
    \/ threadpool_stop
    \/ destroy
    \/ TimeWheel_stop
    \/ TimeWheel_clear
    \/ exit

----------------------------------------------------------------------------
(* The IO threads: in a loop they serve connections, take one mutex after  *)
(* another and log, until they see that the loop is stopped.  A mutex that *)
(* is free is taken and released in no step at all, or in the one that     *)
(* queues a line; one that the main thread holds is waited for.            *)

Serves(w, from, to) == serving[w] = from /\ serving' = [serving EXCEPT ![w] = to]

handle(w) ==
    /\ task[w] > stopped
    /\ \/ (\E l \in held : Serves(w, "check", l)) /\ UNCHANGED logger
       \/ "log" \notin held /\ Serves(w, "check", "notify") /\ \E m \in Messages : Logs(m)
    /\ UNCHANGED pool

handle_on(w) ==
    /\ \/ (\E l \in {"log", "wheel", "conns"} \ held : Serves(w, l, "check")) /\ UNCHANGED logger
       \/ Serves(w, "notify", "check") /\ \E m \in Messages : Notifies(m)
    /\ UNCHANGED pool

loop_ends(w) ==
    /\ task[w] <= stopped
    /\ serving[w] = "check"
    /\ Pool!finish(w)
    /\ UNCHANGED <<logger, serving>>

IoStep(w) ==
    /\ status = "up"
    /\ \/ pc[w] = "running" /\ (handle(w) \/ handle_on(w) \/ loop_ends(w))
       \/ pc[w] # "running" /\ Pool!WorkerStep(w) /\ UNCHANGED <<logger, serving>>
    /\ UNCHANGED <<wheel, process, stopped>>

----------------------------------------------------------------------------
(* The thread of the wheel: run() and tick(), which closes a connection    *)
(* that has expired and needs the three mutexes for it, one after another. *)

Ticks(from, to) == tick = from /\ tick' = to

\* A timeout finds an expired connection, or the mutex of the wheel taken.
wait_for ==
    /\ \/ running_ /\ "wheel" \notin held /\ Ticks("wait", "closing")
       \/ running_ /\ "wheel" \in held /\ Ticks("wait", "collect")
       \/ ~running_ /\ Ticks("wait", "exited")
    /\ UNCHANGED logger

collect ==
    /\ "wheel" \notin held
    /\ Ticks("collect", "wait") \/ Ticks("collect", "closing")
    /\ UNCHANGED logger

closecallback ==
    \/ Ticks("closing", "wait") /\ held = {} /\ UNCHANGED logger
    \/ Ticks("closing", "notify") /\ "log" \notin held /\ \E m \in Messages : Logs(m)
    \/ Ticks("notify", "closing") /\ \E m \in Messages : Notifies(m)

TickStep ==
    /\ status = "up"
    /\ Alive("time_wheel_")
    /\ wait_for \/ collect \/ closecallback
    /\ UNCHANGED <<pool, running_, thread_, process, stopped, serving>>

\* The thread goes on with a wheel that is no more.
tick_destroyed ==
    /\ status = "up"
    /\ tick \notin {"none", "exited"}
    /\ ~Alive("time_wheel_")
    /\ status' = "undefined"
    /\ UNCHANGED <<logger, pool, wheel, frame, held, handler, members, stopped, serving>>

----------------------------------------------------------------------------
(* The thread of the logger, and wakeups without a reason.                 *)

LogStep ==
    /\ status = "up"
    /\ worker = "lock" => "log" \notin held
    /\ WorkerStep
    /\ UNCHANGED <<pool, wheel, process, stopped, serving>>

spurious_wakeups ==
    /\ status = "up"
    /\ \/ spurious_wakeup /\ UNCHANGED pool
       \/ (\E w \in IoThreads : Pool!spurious_wakeup(w)) /\ UNCHANGED logger
    /\ UNCHANGED <<wheel, process, stopped, serving>>

----------------------------------------------------------------------------

ServerNext ==
    \/ MainStep
    \/ SIGTERM
    \/ HandlerStep
    \/ \E w \in IoThreads : IoStep(w)
    \/ TickStep
    \/ tick_destroyed
    \/ LogStep
    \/ spurious_wakeups

ServerSpec == ServerInit /\ [][ServerNext]_server

\* Every thread runs; the handler gets a mutex that is free again and again
\* (the worker of the logger may take it after every spurious wakeup); the
\* signal need not come.
FairServerSpec ==
    /\ ServerSpec
    /\ WF_server(MainAdvances)
    /\ SF_server(HandlerStep)
    /\ \A w \in IoThreads : WF_server(IoStep(w))
    /\ WF_server(TickStep)
    /\ WF_server(LogStep)

----------------------------------------------------------------------------
(* Properties.                                                             *)

Ended == status # "up"

\* What the IO threads and the thread of the wheel use at their present step.
UsedByIo(w) ==
    IF pc[w] = "running" THEN {"threadpool_", "subloops_", "conns_", "time_wheel_"}
    ELSE IF pc[w] \in {"unborn", "exited"} THEN {} ELSE {"threadpool_"}

UsedByTick ==
    IF tick = "closing" THEN {"subloops_", "conns_", "time_wheel_"}
    ELSE IF tick \in {"none", "exited"} THEN {} ELSE {"time_wheel_"}

\* No thread uses a member of TcpServer before it is constructed or after it is
\* destroyed, though the pool starts its threads in the middle of the
\* declarations and TcpServer::stop() does not stop the wheel; the worker of
\* the logger finds its output; and nobody is left to log when exit() destroys
\* the logger.  A signal between the creation of the thread of the wheel and
\* the assignment of thread_ is the exception: that thread is never joined.
UsesOnlyWhatLives ==
    /\ \A w \in IoThreads : \A x \in UsedByIo(w) : Alive(x)
    /\ frame # "spawned" => \A x \in UsedByTick : Alive(x)
    /\ worker = "output" => out_
    /\ destructor # "none" => /\ \A w \in IoThreads : pc[w] = "exited"
                              /\ frame # "spawned" => tick \in {"none", "exited"}

\* The ways Stop(int) blocks: on a mutex of the frame it interrupted, on a
\* thread that waits for such a mutex, or on one that missed the notification.
WantedByTick ==
    CASE tick = "collect" -> {"wheel"}
      [] tick = "closing" -> {"log", "wheel", "conns"}
      [] OTHER -> {}

BlockedOnFrame ==
    \/ handler = "LOGINFO" /\ "log" \in held
    \/ handler = "threadpool_" /\ \E w \in IoThreads : pc[w] = "running" /\ serving[w] \in held
    \/ handler = "join" /\ WantedByTick \cap held # {}
    \/ handler = "clear" /\ "wheel" \in held

MissedNotification ==
    \/ owner = "join" /\ \E w \in IoThreads : pc[w] = "waiting"
    \/ destructor = "join" /\ worker = "waiting"

Hung == BlockedOnFrame \/ MissedNotification

\* Once the signal has come the process ends, in exit() or on the null
\* httpserver of a constructor that has not returned, unless it is in one of
\* the two deadlocks of Stop(int): nothing else keeps it from ending.  Until
\* then a line that was queued comes out; DrainedAtExit says it of the end.
EndsOrHangs ==
    handler # "none" \/ accepted # output
        ~> Ended \/ Hung \/ (handler = "none" /\ accepted = output)

\* "Stop the service" (HttpServer.h): a signal that finds the server running
\* and the main thread waiting for events, with no mutex, ends the process.
StopEndsTheProcess ==
    handler = "LOGINFO" /\ frame = "loop" /\ held = {} ~> status = "exited"

(* What makes UsesOnlyWhatLives inductive, see HttpServer_proofs.          *)

\* The server is being deleted.
Deleting == handler \in {"delete", "join", "clear", "cleared"}

LifeTypes ==
    /\ frame \in {"pool", "log", "tasks", "constructed", "starting", "spawned", "loop"}
    /\ pc \in [IoThreads -> Pool!WorkerSteps]

\* No task is there before all members are, and all IO threads have ended before
\* the first member goes.
IoBetween ==
    /\ frame \in {"pool", "log"} =>
           taskqueue_ = <<>> /\ \A w \in IoThreads : pc[w] \notin {"taken", "running"}
    /\ owner = "joined" => \A w \in IoThreads : pc[w] = "exited"
    /\ Deleting => owner = "joined"

MembersFit ==
    ~Deleting => members = IF frame = "pool" THEN UpToThreadpool ELSE MemberOrder

\* running_ says whether ~TimeWheel has a thread to join.
WheelRuns ==
    /\ frame = "loop" => thread_
    /\ frame \notin {"spawned", "loop"} => tick = "none"
    /\ frame \in {"starting", "spawned", "loop"} /\ ~Deleting => running_

TickEnded == frame # "spawned" => tick \in {"none", "exited"}

WheelJoined ==
    Deleting => \/ TickEnded
                \/ handler = "join" /\ members = MemberOrder
                \/ handler = "delete" /\ members = MemberOrder /\ running_

LoggerLast == destructor # "none" => handler = "delete" /\ members = <<>>

LifeInv ==
    /\ LifeTypes
    /\ IoBetween
    /\ MembersFit
    /\ WheelRuns
    /\ WheelJoined
    /\ LoggerLast

ServerInv == LoggerInv /\ LifeInv
=============================================================================
