------------------------------ MODULE Logger ------------------------------
(***************************************************************************)
(* logger/logger.cpp and LogFac::Init in logger/log_fac.cpp, in the        *)
(* asynchronous mode TcpServer asks for: any thread queues a formatted     *)
(* line, one worker thread writes the lines out, and the destructor of the *)
(* static Logger stops the worker when the process exits.                  *)
(*                                                                         *)
(* As in ThreadPool the mutex is seen held only by a worker that is about  *)
(* to wait (step "towait").                                                *)
(***************************************************************************)
EXTENDS Integers, Sequences

CONSTANTS
    Messages,   \* lines passed to Write, each once
    Quiet       \* those below the configured log_level_

ASSUME QuietAssumption == Quiet \subseteq Messages

VARIABLES
    init,       \* progress of LogFac::Init: "new", "thread", "format", "done"
    th_stop_,
    workqueue_,
    worker,     \* step of the worker thread, "none" before Init_Thread
    line,       \* the line the worker took from the queue, as a sequence
    writer,     \* writer[m]: "new", "dropped", "pushed" or "written"
    destructor, \* progress of ~Logger: "none", "set", "join", "done"
    accepted,   \* history: lines queued by AddWorkLog
    output      \* history: lines written by out_

vars == <<init, th_stop_, workqueue_, worker, line, writer, destructor, accepted, output>>

formater_ == init \in {"format", "done"}
out_ == init = "done"

----------------------------------------------------------------------------

Init ==
    /\ init = "new"
    /\ th_stop_ = FALSE
    /\ workqueue_ = <<>>
    /\ worker = "none"
    /\ line = <<>>
    /\ writer = [m \in Messages |-> "new"]
    /\ destructor = "none"
    /\ accepted = <<>>
    /\ output = <<>>

(* LogFac::Init, called once by the constructor of TcpServer.              *)

\* SetAsyncMode, SetThreadStopWhile(false), Init_Thread.
Init_Thread ==
    /\ init = "new"
    /\ init' = "thread"
    /\ th_stop_' = FALSE
    /\ worker' = "lock"
    /\ UNCHANGED <<workqueue_, line, writer, destructor, accepted, output>>

\* SetFormat and, from the configuration file, SetLevel.
SetFormat ==
    /\ init = "thread"
    /\ init' = "format"
    /\ UNCHANGED <<th_stop_, workqueue_, worker, line, writer, destructor, accepted, output>>

SetOutput ==
    /\ init = "format"
    /\ init' = "done"
    /\ UNCHANGED <<th_stop_, workqueue_, worker, line, writer, destructor, accepted, output>>

----------------------------------------------------------------------------
(* Write, on the main thread during Init and on any thread after it; the   *)
(* threads of the server have ended when the Logger is destroyed.          *)

MayWrite(m) ==
    /\ writer[m] = "new"
    /\ destructor = "none"

Dropped(m) == ~formater_ \/ ~out_ \/ m \in Quiet

Write_dropped(m) ==
    /\ MayWrite(m)
    /\ Dropped(m)
    /\ writer' = [writer EXCEPT ![m] = "dropped"]
    /\ UNCHANGED <<init, th_stop_, workqueue_, worker, line, destructor, accepted, output>>

\* AddWorkLog: push under the mutex, then notify_one.
AddWorkLog_push(m) ==
    /\ MayWrite(m)
    /\ ~Dropped(m)
    /\ worker # "towait"
    /\ workqueue_' = Append(workqueue_, m)
    /\ accepted' = Append(accepted, m)
    /\ writer' = [writer EXCEPT ![m] = "pushed"]
    /\ UNCHANGED <<init, th_stop_, worker, line, destructor, output>>

AddWorkLog_notify(m) ==
    /\ writer[m] = "pushed"
    /\ writer' = [writer EXCEPT ![m] = "written"]
    /\ worker' = IF worker = "waiting" THEN "lock" ELSE worker
    /\ UNCHANGED <<init, th_stop_, workqueue_, line, destructor, accepted, output>>

----------------------------------------------------------------------------
(* The worker thread.                                                      *)

wait ==
    /\ \/ worker = "lock" /\ ~th_stop_ /\ workqueue_ = <<>> /\ worker' = "towait"
       \/ worker = "towait" /\ worker' = "waiting"
    /\ UNCHANGED <<init, th_stop_, workqueue_, line, writer, destructor, accepted, output>>

spurious_wakeup ==
    /\ worker = "waiting"
    /\ worker' = "lock"
    /\ UNCHANGED <<init, th_stop_, workqueue_, line, writer, destructor, accepted, output>>

\* A bug for comparison: the worker leaves as soon as th_stop_ is set.
return_at_once ==
    /\ worker = "lock"
    /\ th_stop_
    /\ worker' = "exited"
    /\ UNCHANGED <<init, th_stop_, workqueue_, line, writer, destructor, accepted, output>>

return_drained ==
    /\ worker = "lock"
    /\ th_stop_ /\ workqueue_ = <<>>
    /\ worker' = "exited"
    /\ UNCHANGED <<init, th_stop_, workqueue_, line, writer, destructor, accepted, output>>

\* A bug for comparison: the line that came last is taken.
take_back ==
    /\ worker = "lock"
    /\ workqueue_ # <<>>
    /\ line' = <<workqueue_[Len(workqueue_)]>>
    /\ workqueue_' = SubSeq(workqueue_, 1, Len(workqueue_) - 1)
    /\ worker' = "output"
    /\ UNCHANGED <<init, th_stop_, writer, destructor, accepted, output>>

take_front ==
    /\ worker = "lock"
    /\ workqueue_ # <<>>
    /\ line' = <<Head(workqueue_)>>
    /\ workqueue_' = Tail(workqueue_)
    /\ worker' = "output"
    /\ UNCHANGED <<init, th_stop_, writer, destructor, accepted, output>>

Output ==
    /\ worker = "output"
    /\ output' = output \o line
    /\ line' = <<>>
    /\ worker' = "lock"
    /\ UNCHANGED <<init, th_stop_, workqueue_, writer, destructor, accepted>>

WorkerStep == wait \/ return_drained \/ take_front \/ Output

----------------------------------------------------------------------------
(* ~Logger: th_stop_ is set without the mutex, notify_all, join.           *)

destructor_set ==
    /\ destructor = "none"
    /\ init = "done"
    /\ th_stop_' = TRUE
    /\ destructor' = "set"
    /\ UNCHANGED <<init, workqueue_, worker, line, writer, accepted, output>>

destructor_notify ==
    /\ destructor = "set"
    /\ destructor' = "join"
    /\ worker' = IF worker = "waiting" THEN "lock" ELSE worker
    /\ UNCHANGED <<init, th_stop_, workqueue_, line, writer, accepted, output>>

destructor_join ==
    /\ destructor = "join"
    /\ worker = "exited"
    /\ destructor' = "done"
    /\ UNCHANGED <<init, th_stop_, workqueue_, worker, line, writer, accepted, output>>

----------------------------------------------------------------------------

Next ==
    \/ Init_Thread
    \/ SetFormat
    \/ SetOutput
    \/ \E m \in Messages : Write_dropped(m) \/ AddWorkLog_push(m) \/ AddWorkLog_notify(m)
    \/ WorkerStep
    \/ spurious_wakeup
    \/ destructor_set
    \/ destructor_notify
    \/ destructor_join

Spec == Init /\ [][Next]_vars

----------------------------------------------------------------------------
(* Properties.                                                             *)

\* Every variable holds a value of its type, and out_ is set when the worker
\* uses it although the thread is created before SetOutput.
TypeOK ==
    /\ init \in {"new", "thread", "format", "done"}
    /\ th_stop_ \in BOOLEAN
    /\ workqueue_ \in Seq(Messages)
    /\ worker \in {"none", "lock", "towait", "waiting", "output", "exited"}
    /\ line \in Seq(Messages)
    /\ writer \in [Messages -> {"new", "dropped", "pushed", "written"}]
    /\ destructor \in {"none", "set", "join", "done"}
    /\ accepted \in Seq(Messages)
    /\ output \in Seq(Messages)
    /\ worker = "output" => out_

\* Lines come out once each, in the order they were queued.
OutputInOrder == accepted = output \o line \o workqueue_

\* Once ~Logger has joined the worker, no accepted line is missing.
DrainedAtExit == destructor = "done" => output = accepted

(* What the proofs about the logger add.                                    *)

\* Only the worker that writes a line has one in its hand.
LineInHand == worker # "output" => line = <<>>

\* The worker starts with Init_Thread, and lines are queued only after Init.
InitFirst ==
    /\ init = "new" => worker = "none"
    /\ workqueue_ # <<>> => out_

\* Only the destructor stops the worker, which leaves an empty queue to which
\* nobody adds any more.
LeavesNothing ==
    /\ th_stop_ => destructor # "none"
    /\ worker = "exited" => th_stop_ /\ workqueue_ = <<>>
    /\ destructor = "done" => worker = "exited"

LoggerInv == TypeOK /\ OutputInOrder /\ LineInHand /\ InitFirst /\ LeavesNothing
=============================================================================
