---------------------------- MODULE MCEventLoop ---------------------------
(* Instances of EventLoop.  The counter of the eventfd is bounded by the   *)
(* number of wakeups, one for each task and each call of stop().           *)
EXTENDS EventLoop
=============================================================================
