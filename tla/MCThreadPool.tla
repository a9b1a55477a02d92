--------------------------- MODULE MCThreadPool ---------------------------
(* Instances of ThreadPool.  The pool of TcpServer has as many workers as  *)
(* endless tasks; here one worker more, for tasks that return.             *)
EXTENDS ThreadPool
=============================================================================
