----------------------------- MODULE MCUserDao -----------------------------
(* An instance of UserDao: more threads than connections, so that a thread  *)
(* waits for a permit while two others are inside their statements.         *)
EXTENDS UserDao, TLC
=============================================================================
