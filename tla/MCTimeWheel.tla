--------------------------- MODULE MCTimeWheel ---------------------------
(* An instance of TimeWheel: two incarnations of one descriptor and a      *)
(* connection of another one.                                              *)
EXTENDS TimeWheel, TLC

CONSTANTS c1, c2, c3, f1, f2, n1, n2

MCFdOf == (c1 :> f1) @@ (c2 :> f1) @@ (c3 :> f2)
=============================================================================
