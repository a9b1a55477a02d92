----------------------------- MODULE MCBuffer ------------------------------
(* Blocks of 2 and 4 bytes instead of 2 KB and 64 KB, two slices for       *)
(* writev instead of 16, a stream that is cut into chunks of any size.     *)
EXTENDS Buffer
=============================================================================
