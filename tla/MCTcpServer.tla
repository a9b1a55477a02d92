--------------------------- MODULE MCTcpServer ---------------------------
(* An instance of TcpServer: two connections that get the same descriptor  *)
(* one after the other, on one sub loop.                                   *)
EXTENDS TcpServer, TLC

CONSTANTS c1, c2, f1, l1

MCReuseFdOf == (c1 :> f1) @@ (c2 :> f1)
MCLoopOf == f1 :> l1

\* The client that may act early sends once, the patient one a request in parts.
MCRequests == (c1 :> 1) @@ (c2 :> 2)
MCOneRequest == (c1 :> 1) @@ (c2 :> 1)
=============================================================================
