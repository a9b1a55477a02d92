--------------------------- MODULE MCHttpServer ---------------------------
(* Instances of HttpServer: the line of Stop() and one that whichever      *)
(* thread comes first logs.                                                *)
EXTENDS HttpServer

CONSTANTS anyLine, StopLine

MCMessages == {anyLine, StopLine}

MCAuthor == [m \in MCMessages |-> IF m = StopLine THEN "Stop" ELSE "any"]
=============================================================================
