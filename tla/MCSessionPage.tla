--------------------------- MODULE MCSessionPage ---------------------------
(* A small instance of SessionPage. *)
EXTENDS SessionPage

SmallScripts == {<<"started", "status", "ended">>}

SmallRuns == [s \in Sessions |-> IF s = "mine" THEN 2 ELSE 0]
=============================================================================
