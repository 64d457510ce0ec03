--------------------------- MODULE MCPostUnitHooks ---------------------------
(* Two hooks after two tasks.  Hook 1 may ask for a retry and has two cycles,  *)
(* hook 2 writes an artifact and has one; both fire after both tasks.          *)
EXTENDS PostUnitHooks

MCTriggers    == [h \in 1..2 |-> 1..2]
MCMaxCycles   == [h \in 1..2 |-> IF h = 1 THEN 2 ELSE 1]
MCHasArtifact == {2}
MCHasRetry    == {1}
==============================================================================
