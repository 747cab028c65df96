------------------------- MODULE MCCoordinatorRuns -------------------------
(* Instances of CoordinatorRuns for TLC; the bounds are in the .cfg files. *)
EXTENDS CoordinatorRuns
=============================================================================
