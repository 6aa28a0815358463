------------------------ MODULE MCFabricLaunchStage ------------------------
(***************************************************************************)
(* The storage stage for TLC.  The requests are interchangeable, but no    *)
(* symmetry is declared: the run checks a liveness property.               *)
(***************************************************************************)
EXTENDS FabricLaunchStage
============================================================================
