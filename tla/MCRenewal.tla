------------------------------- MODULE MCRenewal -------------------------------
(* Renewals small enough for TLC.  Workers only ever stand for themselves and *)
(* for the leases they hold, so they may be permuted in runs without liveness. *)
EXTENDS WorkspaceRenewal, TLC

WorkerSymmetry == Permutations(Workers)
=============================================================================
