--------------------------- MODULE MCWorkspaceDelete ---------------------------
(***************************************************************************)
(* Symmetry for model checking WorkspaceDelete: processes are alike, and so *)
(* are the keys of requests.                                                *)
(***************************************************************************)
EXTENDS WorkspaceDelete, TLC

Symmetry == Permutations(Processes) \cup Permutations(Keys)
=============================================================================
