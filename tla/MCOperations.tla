------------------------------ MODULE MCOperations ------------------------------
(* Instances of WorkspaceOperations for TLC.                                *)
EXTENDS WorkspaceOperations, TLC

\* Neither rotations nor periods are told apart.
Symmetry == Permutations(Rotations) \cup Permutations(Periods)
=============================================================================
