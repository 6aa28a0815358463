----------------------------- MODULE MCKeyRotation -----------------------------
(* Instances of WorkspaceKeyRotation for TLC.                               *)
EXTENDS WorkspaceKeyRotation, TLC

CONSTANTS b1, b2

\* The budget requests ask for different quotas.
Quotas == [b \in Budgets |-> IF b = b1 THEN 3 ELSE 4]

\* Rotations are interchangeable: no property and no action tells them apart.
Symmetry == Permutations(Rotations)
=============================================================================
