------------------------------- MODULE MCLaunch -------------------------------
(* Launches short enough for TLC: the stages a run is about, in the order of *)
(* workspaceLaunchReconcileStages.                                           *)
EXTENDS WorkspaceLaunchReconciler

DebitComputeStages == <<Debit, Compute>>
ComputeStages == <<Compute>>
RuntimeReceiptStages == <<Runtime, Receipt>>
KeyStorageStages == <<Key, "storage">>
BilledStages == <<Debit, Compute, "storage", "activation", Receipt>>
=============================================================================
