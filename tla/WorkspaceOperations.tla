--------------------------- MODULE WorkspaceOperations ---------------------------
(***************************************************************************)
(* Renewal, key rotation and deletion of one Workspace next to each other:  *)
(* what their claims check of each other's rows.                            *)
(*                                                                         *)
(* Every claim is prepared outside the store (the rows are listed, the key  *)
(* is read, the identity of the deletion is put together) and then made in  *)
(* one transaction that locks the Workspace row first: a step of its own    *)
(* here.  What each operation does once it is claimed is in                 *)
(* WorkspaceRenewal, WorkspaceKeyRotation and WorkspaceDelete; of it only   *)
(* the writes that the other two can see remain.                            *)
(***************************************************************************)
EXTENDS Integers, FiniteSets

CONSTANTS
    Periods,    \* renewals, told apart by the period they pay for
    Rotations,  \* rotations, told apart by their Idempotency-Key
    LaunchKey,  \* the key the launch created
    None

ASSUME KeysAssumption == LaunchKey \notin Rotations /\ None \notin Rotations /\ None # LaunchKey

VARIABLES
    present,    \* whether the Workspace row exists
    wsKey,      \* its workspaceApiKeyId
    renewal,    \* the renewal rows: none, open, review, done
    rotation,   \* the rotation rows: none, open, done
    old,        \* OldKeyID of each rotation
    deletion,   \* the deletion row: none, open, done
    target,     \* WorkspaceAPIKeyID of the deletion
    worker,     \* the renewal each claim is prepared for: what it saw of the rows
    rotator,    \* the rotation each claim is prepared for: the key it read
    deleter     \* the deletion that is prepared: the key it is bound to

vars == <<present, wsKey, renewal, rotation, old, deletion, target, worker, rotator, deleter>>
rows == <<present, wsKey, renewal, rotation, old, deletion, target>>

Keys == {LaunchKey} \cup Rotations

-----------------------------------------------------------------------------
(* What a row blocks.                                                       *)

workspaceRenewalBlocksDelete(p) == renewal[p] \in {"open", "review"}

workspaceKeyRotationBlocksDelete(o) == rotation[o] = "open"

workspaceDeleteBlocksRotation == deletion = "open"

workspaceDeleteBlocksRenewal == deletion # "none"

\* The rows a renewal claim was prepared from (runtimeOperationsVersion).
OperationsVersion == <<renewal, rotation, deletion>>

-----------------------------------------------------------------------------
(* Renewal.                                                                 *)

\* The worker lists the rows and finds no deletion.  It takes the renewal that is open, or the
\* one of the current period: a new one, or one whose expiry is still to be settled.
PrepareRenewal(p) ==
    /\ present /\ worker[p] = None /\ ~workspaceDeleteBlocksRenewal
    /\ \A q \in Periods \ {p} : renewal[q] # "open"
    /\ worker' = [worker EXCEPT ![p] = OperationsVersion]
    /\ UNCHANGED <<rows, rotator, deleter>>

\* Mutant of RenewalHolds: the claim only looks at the row it writes.
RenewalHoldsOwnRow(p) == present /\ worker[p][1][p] = renewal[p]

\* The claim's transaction still finds the rows it was prepared from.
RenewalHolds(p) ==
    present /\ ~workspaceDeleteBlocksRenewal /\ worker[p] = OperationsVersion

ClaimWorkspaceRenewal(p) ==
    /\ worker[p] # None
    /\ renewal' = IF RenewalHolds(p) THEN [renewal EXCEPT ![p] = "open"] ELSE renewal
    /\ worker' = [worker EXCEPT ![p] = None]
    /\ UNCHANGED <<present, wsKey, rotation, old, deletion, target, rotator, deleter>>

\* A claimed renewal ends, or goes to the operator's review and comes back.
RenewalMoves(p) ==
    /\ \/ renewal[p] = "open" /\ renewal' = [renewal EXCEPT ![p] = "done"]
       \/ renewal[p] = "open" /\ renewal' = [renewal EXCEPT ![p] = "review"]
       \/ renewal[p] = "review" /\ renewal' = [renewal EXCEPT ![p] = "open"]
    /\ UNCHANGED <<present, wsKey, rotation, old, deletion, target, worker, rotator, deleter>>

-----------------------------------------------------------------------------
(* Key rotation.                                                            *)

\* The request reads the Workspace; no rotation is open.
PrepareRotation(o) ==
    /\ present /\ rotator[o] = None /\ rotation[o] = "none"
    /\ \A other \in Rotations : ~workspaceKeyRotationBlocksDelete(other)
    /\ rotator' = [rotator EXCEPT ![o] = wsKey]
    /\ UNCHANGED <<rows, worker, deleter>>

\* Mutant of RotationHolds: the key is not looked at again.
RotationHoldsRows(o) ==
    /\ present /\ \A other \in Rotations : ~workspaceKeyRotationBlocksDelete(other)
    /\ ~workspaceDeleteBlocksRotation

\* The claim's transaction finds the key it was prepared for and nothing in its way.
RotationHolds(o) ==
    /\ present /\ wsKey = rotator[o]
    /\ \A other \in Rotations : ~workspaceKeyRotationBlocksDelete(other)
    /\ ~workspaceDeleteBlocksRotation

ClaimWorkspaceKeyRotation(o) ==
    /\ rotator[o] # None
    /\ \/ /\ RotationHolds(o) /\ rotation[o] = "none"
          /\ rotation' = [rotation EXCEPT ![o] = "open"]
          /\ old' = [old EXCEPT ![o] = rotator[o]]
       \/ ~(RotationHolds(o) /\ rotation[o] = "none") /\ UNCHANGED <<rotation, old>>
    /\ rotator' = [rotator EXCEPT ![o] = None]
    /\ UNCHANGED <<present, wsKey, renewal, deletion, target, worker, deleter>>

\* CompareAndSwapWorkspaceAPIKey.
CommitKey(o) ==
    /\ rotation[o] = "open" /\ present /\ wsKey = old[o]
    /\ wsKey' = o
    /\ UNCHANGED <<present, renewal, rotation, old, deletion, target, worker, rotator, deleter>>

\* Mutant of RotationEnds: the key of the Workspace is not compared.
RotationEndsUncommitted(o) ==
    /\ rotation[o] = "open" /\ present
    /\ rotation' = [rotation EXCEPT ![o] = "done"]
    /\ UNCHANGED <<present, wsKey, renewal, old, deletion, target, worker, rotator, deleter>>

\* A rotation only succeeds with its key in the Workspace (workspaceKeyRotationConverged).
RotationEnds(o) ==
    /\ rotation[o] = "open" /\ present /\ wsKey = o
    /\ rotation' = [rotation EXCEPT ![o] = "done"]
    /\ UNCHANGED <<present, wsKey, renewal, old, deletion, target, worker, rotator, deleter>>

-----------------------------------------------------------------------------
(* Deletion.                                                                *)

\* The keys from k back to the launch key, along the rotations that created them.
Lineage(k) ==
    LET back[n \in Nat] == IF n = 0 THEN k
                           ELSE IF back[n - 1] \in Rotations THEN old[back[n - 1]]
                           ELSE back[n - 1]
    IN  {back[n] : n \in 0..Cardinality(Rotations)}

\* currentWorkspaceDeleteGatewayIdentity: the completed rotations lead from the key of the
\* Workspace back to the launch key, all of them.
IdentityConfirmed ==
    /\ \A o \in Rotations : rotation[o] # "open"
    /\ Lineage(wsKey) = {LaunchKey} \cup {o \in Rotations : rotation[o] = "done"}

PrepareDelete ==
    /\ present /\ deletion = "none" /\ deleter = None /\ IdentityConfirmed
    /\ deleter' = wsKey
    /\ UNCHANGED <<rows, worker, rotator>>

\* Mutant of DeleteHolds: the key the identity names is not compared.
DeleteHoldsAnyKey ==
    /\ present /\ deletion = "none"
    /\ \A p \in Periods : ~workspaceRenewalBlocksDelete(p)
    /\ \A o \in Rotations : ~workspaceKeyRotationBlocksDelete(o)

\* The transaction finds the key the identity names and nothing in its way.
DeleteHolds ==
    /\ present /\ deletion = "none" /\ wsKey = deleter
    /\ \A p \in Periods : ~workspaceRenewalBlocksDelete(p)
    /\ \A o \in Rotations : ~workspaceKeyRotationBlocksDelete(o)

\* ApplyWorkspaceDelete with Create.
CreateDelete ==
    /\ deleter # None
    /\ \/ DeleteHolds /\ deletion' = "open" /\ target' = deleter
       \/ ~DeleteHolds /\ UNCHANGED <<deletion, target>>
    /\ deleter' = None
    /\ UNCHANGED <<present, wsKey, renewal, rotation, old, worker, rotator>>

\* ApplyWorkspaceDelete with DeleteWorkspace: the row and its projections go together.
RemoveWorkspace ==
    /\ deletion = "open" /\ present /\ wsKey = target
    /\ present' = FALSE
    /\ UNCHANGED <<wsKey, renewal, rotation, old, deletion, target, worker, rotator, deleter>>

DeleteEnds ==
    /\ deletion = "open" /\ ~present
    /\ deletion' = "done"
    /\ UNCHANGED <<present, wsKey, renewal, rotation, old, target, worker, rotator, deleter>>

-----------------------------------------------------------------------------
Init ==
    /\ present = TRUE /\ wsKey = LaunchKey
    /\ renewal = [p \in Periods |-> "none"]
    /\ rotation = [o \in Rotations |-> "none"]
    /\ old = [o \in Rotations |-> None]
    /\ deletion = "none" /\ target = None
    /\ worker = [p \in Periods |-> None]
    /\ rotator = [o \in Rotations |-> None]
    /\ deleter = None

Next ==
    \/ \E p \in Periods : PrepareRenewal(p) \/ ClaimWorkspaceRenewal(p) \/ RenewalMoves(p)
    \/ \E o \in Rotations : \/ PrepareRotation(o) \/ ClaimWorkspaceKeyRotation(o)
                            \/ CommitKey(o) \/ RotationEnds(o)
    \/ PrepareDelete \/ CreateDelete \/ RemoveWorkspace \/ DeleteEnds

Spec == Init /\ [][Next]_vars

-----------------------------------------------------------------------------
(* Properties.                                                              *)

\* The variables keep their types.
TypeOK ==
    /\ present \in BOOLEAN /\ wsKey \in Keys
    /\ renewal \in [Periods -> {"none", "open", "review", "done"}]
    /\ rotation \in [Rotations -> {"none", "open", "done"}]
    /\ old \in [Rotations -> Keys \cup {None}]
    /\ deletion \in {"none", "open", "done"}
    /\ target \in Keys \cup {None}
    /\ rotator \in [Rotations -> Keys \cup {None}]
    /\ deleter \in Keys \cup {None}
    /\ (deletion = "none") = (target = None)

\* A deletion and a renewal or rotation are never under way together, however their
\* preparations interleave: no owner is called for one while the other is open.
DeletionIsAlone ==
    deletion # "none" =>
        /\ \A p \in Periods : ~workspaceRenewalBlocksDelete(p)
        /\ \A o \in Rotations : ~workspaceKeyRotationBlocksDelete(o)

\* A deletion is bound to the key the Workspace has for as long as it exists, so its last
\* write is accepted and no key is left behind.
DeletesTheKeyInUse == deletion # "none" => target = wsKey

\* An open rotation stands between the key of the Workspace and the one it replaces, so it can
\* be carried to its end whatever was claimed beside it.
RotationCanEnd == \A o \in Rotations : rotation[o] = "open" => wsKey \in {old[o], o}

\* A rotated Workspace can still be deleted: when no rotation is open the completed rotations
\* lead from the key of the Workspace back to the launch key.
AlwaysDeletable == (\A o \in Rotations : rotation[o] # "open") => IdentityConfirmed
=============================================================================
