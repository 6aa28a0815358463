------------------------ MODULE WorkspaceOperationsProofs ------------------------
(***************************************************************************)
(* The claims of renewal, rotation and deletion keep the three apart, for   *)
(* any number of periods and rotations.                                     *)
(***************************************************************************)
EXTENDS WorkspaceOperations, TLAPS

\* A deletion only ends with the Workspace gone, so no claim can follow it.
EndedIsGone == deletion = "done" => ~present

\* One rotation at a time.
OneRotation ==
    \A o1, o2 \in Rotations : rotation[o1] = "open" /\ rotation[o2] = "open" => o1 = o2

\* The inductive invariant.
IInv ==
    /\ TypeOK /\ DeletionIsAlone /\ DeletesTheKeyInUse /\ EndedIsGone
    /\ OneRotation /\ RotationCanEnd

\* Nothing is claimed at the start.
LEMMA InitEstablishes == Init => IInv
  BY KeysAssumption DEF Init, IInv, TypeOK, Keys, DeletionIsAlone, DeletesTheKeyInUse, EndedIsGone,
         OneRotation, RotationCanEnd

\* A renewal claim, prepared from whatever rows, is only accepted without a deletion.
LEMMA RenewalSteps ==
  ASSUME IInv, NEW p \in Periods,
         PrepareRenewal(p) \/ ClaimWorkspaceRenewal(p) \/ RenewalMoves(p)
  PROVE  IInv'
  <1> USE DEF IInv, TypeOK, Keys, DeletionIsAlone, DeletesTheKeyInUse, EndedIsGone,
              OneRotation, RotationCanEnd,
              workspaceRenewalBlocksDelete, workspaceKeyRotationBlocksDelete
  <1>1. CASE PrepareRenewal(p)
    BY <1>1 DEF PrepareRenewal, rows
  <1>2. CASE ClaimWorkspaceRenewal(p)
    BY <1>2 DEF ClaimWorkspaceRenewal, RenewalHolds, workspaceDeleteBlocksRenewal
  <1>3. CASE RenewalMoves(p)
    BY <1>3 DEF RenewalMoves
  <1> QED BY <1>1, <1>2, <1>3

\* A rotation claim needs a deletion that is not open, and an ended one has no Workspace left
\* to claim for; the key of a Workspace under deletion does not move.
LEMMA RotationSteps ==
  ASSUME IInv, NEW o \in Rotations,
         PrepareRotation(o) \/ ClaimWorkspaceKeyRotation(o) \/ CommitKey(o) \/ RotationEnds(o)
  PROVE  IInv'
  <1> USE DEF IInv, TypeOK, Keys, DeletionIsAlone, DeletesTheKeyInUse, EndedIsGone,
              OneRotation, RotationCanEnd,
              workspaceRenewalBlocksDelete, workspaceKeyRotationBlocksDelete
  <1>1. CASE PrepareRotation(o)
    BY <1>1 DEF PrepareRotation, rows
  <1>2. CASE ClaimWorkspaceKeyRotation(o)
    BY <1>2 DEF ClaimWorkspaceKeyRotation, RotationHolds, workspaceDeleteBlocksRotation
  <1>3. CASE CommitKey(o)
    BY <1>3 DEF CommitKey
  <1>4. CASE RotationEnds(o)
    BY <1>4 DEF RotationEnds
  <1> QED BY <1>1, <1>2, <1>3, <1>4

\* A deletion is created bound to the key of the Workspace with nothing else under way.
LEMMA DeletionSteps ==
  ASSUME IInv, PrepareDelete \/ CreateDelete \/ RemoveWorkspace \/ DeleteEnds
  PROVE  IInv'
  <1> USE DEF IInv, TypeOK, Keys, DeletionIsAlone, DeletesTheKeyInUse, EndedIsGone,
              OneRotation, RotationCanEnd,
              workspaceRenewalBlocksDelete, workspaceKeyRotationBlocksDelete
  <1>1. CASE PrepareDelete
    BY <1>1 DEF PrepareDelete, rows
  <1>2. CASE CreateDelete
    BY <1>2, KeysAssumption DEF CreateDelete, DeleteHolds
  <1>3. CASE RemoveWorkspace
    BY <1>3 DEF RemoveWorkspace
  <1>4. CASE DeleteEnds
    BY <1>4 DEF DeleteEnds
  <1> QED BY <1>1, <1>2, <1>3, <1>4

\* The inductive invariant of the claims of renewal, rotation and deletion.
THEOREM ClaimsInvariant == Spec => []IInv
  <1>1. IInv /\ [Next]_vars => IInv'
    <2> SUFFICES ASSUME IInv, [Next]_vars PROVE IInv'
      OBVIOUS
    <2>1. CASE Next
      BY <2>1, RenewalSteps, RotationSteps, DeletionSteps DEF Next
    <2>2. CASE UNCHANGED vars
      BY <2>2 DEF vars, IInv, TypeOK, DeletionIsAlone, DeletesTheKeyInUse, EndedIsGone,
              OneRotation, RotationCanEnd,
                  workspaceRenewalBlocksDelete, workspaceKeyRotationBlocksDelete
    <2> QED BY <2>1, <2>2
  <1> QED BY InitEstablishes, <1>1, PTL DEF Spec

\* However the preparations of the three interleave, a Workspace under deletion has no renewal
\* and no rotation under way (ClaimWorkspaceRenewal, ClaimWorkspaceKeyRotation and
\* ApplyWorkspaceDelete check each other's rows under the lock of the Workspace row).
THEOREM DeletionIsAloneTheorem == Spec => []DeletionIsAlone
  <1>1. IInv => DeletionIsAlone
    BY DEF IInv
  <1> QED BY ClaimsInvariant, <1>1, PTL

\* The key a deletion removes is the one the Workspace uses until its row is gone.
THEOREM DeletesTheKeyInUseTheorem == Spec => []DeletesTheKeyInUse
  <1>1. IInv => DeletesTheKeyInUse
    BY DEF IInv
  <1> QED BY ClaimsInvariant, <1>1, PTL

\* A rotation that is claimed can always be carried to its end: the key it replaces, or its own,
\* stays the key of the Workspace while it is open (CompareAndSwapWorkspaceAPIKey succeeds).
THEOREM RotationCanEndTheorem == Spec => []RotationCanEnd
  <1>1. IInv => RotationCanEnd
    BY DEF IInv
  <1> QED BY ClaimsInvariant, <1>1, PTL
=============================================================================
