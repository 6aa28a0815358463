---------------------------- MODULE WorkspaceDelete ----------------------------
(***************************************************************************)
(* The deletion of one Workspace: the durable operation workspace.delete.v2 *)
(* (workspace_delete.go) and the store that applies it                      *)
(* (ApplyWorkspaceDelete).                                                  *)
(*                                                                         *)
(* A deletion is driven by nothing but the owner's DELETE requests.  Each   *)
(* request loads the row and walks down the phases: it removes a resource   *)
(* at its owner, sees it gone, and writes the next phase, until it meets an *)
(* answer it cannot use.  It then parks the row in manual_review and the    *)
(* next request goes on from the same phase.                                *)
(*                                                                         *)
(* A request is cut at every read or call of an owner and at every write.   *)
(* lockResource("workspace-delete") is a lock of one process, so a process  *)
(* runs one request at a time; two processes stand for an old and a new     *)
(* Control Plane that overlap while one replaces the other.                 *)
(***************************************************************************)
EXTENDS Integers, FiniteSets

CONSTANTS
    Processes,    \* Control Plane processes alive at the same time
    Keys,         \* Idempotency-Keys the owner's requests carry
    None,         \* no authorization, and the absent row
    MaxReads,     \* workspaceDeleteComputeReadbackBudget (8 in the code)
    MaxClaims,    \* bound on the generations of the replay lease: the last does not run out
    MaxCrashes    \* bound on the crashes of a behaviour

ASSUME ConstantsAssumption ==
    /\ None \notin Keys
    /\ MaxReads \in Nat \ {0} /\ MaxClaims \in Nat \ {0} /\ MaxCrashes \in Nat

VARIABLES
    row,        \* the stored delete operation, or None
    workspace,  \* whether the Workspace projection exists
    left,       \* what still exists at the owners
    flight,     \* calls an owner has accepted and not finished
    receipt,    \* whether the Ledger holds workspace.deleted.v1
    due,        \* compute readbacks 1..due have their NotBefore behind them
    expired,    \* replay leases 1..expired have run out
    local,      \* the request each process is serving
    keyCalls,   \* key DELETE calls sent so far (history, saturates at 3)
    reads,      \* compute readbacks done so far (history)
    crashes

vars == <<row, workspace, left, flight, receipt, due, expired, local, keyCalls, reads, crashes>>
owners == <<left, flight, receipt>>
clock == <<due, expired>>

-----------------------------------------------------------------------------
(***************************************************************************)
(* The row.  The statuses of the resources follow from the phase            *)
(* (validWorkspaceDeleteState) and ComputeStatus is "destroying" exactly     *)
(* while reads > 0 in phase storage_absent, so neither is kept.  A lease is *)
(* named by its generation and NotBefore by its readback.                   *)
(***************************************************************************)
Phases == <<"claimed", "runtime_secret_absent", "attachment_absent", "storage_absent",
            "compute_absent", "key_absent", "workspace_absent", "deletion_receipt_recorded",
            "complete">>

Codes == {"runtime_readback", "runtime_conflict", "runtime_destroy", "runtime_absence",
          "attachment", "storage", "compute_destroy", "compute_absence",
          "key_readback", "key_delete", "key_absence"}

Rank(o) == CHOOSE i \in DOMAIN Phases : Phases[i] = o.phase

(* Rank of a phase by name, to compare with *)
RankOf(phase) == CHOOSE i \in DOMAIN Phases : Phases[i] = phase

NewOperation ==
    [phase |-> "claimed", status |-> "running", code |-> None, reads |-> 0,
     attempted |-> FALSE, auth |-> None, replay |-> "none", generation |-> 0]

ValidReplay(o) ==
    IF o.auth = None THEN o.replay = "none" /\ o.generation = 0
                     ELSE o.replay \in {"claimed", "dispatched", "consumed"} /\ o.generation > 0

ValidReadbacks(o) ==
    /\ o.reads \in 0..MaxReads
    /\ o.reads > 0 => Rank(o) >= RankOf("storage_absent")
    /\ Rank(o) >= RankOf("compute_absent") => o.reads > 0

ValidState(o) ==
    /\ ValidReplay(o) /\ ValidReadbacks(o)
    /\ CASE o.status = "running"       -> o.phase # "complete" /\ o.code = None
         [] o.status = "manual_review" -> o.phase # "complete" /\ o.code # None
         [] o.status = "succeeded"     -> o.phase = "complete" /\ o.code = None
    /\ o.attempted => Rank(o) >= RankOf("compute_absent")
    /\ o.auth # None => o.attempted
    /\ o.phase = "compute_absent" => o.replay # "consumed"
    /\ Rank(o) >= RankOf("key_absent") /\ o.auth # None => o.replay = "consumed"

ValidTransition(o, n) ==
    /\ o.phase # "complete"
    /\ Rank(n) \in Rank(o)..(Rank(o) + 1)
    /\ n.reads >= o.reads
    /\ o.attempted => n.attempted

\* Mutant: the next phase of a parked row: its error code is not cleared.
AdvancedCoded(o, phase) ==
    [o EXCEPT !.phase = phase, !.status = IF phase = "complete" THEN "succeeded" ELSE "running"]

(* The steps that are written: the next phase reached, or the row parked *)
Advanced(o, phase) ==
    [o EXCEPT !.phase = phase, !.status = IF phase = "complete" THEN "succeeded" ELSE "running",
              !.code = None]

Unconfirmed(o, code) == [o EXCEPT !.status = "manual_review", !.code = code]

consumeWorkspaceDeleteReplay(o) ==
    IF o.auth = None THEN o ELSE [o EXCEPT !.replay = "consumed"]

ComputeDestroying(o) == o.phase = "storage_absent" /\ o.reads > 0

-----------------------------------------------------------------------------
(***************************************************************************)
(* The owners (external): Fabric for everything but the key, Sub2API for    *)
(* the key, the Ledger for the receipt.  A call is accepted or lost; an     *)
(* accepted call removes its resources one by one, at any later time.       *)
(***************************************************************************)
Removes(call) == IF call = "runtime" THEN {"runtime", "secret", "residual"} ELSE {call}
Calls == {"runtime", "attachment", "storage", "compute", "key"}
Resources == UNION {Removes(c) : c \in Calls}

OwnerRemoves ==
    /\ \E c \in flight, x \in left :
        /\ x \in Removes(c)
        /\ left' = left \ {x}
        /\ flight' = IF Removes(c) \cap left' = {} THEN flight \ {c} ELSE flight
    /\ UNCHANGED <<row, workspace, receipt, clock, local, keyCalls, reads, crashes>>

Accepted(call) ==
    /\ flight' = IF Removes(call) \cap left = {} THEN flight ELSE flight \cup {call}
    /\ UNCHANGED left

Finished(call) ==
    /\ left' = left \ Removes(call)
    /\ flight' = flight \ {call}

Lost == UNCHANGED <<left, flight>>

(* The three answers of a Runtime observation together with the Gateway Secret's *)
RuntimeAbsent == {"runtime", "secret"} \cap left = {}
RuntimeReady == {"runtime", "secret"} \subseteq left
RuntimePartial == ~RuntimeAbsent /\ (~RuntimeReady \/ "runtime" \in flight)

-----------------------------------------------------------------------------
(***************************************************************************)
(* Requests                                                                 *)
(***************************************************************************)
Idle == [pc |-> "idle", key |-> None, copy |-> None, want |-> None, then |-> "idle"]

Init ==
    /\ row = None /\ workspace = TRUE
    /\ left = Resources /\ flight = {} /\ receipt = FALSE
    /\ due = 0 /\ expired = 0
    /\ local = [p \in Processes |-> Idle]
    /\ keyCalls = 0 /\ reads = 0 /\ crashes = 0

Goto(p, pc) == local' = [local EXCEPT ![p].pc = pc]
Return(p) == local' = [local EXCEPT ![p] = Idle]

(* persistWorkspaceDelete(copy, want) and what follows when it succeeds *)
Write(p, want, then) ==
    local' = [local EXCEPT ![p].pc = "write", ![p].want = want, ![p].then = then]

markWorkspaceDeleteUnconfirmed(p, code) == Write(p, Unconfirmed(local[p].copy, code), "idle")

(* The request p is at phase with nothing under way *)
At(p, phase) == local[p].pc = "run" /\ local[p].copy.phase = phase

(* deleteWorkspace up to the loaded or missing row *)
Request(p) == \E k \in Keys :
    /\ local[p].pc = "idle"
    /\ row # None \/ workspace
    /\ local' = [local EXCEPT ![p] =
        [Idle EXCEPT !.pc = IF row = None THEN "create" ELSE "run", !.key = k, !.copy = row]]
    /\ UNCHANGED <<row, workspace, owners, clock, keyCalls, reads, crashes>>

(* ApplyWorkspaceDelete with Create, or the row another request has created *)
Create(p) ==
    /\ local[p].pc = "create"
    /\ row' = IF row = None THEN NewOperation ELSE row
    /\ local' = [local EXCEPT ![p].pc = "run", ![p].copy = row']
    /\ UNCHANGED <<workspace, owners, clock, keyCalls, reads, crashes>>

(* ApplyWorkspaceDelete without Create: the compare-and-swap, the rules of  *)
(* the desired row, and the Workspace that goes with key_absent             *)
Holds(p) ==
    LET o == local[p].copy  n == local[p].want IN
    /\ row = o
    /\ ValidState(n) /\ ValidTransition(o, n)
    /\ workspace = (Rank(n) <= RankOf("key_absent") \/ o.phase = "key_absent")

Persist(p) ==
    /\ local[p].pc = "write" /\ Holds(p)
    /\ row' = local[p].want
    /\ workspace' = (workspace /\ row'.phase # "workspace_absent")
    /\ local' = [local EXCEPT ![p] = IF local[p].then = "idle" THEN Idle
        ELSE [Idle EXCEPT !.pc = local[p].then, !.key = local[p].key, !.copy = local[p].want]]
    /\ UNCHANGED <<owners, clock, keyCalls, reads, crashes>>

PersistRefused(p) ==
    /\ local[p].pc = "write" /\ ~Holds(p)
    /\ Return(p)
    /\ UNCHANGED <<row, workspace, owners, clock, keyCalls, reads, crashes>>

-----------------------------------------------------------------------------
(***************************************************************************)
(* claimed: Runtime and Gateway Secret                                      *)
(***************************************************************************)
RuntimeUnreadable(p) ==
    /\ At(p, "claimed")
    /\ markWorkspaceDeleteUnconfirmed(p, "runtime_readback")
    /\ UNCHANGED <<row, workspace, owners, clock, keyCalls, reads, crashes>>

RuntimeConflict(p) ==
    /\ At(p, "claimed") /\ RuntimePartial
    /\ markWorkspaceDeleteUnconfirmed(p, "runtime_conflict")
    /\ UNCHANGED <<row, workspace, owners, clock, keyCalls, reads, crashes>>

\* Mutant: phase claimed: only a running row goes on.
RuntimeGoneRunning(p) ==
    /\ At(p, "claimed") /\ RuntimeAbsent /\ local[p].copy.status = "running"
    /\ Write(p, Advanced(local[p].copy, "runtime_secret_absent"), "run")
    /\ UNCHANGED <<row, workspace, owners, clock, keyCalls, reads, crashes>>

RuntimeGone(p) ==
    /\ At(p, "claimed") /\ RuntimeAbsent
    /\ Write(p, Advanced(local[p].copy, "runtime_secret_absent"), "run")
    /\ UNCHANGED <<row, workspace, owners, clock, keyCalls, reads, crashes>>

RuntimeSeenReady(p) ==
    /\ At(p, "claimed") /\ RuntimeReady
    /\ Goto(p, "destroy_runtime")
    /\ UNCHANGED <<row, workspace, owners, clock, keyCalls, reads, crashes>>

DestroyRuntime(p) ==
    /\ local[p].pc = "destroy_runtime"
    /\ \/ Accepted("runtime") /\ Goto(p, "runtime_destroyed")
       \/ Accepted("runtime") /\ Goto(p, "runtime_unanswered")
       \/ Lost /\ Goto(p, "runtime_unanswered")
    /\ UNCHANGED <<row, workspace, receipt, clock, keyCalls, reads, crashes>>

(* The second observation, with the residuals *)
RuntimeReadback(p) ==
    /\ local[p].pc \in {"runtime_destroyed", "runtime_unanswered"}
    /\ \/ /\ Removes("runtime") \cap left = {}
          /\ Write(p, Advanced(local[p].copy, "runtime_secret_absent"), "run")
       \/ markWorkspaceDeleteUnconfirmed(p,
            IF local[p].pc = "runtime_destroyed" THEN "runtime_absence" ELSE "runtime_destroy")
    /\ UNCHANGED <<row, workspace, owners, clock, keyCalls, reads, crashes>>

-----------------------------------------------------------------------------
(***************************************************************************)
(* runtime_secret_absent and attachment_absent: a call whose answer is       *)
(* believed                                                                 *)
(***************************************************************************)
\* Mutant: removal: an accepted call counts as a finished one.
RemovalAssumed(p, phase, call, next) ==
    /\ At(p, phase)
    /\ \/ Accepted(call) /\ Write(p, Advanced(local[p].copy, next), "run")
       \/ Lost /\ markWorkspaceDeleteUnconfirmed(p, call)
    /\ UNCHANGED <<row, workspace, receipt, clock, keyCalls, reads, crashes>>

Removal(p, phase, call, next) ==
    /\ At(p, phase)
    /\ \/ Finished(call) /\ Write(p, Advanced(local[p].copy, next), "run")
       \/ Accepted(call) /\ markWorkspaceDeleteUnconfirmed(p, call)
       \/ Lost /\ markWorkspaceDeleteUnconfirmed(p, call)
    /\ UNCHANGED <<row, workspace, receipt, clock, keyCalls, reads, crashes>>

DetachStorage(p) == Removal(p, "runtime_secret_absent", "attachment", "attachment_absent")

\* Mutant: order: the storage before its attachment.
DestroyStorageAttached(p) == Removal(p, "runtime_secret_absent", "storage", "attachment_absent")

DestroyStorage(p) == Removal(p, "attachment_absent", "storage", "storage_absent")

-----------------------------------------------------------------------------
(***************************************************************************)
(* storage_absent: the compute, which takes its time                        *)
(***************************************************************************)
ClaimReadback(o) == [o EXCEPT !.reads = @ + 1]

DestroyCompute(p) ==
    /\ At(p, "storage_absent") /\ ~ComputeDestroying(local[p].copy)
    /\ \/ Accepted("compute") /\ Write(p, ClaimReadback(local[p].copy), "compute_read")
       \/ Accepted("compute") /\ markWorkspaceDeleteUnconfirmed(p, "compute_destroy")
       \/ Lost /\ markWorkspaceDeleteUnconfirmed(p, "compute_destroy")
    /\ UNCHANGED <<row, workspace, receipt, clock, keyCalls, reads, crashes>>

ReadbackTooEarly(p) ==
    /\ At(p, "storage_absent") /\ ComputeDestroying(local[p].copy)
    /\ local[p].copy.reads > due
    /\ Return(p)
    /\ UNCHANGED <<row, workspace, owners, clock, keyCalls, reads, crashes>>

ReadbackClaimed(p) ==
    /\ At(p, "storage_absent") /\ ComputeDestroying(local[p].copy)
    /\ local[p].copy.reads <= due
    /\ IF local[p].copy.reads >= MaxReads
       THEN markWorkspaceDeleteUnconfirmed(p, "compute_absence")
       ELSE Write(p, ClaimReadback(local[p].copy), "compute_read")
    /\ UNCHANGED <<row, workspace, owners, clock, keyCalls, reads, crashes>>

ComputeReadback(p) ==
    /\ local[p].pc = "compute_read"
    /\ reads' = reads + 1
    /\ \/ markWorkspaceDeleteUnconfirmed(p, "compute_absence")
       \/ /\ "compute" \in left
          /\ local[p].copy.reads < MaxReads
          /\ Return(p)
       \/ /\ "compute" \notin left
          /\ Write(p, Advanced(local[p].copy, "compute_absent"), "run")
    /\ UNCHANGED <<row, workspace, owners, clock, keyCalls, crashes>>

-----------------------------------------------------------------------------
(***************************************************************************)
(* compute_absent: the Workspace key at Sub2API                              *)
(***************************************************************************)
confirmWorkspaceDeleteKeyAbsent(p) ==
    Write(p, Advanced(consumeWorkspaceDeleteReplay(local[p].copy), "key_absent"), "run")

(* Any of the three reads of the key: before, again, and after the call *)
KeyGone(p) ==
    /\ At(p, "compute_absent") \/ local[p].pc \in {"key_again", "key_sent", "key_unanswered"}
    /\ "key" \notin left
    /\ confirmWorkspaceDeleteKeyAbsent(p)
    /\ UNCHANGED <<row, workspace, owners, clock, keyCalls, reads, crashes>>

KeyUnreadable(p) ==
    /\ At(p, "compute_absent") \/ local[p].pc = "key_again"
    /\ markWorkspaceDeleteUnconfirmed(p, "key_readback")
    /\ UNCHANGED <<row, workspace, owners, clock, keyCalls, reads, crashes>>

KeyReserved(p) ==
    /\ At(p, "compute_absent") /\ "key" \in left
    /\ ~local[p].copy.attempted
    /\ Write(p, [local[p].copy EXCEPT !.attempted = TRUE, !.status = "running", !.code = None],
             "key_again")
    /\ UNCHANGED <<row, workspace, owners, clock, keyCalls, reads, crashes>>

(* The guards of claimWorkspaceDeleteReplay *)
ReplayClaimable(o, k) ==
    /\ o.status = "running"
    /\ o.auth # None => o.auth = k /\ o.replay = "claimed" /\ o.generation <= expired

claimWorkspaceDeleteReplay(p) ==
    LET o == local[p].copy IN
    /\ At(p, "compute_absent") /\ "key" \in left /\ o.attempted
    /\ IF ReplayClaimable(o, local[p].key)
       THEN Write(p, [o EXCEPT !.auth = local[p].key, !.replay = "claimed",
                               !.generation = @ + 1], "key_again")
       ELSE Return(p)
    /\ UNCHANGED <<row, workspace, owners, clock, keyCalls, reads, crashes>>

\* Mutant: replay: sent without being marked dispatched.
KeySeenAgainUnmarked(p) ==
    /\ local[p].pc = "key_again" /\ "key" \in left
    /\ Goto(p, "key_delete")
    /\ UNCHANGED <<row, workspace, owners, clock, keyCalls, reads, crashes>>

(* The key is there when it is read again: a replay is marked dispatched first *)
KeySeenAgain(p) ==
    LET o == local[p].copy IN
    /\ local[p].pc = "key_again" /\ "key" \in left
    /\ IF o.auth = None THEN Goto(p, "key_delete")
                        ELSE Write(p, [o EXCEPT !.replay = "dispatched"], "key_delete")
    /\ UNCHANGED <<row, workspace, owners, clock, keyCalls, reads, crashes>>

DeleteKey(p) ==
    /\ local[p].pc = "key_delete"
    /\ keyCalls' = IF keyCalls < 3 THEN keyCalls + 1 ELSE keyCalls
    /\ \/ Accepted("key") /\ Goto(p, "key_sent")
       \/ Accepted("key") /\ Goto(p, "key_unanswered")
       \/ Lost /\ Goto(p, "key_unanswered")
    /\ UNCHANGED <<row, workspace, receipt, clock, reads, crashes>>

(* The last read fails or still finds the key *)
KeyUnconfirmed(p) ==
    /\ local[p].pc \in {"key_sent", "key_unanswered"}
    /\ markWorkspaceDeleteUnconfirmed(p,
        IF local[p].pc = "key_sent" THEN "key_absence" ELSE "key_delete")
    /\ UNCHANGED <<row, workspace, owners, clock, keyCalls, reads, crashes>>

-----------------------------------------------------------------------------
(***************************************************************************)
(* key_absent to complete                                                   *)
(***************************************************************************)
RemoveWorkspace(p) ==
    /\ At(p, "key_absent")
    /\ Write(p, Advanced(local[p].copy, "workspace_absent"), "run")
    /\ UNCHANGED <<row, workspace, owners, clock, keyCalls, reads, crashes>>

\* Mutant: the receipt before the Workspace is removed.
recordWorkspaceDeletionReceiptEarly(p) ==
    /\ At(p, "key_absent")
    /\ receipt' = TRUE
    /\ Write(p, Advanced(local[p].copy, "workspace_absent"), "run")
    /\ UNCHANGED <<row, workspace, left, flight, clock, keyCalls, reads, crashes>>

(* GetWorkspace, then the Ledger under a fixed idempotency key *)
recordWorkspaceDeletionReceipt(p) ==
    /\ At(p, "workspace_absent")
    /\ \/ /\ ~workspace /\ receipt' = TRUE
          /\ Write(p, Advanced(local[p].copy, "deletion_receipt_recorded"), "run")
       \/ ~workspace /\ receipt' = TRUE /\ Return(p)
       \/ UNCHANGED receipt /\ Return(p)
    /\ UNCHANGED <<row, workspace, left, flight, clock, keyCalls, reads, crashes>>

Complete(p) ==
    /\ At(p, "deletion_receipt_recorded")
    /\ Write(p, Advanced(local[p].copy, "complete"), "run")
    /\ UNCHANGED <<row, workspace, owners, clock, keyCalls, reads, crashes>>

Completed(p) ==
    /\ At(p, "complete")
    /\ Return(p)
    /\ UNCHANGED <<row, workspace, owners, clock, keyCalls, reads, crashes>>

-----------------------------------------------------------------------------
(***************************************************************************)
(* The clock and crashes                                                    *)
(***************************************************************************)
ReadbackDue ==
    /\ row # None /\ row.reads > due
    /\ due' = row.reads
    /\ UNCHANGED <<row, workspace, owners, expired, local, keyCalls, reads, crashes>>

LeaseExpires ==
    /\ row # None /\ row.generation > expired /\ row.generation < MaxClaims
    /\ expired' = row.generation
    /\ UNCHANGED <<row, workspace, owners, due, local, keyCalls, reads, crashes>>

Crash(p) ==
    /\ local[p].pc # "idle" /\ crashes < MaxCrashes
    /\ crashes' = crashes + 1
    /\ Return(p)
    /\ UNCHANGED <<row, workspace, owners, clock, keyCalls, reads>>

(* The steps of a request once it has been received *)
Continues(p) ==
    \/ Create(p) \/ Persist(p) \/ PersistRefused(p)
    \/ RuntimeUnreadable(p) \/ RuntimeConflict(p) \/ RuntimeGone(p) \/ RuntimeSeenReady(p)
    \/ DestroyRuntime(p) \/ RuntimeReadback(p)
    \/ DetachStorage(p) \/ DestroyStorage(p)
    \/ DestroyCompute(p) \/ ReadbackTooEarly(p) \/ ReadbackClaimed(p) \/ ComputeReadback(p)
    \/ KeyGone(p) \/ KeyUnreadable(p) \/ KeyReserved(p) \/ claimWorkspaceDeleteReplay(p)
    \/ KeySeenAgain(p) \/ DeleteKey(p) \/ KeyUnconfirmed(p)
    \/ RemoveWorkspace(p) \/ recordWorkspaceDeletionReceipt(p) \/ Complete(p) \/ Completed(p)

Next ==
    \/ \E p \in Processes : Request(p) \/ Continues(p) \/ Crash(p)
    \/ OwnerRemoves \/ ReadbackDue \/ LeaseExpires

Spec == Init /\ [][Next]_vars

(***************************************************************************)
(* Fairness.  A process that runs goes on; the owner of the Workspace asks  *)
(* again under every key; time passes; an owner finishes what it accepted   *)
(* and, asked again and again, answers at some time.                        *)
(***************************************************************************)
Usable(p) ==
    /\ local'[p].pc \notin {"idle", "runtime_unanswered", "key_unanswered"}
    /\ local'[p].pc = "write" => local'[p].then # "idle"

(* A row stays in one phase until the next, so one condition serves the   *)
(* first step of every phase, and one the second                          *)
FirstStep(p) ==
    \/ RuntimeGone(p) \/ RuntimeSeenReady(p) \/ DetachStorage(p) \/ DestroyStorage(p)
    \/ DestroyCompute(p) \/ KeyGone(p) \/ KeyReserved(p) \/ recordWorkspaceDeletionReceipt(p)

SecondStep(p) == DestroyRuntime(p) \/ ComputeReadback(p) \/ KeySeenAgain(p)

Fairness ==
    /\ WF_vars(OwnerRemoves) /\ WF_vars(ReadbackDue) /\ WF_vars(LeaseExpires)
    /\ \A p \in Processes :
        /\ WF_vars(Continues(p))
        /\ SF_vars(Request(p))
        /\ SF_vars(FirstStep(p) /\ Usable(p))
        /\ SF_vars(SecondStep(p) /\ Usable(p))
        /\ SF_vars(RuntimeReadback(p) /\ Usable(p))

FairSpec == Spec /\ Fairness

-----------------------------------------------------------------------------
(***************************************************************************)
(* Properties                                                               *)
(***************************************************************************)
Rows ==
    [phase: {Phases[i] : i \in DOMAIN Phases}, status: {"running", "manual_review", "succeeded"},
     code: Codes \cup {None}, reads: 0..MaxReads, attempted: BOOLEAN, auth: Keys \cup {None},
     replay: {"none", "claimed", "dispatched", "consumed"}, generation: 0..MaxClaims]

(* The absent row is no row, and no error code *)
ASSUME NoRowAssumption == None \notin Rows /\ None \notin Codes

Places == {"idle", "create", "run", "write", "destroy_runtime", "runtime_destroyed",
           "runtime_unanswered", "compute_read", "key_again", "key_delete", "key_sent",
           "key_unanswered"}

(* Every variable keeps its type, and the stored row is always one that      *)
(* decodeWorkspaceDeleteOperation accepts: a row it refuses could never be    *)
(* loaded again.                                                             *)
TypeOK ==
    /\ row \in Rows \cup {None}
    /\ row # None => ValidState(row)
    /\ workspace \in BOOLEAN /\ receipt \in BOOLEAN
    /\ left \subseteq Resources /\ flight \subseteq Calls
    /\ due \in 0..MaxReads /\ expired \in 0..MaxClaims
    /\ local \in [Processes -> [pc: Places, key: Keys \cup {None}, copy: Rows \cup {None},
                                want: Rows \cup {None}, then: Places]]
    /\ keyCalls \in 0..3 /\ reads \in Nat /\ crashes \in 0..MaxCrashes

Reached(phase) == row # None /\ Rank(row) >= RankOf(phase)

(* The store takes every row a request computes from a copy that is still the *)
(* stored one: whatever was parked, read back or replayed before, the checks   *)
(* of ApplyWorkspaceDelete refuse only a copy that is out of date.  A row they *)
(* refuse would be computed again by every later request, after the call to    *)
(* the owner, and the deletion would never leave its phase.                    *)
WritesFit ==
    \A p \in Processes : local[p].pc = "write" /\ row = local[p].copy => Holds(p)

(* What the row calls absent is gone at its owner, whatever answers were lost *)
(* or late and whichever request wrote the row (runWorkspaceDelete).          *)
AbsenceIsReal ==
    /\ Reached("runtime_secret_absent") => RuntimeAbsent
    /\ Reached("attachment_absent") => "attachment" \notin left
    /\ Reached("storage_absent") => "storage" \notin left
    /\ Reached("compute_absent") => "compute" \notin left
    /\ Reached("key_absent") => "key" \notin left
    /\ Reached("workspace_absent") <=> ~workspace

RemovalOrder == <<"runtime", "attachment", "storage", "compute", "key">>

(* No owner is asked to remove a resource, and none disappears, while one     *)
(* that comes before it in the chain is still there: a stale request must not *)
(* run ahead of the row.                                                     *)
RemovedInOrder ==
    \A i, j \in DOMAIN RemovalOrder :
        /\ i < j
        /\ RemovalOrder[j] \in flight \/ RemovalOrder[j] \notin left
        => RemovalOrder[i] \notin left

(* What is limited is paid for in the row first, over all requests, processes *)
(* and crashes: a key DELETE is sent under a stored reservation, one for the  *)
(* first call and one for a replay marked dispatched                          *)
(* (markWorkspaceDeleteReplayDispatch), and the compute is read back at most  *)
(* as often as readbacks were claimed, within the budget.                     *)
CallsReserved ==
    /\ keyCalls > 0 => row.attempted
    /\ keyCalls > 1 => row.replay \in {"dispatched", "consumed"}
    /\ keyCalls < 3
    /\ reads > 0 => reads <= row.reads /\ row.reads <= MaxReads

(* workspace.deleted.v1 says that the Runtime, Secret, attachment, storage,    *)
(* compute, key and Workspace are absent; it exists only when they are.       *)
ReceiptIsTrue == receipt => ~workspace /\ left \subseteq {"residual"}

(* The outcome of the key DELETE is not known, and the row may not ask again *)
KeyUncertain ==
    /\ row.phase = "compute_absent" /\ row.attempted
    /\ row.status = "manual_review" \/ row.replay # "none"

(* While its owner keeps asking, a deletion completes unless its compute       *)
(* readbacks are spent or the outcome of its key DELETE is uncertain.         *)
DeletionSettles ==
    (row # None) ~> (row # None /\ (\/ row.phase = "complete"
                                    \/ row.phase = "storage_absent" /\ row.reads = MaxReads
                                    \/ KeyUncertain))
=============================================================================
