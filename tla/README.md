# OPL Cloud: a TLA+ model of its durable operations

OPL Cloud sells hosted Workspaces.  Three Go services, each the only writer of
its own PostgreSQL schema, keep the money, the machines and the evidence
consistent: the **Control Plane** runs the durable operations, **Fabric** talks
to Docker or Tencent Cloud, the **Ledger** keeps receipts.  Balances, keys and
usage live in a fourth system, **Sub2API**.  Nothing spans two of them in one
transaction, so every operation is a row that is moved on, one external call at
a time, by passes that may race, die, or hear nothing back.

This directory models those operations: the Workspace **Launch**, the **renewal**
of its month, its **deletion**, the **rotation** of its Gateway key with the budget
update beside it, the **claims** by which these keep out of each other's way, and,
inside Fabric, the **storage stage** of a launch.  All are model-checked, and
about each of them theorems are proved that hold for every size of the instance.

## 1. Inventory

Paths are below `services/control-plane/internal/server` unless they say otherwise.

| Component | State it keeps | Operations | What makes it correct |
|---|---|---|---|
| Launch reconciler (`workspace_launch_reconciler.go`, `..._service.go`) | one `RuntimeOperation` row per launch: stage cursor, attempts, observations, authorizations, replay and read claims | `Create`, `Reconcile`, `Resume` | stages take effect in order and once; a call is never made without a stored reservation; nothing is confirmed that the owner has not done; a launch settles |
| Stage adapters (`..._account_stages.go`, `..._fabric_stages.go`, `..._activation.go`) | none | `ReadStage`, `MutateStage`, `CanMutateStage`, `CanReplayStage` | a read tells absent, pending, ready and unknown apart |
| Runtime repair (`workspace_launch_repair.go`) | `RuntimeRepair` in the launch row | repair, activation tail | the Runtime of a launch that went on is not removed; a repair that happened is recorded |
| Launch worker and routes (`workspace_launch_worker.go`, `routes_workspace_launch.go`, `routes_admin.go`) | process-local locks | ten-second listing, customer submit and resume, operator resume and repair | every pending launch is driven |
| Operation store (`ent_state_store_workspace.go`) | the rows | compare-and-swap writes, claims | a stale pass never overwrites |
| Launch admission (`workspace_launch_admission.go`, `workspace_launch.go`) | quote, claim, pilot limit | create, admission | the in-flight limit holds; one operation per idempotency key |
| Canonical fact repair, disposable reset | the launch row | operator commands | only a parked launch is touched |
| Renewal (`workspace_renewal.go`, `renewal_worker.go`) | renewal row with lease, workspace period | claim, preflight, debit, provider renewal, refund, entitlement, receipts, expiry, review | a period is paid once; paid means entitled or refunded |
| Deletion (`workspace_delete.go`) | delete row, phase, replay authorization | destroy Runtime, attachment, storage, compute, key; receipt | phases in order, nothing destroyed twice or left over |
| Key rotation, access (`workspace_gateway.go`) | rotation row | disable, drain, replace, rebind, delete old key | one usable key; the budget moves once |
| Wallet adjustment (`wallet_adjustment.go`) | adjustment row | before balance, adjustment, readback, ledger, audit, recovery | an adjustment is applied at most once |
| Fabric operation store (`services/fabric/internal/fabric/operation_store.go`) | operations, machine ownership, pool head lease | claim, reclaim, pool head, save | first in first out per pool; one owner per machine |
| Fabric stages and providers (`workspace_launch_stage.go`, `provider_mutation.go`, ...) | operation per stage key | ensure, read | one effect per key |
| Fabric jobs (`jobs.go`) | job transitions | create, claim, heartbeat, complete, fail, retry, cancel | only the lease holder ends a job |
| Ledger (`services/ledger/internal/ledger`) | receipts, evidence index, reconciliation reports | idempotent append, retention, privacy deletion | one receipt per key |
| Identity, projections, pricing, clients, migration, Console | read models, sessions | | not concurrent protocols |

**How they interact.**  The Console calls the Control Plane.  The Control Plane
calls Sub2API, Fabric and Ledger over HTTP and repeats a call only under the same
idempotency key; any call may be lost, take effect late, or succeed with its
answer lost.  Within the Control Plane, `lockResource` is a lock of one process:
the worker and the customer's requests hold `workspace-launch:<account>`, a
Runtime repair holds `workspace-launch-repair:<operation>`, an operator's Resume
holds neither.  What really separates two passes is the compare-and-swap of
`persist`: a write succeeds only against the result the pass has loaded.

**What is hard.**  Passes that load the same row and both call an owner; a
process that dies between the reservation, the call and the report; leases and a
deadline that run out under a live pass; replays authorized while the first call
is still under way; rows that a pass computes and the decoder then refuses, so
that the launch is stuck; an operator's repair racing another's Resume; a charge
that may or may not have happened; the paid period ending while its renewal is
settling; usage of a key while it is being replaced; claims prepared outside the
transaction that makes them; provider calls that take effect after their request
has failed.
`PROJECT.json` lists these hazards at their lines.

## 2. Modules

| Module | Models | Uses |
|---|---|---|
| `LaunchOperation` | the launch row, the pure functions the reconciler applies to it, the rules of `decodeWorkspaceLaunchReconcileOperation`, the budgets an operator may ask for | |
| `WorkspaceLaunchReconciler` | the reconciler and all its drivers as a state machine; the properties; the refinement mapping | `LaunchOperation`, instance of `LaunchPromise` |
| `LaunchPromise` | the abstract specification of a billed launch | |
| `LaunchSafety`, `LaunchAuthorityProofs` | the theorems about the launch and its refinement | `WorkspaceLaunchReconciler`, TLAPS |
| `LaunchPromiseProofs` | the theorem about the abstract launch | `LaunchPromise`, TLAPS |
| `WorkspaceRenewal` | renewal, expiry, review and the auto-renew switch of one Workspace | |
| `WorkspaceRenewalProofs` | the theorems about the renewal | `WorkspaceRenewal`, TLAPS |
| `WorkspaceDelete` | the typed deletion of one Workspace | |
| `WorkspaceDeleteProofs` | the theorems about the deletion | `WorkspaceDelete`, TLAPS |
| `WorkspaceKeyRotation` | rotation of the Gateway key and updates of its budget | |
| `WorkspaceKeyRotationProofs` | the theorems about the rotation | `WorkspaceKeyRotation`, TLAPS |
| `WorkspaceOperations` | the composition: what the claims of renewal, rotation and deletion check of each other's rows | |
| `WorkspaceOperationsProofs` | the theorems about the claims | `WorkspaceOperations`, TLAPS |
| `FabricLaunchStage` | Fabric's storage stage on Tencent Cloud: the stage row, the journal of provider mutations, replay epochs and leases | |
| `FabricLaunchStageProofs` | the theorems about the storage stage | `FabricLaunchStage`, TLAPS |
| `MCLaunch`, `MCRenewal`, `MCWorkspaceDelete`, `MCKeyRotation`, `MCOperations`, `MCFabricLaunchStage` | stage lists, key sets and symmetries for TLC | the module of that name |

`FabricLaunchStage` looks behind one of the owners that `WorkspaceLaunchReconciler`
takes as external: its `ReadyIsReal` is what the launch assumes when it believes a
ready answer, its `SucceededIsFinal` why that answer does not go away, and its
`ReadbackConverges` why reading again is enough.

In every module a handler is cut wherever another actor can act: at a load, at a
call or read of an owner, at a write.  Everything the code does between two such
points is one action.  An operator whose name adds a fault to that of its
neighbour (marked "Mutant" or "Slip") is not part of the model: it is the mutated
form that shows a property can fail.

### 2.1 The launch

**State.**

* `op` is the stored row.  Facts (price, ids, images) are left out: no decision
  of the reconciler depends on their value beyond "accepted or refused"
  (`FactsRefused`, `FreshReadRefused`).  `Confirmed` and `Unknown` of an attempt
  are set together with its status and are not kept.  Of the continuation read
  claims of a stage the last is kept; earlier ones are closed.
* `world[i]` is what the owner of stage `i` has done: nothing (`absent`), accepted
  a call that has not taken effect (`inflight`), `provisioning`, waiting for its
  machine to be claimed (`ownership`, compute only), `ready`.  It is external.
* `local[p]` is the handler of actor `p`: where it is, its working copy of the
  row, whether the stored result is still the one it loaded (`held`), what
  follows a successful write, and the authorization an operator brought.  Each
  write raises `Version`, so a stored result never comes back and one bit per
  actor is an exact compare-and-swap.
* Leases and the deadline are `none`, `live` or `expired`, the three results of
  comparing them with the clock; `LeaseExpires` and `DeadlineExpires` age the
  stored row and every copy alike.
* `sent`, `gets`, `repairs` are histories for the properties: first dispatches
  per stage (saturating at 2), the authorizations replays ran under, reads under
  a fresh continuation, and whether a repair call left.

**Actions.**

| Code | Actions |
|---|---|
| `runWorkspaceLaunchesOnce`, submit and resume routes | `ListPending`, `CustomerContinues` |
| `Reconcile` up to the read | `Load`, `EntryReset`, `EntryReturn`, `EntryRead`, `EntryPutAside` |
| `Reconcile` after the read | `ReconcileReady`, `ReconcileUnreadable`, `ReconcileUnknown`, `ReconcilePending`, `ReconcileOwnershipPending`, `ReconcileAbsentParks`, `MutateUnavailable`, `ReconcileReserve` |
| `replayReservedStage`, `claimIdempotentReplay`, `convergeClaimedReplay` | `ReplayNotDispatched`, `ReplayClaimed`, `ReplayReadReady`, `ReplayReadPending`, `ReplayReadUnknown`, `ReplayReadRepeats` |
| `mutateReservedStage` | `Mutate`, `MutateRefused`, `PostReady`, `PostPending`, `PostUnknown`, `FactsRefused` |
| `continueFreshTypedPending` | `FreshHeld`, `FreshReplayTakenOver`, `FreshClaimRead`, `FreshReadReady`, `FreshReadRefused`, `FreshReadPending`, `FreshReadOwnershipPending`, `FreshReadFailed` |
| `convergeFreshComputeReplay` and its endings | `ConvergeReady`, `ConvergePending`, `ConvergeRepeats`, `ConvergeMutate`, `ConvergeWaits`, `ConvergeFails` |
| `Resume`, `recoverUnknownComputeStage`, `recoverUnknownRuntimeStage`, `authorizeExhaustedStage` | `Resume`, `ResumeAgain`, `ResumeConflict`, `ResumeCompute`, `ResumeRuntime`, `ResumeExhaustedReady`, `ResumeExhausted` |
| `repairWorkspaceLaunchRuntime` and its tail | `RepairBegins`, `RepairAgain`, `RepairCalls`, `RepairReady`, `RepairFailed` |
| `persist`, `PersistWorkspaceLaunchReconcile` | `PersistAccepted`, `PersistRejected` |
| owners, clock, crashes | `OwnerSteps`, `LeaseExpires`, `DeadlineExpires`, `Crash` |

A row that `Decodes` refuses is never stored: the store decodes the desired row
first, and so `PersistRejected` also stands for a row the reconciler should not
have computed.  Three entries of section 6 are of this kind.

### 2.2 Renewal (`WorkspaceRenewal`)

`ops[p]` is the `workspace.renewal` row of period `p`; `ws` the paid-through mark,
auto-renew switch and suspension of the Workspace; `wallet`, `charge`, `refund` what
Sub2API knows, `provider` what Fabric has renewed, `receipts` the Ledger.  `pass[a]`
is a pass of the hourly worker or of an operator's review, with the row it holds in
memory (`row`), the one it last stored or loaded, which a write is compared with (`base`,
the `PersistedResult`), and the one it is about to store (`want`).  The two differ after a
failed write of the expiry: `progressWorkspaceRenewalExpiry` changes the row of its caller
before it stores it, and when the load that follows fails too the pass goes on with a row
that was never stored (`Unstored`, `Reload`; `spent.unsaved` remembers the end of that paid period).
`runWorkspaceRenewal` works on a copy of the row, so there its caller falls back on
the row it had (`caller`).

| Code | Actions |
|---|---|
| `renewal_worker.go`, `runMonthlyBillingOnce`, `processWorkspaceRenewal` | `BeginPass`, `LoadToClaim`, `LoadToReturn` |
| `ClaimWorkspaceRenewal`, `PersistWorkspaceRenewal` | `Claim`, `ClaimConflict`, `Reload`, `Persist`, `PersistFails` |
| `runWorkspaceRenewal` | `RunClaimed`, `RunInsufficient`, `DebitFirst`, `DebitRecover`, `DebitConfirmed`, `ChargeSub2API`, `PostChargeBalance`, `RunDebited`, `RenewProvider`, `VerifyProvider`, `RunVerifying`, `RunToReceipt`, `RenewalReceipt`, `RunRefundPending`, `RefundFirst`, `RefundRecover`, `RefundReceipt`, `RunRefunded`, `RunSettled` |
| expiry | `ExpirySuspend`, `ExpiryFinancial`, `ExpiryReceipt`, `ExpiryReceiptNotDue`, `ExpiryReturns` |
| billing review | `ReviewRequest`, `ReviewVerify`, `ReviewRuns`, `ReviewResolved`, `ReviewComplete`, `ReviewFailed` |
| auto-renew switch | `AutoRenewRequest` |
| owners, clock, crashes | `LateRedeem`, `LateRenewal`, `WalletMoves`, `ResourceVanishes`, `Tick`, `LeaseRunsOut`, `Crash` |

Abstracted: error codes are not part of the compared row; a lease is named by the
worker that holds it; the identity evidence of a provider answer is right,
contradictory or missing; there is one review key; the 16 iterations of a pass are
never used up and not counted; `AutoRenewRequest` leaves out the replay of a stored command and
the answer to a switch that is already there, which change nothing.  Fabric's renewal
(`Renew`) takes effect once per period: its key and the deadline it starts from make
a repetition find the period renewed (`services/fabric/internal/fabric/compute_allocation.go:553-613`,
`services/opl-tencent-provisioner`).  Control Plane is one Pod
(`docs/implementation-architecture.md:637`), but nothing in the repository keeps an old Pod
from overlapping with its successor, so two workers are the old process and the new.

### 2.3 Deletion (`WorkspaceDelete`)

`row` is the delete operation, `left` what the owners still have, `flight` the calls
they have accepted; `local[p]` the request process `p` serves.  A deletion is driven
by nothing but the owner's DELETE requests; each walks down the phases until it
meets an answer it cannot use and parks the row.

| Code | Actions |
|---|---|
| route, `newWorkspaceDeleteOperation` | `Request`, `Create` |
| Runtime and Secret | `RuntimeUnreadable`, `RuntimeConflict`, `RuntimeGone`, `RuntimeSeenReady`, `DestroyRuntime`, `RuntimeReadback` |
| attachment, storage, compute | `DetachStorage`, `DestroyStorage`, `DestroyCompute`, `ReadbackTooEarly`, `ReadbackClaimed`, `ComputeReadback` |
| Gateway key | `KeyGone`, `KeyUnreadable`, `KeyReserved`, `claimWorkspaceDeleteReplay`, `KeySeenAgain`, `DeleteKey`, `KeyUnconfirmed`, `confirmWorkspaceDeleteKeyAbsent` |
| end | `RemoveWorkspace`, `recordWorkspaceDeletionReceipt`, `Complete`, `Completed` |
| `ApplyWorkspaceDelete` | `Persist`, `PersistRefused` |
| owners, clock, crashes | `OwnerRemoves`, `ReadbackDue`, `LeaseExpires`, `Crash` |

Abstracted: the statuses of the resources follow from the phase and are not kept;
`NotBefore` and the replay lease are named by readback and generation, and `due` and
`expired` say which lie behind; two reads the code makes one after the other are
merged, which is sound because resources only disappear.  A call is lost, answered,
or accepted and finished later.

### 2.4 Key rotation and budget (`WorkspaceKeyRotation`)

`row[o]` and `budget[b]` are the stored operations, `key[k]` the keys at Sub2API with
quota, usage and requests under way, `wsKey`, `secret`, `bound` and `mounted` the key the
Workspace row, the Gateway secret, the deployment and the running Runtime name.
`Request`, `Resume`, `Admit` and `Claim` start a pass; then there is one action per phase of
`runWorkspaceKeyRotation` (`ReplacementCheck` to `Complete`, in the order of the code);
`BudgetAdmit` to `BudgetReplay` are the budget update; `Use` and `Used` are the Runtime
spending its key; `Deliver` is a call that takes effect after its request gave up;
`Abort` ends a pass anywhere (a failed read, a client gone, a crash).  `RuntimeBind` patches the
deployment and `RuntimeBound` reads its specification; `mounted` follows the secret by
`Refresh`, in its own time, since nothing in the code waits for the rollout.

Late calls range over `LateCalls`, which in the run holds every call there is.  A budget update
that was closed by its readback may so take effect under a rotation; `disturbed` records the
ones that changed the key being replaced.

Abstracted: one process, since both locks are process-local, the operation is
driven by requests and `docs/implementation-architecture.md:637-641` keeps "additional replicas"
out of scope (`persistWorkspaceKeyRotation` saves without comparing, so Pods that overlap
are outside this model); the read and the call of one phase are merged; of a key's
policy only the quota is kept; Sub2API's create is idempotent per rotation; Fabric
keeps one secret per Workspace; the 18 iterations of a pass are never used up.

### 2.5 Claims beside each other (`WorkspaceOperations`)

Each claim is prepared outside the store (`PrepareRenewal`, `PrepareRotation`,
`PrepareDelete`) and made in one transaction (`ClaimWorkspaceRenewal`,
`ClaimWorkspaceKeyRotation`, `CreateDelete`) that compares what it still can.  What an operation does
afterwards is reduced to the writes the other two can see: `RenewalMoves`,
`CommitKey`, `RotationEnds`, `RemoveWorkspace`, `DeleteEnds`.

### 2.6 Fabric's storage stage (`FabricLaunchStage`)

`row` is the stage row, `child[m]` the row of the mutation `m` (the disk, its static
binding) with its replay epoch, `world[m]` what the provider has, `work[c]` the
request `c` with the copies it read earlier.  `StartEnsure`, `StartRead`, `ReadReady`, `ReadAbsent`,
`ReadEnds`, `ClaimRuntime`, `Finish`, `FinishUnavailable`, `FailStage` are the stage
(`workspace_launch_stage.go`); `Begin`, `Examine...`, `ClaimReplay`, `MarkReplayDispatch`,
`Dispatch...`, `CompleteSuccess`, `CompleteError` are the journal
(`provider_mutation.go`); `TakesEffect`, `BecomesReady`, `LeaseRunsOut` the provider and
the clock; `Abandon` a request that is cut off anywhere.

Abstracted: `StartedAt` is the number of the claim and `LeaseExpiresAt` the number of the
lease, times in the code that differ whenever these do; a read of the provider is
merged with the write that follows it, since resources only appear here;
`ClaimRuntime` is one step, without its second read of a row that has failed once
more in between; the provider does not create a disk or binding twice (discovery
first, the client token, `kubectl apply`); the stages before have succeeded; the
number of Ensure calls Control Plane may spend is not limited.

## 3. Runs

| Run | Instance | Shows |
|---|---|---|
| `charge` | debit, compute; billed; a worker, an operator, one authorization, one crash | charging and allocating: order, reservation, one first call, spent authorizations |
| `runtime` | runtime, receipt; billed; a worker, an operator, two authorizations, one crash | recoveries, replays and Runtime repair; refinement of `LaunchPromise` |
| `customer` | key, storage; no billing; a customer, an operator, one authorization, one crash | the reset of a parked stage, a row put aside, the delegated credential |
| `settles` | debit, compute, storage, activation, receipt; billed; a worker, two crashes | `PendingSettles` under fairness |
| `deadline` | compute; billed; a worker, an operator | the disagreement of section 6 |
| `renewal_race` | two workers, one period, one fault, one foreign wallet movement, one auto-renew request | a slow pass whose lease has run out, lost and late charges, cancellation |
| `renewal_settles` | a worker, a reviewer, two periods, two faults, one lost resource; fairness | entitlement, refund, expiry and receipts; every charge settles |
| `delete_chain` | two processes, two request keys, two readbacks, two lease generations, one crash | the chain of removals and its reservations |
| `delete_settles` | one process, three readbacks, two crashes; fairness | `DeletionSettles` |
| `rotation_carry` | two rotations, two budget updates of any kind, two uses, one late call of any kind | the key and the budget through interrupted rotations |
| `operations` | two renewals, three rotations, a deletion | the claims exclude each other |
| `fabric` | two requests, two claims, one replay lease in all, late calls for the disk; fairness | the stage row and the journal against what exists |

**Bounds.**  Of the launch, `MaxCrashes`, `MaxGrants` and the sets of actors are
bounds of the model; nothing else is cut off.  The reconciler treats all Fabric stages but
compute and runtime alike and looks only at the current stage and its
neighbours, so two stages show every interaction of a stage with the one before
it; the theorems below hold for any list.  The budgets (3 reads, 2 fresh reads,
60 for compute in the code) are 2, 1 and 2 so that a read before the last, the
last and the one too many all happen; `settles` uses 3, 2 and 3, the code's own for the ordinary
stages, so that a continuation of such a stage is stored and its reads are spent.  In
`customer` the fresh budget is 0: a continuation parks at its first pass, which brings the reset and
the operator's replay of the same stage together sooner; fresh reads are the matter of the
other runs.  A second
authorization (`runtime`) makes a rotation happen.  One crash is enough to lose a
pass at each of its points; with it, a takeover by the next pass follows.

Renewal: a fault is a crash, a lost or late call, a failed read or a failed write anywhere.
With one, two workers race on what it leaves (`renewal_race`); with two, a write of the expiry and the
load after it fail together (`renewal_settles`).  The first worker's lease may run out under it
at every point.  Two periods let the receipt or expiry of one month meet the next.
Prices are 1, and `StartBalance` lets the wallet suffice for the periods or, after a
foreign movement, not.  Deletion: `MaxReads` 2 (8 in the code) has a readback
before the last, the last and the one too many; a second lease generation is a
takeover of a replay, and the last generation does not run out.  Rotation: the
quota of 2 against two uses lets the key be unused, partly used and exhausted; the
second rotation starts from a replaced key.  Fabric: a second claim is an Ensure
after a failed one, the lease an Ensure that takes over a mutation another request
left open.  A second lease is beyond the run and within the theorems, which hold for
any number of them.

Symmetry (workers, processes, request keys, rotations, periods of `operations`) is used only in runs
without temporal properties.  Deadlock checking is off except in `fabric`: a
finished or parked operation stops; Fabric always accepts another read.

**Fairness.**  `settles`, `deadline`: a handler that runs goes on to its next step;
the worker lists every ten seconds, so its listing and, with requests holding the
lock only for one pass, its load happen; time passes; an owner finishes what it has
accepted.  An owner that is read again and again is assumed to answer at some time
(strong fairness of `OwnerAnswers`): the code has no bound on failing reads before
the first attempt, and against an owner that never answers a launch is meant to
wait.  `renewal_settles`: the hourly ticker starts passes, a pass goes on, time and
leases run out, an operator asks for the review that is open; late charges are
*not* assumed to take effect.  `delete_settles`: only the owner's requests drive a
deletion, so the owner is assumed to keep asking; time passes and owners
finish what they accepted, and asked over and over they give a usable answer at
some time.  `fabric`: reads of the stage recur, not every request hangs, and the provider does
not fail every read; nothing is assumed of Ensure.  Control Plane's read budget parks a
launch after a few reads and an operator resumes it, so that reads recur is an assumption about
Control Plane and its operators together.

## 4. Properties

Launch:

* `ReadyIsReal`: a stage the row calls ready is done at its owner, and so is every
  stage before the cursor.
* `StagesInOrder`: no owner is called before all earlier effects exist.
* `ReservedBeforeDispatch`: a call is preceded by a stored reservation that is never lost.
* `SingleFirstDispatch`: a stage of a billed launch is called for the first time once.
* `ReplayNeedsGrant`: a repeated call has a recorded authorization of exactly that
  stage; one per stage, two for compute.
* `FreshReadsWithinBudget`: reads under a continuation stay within its budget, crashes included.
* `PendingIsAuthorized`: a billed launch pending on a reserved stage that its owner calls
  pending always has an active continuation or an authorization with reads left.
  Without billing it may have neither: the reset of a stage whose operator replay
  has failed can leave such a row.  `Reconcile` puts it aside in manual review
  (`EntryPutAside`), still observed as pending, and the customer's own resume, which takes up
  only what is observed as unknown, does not reopen it.
* `ConfirmedIsFinal`, `GrantSpentOnce`, `ParkedNeedsOperator`: what no step may undo.
* `KeepsPromise`: the reconciler implements `LaunchPromise`; the mapping takes the
  cursor and status from the row, reservations from the attempts, calls and
  effects from the histories and the owners.
* `PendingSettles`: a pending launch ends or is handed to an operator.

Renewal:

* `RenewalIsPaid`: the provider renews only what is charged, money moves only under a
  stored attempt, and only a charge is refunded.
* `EntitledIsPaid`: a month is entitled only when charged, not refunded and renewed by the provider,
  although a worker and a review may run side by side.
* `UnpaidIsUncharged`: a renewal closed as unpaid has not touched the wallet, whatever a
  slow pass was about to do.
* `SuspendedIsExpired`: no stale expiry suspends a Workspace whose renewal went through.
* `ReceiptsAgree`: the receipts of a period tell one story, the one that happened; an expiry
  receipt stands for a suspended Workspace, except where a pass went on with an expiry
  it could neither store nor read back (section 6.1).
* `CancelledIsHonoured`: who was told that the renewal is cancelled is not charged.
* `OneOpenRenewal`: no month is opened while the one before is unsettled.
* `ChargeSettles`: a charge ends in entitlement, refund or review.
* `ExpiryTakesHold`: an unpaid period takes the Workspace down, with the same exception.

Deletion:

* `WritesFit`: the store takes every row computed from a copy that is still the stored one,
  whatever was parked, read back or replayed before.  One it refused would be computed
  again by every later request, and the deletion would be stuck.
* `AbsenceIsReal`, `RemovedInOrder`: what the row calls absent is gone; nothing is removed
  before what depends on it.
* `CallsReserved`: key DELETEs and compute readbacks are paid for in the row first.
* `ReceiptIsTrue`: the receipt exists only when what it says is so (of residual
  resources see section 6).
* `DeletionSettles`: with an owner who keeps asking, the deletion completes, or its
  readbacks are spent, or the outcome of the key DELETE is uncertain (which counts the
  moment in which a DELETE is claimed and not yet answered).

Rotation and budget:

* `OneSpendableKey`: two keys of a Workspace never take requests together, a key that a late
  *enable* of an earlier budget update switched on under the rotation excepted.
* `BudgetCarriedOver`: the replacement gets exactly what the old key had left when it was
  read, and the old key spends nothing of it afterwards, late budget updates that
  changed the old key under the rotation excepted.
* `KeyOutlivesUse`: the keys that the Workspace, the secret and the deployment name exist.
* `SucceededConverged`: after success these three agree on one key with the canonical
  name, and the receipt exists.

The exceptions are as narrow as the code allows: `disturbed` holds only calls that took
effect late, changed a key, and met a rotation of that very key that was open (section 6.1).

Claims:

* `DeletionIsAlone`, `DeletesTheKeyInUse`, `RotationCanEnd`: see section 5.
* `AlwaysDeletable`: the completed rotations lead from the key of the Workspace back to
  the launch key, which the admission of a deletion demands.

Fabric:

* `ReadyIsReal`: a succeeded row stands for ready resources.
* `BindingAfterDisk`: the binding is journaled only once the disk's row is succeeded.
* `FirstCallOnce`: one request at most calls without having read, and every call is in the journal.
* `SucceededIsFinal`: no slow request takes a success back.
* `ReadbackConverges`: once both resources are ready, reads alone bring the row there.

The remaining `TypeOK`s describe the state spaces; all are proved.

A Runtime that a repair is replacing counts as done (`Replacing`) between the
repair call and the row that records it: it was done when the row said so, and the
race behind it is the last entry of section 6.1.

## 5. Proofs

`LaunchSafety` proves, for every list of distinct stages, every set of actors and
every budget, from `StagesAssumption`, `BudgetAssumption` and
`ActorsAssumption`:

* `TypeCorrect`: `Spec => []TypeOK`
* `ReadyIsRealTheorem`: `Spec => []ReadyIsReal`
* `StagesInOrderTheorem`: `Spec => []StagesInOrder`
* `ReservedBeforeDispatchTheorem`: `Spec => []ReservedBeforeDispatch`

`LaunchPromiseProofs` proves `PrefixOfEffectsTheorem` for every number of stages:
the effects of a launch are a prefix of its stages, complete when it succeeded.

None of the four properties of `LaunchSafety` is inductive.  A working copy becomes the row when its write
succeeds, so the same must be known of every copy: `IInv` says of the row and of
every copy that what it calls ready is done and that its cursor stands just after
its ready stages (`RowInv`), that a pass between its read and its write is at an
unfinished stage (`PassInv`), and that a pass about to call an owner holds a copy
whose attempt is reserved *and* that the stored row has the reservation too
(`ReservationInv`).  Owners never lose an effect, with one exception, the Runtime
repair; `RepairInv` and `RepairPlaced` confine it: a repairer holds the repair
lock, its repair is not recorded, and once Fabric reports the new Runtime ready
it stays so until the row is written.  Three relations between a row and its
successor, `Keeps`, `Marks` and `Advances`, carry all the detail: every helper
of `LaunchOperation` is one of them by a lemma of its own, they compose, and a
step that writes a copy related to the old one by any of them preserves `IInv`
(`StayWorks`, `ConfirmWorks`).  `LaunchSafety` then has one short lemma per
action.  TLC checked `IInv` on the instances of `charge`, `runtime` and
`customer` before it was proved.

`LaunchAuthorityProofs` proves, from the same three assumptions, who may call an owner, read
it again or take a parked launch up:

* `SingleFirstDispatchTheorem`, `PendingIsAuthorizedTheorem`, `FreshReadsWithinBudgetTheorem`,
  `ReplayNeedsGrantTheorem`: the invariants of those names;
* `ConfirmedIsFinalTheorem`, `GrantSpentOnceTheorem`, `ParkedNeedsOperatorTheorem`: the action
  properties;
* `KeepsPromiseTheorem`: for a billed launch `Spec => KeepsPromise`, the refinement of
  `LaunchPromise`.  With `PrefixOfEffectsTheorem` the effects of a billed launch at its owners
  are a prefix of its stages whatever the reconciler's actors do.

All rest on a second inductive invariant, `JInv` (theorem `Authority`), on top of `IInv`.
Budgets and authorizations are spent on a copy of the row and count only once it is
stored, so three things must be known together:

* `Good`, of every row stored or worked on, beyond what the decoder checks: stages after the cursor are
  untouched, a reserved stage was attempted, a stage not yet attempted has no replay, a fresh
  continuation excludes operator replays, compute has at most two, an open
  authorization counts from readbacks that were made, and a pending row is authorized
  to be read;
* `Knows`, of a handler: what the guards it has passed say of its row at each point, so that a
  call is either the first of its stage or one under an open replay claim;
* `Write` and `Claims`, of a handler whose compare-and-swap would succeed: only the current stage
  changes, the authorizations stay, are joined by a new one or, by a repair alone, dropped,
  recorded replays stay recorded (`Tracked`), reads are not given back, and a first call or
  a fresh read was reserved by this very write.

Four parts tie this to what happened: one handler at most is about to make a first call
(`FirstAlone`), every replay made is `Tracked` (`ReplaysTracked`), reads made plus reads still
to be made by handlers that claimed one stay below the stored count (`ReadsCounted`), and an
owner that has done something was asked (`WorldAsked`).  As with `IInv`, one lemma
says what each helper of `LaunchOperation` writes, one per action that the invariant
holds after it.  `StepKinds` and `StoredRowSteps` then classify a step by what it does
to the stored row: nothing, a `Write`, or ageing (`Older`), which is all that the action
properties and the step simulation (`PromiseSteps`, `PromiseMapped`) look at.  TLC checked
the parts of `JInv` on small instances before they were proved, and it was the attempt to prove
`PendingIsAuthorized` that brought out the unbilled row of section 4.

`WorkspaceOperationsProofs` proves, for any number of periods and rotations, from
`KeysAssumption`: `DeletionIsAloneTheorem`, `DeletesTheKeyInUseTheorem`,
`RotationCanEndTheorem`.  The inductive invariant adds to the three properties and the types
that an ended deletion leaves no Workspace (`EndedIsGone`, so the rotation claim, which
only looks for an *open* deletion, cannot follow it) and that one rotation is open at a
time (`OneRotation`, without which one rotation's commit could move the key away from
another).  What a claim saw while it was prepared needs no invariant: the proof uses only what
its transaction compares.

`FabricLaunchStageProofs` proves, for any finite set of requests and any bounds, from
`ConstantsAssumption`: `TypeOKTheorem`, `ReadyIsRealTheorem`, `BindingAfterDiskTheorem`,
`FirstCallOnceTheorem`, `SucceededIsFinalTheorem`.  Requests write from copies that are
out of date, so the invariant also says what a request may rely on of the copy it holds
(`RequestHolds`): a child row it has read is in the journal, one it saw succeeded stays so,
a request at the binding has the disk behind it, one past its call has a resource that
exists.  These survive the steps of others because the shared state only `Grows`: rows
do not vanish, successes do not change, resources do not disappear.  `RequestStep` proves that once for any
step of one request, and each action is a use of it.

`WorkspaceRenewalProofs` proves, for any number of workers, reviewers, periods, faults
and foreign wallet movements, from `RenewalAssumption`: `TypeCorrect`, `RenewalsArePaid`
(`RenewalIsPaid`), `MonthsAreEntitled` (`EntitledIsPaid`), `UnpaidMonthsAreFree`
(`UnpaidIsUncharged`), `CancellationsHold` (`CancelledIsHonoured`).  Passes write rows computed
from older rows, and the store compares all of a row but its status column.  So `RInv`
says of every copy, stored, loaded or about to be stored, how its fields go together (`Good`)
and which deeds of the owners it rests on (`Backed`), of a row about to be written how
it follows from the one it is compared with (`Follows`: an attempt, a refund, an
entitlement, a month closed without a debit are not taken back), and of a pass what
its place promises (`PcHolds`).  Owners forget nothing (`OwnersStep`), so what is backed stays
so while others act.  The stored rows are tied to the Workspace by `ws.paid > p <=>
ops[p].entitled`, which is why entitlement and refund exclude each other, and to the answer
given to the customer by `ToldGood`.  `SaveStep`, `StoreStep` and `WorldStep` prove the
invariant for a pass that prepares a write, one that makes it, and the surroundings;
each action is a use of one of them.

The expiry has an invariant of its own, `XInv`, proved on top of `RInv`; from the two
follow `AccessEndsWithThePaidPeriod` (`SuspendedIsExpired`), `ReceiptsTellOneStory`
(`ReceiptsAgree`) and `RenewalsSettleInOrder` (`OneOpenRenewal`).  `SettledBefore` says that the months
before the last one begun are settled, `ExpiryIsAlone` that no month is begun while the
Workspace expires on an earlier one, `ExpiryShown` what a stored expiry means for the
Workspace row: suspended only under an expiry of its present paid-through mark, and
suspended, closed and without auto-renew once a month is closed unpaid.  That is
why an entitlement never lifts the mark of a suspended Workspace except by the patch that
also gives access back.  Of copies, `Dated` says that an expiry lies behind and which rows may carry
one, `Ages` what a write does to it together with its patch, `ClaimAges` what a claim was computed
from, `Remembered` what the stored row still says of a receipt a pass is about to record.
A pass may hold an expiry that was never stored: `Ahead` says how far its row can be in front of
the one it is compared with, and `Marked` that it goes on so only with a period in
`spent.unsaved`.  An `expired` receipt therefore rests on a stored operation that closes the
month (`Closing`) and has got to its receipt (`Lapsed`), when `ExpiryShown` has the Workspace
suspended, or on a marked period.

`WorkspaceDeleteProofs` proves, for any number of processes, request keys, readbacks, lease
generations and crashes, from `ConstantsAssumption` and `NoRowAssumption` (the mark for "no
row" is neither a row nor an error code): `TypeCorrect`, `WritesAreTaken` (`WritesFit`), `AbsenceHolds` (`AbsenceIsReal`), `OrderHolds`
(`RemovedInOrder`), `CallsAreReserved` (`CallsReserved`), `ReceiptHolds` (`ReceiptIsTrue`).
`RemovedInOrder` is inductive only together with what each request's copy says: a request acts on the phase
of its copy, not of the row.  Since resources only disappear, what a copy calls absent
(`Gone`) stays absent, and the place of a request fixes the phase of its copy (`PhaseOf`).
`WritesFit` needs of every request that the row it is about to write follows the copy it was
computed from as the store demands (`Fits`).
`CallsReserved` counts calls and so needs the requests that hold a reservation they have
not used: calls made plus requests that may still call are bounded by what the row has
reserved, and at most one request may send the first DELETE, at most one the replay.

`WorkspaceKeyRotationProofs` has two invariants, for any number of rotations, budget updates,
uses and late calls.  `SInv`, which holds whichever calls come late, says that at most one rotation is open and what its
phase, or the phase a pass is about to write, has put in place (`InPlace`): the
replacement exists, the secret, the deployment, the Workspace name it, the old key is
gone.  From it follow `TypeCorrect`, `KeysOutliveUse` (`KeyOutlivesUse`) and
`RotationConverges` (`SucceededConverged`).  `BInv` adds what the old key may still spend: off and
idle from the moment its budget was read, and no budget update open beside an open
rotation.  `SpendableKeyIsOne` (`OneSpendableKey`) and
`BudgetIsCarriedOver` (`BudgetCarriedOver`) follow from both.  They too hold whichever calls come
late: what `BInv` says of the old key it says unless `disturbed` names that key, which is the
exception the two properties make.

TLC checked each of these invariants on the instances of the runs before it was proved.

Only model-checked: `AlwaysDeletable`, which follows a chain of rotations by recursion; and all
liveness (`PendingSettles`, `ChargeSettles`, `ExpiryTakesHold`, `DeletionSettles`,
`ReadbackConverges`), which like `ENABLED` and induction over data is outside the prover's reach.

## 6. Where code and documents disagree

Run `deadline`, property `DeadlineParks`: a replay is claimed and the compute deadline
passes; `waitClaimedReplay` (`workspace_launch_reconciler.go:853`) computes a row with a
waiting claim of a consumed authorization, the decoder refuses it (lines 1476-1481), and each later pass
does the same, so the launch never parks.  `docs/architecture.md:405-406` says "exact budget/deadline
exhaustion enters `unknown/manual_review` without another unproven external mutation".

### 6.1 Disagreements met while modelling

These were found the same way, by stating the quoted sentence over the model, but
have no run of their own here.  The models contain the behaviour as the code has it.

Launch:

* `workspace_launch_repair.go:155`: the repair sets `ResumeAuthorization` to nil although a
  finished replay claim may name it; the decoder refuses the row
  (`workspace_launch_reconciler.go:1445-1465`), and the launch stays parked with its Runtime
  replaced.  `docs/architecture.md:385-386`: "READY readback returns the original Launch
  to Activation and its single Purchase Receipt".
* `workspace_launch_reconciler.go:1157`: a Runtime parked by a failed continuation read is found
  ready by an operator; the continuation becomes consumed while its read claim stays
  failed, which the decoder refuses (1547-1551).  `docs/implementation-architecture.md:325-330`:
  "consumed so its persisted state remains coherent".
* `workspace_launch_repair.go:117`: the repair call leaves first and `RuntimeRepair` is stored
  (line 158) once the new Runtime is ready.  `docs/implementation-architecture.md:338-339`:
  "binds the authenticated operator user and server timestamp into the persisted repair
  authorization before mutation".
* `workspace_launch_repair.go:85`: eligibility is checked under a lock that `Resume` does not
  take; a Resume between the check and the call may carry the launch into Activation
  before its Runtime is removed.  `docs/architecture.md:373-377`: the repair applies only to a launch that
  "has not attempted Activation or Receipt".

Renewal:

* `workspace_renewal.go:688`: a review that has verified storage moves its phase to entitlement;
  if the readback that follows fails once, the row is back in `manual_review` with that
  phase and every later review request is refused as not pending.
  `docs/invariants.md:67-68`: "Recovery continues the original operation and original
  resource identities."
* `workspace_renewal.go:484`: the expiry of an unpaid period suspends the Workspace; while its renewal has money to
  settle, the auto-renew switch stays as it was.  `docs/implementation-architecture.md:480-481`:
  "At unpaid expiry, access is denied and auto-renew is disabled".

* `workspace_renewal.go:515-519,534`: the expiry phase is changed in memory before it is stored.  When
  that write fails and so does the load after it (1194-1217), the pass goes on with the changed
  row, records the `expired` receipt and stores the phase as complete, and nothing has
  suspended the Workspace or will.  The same sentence, `docs/implementation-architecture.md:480-481`.
* `workspace_renewal.go:585`: the review that activates a charged month looks at the provider's
  resources and not at the refund.  That a refunded month is not entitled as well rests
  on the resource that was found absent not coming back.

Deletion:

* `workspace_delete.go:789`: a destruction that reports residual resources parks the row; the
  next request observes Runtime and Secret absent first and goes on.
  `docs/status.md:58-60`: "keeps Delete fail closed until the typed Runtime, Secret, and
  resource facts confirm absence".  `ReceiptIsTrue` therefore leaves `residual` out.
* `workspace_delete.go:992`: the reservation of the key DELETE is stored and the key read a second
  time; if that read fails the row is `manual_review`, the replay claim asks for a
  running row, and the DELETE that was never sent is never sent, while
  `workspace_delete_test.go:1257` replays the same unsent deletion after a crash.
  `DeletionSettles` therefore ends in `KeyUncertain`.

Rotation:

* `workspace_gateway.go:562`: usage between the claim and the disabling of the old key may
  exhaust its quota; nothing is left to carry, the rotation parks, and the budget
  update that would raise the quota is refused because a rotation is open.
  `source_truth_gateway_test.go:955-992` calls "a durable blocker" what an untransferable
  budget must not leave.

* `workspace_gateway_budget.go:115,282-292`: an *enable* whose answer was lost is closed by a readback
  that finds the key enabled by something else, and may still act after a rotation has disabled the key.
  Two keys then take requests.  The rotation parks when it finds the old one enabled, every
  resumption finds the same, and the budget update that would disable it is refused
  because a rotation is open.
* `workspace_gateway.go:658-684` and `tencent_provider_runtime.go:330-393`: binding patches the
  deployment and reads its specification; the old key is retired and deleted although the Runtime may
  still run with it, and its requests fail until the rollout is through.

Fabric (`services/fabric/internal/fabric`):

* `SaveRuntime` on a child row compares status and `StartedAt` only, so a stale request that fails overwrites
  another's replay epoch.  `docs/implementation-architecture.md:381-384` has the epoch's lease
  generation "to serialize dispatch and crash recovery inside Fabric", and
  `launch_stage_binding_test.go:154` covers the stale completion that succeeds.
* A request that dies between `ClaimRuntime` and the append of the disk's row leaves a stage row
  that cannot be read (`tencent_workspace_launch.go:449-453` answers
  `ErrOperationNotFound`), and Ensure, which reads first, never goes on.
* One failed read between the claim of a replay and its dispatch leaves the epoch `blocked`;
  no later Ensure creates or completes the resource, and only a readback that finds both
  ready ends the stage.  `ReadbackConverges` is stated for that reason from `Ready`.

## 7. Not modelled

* Launch: status `failed` and the disposable reset that writes it; the Acceptance-B
  binding of an authorization; canonical fact repair; admission, which counts the
  launches in flight and inserts the new one in one transaction.
* Wallet adjustment: sequential under the account's `sub2api-wallet` lock, one redeem
  code per operation; the attempt and readback pattern is that of a renewal's charge.
* Fabric: the stages other than storage use the same row and journal on other
  resources; the compute pool queue with its head lease, machine ownership and jobs are
  next in the plan; the adapters translate to Docker and Tencent Cloud calls.
* Ledger: append under a unique constraint; its callers' models take it as a set that
  only grows.
* Deletion: read-only legacy rows and the audit of terminal conflicts.  Rotation: rate windows, the group of
  a key, the listing routes, the access proxy.
* Identity, projections, pricing, clients, schema migration, Console: no concurrent
  protocol of their own.  The `ent` directories, the larger part of the Go lines, are generated.
* Parsing, hashing, views and field-by-field identity comparisons throughout: an
  answer is accepted or refused.

## 8. Plan

1. `FabricPoolQueue`: claims, reclaim, head lease and machine ownership of a compute
   pool (`operation_store.go`); first in first out, one owner per machine.
2. `FabricJobs`; `LedgerReceipts`; launch admission.
3. With each of these its inductive invariant and proofs, laid out as in section 5.
