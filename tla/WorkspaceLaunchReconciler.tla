----------------------- MODULE WorkspaceLaunchReconciler -----------------------
(***************************************************************************)
(* The Workspace Launch reconciler of the Control Plane                    *)
(* (workspace_launch_reconciler.go) and everyone who drives it: the        *)
(* ten-second worker, the customer's submit and resume requests, the       *)
(* operator's Resume and Runtime repair requests.                          *)
(*                                                                         *)
(* A handler is cut at every point where another actor can act: it loads   *)
(* the row, calls the stage owner, persists by compare-and-swap.  An actor *)
(* keeps the working copy of the row it loaded.  ExpectedOperationResult   *)
(* of the compare-and-swap is the row as it was loaded; each write raises  *)
(* Version, so a stored result never comes back, and `held` says whether   *)
(* the stored result is still the one this actor loaded.                   *)
(***************************************************************************)
EXTENDS LaunchOperation

CONSTANTS
  Workers,     \* reconcile passes of the worker and of the submit goroutine
  Customers,   \* requests of the customer, holding a delegated credential
  Operators,   \* requests of operators: Resume and Runtime repair
  NoOne,       \* the holder of a free lock
  MaxCrashes   \* bound: handlers that die half-way

Actors == Workers \cup Customers \cup Operators

ASSUME ActorsAssumption ==
  /\ NoOne \notin Actors
  /\ Workers \cap (Customers \cup Operators) = {}
  /\ Customers \cap Operators = {}
  /\ MaxCrashes \in Nat

VARIABLES
  op,      \* the stored RuntimeOperation row
  world,   \* per stage, what its owner (Sub2API, Fabric, Ledger...) has done
  local,   \* per actor, where its handler is and its working copy of the row
  lock,    \* holders of the process-local locks of lockResource
  sent,    \* history: per stage, the MutateStage calls that left this process
  gets,    \* history: per stage, owner reads made under a fresh continuation
  repairs, \* history: a Runtime repair call left this process
  crashes  \* handlers that died so far

vars == <<op, world, local, lock, sent, gets, repairs, crashes>>

-----------------------------------------------------------------------------
(* Owners.  "inflight" is a call that left but has not taken effect yet.   *)

World == {"absent", "inflight", "provisioning", "ownership", "ready"}

\* A read of debit cannot tell a lost charge from a late one.
DebitReadbackCanConverge(o) ==
  IsStage(o.stage, Debit) /\ Att(o).attempted = 1 /\ Att(o).status = "reserved"

ReadDebit(o, w) ==
  CASE ~ResourceBilling -> {"ready"}
    [] ResourceBilling /\ w = "ready" ->
         {"ready", "unknown", "error"}
           \cup (IF DebitReadbackCanConverge(o) THEN {"pending"} ELSE {})
    [] OTHER -> IF DebitReadbackCanConverge(o) THEN {"pending", "error"}
                                               ELSE {"absent", "error"}

\* A machine that only waits to be claimed may be found not ready once more.
ReadOwner(i, w) ==
  {"error"} \cup (IF Stages[i] = Receipt THEN {} ELSE {"unknown"})
    \cup CASE w \in {"absent", "inflight"} -> {"absent"}
           [] w = "provisioning" -> {"pending"}
           [] w = "ownership" -> {"ownership_pending", "pending"}
           [] OTHER -> {"ready"}

\* ReadStage of the stage adapter; "error" is a failed read.
ReadStage(o) ==
  LET w == world[o.stage] IN
  IF Stages[o.stage] = Debit THEN ReadDebit(o, w) ELSE ReadOwner(o.stage, w)

\* An accepted call takes effect at once, later, or never.
Effects(i) ==
  {"absent", "inflight", "ready"}
    \cup (IF Stages[i] \in FabricStages THEN {"provisioning"} ELSE {})

\* What one MutateStage call makes of the owner's state: the idempotency key
\* of a stage is fixed, so an owner that has the effect keeps it.
AfterMutate(i, w) ==
  CASE w = "absent" -> Effects(i)
    [] w = "inflight" -> Effects(i) \ {"absent"}
    [] w = "ownership" -> {"ownership", "ready"}
    [] OTHER -> {w}

\* CanMutateStage, CanReplayStage: only the customer's request carries the
\* delegated credential that the key stage writes with.
CanMutateStage(p, o) == Stages[o.stage] # Key \/ p \in Customers

-----------------------------------------------------------------------------
\* workspace-launch:<account> and workspace-launch-repair:<operation>
Locks == {"launch", "repair"}

PC == {"idle", "admitted", "entry", "read", "freshRead", "convergeRead",
       "convergeMutate", "convergePostRead", "replayRead", "mutate", "postRead",
       "refusedRead", "resumeCompute", "resumeRuntime", "resumeExhausted",
       "repair", "repairing", "persist"}

Local == [pc : PC, row : Operation, held : BOOLEAN, next : PC, grant : Grant]

AtRest == [pc |-> "idle", row |-> newWorkspaceLaunchReconcileOperation,
           held |-> FALSE, next |-> "idle", grant |-> NoGrant]

TypeOK ==
  /\ op \in Operation
  /\ world \in [StageIdx -> World]
  /\ local \in [Actors -> Local]
  /\ lock \in [Locks -> Actors \cup {NoOne}]
  /\ sent \in [StageIdx -> [first : {0, 1, 2}, replays : SUBSET Nat]]
  /\ gets \in [StageIdx -> Nat]
  /\ repairs \in BOOLEAN
  /\ crashes \in Nat

\* The first stage's row as Create left it in the store.
Init ==
  /\ op = newWorkspaceLaunchReconcileOperation
  /\ world = [i \in StageIdx |-> "absent"]
  /\ local = [p \in Actors |-> AtRest]
  /\ lock = [k \in Locks |-> NoOne]
  /\ sent = [i \in StageIdx |-> [first |-> 0, replays |-> {}]]
  /\ gets = [i \in StageIdx |-> 0]
  /\ repairs = FALSE
  /\ crashes = 0

At(p, c) == local[p].pc = c
Row(p) == local[p].row
Sees(p, s) == s \in ReadStage(Row(p))

Goto(p, c, o) == local' = [local EXCEPT ![p].pc = c, ![p].row = o]
Save(p, o, c) == local' = [local EXCEPT ![p].pc = "persist", ![p].row = o, ![p].next = c]
Released(p) == [k \in Locks |-> IF lock[k] = p THEN NoOne ELSE lock[k]]
Taken(p, k) == lock[k] \in {NoOne, p} /\ lock' = [lock EXCEPT ![k] = p]
Return(p) ==
  /\ local' = [local EXCEPT ![p] = AtRest]
  /\ lock' = Released(p)

Quiet == UNCHANGED <<op, world, sent, gets, repairs, crashes>>
Thinks == Quiet /\ UNCHANGED lock

-----------------------------------------------------------------------------
(* Who starts a reconcile pass.                                            *)

RecoverableStages == {Key, "storage", "attachment", Secret, Runtime, "activation"}

InRecoverableReview(o) ==
  /\ o.status = "manual_review" /\ ~ResourceBilling
  /\ Stages[o.stage] \in RecoverableStages /\ Obs(o) = "unknown"

\* runWorkspaceLaunchesOnce pages the rows that are not parked or terminal.
ListPending(p) ==
  /\ p \in Workers /\ At(p, "idle") /\ op.status = "pending"
  /\ Goto(p, "admitted", Row(p))
  /\ Thinks

\* POST /api/workspace-launches of a known operation, and, where the customer
\* owns the resources, POST /api/workspace-launches/{id}/resume.
CustomerContinues(p) ==
  /\ p \in Customers /\ At(p, "idle") /\ Taken(p, "launch")
  /\ \/ op.status = "pending" /\ IsStage(op.stage, Key)
     \/ InRecoverableReview(op)
     \/ /\ ~ResourceBilling /\ op.status = "pending"
        /\ Stages[op.stage] \in RecoverableStages \ {"activation"}
  /\ Goto(p, "admitted", Row(p))
  /\ Quiet

\* Reconcile loads and decodes the row.  The worker takes the account's lock
\* first; Resume and repair run without it.
Load(p) ==
  /\ At(p, "admitted")
  /\ IF p \in Workers THEN Taken(p, "launch") ELSE UNCHANGED lock
  /\ local' = [local EXCEPT ![p].pc = "entry", ![p].row = op, ![p].held = TRUE]
  /\ Quiet

\* A parked stage of a launch without resource billing starts afresh.
ResetStage(o) ==
  [o EXCEPT !.attempts[o.stage] = [@ EXCEPT !.attempted = 0, !.status = "",
                                            !.pendingReadbacks = 0],
            !.freshContinuations[o.stage] = "none",
            !.readClaims[o.stage] = NoRead,
            !.status = "pending"]

EntryReset(p) ==
  /\ At(p, "entry") /\ InRecoverableReview(Row(p))
  /\ Save(p, ResetStage(Row(p)), "entry")
  /\ Thinks

EntryReturn(p) ==
  /\ At(p, "entry") /\ Row(p).status # "pending" /\ ~InRecoverableReview(Row(p))
  /\ Return(p)
  /\ Quiet

\* Slip: only a finished launch makes Reconcile return early.
PendingEntryParkedToo(p) == At(p, "entry") /\ Row(p).status # "succeeded"

PendingEntry(p) == At(p, "entry") /\ Row(p).status = "pending"

\* A reserved stage that was left typed pending is only read again under an
\* authorization that is open and has reads left.
ReadAllowed(o) ==
  Att(o).status = "reserved" /\ Obs(o) = "pending" => ContinuationReadAuthorized(o)

EntryRead(p) ==
  LET o == Row(p) IN
  /\ PendingEntry(p) /\ ~FreshActive(o)
  /\ ReadAllowed(o)
  /\ Goto(p, "read", o)
  /\ Thinks

\* Otherwise the launch is put aside as it is.
EntryPutAside(p) ==
  LET o == Row(p) IN
  /\ PendingEntry(p) /\ ~FreshActive(o)
  /\ ~ReadAllowed(o)
  /\ Save(p, [o EXCEPT !.status = "manual_review"], "idle")
  /\ Thinks

-----------------------------------------------------------------------------
(* Reconcile: one owner read of the current stage and what follows.        *)

ReconcileReady(p) ==
  /\ At(p, "read") /\ Sees(p, "ready")
  /\ Save(p, ConfirmStage(Row(p)), "idle")
  /\ Thinks

\* An unreadable owner before anything was attempted changes nothing.
ReconcileUnreadable(p) ==
  /\ At(p, "read") /\ Sees(p, "error")
  /\ Att(Row(p)).attempted = 0 /\ Att(Row(p)).status = ""
  /\ Return(p)
  /\ Quiet

ReconcileUnknown(p) ==
  LET o == Row(p)  a == Att(o) IN
  /\ At(p, "read")
  /\ \/ Sees(p, "unknown")
     \/ Sees(p, "error") /\ ~(a.attempted = 0 /\ a.status = "")
  /\ Save(p, ParkStage(o, IF a.status = "reserved" THEN Unknown(a) ELSE a, "unknown"), "idle")
  /\ Thinks

\* Pending is only acceptable for a reserved attempt under an authorization
\* whose read budget is not used up.
MayKeepReading(o) ==
  /\ Att(o).attempted = 1 /\ Att(o).status = "reserved"
  /\ ContinuationReadAuthorized(o)

\* One more readback of a stage that stays in state s.
CountReadback(o, s) ==
  LET a == [Att(o) EXCEPT !.pendingReadbacks = @ + 1] IN
  IF Exhausted(a) THEN ParkStage(o, Unknown(a), "unknown")
                  ELSE SetObs(SetAtt(o, a), s)

ReconcilePending(p) ==
  LET o == Row(p) IN
  /\ At(p, "read") /\ Sees(p, "pending")
  /\ Save(p, IF MayKeepReading(o) THEN CountReadback(o, "pending")
                                  ELSE ParkStage(o, Att(o), "unknown"), "idle")
  /\ Thinks

\* The stage is put aside without closing a replay claim.
SetAside(o, s) ==
  [consumeResumeAuthorization(SetObs(o, s)) EXCEPT !.status = "manual_review"]

ReconcileOwnershipPending(p) ==
  LET o == Row(p)
      mayRead == IsStage(o.stage, Compute) /\ MayKeepReading(o)
      waiting == Replay(o).status = "waiting"
  IN
  /\ At(p, "read") /\ Sees(p, "ownership_pending")
  /\ ~(mayRead /\ ~waiting /\ IdempotentReplayAuthorized(o))
  /\ Save(p, CASE ~mayRead -> ParkStage(o, Att(o), "unknown")
               [] mayRead /\ waiting -> CountReadback(o, "ownership_pending")
               [] OTHER -> SetAside(o, "unknown"), "idle")
  /\ Thinks

\* parkClaimedReplay
parkClaimedReplay(o) == ParkStage(o, Unknown(Att(o)), "unknown")

ReconcileAbsentParks(p) ==
  LET o == Row(p) IN
  /\ At(p, "read") /\ Sees(p, "absent")
  /\ \/ Replay(o).status = "waiting"
     \/ Att(o).attempted = 1 /\ ~IdempotentReplayAuthorized(o)
  /\ Save(p, IF Replay(o).status = "waiting" THEN parkClaimedReplay(o)
             ELSE SetAside(o, "absent"), "idle")
  /\ Thinks

\* claimIdempotentReplay: write the claim and its lease.
ClaimReplay(o, auth) ==
  [o EXCEPT !.replayClaims[o.stage] =
     [status |-> "claimed", authorization |-> auth, lease |-> "live"]]

\* replayReservedStage is reached with the owner absent, or with compute that
\* waits for its ownership to be claimed.
ReplayReached(p) ==
  LET o == Row(p) IN
  /\ At(p, "read") /\ IdempotentReplayAuthorized(o)
  /\ Replay(o).status # "waiting"
  /\ \/ Sees(p, "absent")
     \/ Sees(p, "ownership_pending") /\ IsStage(o.stage, Compute) /\ MayKeepReading(o)

ReplayObserved(p) ==
  IF Sees(p, "absent") THEN Row(p) ELSE SetObs(Row(p), "ownership_pending")

ReplayNotDispatched(p) ==
  LET c == Replay(Row(p)) IN
  /\ ReplayReached(p)
  /\ \/ ~CanMutateStage(p, Row(p))
     \/ c.status # "none" /\ ~(c.status = "claimed" /\ c.lease = "expired"
                                /\ c.authorization = Row(p).resumeAuthorization.id)
  /\ Return(p)
  /\ Quiet

ReplayClaimed(p) ==
  LET o == Row(p)  c == Replay(o) IN
  /\ ReplayReached(p) /\ CanMutateStage(p, o)
  /\ \/ c.status = "none"
     \/ c.status = "claimed" /\ c.lease = "expired" /\ c.authorization = o.resumeAuthorization.id
  /\ Save(p, ClaimReplay(ReplayObserved(p), o.resumeAuthorization.id), "replayRead")
  /\ Thinks

\* The worker cannot write the key stage: it waits for the customer.
MutateUnavailable(p) ==
  LET o == Row(p) IN
  /\ At(p, "read") /\ Sees(p, "absent") /\ Replay(o).status # "waiting"
  /\ Att(o).attempted = 0 /\ ~CanMutateStage(p, o)
  /\ Return(p)
  /\ Quiet

\* The attempt is reserved in the store before the owner is called.
ReserveStage(o) == SetAtt(o, [Att(o) EXCEPT !.attempted = 1, !.status = "reserved"])

\* Slip: the owner is called with a reservation that was never stored.
ReconcileReserveUnsaved(p) ==
  LET o == Row(p) IN
  /\ At(p, "read") /\ Sees(p, "absent") /\ Replay(o).status # "waiting"
  /\ Att(o).attempted = 0 /\ CanMutateStage(p, o)
  /\ Goto(p, "mutate", ReserveStage(o))
  /\ Thinks

ReconcileReserve(p) ==
  LET o == Row(p) IN
  /\ At(p, "read") /\ Sees(p, "absent") /\ Replay(o).status # "waiting"
  /\ Att(o).attempted = 0 /\ CanMutateStage(p, o)
  /\ Save(p, ReserveStage(o), "mutate")
  /\ Thinks

-----------------------------------------------------------------------------
(* mutateReservedStage and the replay of a reserved stage.                 *)

\* The history a call leaves behind: a replay goes under the authorization of
\* its claim, any other call is a first attempt.
Dispatched(o) ==
  IF Replay(o).status = "claimed"
  THEN [sent EXCEPT ![o.stage].replays = @ \cup {Replay(o).authorization}]
  ELSE [sent EXCEPT ![o.stage].first = IF @ < 2 THEN @ + 1 ELSE 2]

Mutate(p) ==
  LET o == Row(p)  i == o.stage IN
  /\ At(p, "mutate")
  /\ \E w \in AfterMutate(i, world[i]) : world' = [world EXCEPT ![i] = w]
  /\ sent' = Dispatched(o)
  /\ Goto(p, "postRead", o)
  /\ UNCHANGED <<op, lock, gets, repairs, crashes>>

\* The debit's preflight fails: errWorkspaceLaunchMutationNotDispatched.
MutateRefused(p) ==
  /\ At(p, "mutate") /\ Stages[Row(p).stage] = Debit /\ ResourceBilling
  /\ world[Row(p).stage] # "ready"
  /\ Goto(p, "refusedRead", Row(p))
  /\ Thinks

PostReady(p) ==
  /\ (At(p, "postRead") \/ At(p, "refusedRead")) /\ Sees(p, "ready")
  /\ Save(p, ConfirmStage(Row(p)), "idle")
  /\ Thinks

\* reduceWorkspaceLaunchStageObservation refuses the facts of a ready owner:
\* the pass ends with an error and whatever it had stored by then stays.
FactsRefused(p) ==
  /\ local[p].pc \in {"read", "postRead", "refusedRead", "replayRead", "convergeRead",
                      "convergePostRead"}
  /\ Sees(p, "ready")
  /\ Return(p)
  /\ Quiet

\* waitClaimedReplay
waitClaimedReplay(o, s) ==
  LET a == [Att(o) EXCEPT !.pendingReadbacks = @ + 1]
      waiting == completeIdempotentReplay(SetObs(SetAtt(o, a), s), "waiting")
  IN IF Exhausted(a)
     THEN [consumeResumeAuthorization(SetObs(SetAtt(waiting, Unknown(a)), "unknown"))
             EXCEPT !.status = "manual_review"]
     ELSE [waiting EXCEPT !.status = "pending"]

\* The first read after a first attempt is typed pending: the same write
\* grants this operation its bounded continuation reads.
BeginFreshContinuation(o, s) ==
  LET i == o.stage IN
  [consumeResumeAuthorization(SetObs(SetAtt(o,
     [Att(o) EXCEPT !.pendingReadbacks = 1,
                    !.maxPendingReadbacks = 1 + FreshContinuationReadBudget(i),
                    !.deadline = PendingDeadline(i)]), s))
   EXCEPT !.freshContinuations[i] = "active", !.status = "pending"]

\* Slip: an accepted call is taken for its effect.
PostPendingConfirms(p) ==
  /\ At(p, "postRead") /\ (Sees(p, "pending") \/ Sees(p, "ownership_pending"))
  /\ Save(p, ConfirmStage(Row(p)), "idle")
  /\ Thinks

PostPending(p) ==
  LET o == Row(p) IN
  /\ At(p, "postRead")
  /\ \E s \in {"pending", "ownership_pending"} :
       /\ Sees(p, s)
       /\ Save(p, IF Replay(o).status # "none" THEN waitClaimedReplay(o, s)
                  ELSE BeginFreshContinuation(o, s), "idle")
  /\ Thinks

PostUnknown(p) ==
  LET o == Row(p) IN
  /\ \/ At(p, "postRead") /\ (Sees(p, "absent") \/ Sees(p, "unknown") \/ Sees(p, "error"))
     \/ At(p, "refusedRead") /\ ReadStage(o) # {"ready"}
  /\ Save(p, ParkStage(o, Unknown(Att(o)), "unknown"), "idle")
  /\ Thinks

\* replayReservedStage, after its claim is stored: the owner is read again
\* immediately before the original key is reused.
ReplayReadReady(p) ==
  /\ At(p, "replayRead") /\ Sees(p, "ready")
  /\ Save(p, ConfirmStage(Row(p)), "idle")
  /\ Thinks

ReplayReadPending(p) ==
  /\ At(p, "replayRead") /\ Sees(p, "pending")
  /\ Save(p, waitClaimedReplay(Row(p), "pending"), "idle")
  /\ Thinks

ReplayReadUnknown(p) ==
  /\ At(p, "replayRead") /\ (Sees(p, "unknown") \/ Sees(p, "error"))
  /\ Save(p, parkClaimedReplay(Row(p)), "idle")
  /\ Thinks

ReplayReadRepeats(p) ==
  /\ At(p, "replayRead") /\ (Sees(p, "absent") \/ Sees(p, "ownership_pending"))
  /\ Goto(p, "mutate", Row(p))
  /\ Thinks

-----------------------------------------------------------------------------
(* continueFreshTypedPending: reads under the system's own authorization.  *)

\* parkFreshTypedPending
parkFreshTypedPending(o, a) ==
  [completeIdempotentReplay(SetObs(SetAtt(o, Unknown(a)), "unknown"), "failed")
     EXCEPT !.freshContinuations[o.stage] = "failed", !.status = "manual_review"]

ConfirmFresh(o) ==
  advance([completeIdempotentReplay(
             SetObs(SetAtt(o, Confirmed(Att(o))), "ready"), "succeeded")
           EXCEPT !.freshContinuations[o.stage] = "consumed"])

SetRead(o, s) ==
  [o EXCEPT !.readClaims[o.stage] =
     [status |-> s, lease |-> IF s = "claimed" THEN "live" ELSE "none"]]

FreshEntry(p) == PendingEntry(p) /\ FreshActive(Row(p))
FreshReplayClaimed(o) == Replay(o).status = "claimed" /\ Replay(o).authorization = 0

\* Slip: a claim is held for good, its lease is not looked at.
FreshHeldForGood(p) ==
  LET o == Row(p) IN
  /\ FreshEntry(p) /\ (FreshReplayClaimed(o) \/ o.readClaims[o.stage].status = "claimed")
  /\ Return(p)
  /\ Quiet

\* Someone else holds the replay or the read.
FreshHeld(p) ==
  LET o == Row(p) IN
  /\ FreshEntry(p)
  /\ IF FreshReplayClaimed(o) THEN Replay(o).lease = "live"
     ELSE o.readClaims[o.stage].lease = "live"
  /\ Return(p)
  /\ Quiet

\* A crashed claim is never refunded: its ordinal is marked expired.
ExpireRead(o) == IF o.readClaims[o.stage].status = "claimed" THEN SetRead(o, "expired") ELSE o

FreshReplayTakenOver(p) ==
  LET o == Row(p) IN
  /\ FreshEntry(p) /\ FreshReplayClaimed(o) /\ Replay(o).lease = "expired"
  /\ IF PendingDeadlineExpired(Att(o))
     THEN Save(p, parkFreshTypedPending(o, Att(o)), "idle")
     ELSE Save(p, ClaimReplay(o, 0), "convergeRead")
  /\ Thinks

\* Slip: the ordinal of a claim whose holder died is given out again.
FreshClaimReadRefunds(p) ==
  LET o == ExpireRead(Row(p))
      a == [Att(o) EXCEPT !.pendingReadbacks =
              IF o.readClaims[o.stage].status = "expired" THEN @ ELSE @ + 1]
  IN
  /\ FreshEntry(p) /\ ~FreshReplayClaimed(o) /\ Row(p).readClaims[o.stage].lease # "live"
  /\ IF Exhausted(Att(o)) /\ o.readClaims[o.stage].status # "expired"
     THEN Save(p, parkFreshTypedPending(o, Att(o)), "idle")
     ELSE Save(p, SetRead(SetAtt(o, a), "claimed"), "freshRead")
  /\ Thinks

FreshClaimRead(p) ==
  LET o == ExpireRead(Row(p))
      a == [Att(o) EXCEPT !.pendingReadbacks = @ + 1]
  IN
  /\ FreshEntry(p) /\ ~FreshReplayClaimed(o) /\ Row(p).readClaims[o.stage].lease # "live"
  /\ IF Exhausted(Att(o))
     THEN Save(p, parkFreshTypedPending(o, Att(o)), "idle")
     ELSE Save(p, SetRead(SetAtt(o, a), "claimed"), "freshRead")
  /\ Thinks

\* The GET is made only by the actor whose claim of this ordinal was stored.
CountGet(p) ==
  gets' = [gets EXCEPT ![Row(p).stage] =
             IF @ > FreshContinuationReadBudget(Row(p).stage) THEN @ ELSE @ + 1]

GetUnderClaim(p) == CountGet(p) /\ UNCHANGED <<op, world, lock, sent, repairs, crashes>>

FreshReadReady(p) ==
  /\ At(p, "freshRead") /\ Sees(p, "ready")
  /\ Save(p, ConfirmFresh(SetRead(Row(p), "ready")), "idle")
  /\ GetUnderClaim(p)

FreshReadRefused(p) ==
  /\ At(p, "freshRead") /\ Sees(p, "ready")
  /\ CountGet(p)
  /\ Return(p)
  /\ UNCHANGED <<op, world, sent, repairs, crashes>>

FreshReadPending(p) ==
  LET o == SetRead(Row(p), "pending") IN
  /\ At(p, "freshRead") /\ Sees(p, "pending")
  /\ Save(p, IF Exhausted(Att(o)) THEN parkFreshTypedPending(o, Att(o))
             ELSE SetObs(o, "pending"), "idle")
  /\ GetUnderClaim(p)

\* Compute is up but not owned: one same-key continuation may be claimed.
FreshReadOwnershipPending(p) ==
  LET o == SetRead(Row(p), "pending") IN
  /\ At(p, "freshRead") /\ Sees(p, "ownership_pending")
  /\ CASE Exhausted(Att(o)) \/ ~IsStage(o.stage, Compute) ->
            Save(p, parkFreshTypedPending(o, Att(o)), "idle")
       [] ~Exhausted(Att(o)) /\ IsStage(o.stage, Compute) /\ Replay(o).status = "none" ->
            Save(p, ClaimReplay(SetObs(o, "ownership_pending"), 0), "convergeRead")
       [] OTHER -> Save(p, SetObs(o, "ownership_pending"), "idle")
  /\ GetUnderClaim(p)

FreshReadFailed(p) ==
  LET o == SetRead(Row(p), "failed") IN
  /\ At(p, "freshRead") /\ (Sees(p, "absent") \/ Sees(p, "unknown") \/ Sees(p, "error"))
  /\ Save(p, parkFreshTypedPending(o, Att(o)), "idle")
  /\ GetUnderClaim(p)

-----------------------------------------------------------------------------
(* convergeFreshComputeReplay                                              *)

ConvergeReady(p) ==
  /\ (At(p, "convergeRead") \/ At(p, "convergePostRead")) /\ Sees(p, "ready")
  /\ Save(p, ConfirmFresh(Row(p)), "idle")
  /\ Thinks

ConvergePending(p) ==
  /\ At(p, "convergeRead") /\ Sees(p, "pending")
  /\ Save(p, SetObs(Row(p), "pending"), "idle")
  /\ Thinks

ConvergeRepeats(p) ==
  /\ At(p, "convergeRead") /\ Sees(p, "ownership_pending")
  /\ Goto(p, "convergeMutate", Row(p))
  /\ Thinks

ConvergeMutate(p) ==
  LET i == Row(p).stage IN
  /\ At(p, "convergeMutate")
  /\ \E w \in AfterMutate(i, world[i]) : world' = [world EXCEPT ![i] = w]
  /\ sent' = Dispatched(Row(p))
  /\ Goto(p, "convergePostRead", Row(p))
  /\ UNCHANGED <<op, lock, gets, repairs, crashes>>

\* waitFreshComputeReplay
ConvergeWaits(p) ==
  /\ At(p, "convergePostRead")
  /\ \E s \in {"pending", "ownership_pending"} :
       /\ Sees(p, s)
       /\ Save(p, completeIdempotentReplay(SetObs(Row(p), s), "waiting"), "idle")
  /\ Thinks

ConvergeFails(p) ==
  /\ At(p, "convergeRead") \/ At(p, "convergePostRead")
  /\ Sees(p, "absent") \/ Sees(p, "unknown") \/ Sees(p, "error")
  /\ Save(p, parkFreshTypedPending(Row(p), Att(Row(p))), "idle")
  /\ Thinks

-----------------------------------------------------------------------------
(* Resume: an operator's authorization for one stage of one version.       *)

\* AuthorizationIDs the row knows of; an operator's new request has another.
GrantIds(o) ==
  {g.id : g \in o.consumedAuthorizations \cup {o.resumeAuthorization}}
    \cup {o.replayClaims[i].authorization : i \in StageIdx}

NewGrantId(o, n) == n \notin GrantIds(o) /\ \A m \in 1..(n - 1) : m \in GrantIds(o)

\* An authorization that is already recorded is not granted again: an open
\* one reconciles, a consumed one only reports.
ResumeAgain(p) ==
  /\ p \in Operators /\ At(p, "idle") /\ GrantActive(op)
  /\ Goto(p, "admitted", Row(p))
  /\ Thinks

Resume(p) ==
  /\ p \in Operators /\ At(p, "idle")
  /\ op.status = "manual_review" /\ ~GrantActive(op)
  /\ \E n \in 1..MaxGrants : \E g \in GrantsFor(op, n) :
       /\ NewGrantId(op, n)
       /\ LET visit(c) == local' = [local EXCEPT ![p].pc = c, ![p].row = op,
                                              ![p].held = TRUE, ![p].grant = g]
          IN CASE UnknownComputeContinuationEligible(op, g) -> visit("resumeCompute")
               [] UnknownRuntimeReadEligible(op, g) -> visit("resumeRuntime")
               [] Att(op).attempted = 1 /\ ( ReservedStageReplayEligible(op, g)
                                            \/ ReservedStageReadEligible(op, g) ) ->
                    visit("resumeExhausted")
               [] Att(op).attempted = 0 /\ g.mutation = 1 ->
                    local' = [local EXCEPT ![p].pc = "persist", ![p].next = "admitted",
                                ![p].row = [rotateResumeAuthorization(op, g)
                                              EXCEPT !.status = "pending"],
                                ![p].held = TRUE]
               [] OTHER -> FALSE
  /\ Thinks

\* Any other outcome of the read is a grant conflict: nothing is written.
ResumeConflict(p) ==
  /\ \/ At(p, "resumeCompute") /\ ReadStage(Row(p)) \ {"pending", "ownership_pending"} # {}
     \/ At(p, "resumeRuntime") /\ ReadStage(Row(p)) # {"ready"}
     \/ At(p, "resumeExhausted") /\ ReadStage(Row(p)) # {"ready"}
  /\ Return(p)
  /\ Quiet

\* The grant is recorded with the readbacks already spent on the stage, and
\* the attempt's budget is raised by what it allows.
Authorize(o, g) ==
  LET a == Att(o) IN
  [rotateResumeAuthorization(
     SetAtt(o, [a EXCEPT !.maxPendingReadbacks = a.pendingReadbacks + g.reads]),
     [g EXCEPT !.readbacks = a.pendingReadbacks]) EXCEPT !.status = "pending"]

\* recoverUnknownComputeStage
recoverUnknownComputeStage(o, g, s) ==
  LET cleared == IF FailedComputeReplayReauthorizationEligible(o)
                 THEN [o EXCEPT !.replayClaims[o.stage] = NoReplay] ELSE o
      reopened == SetAtt(cleared, [Att(o) EXCEPT !.status = "reserved",
                                                 !.deadline = PendingDeadline(o.stage)])
  IN SetObs(Authorize(reopened, g), s)

ResumeCompute(p) ==
  /\ At(p, "resumeCompute")
  /\ \E s \in {"pending", "ownership_pending"} :
       /\ Sees(p, s)
       /\ Save(p, recoverUnknownComputeStage(Row(p), local[p].grant, s), "admitted")
  /\ Thinks

\* recoverUnknownRuntimeStage
recoverUnknownRuntimeStage(o, g) ==
  LET fresh == IF o.freshContinuations[o.stage] = "failed"
               THEN [o EXCEPT !.freshContinuations[o.stage] = "consumed"] ELSE o
      taken == rotateResumeAuthorization(fresh, g)
  IN advance(consumeResumeAuthorization(
       SetObs(SetAtt(taken, Confirmed(Att(o))), "ready")))

ResumeRuntime(p) ==
  /\ At(p, "resumeRuntime") /\ Sees(p, "ready")
  /\ Row(p).freshContinuations[Row(p).stage] \in {"none", "failed"}
  /\ Save(p, recoverUnknownRuntimeStage(Row(p), local[p].grant), "idle")
  /\ Thinks

\* authorizeExhaustedStage
ResumeExhaustedReady(p) ==
  LET o == rotateResumeAuthorization(Row(p), local[p].grant) IN
  /\ At(p, "resumeExhausted") /\ Sees(p, "ready")
  /\ Save(p, advance(consumeResumeAuthorization(
               SetObs(SetAtt(o, Confirmed(Att(o))), "ready"))), "idle")
  /\ Thinks

ResumeExhausted(p) ==
  LET o == Row(p) IN
  /\ At(p, "resumeExhausted")
  /\ \E s \in {"absent", "pending"} :
       /\ Sees(p, s)
       /\ s = "absent" => local[p].grant.replay = 1
       /\ Save(p, SetObs(Authorize(o, local[p].grant), s), "admitted")
  /\ Thinks

-----------------------------------------------------------------------------
(* repairWorkspaceLaunchRuntime: an operator replaces a failed Runtime.    *)

RepairBegins(p) ==
  /\ p \in Operators /\ At(p, "idle") /\ RuntimeRepairEligible(op)
  /\ lock["repair"] = NoOne /\ Taken(p, "repair")
  /\ local' = [local EXCEPT ![p].pc = "repair", ![p].row = op, ![p].held = TRUE]
  /\ Quiet

\* The same request again only finishes activation and receipt.
RepairAgain(p) ==
  /\ p \in Operators /\ At(p, "idle") /\ op.runtimeRepair /\ op.status = "pending"
  /\ op.stage \in StageIdx /\ Stages[op.stage] \in {"activation", Receipt}
  /\ Taken(p, "repair")
  /\ Goto(p, "admitted", Row(p))
  /\ Quiet

\* Fabric removes the Runtime it finds, whatever its state, and starts another.
RepairCalls(p) ==
  /\ At(p, "repair")
  /\ world' = [world EXCEPT ![Row(p).stage] = "inflight"]
  /\ repairs' = TRUE
  /\ Goto(p, "repairing", Row(p))
  /\ UNCHANGED <<op, lock, sent, gets, crashes>>

RepairedRow(o) ==
  LET i == o.stage IN
  [o EXCEPT !.attempts[i] = Confirmed(@),
            !.observations[i] = "ready",
            !.freshContinuations[i] = IF @ = "none" THEN "none" ELSE "consumed",
            !.runtimeRepair = TRUE,
            !.stage = i + 1,
            !.status = "pending",
            !.resumeAuthorization = NoGrant,
            !.authorizationConsumed = FALSE]

\* Slip: the answer of Fabric is not looked at.
RepairReadyUnread(p) ==
  /\ At(p, "repairing")
  /\ Save(p, RepairedRow(Row(p)), "admitted")
  /\ Thinks

\* The new Runtime is ready; only now is the repair written down.
RepairReady(p) ==
  /\ At(p, "repairing") /\ world[Row(p).stage] = "ready"
  /\ Save(p, RepairedRow(Row(p)), "admitted")
  /\ Thinks

\* Fabric refuses, fails, or the new Runtime does not become ready.
RepairFailed(p) ==
  /\ At(p, "repair") \/ At(p, "repairing")
  /\ Return(p)
  /\ Quiet

-----------------------------------------------------------------------------
(* persist: the store accepts the row if it decodes and if the stored      *)
(* result is the one the actor started from.                               *)

\* Slip: the store does not compare the result it replaces.
AcceptedAnyVersion(p) == Decodes(Row(p))

Accepted(p) == local[p].held /\ Decodes(Row(p))

PersistAccepted(p) ==
  /\ At(p, "persist") /\ Accepted(p)
  /\ op' = Row(p)
  /\ local' = [q \in Actors |->
       IF q # p THEN [local[q] EXCEPT !.held = FALSE]
       ELSE IF local[p].next = "idle" THEN AtRest
       ELSE [local[p] EXCEPT !.pc = local[p].next, !.next = "idle"]]
  /\ lock' = IF local[p].next = "idle" THEN Released(p) ELSE lock
  /\ UNCHANGED <<world, sent, gets, repairs, crashes>>

PersistRejected(p) ==
  /\ At(p, "persist") /\ ~Accepted(p)
  /\ Return(p)
  /\ Quiet

-----------------------------------------------------------------------------
(* The environment.                                                        *)

\* A late effect lands, a lost one never does, provisioning ends.
OwnerSteps(i) ==
  /\ \/ /\ world[i] = "inflight"
        /\ \E w \in Effects(i) \ {"inflight"} : world' = [world EXCEPT ![i] = w]
     \/ /\ world[i] = "provisioning"
        /\ \E w \in {"ready"} \cup (IF Stages[i] = Compute THEN {"ownership"} ELSE {}) :
             world' = [world EXCEPT ![i] = w]
  /\ UNCHANGED <<op, local, lock, sent, gets, repairs, crashes>>

ExpireClock(c) == IF c = "live" THEN "expired" ELSE c

ExpireLease(c) == [c EXCEPT !.lease = ExpireClock(c.lease)]

AgeLeases(o) ==
  [o EXCEPT !.replayClaims = [i \in StageIdx |-> ExpireLease(o.replayClaims[i])],
            !.readClaims = [i \in StageIdx |-> ExpireLease(o.readClaims[i])]]

AgeDeadline(o) ==
  [o EXCEPT !.attempts = [i \in StageIdx |->
     [o.attempts[i] EXCEPT !.deadline = ExpireClock(o.attempts[i].deadline)]]]

\* Time passes for the stored row and for every copy of it alike.
Ages(Age(_)) ==
  /\ op' = Age(op)
  /\ local' = [p \in Actors |-> [local[p] EXCEPT !.row = Age(@)]]
  /\ UNCHANGED <<world, lock, sent, gets, repairs, crashes>>

LeaseExpires ==
  /\ \E i \in StageIdx : "live" \in {op.replayClaims[i].lease, op.readClaims[i].lease}
  /\ Ages(AgeLeases)

DeadlineExpires ==
  /\ \E i \in StageIdx : op.attempts[i].deadline = "live"
  /\ Ages(AgeDeadline)

\* A handler dies: its process restarts, or its request is cut off.
Crash(p) ==
  /\ ~At(p, "idle") /\ crashes < MaxCrashes
  /\ crashes' = crashes + 1
  /\ Return(p)
  /\ UNCHANGED <<op, world, sent, gets, repairs>>

-----------------------------------------------------------------------------
Starts(p) ==
  \/ ListPending(p) \/ CustomerContinues(p) \/ Resume(p) \/ ResumeAgain(p)
  \/ RepairBegins(p) \/ RepairAgain(p)

Persists(p) == PersistAccepted(p) \/ PersistRejected(p)

Reconciles(p) ==
  \/ EntryReset(p) \/ EntryReturn(p) \/ EntryRead(p) \/ EntryPutAside(p)
  \/ ReconcileReady(p) \/ ReconcileUnreadable(p) \/ ReconcileUnknown(p)
  \/ ReconcilePending(p) \/ ReconcileOwnershipPending(p) \/ ReconcileAbsentParks(p)
  \/ ReplayNotDispatched(p) \/ ReplayClaimed(p)
  \/ MutateUnavailable(p) \/ ReconcileReserve(p)
  \/ Mutate(p) \/ MutateRefused(p) \/ PostReady(p) \/ PostPending(p) \/ PostUnknown(p)
  \/ FactsRefused(p)
  \/ ReplayReadReady(p) \/ ReplayReadPending(p) \/ ReplayReadUnknown(p) \/ ReplayReadRepeats(p)

ContinuesFresh(p) ==
  \/ FreshHeld(p) \/ FreshReplayTakenOver(p) \/ FreshClaimRead(p)
  \/ FreshReadReady(p) \/ FreshReadRefused(p) \/ FreshReadPending(p) \/ FreshReadOwnershipPending(p)
  \/ FreshReadFailed(p)
  \/ ConvergeReady(p) \/ ConvergePending(p) \/ ConvergeRepeats(p)
  \/ ConvergeMutate(p) \/ ConvergeWaits(p) \/ ConvergeFails(p)

Operates(p) ==
  \/ ResumeConflict(p) \/ ResumeCompute(p) \/ ResumeRuntime(p)
  \/ ResumeExhaustedReady(p) \/ ResumeExhausted(p)
  \/ RepairCalls(p) \/ RepairReady(p) \/ RepairFailed(p)

Environment ==
  \/ \E i \in StageIdx : OwnerSteps(i)
  \/ LeaseExpires \/ DeadlineExpires

Next ==
  \/ \E p \in Actors : \/ Starts(p) \/ Load(p) \/ Reconciles(p) \/ ContinuesFresh(p)
                       \/ Operates(p) \/ Persists(p) \/ Crash(p)
  \/ Environment

Spec == Init /\ [][Next]_vars

-----------------------------------------------------------------------------
(* Fairness.  A pass that is under way keeps running, the ten-second worker *)
(* keeps listing, time passes, an owner finishes what it accepted.  An      *)
(* owner that is read again and again eventually answers the read.          *)

Steps(p) == Load(p) \/ Reconciles(p) \/ ContinuesFresh(p) \/ Operates(p) \/ Persists(p)

OwnerAnswers(p) ==
  \/ ReconcileReady(p) \/ ReconcileUnknown(p) \/ ReconcilePending(p)
  \/ ReconcileOwnershipPending(p) \/ ReconcileAbsentParks(p)
  \/ ReplayNotDispatched(p) \/ ReplayClaimed(p) \/ ReconcileReserve(p)

Fairness ==
  /\ \A p \in Actors : WF_vars(Steps(p))
  /\ \A p \in Workers : WF_vars(ListPending(p)) /\ SF_vars(Load(p)) /\ SF_vars(OwnerAnswers(p))
  /\ WF_vars(LeaseExpires) /\ WF_vars(DeadlineExpires)
  /\ \A i \in StageIdx : WF_vars(OwnerSteps(i))

FairSpec == Spec /\ Fairness

-----------------------------------------------------------------------------
(* What the reconciler promises.                                           *)

Dispatches(i) == sent[i].first > 0 \/ sent[i].replays # {}

\* A repair has taken the Runtime down and is not written down as done.
Replacing(i) == Stages[i] = Runtime /\ repairs /\ ~op.runtimeRepair

\* The stage's effect is in its owner's books.  Where the customer owns the
\* resources nothing is charged, and debit has no effect to wait for.  A
\* Runtime that was done may be taken down by a repair that was already under
\* way when a Resume confirmed it: Resume and repair share no lock.
Done(i) ==
  world[i] = "ready" \/ (Stages[i] = Debit /\ ~ResourceBilling) \/ Replacing(i)

\* A stage the row calls ready is really done at its owner, and every stage
\* before the cursor is ready: no interleaving of stale passes, lost replies
\* or repairs lets a launch step over, or end without, a stage's effect
\* (Reconcile, mutateReservedStage and Resume only advance on a ready read).
ReadyIsReal ==
  \A i \in StageIdx : /\ op.observations[i] = "ready" => Done(i)
                      /\ i < op.stage => op.observations[i] = "ready"

\* No owner is called for a stage before the effects of all earlier stages
\* exist: nothing is provisioned before the charge, nothing is activated
\* before the Runtime (the cursor of Reconcile).
StagesInOrder ==
  \A i \in StageIdx : Dispatches(i) => \A j \in 1..(i - 1) : Done(j)

\* Before an owner is called the store holds the reserved attempt, and it is
\* never lost again: whatever dies after the call, the next pass finds it
\* (Reconcile persists Attempted and the key before mutateReservedStage).
\* Only the reset of a launch without resource billing forgets an attempt.
ReservedBeforeDispatch ==
  ResourceBilling =>
    \A i \in StageIdx : Dispatches(i) => op.attempts[i].attempted = 1

\* A stage of a billed launch is called for the first time at most once, by
\* one pass, though the worker and an operator's Resume take no common lock
\* (Attempt.Max = 1 and the compare-and-swap of persist).
SingleFirstDispatch ==
  ResourceBilling => \A i \in StageIdx : sent[i].first <= 1

Grants(o) == o.consumedAuthorizations \cup {o.resumeAuthorization}

\* An owner is called again only under a recorded authorization of exactly
\* that stage with a replay budget: an operator's, or for compute the fresh
\* continuation's own; at most one per stage, two for compute
\* (idempotentReplayAuthorizationUsed, FailedComputeReplayReauthorization).
ReplayNeedsGrant ==
  \A i \in StageIdx :
    /\ \A a \in sent[i].replays :
         \/ a = 0 /\ Stages[i] = Compute
         \/ \E g \in Grants(op) : g.id = a /\ g.stage = i /\ g.mutation = 0 /\ g.replay = 1
    /\ Cardinality(sent[i].replays) <= (IF Stages[i] = Compute THEN 2 ELSE 1)

\* The reads made under one fresh continuation never exceed its budget, also
\* when passes die between claiming a read and reporting it: a claimed
\* ordinal is never refunded (continueFreshTypedPending).
FreshReadsWithinBudget ==
  ResourceBilling => \A i \in StageIdx : gets[i] <= FreshContinuationReadBudget(i)

\* A billed launch that is pending on a reserved stage its owner calls pending
\* always has someone entitled to read the owner again, an active fresh
\* continuation or an open operator authorization with reads left: every pass
\* that spends the last read parks the launch in the same write (CountReadback,
\* waitClaimedReplay, parkFreshTypedPending).  Only where the customer owns the
\* resources can the reset of a stage whose replay failed leave such a row,
\* which the guard of Reconcile then puts aside (EntryPutAside).
PendingIsAuthorized ==
  (ResourceBilling /\ op.status = "pending" /\ op.stage \in StageIdx) =>
    FreshActive(op) \/ ReadAllowed(op)

\* A confirmed stage stays confirmed, the cursor only moves forward and never
\* by more than one stage, and a finished launch stays finished,
\* whatever passes are still running (persist's compare-and-swap).
Monotone ==
  /\ \A i \in StageIdx : op.observations[i] = "ready" =>
       /\ op'.observations[i] = "ready"
       /\ op'.attempts[i].status = op.attempts[i].status
       /\ op'.attempts[i].attempted = op.attempts[i].attempted
  /\ op'.stage - op.stage \in {0, 1}
  /\ op.status = "succeeded" => op'.status = "succeeded"

ConfirmedIsFinal == [][Monotone]_vars

Spent(o, n) ==
  \/ \E g \in o.consumedAuthorizations : g.id = n
  \/ o.resumeAuthorization.id = n /\ o.authorizationConsumed

\* A consumed operator authorization is never live again: no stale pass can
\* bring back a budget that was already spent (consumeResumeAuthorization,
\* rotateResumeAuthorization).
GrantSpentOnce ==
  [][\A n \in 1..MaxGrants : Spent(op, n) =>
        ~(op'.resumeAuthorization.id = n /\ ~op'.authorizationConsumed)]_vars

\* A parked billed launch leaves manual review only by a new authorization or
\* by a Runtime repair, never by a worker's pass that was already under way
\* (the early return of Reconcile).
ParkedNeedsOperator ==
  [][(ResourceBilling /\ op.status = "manual_review" /\ op'.status # "manual_review") =>
       \/ op'.runtimeRepair /\ ~op.runtimeRepair
       \/ op'.resumeAuthorization.id \notin {g.id : g \in Grants(op)}]_vars

Promise == INSTANCE LaunchPromise WITH
  N <- Len(Stages), cursor <- op.stage, status <- op.status,
  reserved <- {i \in StageIdx : op.attempts[i].attempted = 1},
  requested <- {i \in StageIdx : Dispatches(i) \/ (repairs /\ Stages[i] = Runtime)},
  done <- {i \in StageIdx : world[i] = "ready" \/ Replacing(i)}

\* With resource billing the reconciler, all its passes together, implements
\* LaunchPromise: every write of the row and every call of an owner is one
\* step of that specification or none (persist, MutateStage,
\* RepairWorkspaceRuntime).
KeepsPromise == Promise!Spec

\* A launch does not stay pending: it ends, or an operator is asked to look
\* at it, though passes die and calls are lost (runWorkspaceLaunchesOnce and
\* the read and replay leases).
PendingSettles == op.status = "pending" ~> op.status # "pending"

-----------------------------------------------------------------------------
(* What the documents say and the code does not do.                        *)

\* docs/architecture.md 404-406: of the compute continuation, "exact
\* budget/deadline exhaustion enters `unknown/manual_review` without another
\* unproven external mutation"; the operator's Resume restores the attempt to
\* the same bounded continuation.  waitClaimedReplay closes an exhausted
\* claim as waiting, a row the store refuses.
DeadlineParks ==
  \A i \in StageIdx :
    (op.stage = i /\ op.status = "pending" /\ PendingDeadlineExpired(op.attempts[i]))
      ~> ~(op.stage = i /\ op.status = "pending")
=============================================================================
