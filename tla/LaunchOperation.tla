---------------------------- MODULE LaunchOperation ----------------------------
(***************************************************************************)
(* The durable record of one Workspace Launch, the row that                *)
(* services/control-plane/internal/server/workspace_launch_reconciler.go   *)
(* calls workspaceLaunchReconcileOperation: its shape, the pure functions  *)
(* the reconciler applies to it, and the rules a row must satisfy for      *)
(* decodeWorkspaceLaunchReconcileOperation to accept it.                   *)
(*                                                                         *)
(* Abstractions.  Facts (account, price, resource ids) are left out: no    *)
(* control decision of the reconciler depends on their value.  A stage is  *)
(* its position in Stages.  Attempt.Confirmed and Attempt.Unknown are not  *)
(* kept: the code sets them together with Attempt.Status.  The stage       *)
(* idempotency key is a function of the operation and the stage, so it is  *)
(* not kept either.  A lease or a deadline is kept as what its comparison  *)
(* with the clock gives.  Of the continuation read claims of a stage the   *)
(* last one is kept; all the earlier ones are completed.                   *)
(***************************************************************************)
EXTENDS Integers, Sequences, FiniteSets

CONSTANTS
  Stages,           \* the launch's stages, in the order they are performed
  ResourceBilling,  \* the operation's resourceBillingEnabled fact
  ReadBudget,       \* workspaceLaunchAuthoritativeReadBudget
  FreshReads,       \* workspaceLaunchFreshContinuationAdditionalReadBudget
  ComputeReads,     \* ...ComputeFreshContinuationAdditionalReadBudget
  MaxGrants         \* bound: operator authorizations issued for one launch

Key     == "key"
Debit   == "debit"
Compute == "ensure_compute_allocation"
Secret  == "secret"
Runtime == "runtime"
Receipt == "receipt"

FabricStages == {Compute, "storage", "attachment", Secret, Runtime}
StageNames   == FabricStages \cup {Key, Debit, "activation", Receipt}

ASSUME StagesAssumption ==
  /\ Stages \in Seq(StageNames)
  /\ Len(Stages) > 0
  /\ \A i, j \in 1..Len(Stages) : Stages[i] = Stages[j] => i = j
  /\ \A i \in 1..Len(Stages) : Stages[i] = Runtime => i < Len(Stages)

ASSUME BudgetAssumption ==
  /\ ResourceBilling \in BOOLEAN
  /\ ReadBudget \in Nat \ {0}
  /\ FreshReads \in Nat
  /\ ComputeReads \in Nat \ {0}
  /\ MaxGrants \in Nat

StageIdx  == 1..Len(Stages)
Succeeded == Len(Stages) + 1          \* the stage named "succeeded"
IsStage(i, name) == i \in StageIdx /\ Stages[i] = name

-----------------------------------------------------------------------------
(* The record.                                                             *)

AttemptStatus == {"", "reserved", "confirmed", "unknown"}
ObservationState == {"absent", "ownership_pending", "pending", "ready", "unknown"}
Clock == {"none", "live", "expired"}

Attempt == [attempted : {0, 1}, status : AttemptStatus, pendingReadbacks : Nat,
            maxPendingReadbacks : Nat, deadline : Clock]

Grant == [id : Nat, stage : Nat, mutation : {0, 1}, replay : {0, 1},
          reads : Nat, readbacks : Nat]
NoGrant == [id |-> 0, stage |-> 0, mutation |-> 0, replay |-> 0,
            reads |-> 0, readbacks |-> 0]

\* authorization 0 is the stage's own fresh continuation.
ReplayClaim == [status : {"none", "claimed", "waiting", "succeeded", "failed"},
                authorization : Nat, lease : Clock]
NoReplay == [status |-> "none", authorization |-> 0, lease |-> "none"]

ReadClaim == [status : {"none", "claimed", "pending", "ready", "failed", "expired"},
              lease : Clock]
NoRead == [status |-> "none", lease |-> "none"]

Operation ==
  [status       : {"pending", "manual_review", "succeeded"},
   stage        : 1..Succeeded,
   attempts     : [StageIdx -> Attempt],
   observations : [StageIdx -> ObservationState \cup {""}],
   resumeAuthorization : Grant,
   authorizationConsumed : BOOLEAN,
   consumedAuthorizations : SUBSET Grant,
   replayClaims : [StageIdx -> ReplayClaim],
   freshContinuations : [StageIdx -> {"none", "active", "consumed", "failed"}],
   readClaims   : [StageIdx -> ReadClaim],
   runtimeRepair : BOOLEAN]

newWorkspaceLaunchReconcileOperation ==
  [status       |-> "pending",
   stage        |-> 1,
   attempts     |-> [i \in StageIdx |-> [attempted |-> 0, status |-> "",
                       pendingReadbacks |-> 0, maxPendingReadbacks |-> 0,
                       deadline |-> "none"]],
   observations |-> [i \in StageIdx |-> ""],
   resumeAuthorization |-> NoGrant,
   authorizationConsumed |-> FALSE,
   consumedAuthorizations |-> {},
   replayClaims |-> [i \in StageIdx |-> NoReplay],
   freshContinuations |-> [i \in StageIdx |-> "none"],
   readClaims   |-> [i \in StageIdx |-> NoRead],
   runtimeRepair |-> FALSE]

-----------------------------------------------------------------------------
(* Budgets.                                                                *)

FreshContinuationReadBudget(i) ==
  IF Stages[i] = Compute THEN ComputeReads ELSE FreshReads

FreshContinuationReplayBudget(i) == IF Stages[i] = Compute THEN 1 ELSE 0

MaximumPersistedReadbacks(i) ==
  IF Stages[i] = Compute THEN ReadBudget + ComputeReads ELSE ReadBudget

PendingDeadline(i) == IF Stages[i] = Compute THEN "live" ELSE "none"

PendingDeadlineExpired(a) == a.deadline = "expired"

\* Slip: one more read than the budget.
ExhaustedLate(a) ==
  a.pendingReadbacks > a.maxPendingReadbacks \/ PendingDeadlineExpired(a)

Exhausted(a) ==
  a.pendingReadbacks >= a.maxPendingReadbacks \/ PendingDeadlineExpired(a)

-----------------------------------------------------------------------------
(* What the reconciler does to its working copy of the record.             *)

Att(o) == o.attempts[o.stage]
Obs(o) == o.observations[o.stage]
Replay(o) == o.replayClaims[o.stage]

SetAtt(o, a) == [o EXCEPT !.attempts[o.stage] = a]
SetObs(o, s) == [o EXCEPT !.observations[o.stage] = s]

HasGrant(o) == o.resumeAuthorization.id # 0
GrantActive(o) == HasGrant(o) /\ ~o.authorizationConsumed

consumeResumeAuthorization(o) ==
  [o EXCEPT !.authorizationConsumed = @ \/ HasGrant(o)]

rotateResumeAuthorization(o, g) ==
  [o EXCEPT !.consumedAuthorizations =
               IF HasGrant(o) THEN @ \cup {o.resumeAuthorization} ELSE @,
            !.resumeAuthorization = g,
            !.authorizationConsumed = FALSE]

completeIdempotentReplay(o, s) ==
  IF Replay(o).status \in {"claimed", "waiting"}
  THEN [o EXCEPT !.replayClaims[o.stage] = [@ EXCEPT !.status = s, !.lease = "none"]]
  ELSE o

advance(o) ==
  [o EXCEPT !.stage = o.stage + 1,
            !.status = IF o.stage + 1 = Succeeded THEN "succeeded" ELSE "pending"]

Confirmed(a) == [a EXCEPT !.status = "confirmed"]
Unknown(a)   == [a EXCEPT !.status = "unknown"]

\* The owner confirmed the current stage: its attempt and observation are
\* final, the authorizations that led here are used up, the cursor moves on.
ConfirmStage(o) ==
  advance(consumeResumeAuthorization(completeIdempotentReplay(
    SetObs(IF Att(o).attempted > 0 THEN SetAtt(o, Confirmed(Att(o))) ELSE o, "ready"),
    "succeeded")))

\* The current stage is handed to an operator.
ParkStage(o, a, s) ==
  [consumeResumeAuthorization(completeIdempotentReplay(
     SetObs(SetAtt(o, a), s), "failed")) EXCEPT !.status = "manual_review"]

idempotentReplayAuthorizationUsed(o) ==
  \/ Replay(o).status # "none"
  \/ \E g \in o.consumedAuthorizations \cup {o.resumeAuthorization} :
       g.stage = o.stage /\ g.replay = 1

ContinuationReadAuthorized(o) ==
  LET g == o.resumeAuthorization  a == Att(o) IN
  /\ GrantActive(o) /\ g.stage = o.stage /\ g.mutation = 0 /\ g.reads > 0
  /\ g.readbacks <= a.pendingReadbacks
  /\ g.readbacks + g.reads = a.maxPendingReadbacks
  /\ a.pendingReadbacks < a.maxPendingReadbacks

IdempotentReplayAuthorized(o) ==
  LET g == o.resumeAuthorization  a == Att(o) IN
  /\ GrantActive(o) /\ g.stage = o.stage /\ g.mutation = 0 /\ g.replay = 1
  /\ g.readbacks + g.reads = a.maxPendingReadbacks
  /\ a.attempted = 1 /\ a.status = "reserved"

FreshActive(o) == o.freshContinuations[o.stage] = "active"

-----------------------------------------------------------------------------
(* decodeWorkspaceLaunchReconcileOperation: the rules a row must satisfy.  *)
(* Every load decodes, and the store decodes the desired row before it     *)
(* accepts it, so a row that breaks a rule is never written.               *)

\* The authorization a replay claim names: found, consumed, and its budgets.
ClaimAuthorization(o, i) ==
  LET c == o.replayClaims[i]
      past == {g \in o.consumedAuthorizations : g.id = c.authorization}
  IN CASE c.authorization = 0 /\ o.freshContinuations[i] # "none" ->
            [found |-> TRUE, consumed |-> o.freshContinuations[i] # "active",
             stage |-> i, mutation |-> 0, replay |-> FreshContinuationReplayBudget(i),
             reads |-> FreshContinuationReadBudget(i)]
       [] c.authorization # 0 /\ o.resumeAuthorization.id = c.authorization ->
            [found |-> TRUE, consumed |-> o.authorizationConsumed,
             stage |-> o.resumeAuthorization.stage,
             mutation |-> o.resumeAuthorization.mutation,
             replay |-> o.resumeAuthorization.replay,
             reads |-> o.resumeAuthorization.reads]
       [] c.authorization # 0 /\ o.resumeAuthorization.id # c.authorization /\ past # {} ->
            LET g == CHOOSE g \in past : TRUE IN
            [found |-> TRUE, consumed |-> TRUE, stage |-> g.stage,
             mutation |-> g.mutation, replay |-> g.replay, reads |-> g.reads]
       [] OTHER -> [found |-> FALSE, consumed |-> FALSE, stage |-> 0,
                    mutation |-> 0, replay |-> 0, reads |-> 0]

\* Slip: a claim is accepted without looking up its authorization.
DecodesReplayClaimUnbacked(o, i) ==
  LET c == o.replayClaims[i] IN (c.status = "claimed") <=> (c.lease # "none")

DecodesReplayClaim(o, i) ==
  LET c == o.replayClaims[i]  g == ClaimAuthorization(o, i) IN
  c.status # "none" =>
    /\ g.found /\ g.stage = i /\ g.mutation = 0 /\ g.replay = 1
    /\ g.reads > 0 /\ g.reads <= MaximumPersistedReadbacks(i)
    /\ IF c.status \in {"claimed", "waiting"}
       THEN ~g.consumed /\ (c.authorization = 0 => o.stage = i)
       ELSE g.consumed
    /\ (c.status = "claimed") <=> (c.lease # "none")

DecodesFreshContinuation(o, i) ==
  LET f == o.freshContinuations[i]  a == o.attempts[i] IN
  f # "none" =>
    /\ a.attempted = 1
    /\ a.maxPendingReadbacks = 1 + FreshContinuationReadBudget(i)
    /\ a.pendingReadbacks >= 1
    /\ Stages[i] = Compute => a.deadline # "none"
    /\ f = "active" => /\ o.stage = i /\ o.status = "pending" /\ a.status = "reserved"
                       /\ o.observations[i] \in {"pending", "ownership_pending"}
    /\ f = "consumed" => a.status = "confirmed"
    /\ f = "failed" => /\ o.stage = i /\ o.status = "manual_review"
                       /\ a.status = "unknown" /\ o.observations[i] = "unknown"

DecodesReadClaim(o, i) ==
  LET f == o.freshContinuations[i]  c == o.readClaims[i] IN
  /\ c.status # "none" => f # "none"
  /\ c.status = "claimed" => f = "active"
  /\ c.status = "ready" => f = "consumed"
  /\ c.status = "failed" => f = "failed"
  /\ (c.status = "claimed") <=> (c.lease # "none")
  /\ (f # "none" /\ o.attempts[i].pendingReadbacks > 1) => c.status # "none"

DecodesAttempt(o, i) ==
  LET a == o.attempts[i] IN
  /\ a.status \in {"confirmed", "unknown"} => a.attempted = 1
  /\ a.maxPendingReadbacks <= MaximumPersistedReadbacks(i)
  /\ a.pendingReadbacks <= a.maxPendingReadbacks
  /\ a.deadline # "none" => Stages[i] = Compute
  /\ o.observations[i] = "ownership_pending" => Stages[i] = Compute

Decodes(o) ==
  /\ \A i \in StageIdx : /\ DecodesAttempt(o, i)
                         /\ DecodesReplayClaim(o, i)
                         /\ DecodesFreshContinuation(o, i)
                         /\ DecodesReadClaim(o, i)
  /\ \A g \in o.consumedAuthorizations : g.id # o.resumeAuthorization.id
  /\ o.authorizationConsumed => HasGrant(o)
  /\ (o.stage = Succeeded) <=> (o.status = "succeeded")

-----------------------------------------------------------------------------
(* What an operator may ask for: the resume route admits these budgets and *)
(* validWorkspaceLaunchResumeAuthorization these combinations.             *)

GrantsFor(o, n) ==
  LET budgets == IF Stages[o.stage] = Compute THEN {ReadBudget, ComputeReads}
                                              ELSE {ReadBudget}
  IN {[NoGrant EXCEPT !.id = n, !.stage = o.stage, !.mutation = 1]}
       \cup {[id |-> n, stage |-> o.stage, mutation |-> 0, replay |-> r,
              reads |-> b, readbacks |-> 0] : r \in {0, 1}, b \in budgets}

FailedComputeReplayReauthorizationEligible(o) ==
  LET c == Replay(o)  g == o.resumeAuthorization IN
  /\ c.status = "failed" /\ o.consumedAuthorizations = {}
  /\ HasGrant(o) /\ o.authorizationConsumed
  /\ c.authorization = g.id
  /\ g.stage = o.stage /\ g.mutation = 0 /\ g.replay = 1 /\ g.reads = ComputeReads

UnknownComputeContinuationEligible(o, g) ==
  /\ o.status = "manual_review" /\ ResourceBilling /\ IsStage(o.stage, Compute)
  /\ g.mutation = 0 /\ g.replay = 1 /\ g.reads = ComputeReads
  /\ Obs(o) = "unknown" /\ Att(o).attempted = 1 /\ Att(o).status = "unknown"
  /\ o.freshContinuations[o.stage] = "none"
  /\ ~idempotentReplayAuthorizationUsed(o) \/ FailedComputeReplayReauthorizationEligible(o)

UnknownRuntimeReadEligible(o, g) ==
  /\ o.status = "manual_review" /\ ResourceBilling /\ IsStage(o.stage, Runtime)
  /\ g.mutation = 0 /\ g.replay = 0 /\ g.reads = ReadBudget
  /\ Obs(o) = "unknown" /\ Att(o).attempted = 1 /\ Att(o).status = "unknown"

ReservedStageReplayEligible(o, g) ==
  /\ g.mutation = 0 /\ g.replay = 1 /\ g.reads > 0
  /\ Att(o).maxPendingReadbacks = Att(o).pendingReadbacks
  /\ Att(o).attempted = 1 /\ Att(o).status = "reserved"
  /\ ~idempotentReplayAuthorizationUsed(o)

ReservedStageReadEligible(o, g) ==
  /\ g.mutation = 0 /\ g.replay = 0 /\ g.reads > 0
  /\ Obs(o) = "pending" /\ Att(o).attempted = 1 /\ Att(o).status = "reserved"

\* workspaceLaunchRuntimeRepairEligible
RuntimeRepairEligible(o) ==
  /\ o.status = "manual_review" /\ IsStage(o.stage, Runtime) /\ ResourceBilling
  /\ \A i \in StageIdx : i < o.stage =>
       o.attempts[i].status = "confirmed" /\ o.observations[i] = "ready"
  /\ Att(o).attempted = 1 /\ Att(o).status = "unknown" /\ Obs(o) = "unknown"
  /\ \A i \in StageIdx : i > o.stage =>
       o.attempts[i].attempted = 0 /\ o.observations[i] = ""
  /\ o.freshContinuations[o.stage] \in {"none", "failed"}

=============================================================================
