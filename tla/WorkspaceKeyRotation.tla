-------------------------- MODULE WorkspaceKeyRotation --------------------------
(***************************************************************************)
(* The Gateway key of one Workspace: its rotation                           *)
(* (workspace.gateway_key.rotate, workspace_gateway.go) and the update of   *)
(* its budget (workspace.gateway_budget.update,                             *)
(* workspace_gateway_budget.go).                                            *)
(*                                                                         *)
(* A rotation disables the old key, waits until nothing runs on it, creates *)
(* a replacement with what is left of the budget, hands it to the Runtime,  *)
(* and only then retires and deletes the old key.  It is driven by the      *)
(* owner's requests: each one goes on from the stored phase.  A pass is cut *)
(* at every call of an owner and at every write; it may end anywhere (a     *)
(* read fails, the client goes away, the process dies), which is Abort.     *)
(*                                                                         *)
(* Control Plane is one process: claims and budget updates hold             *)
(* lockWorkspaceGatewayMutation, a pass holds the lock of its rotation, so  *)
(* no other pass writes its row.  Both locks are implicit in the guards.    *)
(***************************************************************************)
EXTENDS Integers, FiniteSets, Sequences

CONSTANTS
    Rotations,   \* rotation requests, told apart by their Idempotency-Key
    Budgets,     \* budget requests, told apart by their Idempotency-Key
    Requests,    \* what budget requests ask for, a subset of AllRequests
    LateCalls,   \* calls and budget requests that may take effect after their caller gave up
    LaunchKey,   \* the key the launch created
    None,        \* no key, no quota
    Quota,       \* quota of the launch key in units of usage; 0 is unlimited
    NewQuota,    \* the quota each budget request asks for
    MaxUses,     \* bound on the Gateway requests of the Runtime
    MaxLate      \* bound on the late calls of a behaviour

AllRequests == {"quota", "enable", "disable", "reset"}

ASSUME ConstantsAssumption ==
    /\ Requests \subseteq AllRequests /\ Budgets \cap Rotations = {}
    /\ LaunchKey \notin Rotations /\ None \notin Rotations /\ None # LaunchKey
    /\ Quota \in Nat /\ NewQuota \in [Budgets -> Nat] /\ MaxUses \in Nat /\ MaxLate \in Nat

VARIABLES
    row,       \* the stored rotations
    budget,    \* the stored budget updates
    key,       \* the keys at Sub2API
    wsKey,     \* workspaceApiKeyId of the Workspace
    secret,    \* the key in the Workspace's Gateway secret
    bound,     \* the key the Runtime's deployment names
    mounted,   \* the key the Runtime uses
    receipts,  \* rotations the Ledger has a receipt of
    pass,      \* the request each rotation is serving
    update,    \* the request each budget update is serving
    flight,    \* calls that may still take effect
    uses, late,
    disturbed  \* late budget calls that changed a key under rotation

vars == <<row, budget, key, wsKey, secret, bound, mounted, receipts, pass, update,
          flight, uses, late, disturbed>>
runtime == <<secret, bound, mounted>>
\* What only the bounds and the properties look at.
history == <<uses, late, disturbed>>

-----------------------------------------------------------------------------
(* The keys.  A replacement is named by the rotation that creates it.       *)

Keys == {LaunchKey} \cup Rotations

Live(k) == k \in Keys /\ key[k].life = "live"

Exhausted(k) == key[k].quota > 0 /\ key[k].used >= key[k].quota

\* The status Sub2API reports.
Status(k) == IF ~key[k].enabled THEN "disabled"
             ELSE IF Exhausted(k) THEN "quota_exhausted" ELSE "active"

Remaining(k) == IF key[k].quota = 0 THEN 0 ELSE key[k].quota - key[k].used

workspaceRotationBudgetTransferable(k) == ~Exhausted(k)

workspaceRotationInitialKeysValid(k) ==
    /\ Live(k) /\ Status(k) = "active" /\ key[k].name = "canonical"
    /\ \A other \in Keys \ {k} : Live(other) => key[other].name # "canonical"

workspaceRotationOldKeyMatches(k, status) ==
    Live(k) /\ Status(k) = status /\ key[k].name = "canonical"

workspaceRotationOldKeyAdmissible(k) ==
    workspaceRotationOldKeyMatches(k, "active") /\ workspaceRotationBudgetTransferable(k)

-----------------------------------------------------------------------------
(* The rows.                                                                *)

Phases == <<"replacement_check", "old_key_disable", "old_key_drain", "replacement_create",
            "replacement_policy_readback", "secret_write", "runtime_bind", "runtime_readback",
            "workspace_commit", "retire_old", "promote_new", "delete_old", "receipt",
            "complete", "succeeded">>

PhaseSet == {Phases[i] : i \in 1..Len(Phases)}

NoRotation == [status |-> "none", phase |-> "replacement_check", old |-> None,
               createStarted |-> FALSE, quota |-> None]

NoPass == [pc |-> "idle", old |-> None, quota |-> None]

NoBudget == [status |-> "none", key |-> None, request |-> "enable"]

OpenRotation(o) == row[o].status \in {"started", "manual_review"}
OpenBudget(b) == budget[b].status \in {"started", "manual_review"}

Next_(phase) == Phases[1 + CHOOSE i \in 1..Len(Phases) - 1 : Phases[i] = phase]

\* lockWorkspaceGatewayMutation is free.
MutationLockFree ==
    /\ \A o \in Rotations : pass[o].pc # "claim"
    /\ \A b \in Budgets : update[b] = "idle"

Old(o) == row[o].old

workspaceRotationReplacementStaticPolicyMatches(o) ==
    /\ Live(o) /\ key[o].quota = row[o].quota
    /\ Status(o) \in {"active", "quota_exhausted"}

workspaceRotationReplacementPolicyMatches(o) ==
    /\ workspaceRotationReplacementStaticPolicyMatches(o)
    /\ key[o].name = "replacement" /\ key[o].used = 0 /\ Status(o) = "active"

-----------------------------------------------------------------------------
(***************************************************************************)
(* The owners.  A call takes effect and is answered, takes effect without   *)
(* an answer, is lost, or takes effect later; its caller sees the first or  *)
(* an error.                                                                *)
(***************************************************************************)
Patched(b, request) ==
    [key EXCEPT ![budget[b].key] = CASE request = "quota" -> [@ EXCEPT !.quota = NewQuota[b]]
                                     [] request = "enable" -> [@ EXCEPT !.enabled = TRUE]
                                     [] request = "disable" -> [@ EXCEPT !.enabled = FALSE]
                                     [] request = "reset" -> [@ EXCEPT !.used = 0]]

\* What a call of rotation o does at Sub2API; a key that is gone stays as it is.
KeyEffect(call, o) ==
    CASE call = "disable" -> [key EXCEPT ![Old(o)].enabled = FALSE]
      [] call = "create" -> IF key[o].life # "absent" THEN key
                            ELSE [key EXCEPT ![o] = [@ EXCEPT !.life = "live",
                                     !.name = "replacement", !.enabled = TRUE,
                                     !.quota = row[o].quota]]
      [] call = "retire" -> [key EXCEPT ![Old(o)].name = "retired", ![Old(o)].enabled = FALSE]
      [] call = "promote" -> [key EXCEPT ![o].name = "canonical"]
      [] call = "delete" -> [key EXCEPT ![Old(o)].life = "deleted"]

Goto(o, pc) == pass' = [pass EXCEPT ![o].pc = pc]

End(o) == pass' = [pass EXCEPT ![o] = NoPass]

Giveup(o, call) ==
    /\ End(o)
    /\ \/ key' = KeyEffect(call, o) /\ UNCHANGED <<flight, late>>
       \/ UNCHANGED <<key, flight, late>>
       \/ /\ call \in LateCalls /\ late < MaxLate
          /\ late' = late + 1 /\ flight' = flight \cup {<<call, o>>} /\ UNCHANGED key

\* A call of Sub2API; `then` is where the pass goes when it is answered.
Call(o, call, then) ==
    /\ \/ key' = KeyEffect(call, o) /\ Goto(o, then) /\ UNCHANGED <<flight, late>>
       \/ Giveup(o, call)
    /\ UNCHANGED <<row, budget, wsKey, runtime, receipts, update, uses, disturbed>>

\* A late budget call that changes a key under rotation.
Disturbed(call, b) ==
    IF Patched(b, call) # key /\ \E o \in Rotations : OpenRotation(o) /\ Old(o) = budget[b].key
    THEN {<<call, budget[b].key>>} ELSE {}

\* A call whose caller has given up takes effect.
Deliver(call, o) ==
    /\ <<call, o>> \in flight
    /\ flight' = flight \ {<<call, o>>}
    /\ IF o \in Budgets
       THEN /\ key' = Patched(o, call)
            /\ disturbed' = disturbed \cup Disturbed(call, o)
       ELSE key' = KeyEffect(call, o) /\ UNCHANGED disturbed
    /\ UNCHANGED <<row, budget, wsKey, runtime, receipts, pass, update, uses, late>>

\* The Runtime starts a Gateway request with the key it uses; its cost is booked at the end.
Use ==
    /\ Live(mounted) /\ Status(mounted) = "active" /\ key[mounted].busy = 0 /\ uses < MaxUses
    /\ key' = [key EXCEPT ![mounted].busy = 1]
    /\ uses' = uses + 1
    /\ UNCHANGED <<row, budget, wsKey, runtime, receipts, pass, update, flight, late, disturbed>>

Used(k) ==
    /\ key[k].busy = 1
    /\ key' = [key EXCEPT ![k].busy = 0, ![k].used = @ + 1]
    /\ UNCHANGED <<row, budget, wsKey, runtime, receipts, pass, update, flight, history>>

\* The Runtime's volume follows the secret, some time after it was written or its deployment
\* was patched: no call of the rotation waits for it.
Refresh ==
    /\ mounted # secret
    /\ mounted' = secret
    /\ UNCHANGED <<row, budget, key, wsKey, secret, bound, receipts, pass, update, flight, history>>

-----------------------------------------------------------------------------
(* rotateWorkspaceGatewayKey: the request and the claim.                    *)

Request(o) ==
    /\ pass[o].pc = "idle" /\ row[o].status # "succeeded"
    /\ pass' = [pass EXCEPT ![o] = [pc |-> "enter", old |-> wsKey, quota |-> None]]
    /\ UNCHANGED <<row, budget, key, wsKey, runtime, receipts, update, flight, history>>

\* workspaceKeyRotation: the rotation exists, the pass goes on from its phase.
Resume(o) ==
    /\ pass[o].pc = "enter" /\ OpenRotation(o) /\ MutationLockFree
    /\ Goto(o, "run")
    /\ UNCHANGED <<row, budget, key, wsKey, runtime, receipts, update, flight, history>>

ClaimAdmitted(o) ==
    /\ \A b \in Budgets : ~OpenBudget(b)
    /\ \A other \in Rotations : ~OpenRotation(other)
    /\ workspaceRotationInitialKeysValid(pass[o].old)
    /\ workspaceRotationOldKeyAdmissible(pass[o].old)

\* claimWorkspaceKeyRotation up to the store: the rows and the old key are read.
Admit(o) ==
    /\ pass[o].pc = "enter" /\ row[o].status = "none" /\ MutationLockFree
    /\ IF ClaimAdmitted(o) THEN Goto(o, "claim") ELSE End(o)
    /\ UNCHANGED <<row, budget, key, wsKey, runtime, receipts, update, flight, history>>

\* ClaimWorkspaceKeyRotation.
Claim(o) ==
    /\ pass[o].pc = "claim"
    /\ IF wsKey = pass[o].old /\ \A other \in Rotations : ~OpenRotation(other)
       THEN /\ row' = [row EXCEPT ![o] = [NoRotation EXCEPT !.status = "started", !.old = wsKey]]
            /\ Goto(o, "run")
       ELSE End(o) /\ UNCHANGED row
    /\ UNCHANGED <<budget, key, wsKey, runtime, receipts, update, flight, history>>

-----------------------------------------------------------------------------
(* runWorkspaceKeyRotation.                                                 *)

At(o, phase) == pass[o].pc = "run" /\ row[o].phase = phase

\* A read of the owners: its answer lets the pass write the next phase, or is a conflict.
Read(o, good) ==
    /\ Goto(o, IF good THEN "advance" ELSE "park")
    /\ UNCHANGED <<row, budget, key, wsKey, runtime, receipts, update, flight, history>>

\* persistWorkspaceKeyRotation with the next phase.
Advance(o) ==
    /\ pass[o].pc = "advance"
    /\ row' = [row EXCEPT ![o].phase = Next_(@), ![o].status = "started"]
    /\ Goto(o, "run")
    /\ UNCHANGED <<budget, key, wsKey, runtime, receipts, update, flight, history>>

\* A conflict ends the pass and leaves the row in manual_review, from where a request goes on.
Park(o) ==
    /\ pass[o].pc = "park"
    /\ row' = [row EXCEPT ![o].status = "manual_review"]
    /\ End(o)
    /\ UNCHANGED <<budget, key, wsKey, runtime, receipts, update, flight, history>>

\* A read failed, the client went away or the process died: nothing is written.
Abort(o) ==
    /\ pass[o].pc # "idle"
    /\ End(o)
    /\ UNCHANGED <<row, budget, key, wsKey, runtime, receipts, update, flight, history>>

ReplacementCheck(o) ==
    /\ At(o, "replacement_check")
    /\ Read(o, workspaceRotationInitialKeysValid(Old(o)) /\ workspaceRotationOldKeyAdmissible(Old(o)))

\* Phase old_key_disable: an active key is disabled and read again.
OldKeyDisable(o) ==
    /\ At(o, "old_key_disable")
    /\ \/ workspaceRotationOldKeyMatches(Old(o), "active") /\ Call(o, "disable", "read_disabled")
       \/ ~workspaceRotationOldKeyMatches(Old(o), "active")
          /\ Read(o, workspaceRotationOldKeyMatches(Old(o), "disabled"))

OldKeyDisabled(o) ==
    /\ pass[o].pc = "read_disabled"
    /\ Read(o, workspaceRotationOldKeyMatches(Old(o), "disabled"))

\* Mutant of Drained: the requests under way are not looked at.
DrainedAssumed(o) == TRUE

Drained(o) == key[Old(o)].busy = 0

\* Phase old_key_drain: a busy key ends the pass; otherwise the budget is captured.
OldKeyDrain(o) ==
    /\ At(o, "old_key_drain")
    /\ \/ /\ ~workspaceRotationOldKeyMatches(Old(o), "disabled")
          /\ Goto(o, "park")
       \/ /\ workspaceRotationOldKeyMatches(Old(o), "disabled") /\ ~Drained(o)
          /\ End(o)
       \/ /\ workspaceRotationOldKeyMatches(Old(o), "disabled") /\ Drained(o)
          /\ IF workspaceRotationBudgetTransferable(Old(o))
             THEN pass' = [pass EXCEPT ![o].pc = "capture", ![o].quota = Remaining(Old(o))]
             ELSE Goto(o, "park")
    /\ UNCHANGED <<row, budget, key, wsKey, runtime, receipts, update, flight, history>>

\* The budget snapshot and the next phase are one write.
Capture(o) ==
    /\ pass[o].pc = "capture"
    /\ row' = [row EXCEPT ![o] = [@ EXCEPT !.phase = "replacement_create", !.status = "started",
                                           !.quota = pass[o].quota]]
    /\ Goto(o, "run")
    /\ UNCHANGED <<budget, key, wsKey, runtime, receipts, update, flight, history>>

ReplacementFound(o) == Live(o) /\ key[o].name = "replacement"

\* Phase replacement_create: a key of that name is taken if this rotation has asked for it.
ReplacementLookup(o) ==
    /\ At(o, "replacement_create")
    /\ IF ReplacementFound(o)
       THEN Goto(o, IF row[o].createStarted /\ workspaceRotationReplacementPolicyMatches(o)
                    THEN "advance" ELSE "park")
       ELSE Goto(o, IF row[o].createStarted THEN "create" ELSE "mark")
    /\ UNCHANGED <<row, budget, key, wsKey, runtime, receipts, update, flight, history>>

\* ReplacementCreateStarted is stored before the key is asked for.
MarkCreate(o) ==
    /\ pass[o].pc = "mark"
    /\ row' = [row EXCEPT ![o].createStarted = TRUE, ![o].status = "started"]
    /\ Goto(o, "create")
    /\ UNCHANGED <<budget, key, wsKey, runtime, receipts, update, flight, history>>

CreateReplacement(o) == pass[o].pc = "create" /\ Call(o, "create", "created")

ReplacementCreated(o) ==
    /\ pass[o].pc = "created"
    /\ Read(o, workspaceRotationReplacementPolicyMatches(o))

ReplacementPolicyReadback(o) ==
    /\ At(o, "replacement_policy_readback")
    /\ Read(o, workspaceRotationReplacementPolicyMatches(o))

\* SyncWorkspaceGatewayReplacementSecret: a key that is not an active replacement is refused.
SecretWrite(o) ==
    /\ At(o, "secret_write")
    /\ \/ /\ ReplacementFound(o) /\ Status(o) = "active"
          /\ secret' = o
          /\ (Goto(o, "advance") \/ End(o))
       \/ ~(ReplacementFound(o) /\ Status(o) = "active") /\ End(o) /\ UNCHANGED secret
    /\ UNCHANGED <<row, budget, key, wsKey, bound, mounted, receipts, update, flight, history>>

\* BindWorkspaceRuntimeGatewaySecret: the deployment is patched, or not, and its
\* specification is read; the Runtime follows in its own time.
RuntimeBind(o) ==
    /\ At(o, "runtime_bind")
    /\ \/ bound' = o /\ (Goto(o, "read_bound") \/ End(o))
       \/ UNCHANGED bound /\ End(o)
    /\ UNCHANGED <<row, budget, key, wsKey, secret, mounted, receipts, update, flight, history>>

RuntimeBound(o) == pass[o].pc = "read_bound" /\ Read(o, bound = o)

RuntimeReadback(o) == At(o, "runtime_readback") /\ Read(o, bound = o)

\* Mutant of WorkspaceCommit: a write that failed counts as done.
WorkspaceCommitAssumed(o) ==
    /\ At(o, "workspace_commit")
    /\ (wsKey' = o \/ UNCHANGED wsKey) /\ Goto(o, "advance")
    /\ UNCHANGED <<row, budget, key, runtime, receipts, update, flight, history>>

\* CompareAndSwapWorkspaceAPIKey.
WorkspaceCommit(o) ==
    /\ At(o, "workspace_commit")
    /\ \/ /\ wsKey \in {o, Old(o)}
          /\ wsKey' = o
          /\ (Goto(o, "advance") \/ End(o))
       \/ wsKey \notin {o, Old(o)} /\ Goto(o, "park") /\ UNCHANGED wsKey
    /\ UNCHANGED <<row, budget, key, runtime, receipts, update, flight, history>>

Retired(o) == Live(Old(o)) /\ key[Old(o)].name = "retired" /\ Status(Old(o)) = "disabled"

RetireOld(o) ==
    /\ At(o, "retire_old") /\ Live(Old(o))
    /\ \/ Retired(o) /\ Read(o, TRUE)
       \/ /\ ~Retired(o) /\ workspaceRotationOldKeyMatches(Old(o), "disabled")
          /\ Call(o, "retire", "read_retired")
       \/ ~Retired(o) /\ ~workspaceRotationOldKeyMatches(Old(o), "disabled") /\ Read(o, FALSE)

OldRetired(o) == pass[o].pc = "read_retired" /\ Read(o, Retired(o))

Promoted(o) == key[o].name = "canonical" /\ workspaceRotationReplacementStaticPolicyMatches(o)

PromoteNew(o) ==
    /\ At(o, "promote_new") /\ Live(o)
    /\ \/ Promoted(o) /\ Read(o, TRUE)
       \/ /\ ReplacementFound(o) /\ workspaceRotationReplacementStaticPolicyMatches(o)
          /\ Call(o, "promote", "read_promoted")
       \/ /\ ~Promoted(o)
          /\ ~(ReplacementFound(o) /\ workspaceRotationReplacementStaticPolicyMatches(o))
          /\ Read(o, FALSE)

NewPromoted(o) == pass[o].pc = "read_promoted" /\ Read(o, Promoted(o))

\* Phase delete_old: a key that is gone needs no call.
DeleteOld(o) ==
    /\ At(o, "delete_old")
    /\ \/ ~Live(Old(o)) /\ Read(o, TRUE)
       \/ Live(Old(o)) /\ Retired(o) /\ Call(o, "delete", "read_deleted")
       \/ Live(Old(o)) /\ ~Retired(o) /\ Read(o, FALSE)

\* Only "not found" lets the rotation go on; anything else ends the pass.
OldDeleted(o) ==
    /\ pass[o].pc = "read_deleted"
    /\ IF Live(Old(o)) THEN End(o) ELSE Goto(o, "advance")
    /\ UNCHANGED <<row, budget, key, wsKey, runtime, receipts, update, flight, history>>

\* Mutant of Receipt: an answer that never came counts as recorded.
ReceiptAssumed(o) ==
    /\ At(o, "receipt")
    /\ (receipts' = receipts \cup {o} \/ UNCHANGED receipts)
    /\ Goto(o, "advance")
    /\ UNCHANGED <<row, budget, key, wsKey, runtime, update, flight, history>>

Receipt(o) ==
    /\ At(o, "receipt")
    /\ receipts' = receipts \cup {o}
    /\ (Goto(o, "advance") \/ End(o))
    /\ UNCHANGED <<row, budget, key, wsKey, runtime, update, flight, history>>

workspaceKeyRotationConverged(o) ==
    /\ ~Live(Old(o)) /\ Promoted(o)
    /\ \A k \in Keys \ {o} : Live(k) => key[k].name # "canonical"
    /\ wsKey = o /\ bound = o

\* Phase complete: the audit and the row are written; the pass answers.
Complete(o) ==
    /\ At(o, "complete")
    /\ IF workspaceKeyRotationConverged(o)
       THEN /\ row' = [row EXCEPT ![o].phase = "succeeded", ![o].status = "succeeded"]
            /\ End(o)
       ELSE Goto(o, "park") /\ UNCHANGED row
    /\ UNCHANGED <<budget, key, wsKey, runtime, receipts, update, flight, history>>

-----------------------------------------------------------------------------
(***************************************************************************)
(* updateWorkspaceGatewayBudget.  The lock is held from the first read to    *)
(* the answer; the row is stored before Sub2API is called, and an uncertain *)
(* write is only ever read back.                                            *)
(***************************************************************************)
workspaceGatewayBudgetPolicyMatches(b) ==
    LET k == budget[b].key request == budget[b].request IN
    /\ Live(k)
    /\ request = "quota" => key[k].quota = NewQuota[b]
    /\ request = "enable" => Status(k) = "active"
    /\ request = "disable" => Status(k) = "disabled"

workspaceGatewayBudgetResetMatches(b) ==
    budget[b].request = "reset" => key[budget[b].key].used = 0

\* Mutant of MutationAdmitted: rotations are not looked at.
MutationAdmittedBesideRotation == \A b \in Budgets : ~OpenBudget(b)

\* admitWorkspaceGatewayBudgetMutation.
MutationAdmitted ==
    /\ \A o \in Rotations : ~OpenRotation(o)
    /\ \A b \in Budgets : ~OpenBudget(b)

BudgetAdmit(b, request) ==
    /\ MutationLockFree /\ budget[b].status = "none" /\ MutationAdmitted /\ Live(wsKey)
    /\ budget' = [budget EXCEPT ![b] = [status |-> "started", key |-> wsKey, request |-> request]]
    /\ update' = [update EXCEPT ![b] = "patch"]
    /\ UNCHANGED <<row, key, wsKey, runtime, receipts, pass, flight, history>>

\* The answer, or its absence, only matters to a reset: both are followed by a read.
BudgetPatch(b) ==
    /\ update[b] = "patch"
    /\ \/ /\ key' = Patched(b, budget[b].request)
          /\ update' = [update EXCEPT ![b] = "answered"] /\ UNCHANGED <<flight, late>>
       \/ /\ update' = [update EXCEPT ![b] = "unanswered"]
          /\ \/ key' = Patched(b, budget[b].request) /\ UNCHANGED <<flight, late>>
             \/ UNCHANGED <<key, flight, late>>
             \/ /\ budget[b].request \in LateCalls /\ late < MaxLate /\ late' = late + 1
                /\ flight' = flight \cup {<<budget[b].request, b>>} /\ UNCHANGED key
    /\ UNCHANGED <<row, budget, wsKey, runtime, receipts, pass, uses, disturbed>>

\* workspaceGatewayBudgetWriteProved.
WriteProved(b) ==
    /\ workspaceGatewayBudgetPolicyMatches(b)
    /\ workspaceGatewayBudgetResetMatches(b) \/ update[b] = "answered"

\* The readback closes the update, or parks it; a read that fails parks it too.
BudgetRead(b) ==
    /\ update[b] \in {"answered", "unanswered"}
    /\ budget' = [budget EXCEPT ![b].status = IF WriteProved(b) THEN "succeeded" ELSE "manual_review"]
    /\ update' = [update EXCEPT ![b] = "idle"]
    /\ UNCHANGED <<row, key, wsKey, runtime, receipts, pass, flight, history>>

BudgetUnread(b) ==
    /\ update[b] \in {"answered", "unanswered"}
    /\ budget' = [budget EXCEPT ![b].status = "manual_review"]
    /\ update' = [update EXCEPT ![b] = "idle"]
    /\ UNCHANGED <<row, key, wsKey, runtime, receipts, pass, flight, history>>

BudgetAbort(b) ==
    /\ update[b] # "idle"
    /\ update' = [update EXCEPT ![b] = "idle"]
    /\ UNCHANGED <<row, budget, key, wsKey, runtime, receipts, pass, flight, history>>

\* replayWorkspaceGatewayBudget: the same request again only reads.
BudgetReplay(b) ==
    /\ MutationLockFree /\ OpenBudget(b) /\ budget[b].key = wsKey
    /\ workspaceGatewayBudgetPolicyMatches(b) /\ workspaceGatewayBudgetResetMatches(b)
    /\ budget' = [budget EXCEPT ![b].status = "succeeded"]
    /\ UNCHANGED <<row, key, wsKey, runtime, receipts, pass, update, flight, history>>

-----------------------------------------------------------------------------
NoKey == [life |-> "absent", name |-> "replacement", enabled |-> FALSE, quota |-> 0,
          used |-> 0, busy |-> 0]

Init ==
    /\ row = [o \in Rotations |-> NoRotation]
    /\ budget = [b \in Budgets |-> NoBudget]
    /\ key = [k \in Keys |-> IF k = LaunchKey
                             THEN [NoKey EXCEPT !.life = "live", !.name = "canonical",
                                                !.enabled = TRUE, !.quota = Quota]
                             ELSE NoKey]
    /\ wsKey = LaunchKey /\ secret = LaunchKey /\ bound = LaunchKey /\ mounted = LaunchKey
    /\ receipts = {} /\ flight = {} /\ uses = 0 /\ late = 0 /\ disturbed = {}
    /\ pass = [o \in Rotations |-> NoPass]
    /\ update = [b \in Budgets |-> "idle"]

RotationStep(o) ==
    \/ Request(o) \/ Resume(o) \/ Admit(o) \/ Claim(o) \/ Advance(o) \/ Park(o) \/ Abort(o)
    \/ ReplacementCheck(o) \/ OldKeyDisable(o) \/ OldKeyDisabled(o) \/ OldKeyDrain(o) \/ Capture(o)
    \/ ReplacementLookup(o) \/ MarkCreate(o) \/ CreateReplacement(o) \/ ReplacementCreated(o)
    \/ ReplacementPolicyReadback(o) \/ SecretWrite(o) \/ RuntimeBind(o) \/ RuntimeBound(o)
    \/ RuntimeReadback(o)
    \/ WorkspaceCommit(o) \/ RetireOld(o) \/ OldRetired(o) \/ PromoteNew(o) \/ NewPromoted(o)
    \/ DeleteOld(o) \/ OldDeleted(o) \/ Receipt(o) \/ Complete(o)

BudgetStep(b) ==
    \/ \E request \in Requests : BudgetAdmit(b, request)
    \/ BudgetPatch(b) \/ BudgetRead(b) \/ BudgetUnread(b) \/ BudgetAbort(b) \/ BudgetReplay(b)

Next ==
    \/ \E o \in Rotations : RotationStep(o)
    \/ \E b \in Budgets : BudgetStep(b)
    \/ \E call \in LateCalls, o \in Rotations \cup Budgets : Deliver(call, o)
    \/ Use \/ Refresh \/ \E k \in Keys : Used(k)

Spec == Init /\ [][Next]_vars

-----------------------------------------------------------------------------
(* Properties.                                                              *)

\* The variables keep their types.
TypeOK ==
    /\ row \in [Rotations -> [status : {"none", "started", "manual_review", "succeeded"},
                              phase : PhaseSet, old : Keys \cup {None},
                              createStarted : BOOLEAN, quota : Nat \cup {None}]]
    /\ \A o \in Rotations : (row[o].status = "succeeded") <=> (row[o].phase = "succeeded")
    /\ budget \in [Budgets -> [status : {"none", "started", "manual_review", "succeeded"},
                               key : Keys \cup {None}, request : AllRequests]]
    /\ key \in [Keys -> [life : {"absent", "live", "deleted"}, enabled : BOOLEAN,
                         name : {"canonical", "replacement", "retired"},
                         quota : Nat, used : Nat, busy : 0..1]]
    /\ wsKey \in Keys /\ secret \in Keys /\ bound \in Keys /\ mounted \in Keys
    /\ receipts \subseteq Rotations /\ disturbed \subseteq AllRequests \X Keys

\* Never do two keys of the Workspace take requests: the old key is off before its
\* replacement exists, and stays off until it is deleted, unless an enabling budget update
\* that was closed by its readback takes effect in between.
OneSpendableKey ==
    Cardinality({k \in Keys : Live(k) /\ key[k].enabled /\ <<"enable", k>> \notin disturbed}) <= 1

\* The replacement gets what the old key had left, and nothing is spent at the old key once
\* that was read: a rotation neither gives budget away nor takes it, unless a budget
\* update that was closed by its readback changes the old key in between.
BudgetCarriedOver ==
    \A o \in Rotations : row[o].quota # None =>
        /\ Live(Old(o)) /\ <<"enable", Old(o)>> \notin disturbed => key[Old(o)].busy = 0
        /\ Live(Old(o)) /\ ({"enable", "reset", "quota"} \X {Old(o)}) \cap disturbed = {} =>
               Remaining(Old(o)) = row[o].quota
        /\ OpenRotation(o) /\ Live(o) => key[o].quota = row[o].quota

\* Whatever was interrupted, the key the Workspace names, the key in the secret and the key
\* its deployment names exist: the old key is deleted when none of them names it any more,
\* and the replacement is there before the first of them does.
KeyOutlivesUse == Live(wsKey) /\ Live(secret) /\ Live(bound)

\* A rotation that answered success has left one key: the Workspace, the secret and the
\* deployment agree on it, it has the canonical name, the Ledger has the receipt.
SucceededConverged ==
    (\A o \in Rotations : ~OpenRotation(o)) =>
        /\ {k \in Keys : Live(k)} = {wsKey} /\ key[wsKey].name = "canonical"
        /\ secret = wsKey /\ bound = wsKey
        /\ wsKey \in receipts \cup {LaunchKey}
=============================================================================
