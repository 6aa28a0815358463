-------------------------- MODULE FabricLaunchStage --------------------------
(***************************************************************************)
(* Fabric's storage stage of a Workspace Launch: the stage row that        *)
(* EnsureWorkspaceLaunchStage claims and ReadWorkspaceLaunchStage          *)
(* converges, and under it the journal of provider mutations that the      *)
(* Tencent adapter keeps, one child row for the disk and one for the       *)
(* static Kubernetes binding of it.                                        *)
(*                                                                         *)
(* A caller is one HTTP request that Fabric serves.  Requests overlap:     *)
(* Control Plane gives up on a slow one and sends another, and every store *)
(* write is a conditional UPDATE against what the request read earlier.    *)
(* Provider calls may be lost, refused, or take effect after the request   *)
(* that sent them is gone.                                                 *)
(*                                                                         *)
(* StartedAt of the stage row is the number of its claim, LeaseExpiresAt   *)
(* of a replay epoch the number of its lease; both are times in the code   *)
(* and differ whenever these numbers do.                                   *)
(***************************************************************************)
EXTENDS Naturals, FiniteSets

CONSTANTS
    Callers,     \* requests that Fabric can be serving at one time
    MaxClaims,   \* how often the stage row is claimed
    MaxLeases,   \* replay leases granted in all, over both mutations
    LateCalls    \* the mutations whose calls may take effect late

ASSUME ConstantsAssumption ==
    /\ IsFiniteSet(Callers)
    /\ MaxClaims \in Nat \ {0}
    /\ MaxLeases \in Nat
    /\ LateCalls \subseteq {"disk", "binding"}

VARIABLES
    row,      \* the stage row: its status and the claim it belongs to
    child,    \* the row of each provider mutation and its replay epoch
    leases,   \* replay leases granted so far for each mutation
    over,     \* how many of them have run out
    world,    \* what the provider has of each resource
    late,     \* mutations a call of which may still take effect
    work      \* where each request is and what it has read

vars == <<row, child, leases, over, world, late, work>>

Mutations == {"disk", "binding"}
Statuses == {"none", "started", "failed", "succeeded"}
EpochStates == {"none", "leased", "awaiting_readback", "succeeded", "blocked"}

\* providerMutationReplayEpoch: the lease tells two epochs of a row apart.
Epochs == [state: EpochStates, lease: 0..MaxLeases, dispatched: BOOLEAN]
NoEpoch == [state |-> "none", lease |-> 0, dispatched |-> FALSE]

Rows == [status: Statuses, claim: 0..MaxClaims]
Children == [status: Statuses, epoch: Epochs]
NoChild == [status |-> "none", epoch |-> NoEpoch]

Reading == {"look", "readback", "read"}
Places == Reading \cup {"idle", "claim", "begin", "examine", "leased",
                        "dispatch", "complete", "finish", "fail"}

\* A request: its place, the stage row it holds, the mutation it is at, the
\* child row it holds (providerMutationAttempt), and whether the call went well.
Idle == [at |-> "idle", op |-> [status |-> "none", claim |-> 0], m |-> "disk",
         a |-> NoChild, fresh |-> FALSE, replay |-> FALSE, ok |-> FALSE]

Works == [at: Places, op: Rows, m: Mutations, a: Children, fresh: BOOLEAN,
          replay: BOOLEAN, ok: BOOLEAN]

Init ==
    /\ row = [status |-> "none", claim |-> 0]
    /\ child = [m \in Mutations |-> NoChild]
    /\ leases = [m \in Mutations |-> 0]
    /\ over = [m \in Mutations |-> 0]
    /\ world = [m \in Mutations |-> "absent"]
    /\ late = {}
    /\ work = [c \in Callers |-> Idle]

Goes(c, w) == work' = [work EXCEPT ![c] = w]

\* The request goes on at a place that needs only the stage row it holds.
Moves(c, at) == Goes(c, [Idle EXCEPT !.op = work[c].op, !.at = at])

-----------------------------------------------------------------------------
(* The operation store *)

\* Mutant of RowCurrent: only the claim is compared.
RowCurrentAnyStatus(op) == row.claim = op.claim

\* SaveRuntime, on the stage row: the row must still be started and of the
\* claim the request holds.
RowCurrent(op) == row.status = "started" /\ row.claim = op.claim

\* ConvergeRuntimeReadback, on the stage row: the row must be the one read.
RowUnchanged(op) == op.status \in {"started", "failed"} /\ row = op

\* Mutant of PersistAccepted: every result goes through SaveRuntime.
PersistAcceptedStarted(op) == RowCurrent(op)

\* persistWorkspaceLaunchStageResult: which of the two writes, and when it is
\* accepted.
PersistAccepted(op) ==
    IF op.status = "started" THEN RowCurrent(op) ELSE RowUnchanged(op)

\* SaveRuntime, on a child row: only the status and StartedAt are compared,
\* and a child row keeps its StartedAt; the payload, and with it the epoch, is
\* the one the request holds.
ChildCurrent(m) == child[m].status = "started"

\* The writes that compare the whole child row.
ChildUnchanged(m, a) == child[m] = a

Writes(m, c) == child' = [child EXCEPT ![m] = c]

-----------------------------------------------------------------------------
(* EnsureWorkspaceLaunchStage and ReadWorkspaceLaunchStage *)

\* Ensure looks the row up; a failed one is read before it is claimed again.
StartEnsure(c) ==
    /\ work[c].at = "idle"
    /\ Goes(c, IF row.status = "failed" THEN [Idle EXCEPT !.op = row, !.at = "look"]
                                        ELSE [Idle EXCEPT !.at = "claim"])
    /\ UNCHANGED <<row, child, leases, over, world, late>>

\* The read route: without a row it answers absent.
StartRead(c) ==
    /\ work[c].at = "idle"
    /\ row.status # "none"
    /\ Goes(c, [Idle EXCEPT !.op = row, !.at = "read"])
    /\ UNCHANGED <<row, child, leases, over, world, late>>

\* A row that is not succeeded has no provider state: the adapter finds the
\* volume in the child row of the disk, and without one the read is an error.
Readable(op) == op.status = "succeeded" \/ child["disk"].status # "none"

Ready == \A m \in Mutations : world[m] = "ready"

\* The disk is read first, then the binding.
ReadsAbsent ==
    \/ world["disk"] = "absent"
    \/ world["disk"] = "ready" /\ world["binding"] = "absent"

\* readWorkspaceLaunchStage finds everything ready and converges the row.
ReadReady(c) ==
    LET op == work[c].op IN
    /\ work[c].at \in Reading
    /\ Readable(op)
    /\ Ready
    /\ row' = IF op.status # "succeeded" /\ PersistAccepted(op)
              THEN [row EXCEPT !.status = "succeeded"] ELSE row
    /\ Goes(c, Idle)
    /\ UNCHANGED <<child, leases, over, world, late>>

\* workspaceLaunchStageMayContinueEnsure: an Ensure goes on from a resource
\* that is absent under a row that is not succeeded.
ReadAbsent(c) ==
    LET w == work[c] IN
    /\ w.at \in Reading
    /\ Readable(w.op)
    /\ ReadsAbsent
    /\ Goes(c, CASE w.op.status = "succeeded" -> Idle
                 [] w.at = "look" -> [Idle EXCEPT !.at = "claim"]
                 [] w.at = "readback" -> [w EXCEPT !.at = "begin"]
                 [] OTHER -> Idle)
    /\ UNCHANGED <<row, child, leases, over, world, late>>

\* Not ready yet, not readable, or the provider does not answer: the request
\* ends with what it saw.
ReadEnds(c) ==
    /\ work[c].at \in Reading
    /\ Goes(c, Idle)
    /\ UNCHANGED <<row, child, leases, over, world, late>>

\* ClaimRuntime: a missing row is inserted, a failed one started again with a
\* new StartedAt; anything else is only returned.
ClaimRuntime(c) ==
    /\ work[c].at = "claim"
    /\ IF row.status \in {"none", "failed"}
       THEN row' = [status |-> "started", claim |-> row.claim + 1]
       ELSE UNCHANGED row
    /\ row'.claim <= MaxClaims
    /\ Goes(c, [work[c] EXCEPT !.op = row',
                               !.at = IF row' = row THEN "readback" ELSE "begin"])
    /\ UNCHANGED <<child, leases, over, world, late>>

\* Mutant of Finish: the created volume is taken for a ready one.
FinishUnread(c) ==
    /\ work[c].at = "finish"
    /\ row' = IF PersistAccepted(work[c].op) THEN [row EXCEPT !.status = "succeeded"] ELSE row
    /\ Goes(c, Idle)
    /\ UNCHANGED <<child, leases, over, world, late>>

\* The provider's answer is checked once more: everything must read ready
\* before the row is persisted; a row that another request has persisted is
\* accepted, any other refusal is an error that leaves the row alone.
Finish(c) ==
    /\ work[c].at = "finish"
    /\ Ready
    /\ row' = IF PersistAccepted(work[c].op) THEN [row EXCEPT !.status = "succeeded"] ELSE row
    /\ Goes(c, Idle)
    /\ UNCHANGED <<child, leases, over, world, late>>

\* Not ready, or not readable: ErrWorkspaceLaunchUnavailable.
FinishUnavailable(c) ==
    /\ work[c].at = "finish"
    /\ Moves(c, "fail")
    /\ UNCHANGED <<row, child, leases, over, world, late>>

\* failWorkspaceLaunchStage: a row the request did not hold as started is left.
FailStage(c) ==
    LET op == work[c].op IN
    /\ work[c].at = "fail"
    /\ row' = IF op.status = "started" /\ RowCurrent(op)
              THEN [row EXCEPT !.status = "failed"] ELSE row
    /\ Goes(c, Idle)
    /\ UNCHANGED <<child, leases, over, world, late>>

-----------------------------------------------------------------------------
(* CreateStorageVolume over the journal of provider mutations *)

\* Mutant of Begin: the append does not find the row of another request.
BeginOverwrites(c) ==
    LET w == work[c] IN
    /\ w.at = "begin"
    /\ IF child[w.m].status # "succeeded"
       THEN /\ Writes(w.m, [status |-> "started", epoch |-> NoEpoch])
            /\ Goes(c, [w EXCEPT !.a = child'[w.m], !.fresh = TRUE, !.at = "dispatch"])
       ELSE /\ UNCHANGED child
            /\ Goes(c, [w EXCEPT !.a = child[w.m], !.at = "examine"])
    /\ UNCHANGED <<row, leases, over, world, late>>

\* beginProviderMutationWithState: the request that appends the child row is
\* the fresh one, every other gets the row that is there.
Begin(c) ==
    LET w == work[c] IN
    /\ w.at = "begin"
    /\ IF child[w.m].status = "none"
       THEN /\ Writes(w.m, [status |-> "started", epoch |-> NoEpoch])
            /\ Goes(c, [w EXCEPT !.a = child'[w.m], !.fresh = TRUE, !.at = "dispatch"])
       ELSE /\ UNCHANGED child
            /\ Goes(c, [w EXCEPT !.a = child[w.m], !.at = "examine"])
    /\ UNCHANGED <<row, leases, over, world, late>>

\* claimReplay's conditions on the row the request holds.
Replayable(a) == a.status \in {"started", "failed"}
EpochClosed(a) == a.epoch.state \in {"succeeded", "blocked"}
LeaseHeld(m, a) == a.epoch.lease > over[m]

\* A request that is not fresh reads the resource.  It is there: complete.
ExamineFound(c) ==
    /\ work[c].at \in {"examine", "leased"}
    /\ world[work[c].m] # "absent"
    /\ Goes(c, [work[c] EXCEPT !.ok = TRUE, !.at = "complete"])
    /\ UNCHANGED <<row, child, leases, over, world, late>>

\* It cannot be read: complete with the error.
ExamineError(c) ==
    /\ work[c].at \in {"examine", "leased"}
    /\ Goes(c, [work[c] EXCEPT !.ok = FALSE, !.at = "complete"])
    /\ UNCHANGED <<row, child, leases, over, world, late>>

\* It is absent, and claimReplay has nothing to claim: pending, the row stays.
ExaminePending(c) ==
    LET w == work[c] IN
    /\ w.at = "examine"
    /\ world[w.m] = "absent"
    /\ ~Replayable(w.a) \/ (~EpochClosed(w.a) /\ LeaseHeld(w.m, w.a))
    /\ Goes(c, Idle)
    /\ UNCHANGED <<row, child, leases, over, world, late>>

\* It is absent, and the replay cannot be claimed: a closed epoch, or a child
\* row that has changed since it was read.
ExamineRefused(c) ==
    LET w == work[c] IN
    /\ w.at = "examine"
    /\ world[w.m] = "absent"
    /\ Replayable(w.a)
    /\ EpochClosed(w.a) \/ (~LeaseHeld(w.m, w.a) /\ ~ChildUnchanged(w.m, w.a))
    /\ Moves(c, "fail")
    /\ UNCHANGED <<row, child, leases, over, world, late>>

\* claimReplay: a new lease, which keeps the evidence of an earlier dispatch.
ClaimReplay(c) ==
    LET w == work[c]
        next == [w.a EXCEPT !.epoch.state = "leased", !.epoch.lease = leases[w.m] + 1]
    IN
    /\ w.at = "examine"
    /\ world[w.m] = "absent"
    /\ leases["disk"] + leases["binding"] < MaxLeases
    /\ Replayable(w.a) /\ ~EpochClosed(w.a) /\ ~LeaseHeld(w.m, w.a)
    /\ ChildUnchanged(w.m, w.a)
    /\ Writes(w.m, next)
    /\ leases' = [leases EXCEPT ![w.m] = @ + 1]
    /\ Goes(c, [w EXCEPT !.a = next, !.replay = TRUE, !.at = "leased"])
    /\ UNCHANGED <<row, over, world, late>>

\* markReplayDispatch, after a second read that still finds nothing.
MarkReplayDispatch(c) ==
    LET w == work[c]
        next == [w.a EXCEPT !.epoch.state = "awaiting_readback", !.epoch.dispatched = TRUE]
    IN
    /\ w.at = "leased"
    /\ world[w.m] = "absent"
    /\ IF ChildUnchanged(w.m, w.a)
       THEN /\ Writes(w.m, next)
            /\ Goes(c, [w EXCEPT !.a = next, !.at = "dispatch"])
       ELSE UNCHANGED child /\ Moves(c, "fail")
    /\ UNCHANGED <<row, leases, over, world, late>>

\* One provider call.  It answers, and the resource is read back; or it fails
\* with the request none the wiser: refused, done, or still to be done.
\* A second call for a resource that exists changes nothing: the create carries
\* a client token and finds the disk first, the binding is applied.
Appears(m) ==
    /\ world' = [world EXCEPT ![m] = IF @ = "absent" THEN "created" ELSE @]
    /\ late' = late \ {m}

DispatchAnswered(c) ==
    /\ work[c].at = "dispatch"
    /\ Appears(work[c].m)
    /\ Goes(c, [work[c] EXCEPT !.ok = TRUE, !.at = "complete"])
    /\ UNCHANGED <<row, child, leases, over>>

DispatchFailed(c) ==
    /\ work[c].at = "dispatch"
    /\ \/ UNCHANGED <<world, late>>
       \/ Appears(work[c].m)
       \/ /\ world[work[c].m] = "absent" /\ work[c].m \in LateCalls
          /\ late' = late \cup {work[c].m}
          /\ UNCHANGED world
    /\ Goes(c, [work[c] EXCEPT !.ok = FALSE, !.at = "complete"])
    /\ UNCHANGED <<row, child, leases, over>>

\* complete, after a success: the disk leads on to the binding, the binding to
\* the end of the stage.
Proceeds(c) ==
    IF work[c].m = "disk"
    THEN Goes(c, [Idle EXCEPT !.op = work[c].op, !.m = "binding", !.at = "begin"])
    ELSE Moves(c, "finish")

\* Whether the row a request holds goes through the replay writes: it claimed
\* the epoch, or it found one that is not succeeded.
Replaying(w) == w.replay \/ w.a.epoch.state \notin {"none", "succeeded"}

\* The write that complete makes of a success, and when the store takes it: a
\* fresh request through SaveRuntime, a replay through
\* ConvergeProviderMutationReplay, any other through ConvergeRuntimeReadback.
SuccessAccepted(w) ==
    CASE Replaying(w) -> ChildUnchanged(w.m, w.a)
                         /\ w.a.epoch.state \in {"leased", "awaiting_readback"}
      [] ~Replaying(w) /\ w.fresh -> ChildCurrent(w.m)
      [] OTHER -> ChildUnchanged(w.m, w.a)

SucceededChild(w) ==
    [status |-> "succeeded",
     epoch |-> IF Replaying(w) THEN [w.a.epoch EXCEPT !.state = "succeeded"] ELSE w.a.epoch]

\* Mutant of CompleteSuccess: a refused write is taken for a success.
CompleteSuccessUnsaved(c) ==
    LET w == work[c] IN
    /\ w.at = "complete" /\ w.ok
    /\ IF SuccessAccepted(w) THEN Writes(w.m, SucceededChild(w)) ELSE UNCHANGED child
    /\ Proceeds(c)
    /\ UNCHANGED <<row, leases, over, world, late>>

\* A request that found the row succeeded writes nothing.
CompleteSuccess(c) ==
    LET w == work[c] IN
    /\ w.at = "complete" /\ w.ok
    /\ IF ~w.fresh /\ w.a.status = "succeeded"
       THEN UNCHANGED child /\ Proceeds(c)
       ELSE IF SuccessAccepted(w)
            THEN Writes(w.m, SucceededChild(w)) /\ Proceeds(c)
            ELSE UNCHANGED child /\ Moves(c, "fail")
    /\ UNCHANGED <<row, leases, over, world, late>>

\* What complete writes of an error.  A replay that has not been dispatched is
\* blocked, or awaits the readback of an earlier dispatch; a fresh request, and
\* one that found the row started, fail the row and put back the payload they
\* hold.  A refused write is not reported.
FailedChild(w) ==
    CASE w.replay /\ w.a.epoch.state = "leased" /\ ChildUnchanged(w.m, w.a) ->
             [w.a EXCEPT !.epoch.state = IF w.a.epoch.dispatched THEN "awaiting_readback"
                                                                 ELSE "blocked"]
      [] ~w.replay /\ w.a.status = "started" /\ ChildCurrent(w.m) ->
             [status |-> "failed", epoch |-> w.a.epoch]
      [] OTHER -> child[w.m]

CompleteError(c) ==
    LET w == work[c] IN
    /\ w.at = "complete" /\ ~w.ok
    /\ Writes(w.m, FailedChild(w))
    /\ Moves(c, "fail")
    /\ UNCHANGED <<row, leases, over, world, late>>

-----------------------------------------------------------------------------
(* Everything else *)

\* The request is cut off: Control Plane hangs up, or Fabric restarts.
Abandon(c) ==
    /\ work[c].at # "idle"
    /\ Goes(c, Idle)
    /\ UNCHANGED <<row, child, leases, over, world, late>>

LeaseRunsOut(m) ==
    /\ over[m] < leases[m]
    /\ over' = [over EXCEPT ![m] = @ + 1]
    /\ UNCHANGED <<row, child, leases, world, late, work>>

\* A call that was thought lost takes effect.
TakesEffect(m) ==
    /\ m \in late
    /\ Appears(m)
    /\ UNCHANGED <<row, child, leases, over, work>>

\* The disk is provisioned, the claim is bound.
BecomesReady(m) ==
    /\ world[m] = "created"
    /\ world' = [world EXCEPT ![m] = "ready"]
    /\ UNCHANGED <<row, child, leases, over, late, work>>

\* A request runs on.
Step(c) ==
    \/ ReadReady(c) \/ ReadAbsent(c) \/ ReadEnds(c)
    \/ ClaimRuntime(c) \/ Begin(c)
    \/ ExamineFound(c) \/ ExamineError(c) \/ ExaminePending(c) \/ ExamineRefused(c)
    \/ ClaimReplay(c) \/ MarkReplayDispatch(c)
    \/ DispatchAnswered(c) \/ DispatchFailed(c)
    \/ CompleteSuccess(c) \/ CompleteError(c)
    \/ Finish(c) \/ FinishUnavailable(c) \/ FailStage(c)

Next ==
    \/ \E c \in Callers : StartEnsure(c) \/ StartRead(c) \/ Step(c) \/ Abandon(c)
    \/ \E m \in Mutations : LeaseRunsOut(m) \/ TakesEffect(m) \/ BecomesReady(m)

Spec == Init /\ [][Next]_vars

\* Reads of the stage recur: Control Plane reads a pending stage a few times, parks
\* the launch, and reads again once an operator resumes it, so this is an assumption
\* about the operators too.  Not all requests hang (one goes on or is cut off), and
\* the provider does not fail every read for ever.
Fairness ==
    /\ SF_vars(\E c \in Callers : StartRead(c))
    /\ SF_vars(\E c \in Callers : ReadReady(c))
    /\ WF_vars(\E c \in Callers : Step(c) \/ Abandon(c))

FairSpec == Spec /\ Fairness

-----------------------------------------------------------------------------
(* Properties *)

\* The stage row, the child rows with their epochs, the leases and the requests keep their types.
TypeOK ==
    /\ row \in Rows
    /\ child \in [Mutations -> Children]
    /\ leases \in [Mutations -> 0..MaxLeases]
    /\ over \in [Mutations -> 0..MaxLeases]
    /\ world \in [Mutations -> {"absent", "created", "ready"}]
    /\ late \in SUBSET Mutations
    /\ work \in [Callers -> Works]

\* A stage row that says succeeded, which is what Control Plane charges and
\* builds on, stands for a disk and a binding that are ready; a child row that
\* says succeeded stands for a resource that exists.
ReadyIsReal ==
    /\ row.status = "succeeded" => Ready
    /\ \A m \in Mutations : child[m].status = "succeeded" => world[m] # "absent"

\* The static binding is journaled, and so called for, only once the disk's own
\* row is succeeded: whatever the order in which overlapping requests, replays
\* and late failures write that row.
BindingAfterDisk ==
    child["binding"].status # "none" => child["disk"].status = "succeeded"

\* Two requests never both call the provider without having read first, and
\* nothing reaches the provider that the journal does not know of.
FirstCallOnce ==
    \A m \in Mutations :
        /\ \A c, d \in Callers :
               work[c].m = m /\ work[d].m = m /\ work[c].fresh /\ work[d].fresh => c = d
        /\ world[m] # "absent" \/ m \in late => child[m].status # "none"

\* A success is final: no slow request that fails later, and no new claim, takes
\* a stage row or a child row back from succeeded.
SucceededIsFinal ==
    [][/\ row.status = "succeeded" => row' = row
       /\ \A m \in Mutations : child[m].status = "succeeded" => child'[m] = child[m]]_vars

\* Once the disk and the binding are ready the stage row says so, by a readback
\* alone: whoever created them, whichever request died, failed the row or left
\* an epoch blocked on the way.
ReadbackConverges == Ready ~> row.status = "succeeded"

=============================================================================
