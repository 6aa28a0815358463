----------------------------- MODULE LaunchSafety -----------------------------
(***************************************************************************)
(* Proofs about WorkspaceLaunchReconciler, for every list of stages, every *)
(* set of actors and every budget: what the helpers do to a row, the       *)
(* inductive invariant IInv, one lemma per action that every step          *)
(* preserves it, and what follows from it.                                 *)
(***************************************************************************)
EXTENDS WorkspaceLaunchReconciler, TLAPS

-----------------------------------------------------------------------------
(* What the helpers of LaunchOperation do to a row, as three relations.    *)

\* No attempt of row o is forgotten in row n.
AttemptsKept(o, n) ==
  \A i \in StageIdx : o.attempts[i].attempted = 1 => n.attempts[i].attempted = 1

\* n is at the same stage and observes the same.
Keeps(o, n) ==
  /\ n \in Operation /\ AttemptsKept(o, n)
  /\ n.stage = o.stage
  /\ n.observations = o.observations
  /\ n.runtimeRepair = o.runtimeRepair

\* n is at the same stage and observes s there.
Marks(o, n, s) ==
  /\ n \in Operation /\ AttemptsKept(o, n)
  /\ n.stage = o.stage
  /\ n.observations = [o.observations EXCEPT ![o.stage] = s]
  /\ n.runtimeRepair = o.runtimeRepair

\* n is at the next stage and calls the current one ready.
Advances(o, n) ==
  /\ n \in Operation /\ AttemptsKept(o, n)
  /\ n.stage = o.stage + 1
  /\ n.observations = [o.observations EXCEPT ![o.stage] = "ready"]

Confirms(o, n) == Advances(o, n) /\ n.runtimeRepair = o.runtimeRepair

NotReady == ObservationState \ {"ready"}

\* n is at the same stage and calls nothing new ready.
Stays(o, n) == Keeps(o, n) \/ \E s \in NotReady : Marks(o, n, s)

LEMMA StageIdxType == StageIdx \subseteq Nat /\ Succeeded \in Nat /\ Succeeded \notin StageIdx
                      /\ (\A s \in 1..Succeeded : s # Succeeded => s \in StageIdx)
                      /\ (\A s \in StageIdx : s + 1 \in 1..Succeeded)
  BY StagesAssumption DEF StageIdx, Succeeded

LEMMA BudgetType ==
  \A i \in StageIdx : /\ FreshContinuationReadBudget(i) \in Nat
                      /\ MaximumPersistedReadbacks(i) \in Nat
                      /\ PendingDeadline(i) \in Clock
  BY BudgetAssumption DEF FreshContinuationReadBudget, MaximumPersistedReadbacks,
     PendingDeadline, Clock

-----------------------------------------------------------------------------
(* The relations compose.                                                  *)

LEMMA KeepsKeeps ==
  ASSUME NEW o, NEW n, NEW m, Keeps(o, n), Keeps(n, m)
  PROVE  Keeps(o, m)
  BY DEF Keeps, AttemptsKept

LEMMA KeepsMarks ==
  ASSUME NEW o, NEW n, NEW m, NEW s, Keeps(o, n), Marks(n, m, s)
  PROVE  Marks(o, m, s)
  BY DEF Keeps, Marks, AttemptsKept

LEMMA MarksKeeps ==
  ASSUME NEW o, NEW n, NEW m, NEW s, Marks(o, n, s), Keeps(n, m)
  PROVE  Marks(o, m, s)
  BY DEF Keeps, Marks, AttemptsKept

LEMMA MarksMarks ==
  ASSUME NEW o \in Operation, o.stage \in StageIdx, NEW n, NEW m, NEW s, NEW t,
         Marks(o, n, s), Marks(n, m, t)
  PROVE  Marks(o, m, t)
<1>1. [[o.observations EXCEPT ![o.stage] = s] EXCEPT ![o.stage] = t]
        = [o.observations EXCEPT ![o.stage] = t]
  BY DEF Operation
<1> QED BY <1>1 DEF Marks, AttemptsKept

LEMMA KeepsConfirms ==
  ASSUME NEW o, NEW n, NEW m, Keeps(o, n), Confirms(n, m)
  PROVE  Confirms(o, m)
  BY DEF Keeps, Confirms, Advances, AttemptsKept

-----------------------------------------------------------------------------
(* The helpers, one lemma each.                                            *)

LEMMA SetAttKeeps ==
  ASSUME NEW o \in Operation, o.stage \in StageIdx, NEW a \in Attempt,
         Att(o).attempted = 1 => a.attempted = 1
  PROVE  Keeps(o, SetAtt(o, a)) /\ Att(SetAtt(o, a)) = a
<1> DEFINE n == SetAtt(o, a)
<1>1. n.attempts = [o.attempts EXCEPT ![o.stage] = a] BY DEF SetAtt, Operation
<1>2. n.attempts \in [StageIdx -> Attempt] BY <1>1 DEF Operation
<1>3. n \in Operation BY <1>2 DEF SetAtt, Operation
<1>4. n.stage = o.stage /\ n.observations = o.observations /\ n.runtimeRepair = o.runtimeRepair
  BY DEF SetAtt, Operation
<1>5. AttemptsKept(o, n) BY <1>1 DEF Operation, Att, AttemptsKept
<1>6. Att(n) = a BY <1>1, <1>4 DEF Att, Operation
<1> QED BY <1>3, <1>4, <1>5, <1>6 DEF Keeps

LEMMA SetObsMarks ==
  ASSUME NEW o \in Operation, o.stage \in StageIdx, NEW s \in ObservationState
  PROVE  Marks(o, SetObs(o, s), s) /\ Att(SetObs(o, s)) = Att(o)
<1> DEFINE n == SetObs(o, s)
<1>1. n.observations = [o.observations EXCEPT ![o.stage] = s] BY DEF SetObs, Operation
<1>2. n.observations \in [StageIdx -> ObservationState \cup {""}] BY <1>1 DEF Operation
<1>3. n \in Operation BY <1>2 DEF SetObs, Operation
<1>4. n.stage = o.stage /\ n.attempts = o.attempts /\ n.runtimeRepair = o.runtimeRepair
  BY DEF SetObs, Operation
<1> QED BY <1>1, <1>3, <1>4 DEF Marks, AttemptsKept, Att

LEMMA SetStatusKeeps ==
  ASSUME NEW o \in Operation, NEW s \in {"pending", "manual_review"}
  PROVE  /\ Keeps(o, [o EXCEPT !.status = s])
         /\ [o EXCEPT !.status = s].attempts = o.attempts
  BY DEF Operation, Keeps, AttemptsKept

LEMMA ConsumeKeeps ==
  ASSUME NEW o \in Operation
  PROVE  /\ Keeps(o, consumeResumeAuthorization(o))
         /\ consumeResumeAuthorization(o).attempts = o.attempts
  BY DEF Operation, Keeps, AttemptsKept, consumeResumeAuthorization, HasGrant, Grant

LEMMA RotateKeeps ==
  ASSUME NEW o \in Operation, NEW g \in Grant
  PROVE  /\ Keeps(o, rotateResumeAuthorization(o, g))
         /\ rotateResumeAuthorization(o, g).attempts = o.attempts
  BY DEF Operation, Keeps, AttemptsKept, rotateResumeAuthorization

LEMMA SetReplayKeeps ==
  ASSUME NEW o \in Operation, o.stage \in StageIdx, NEW c \in ReplayClaim
  PROVE  /\ Keeps(o, [o EXCEPT !.replayClaims[o.stage] = c])
         /\ [o EXCEPT !.replayClaims[o.stage] = c].attempts = o.attempts
<1> DEFINE n == [o EXCEPT !.replayClaims[o.stage] = c]
<1>1. n.replayClaims = [o.replayClaims EXCEPT ![o.stage] = c] BY DEF Operation
<1>2. n.replayClaims \in [StageIdx -> ReplayClaim] BY <1>1 DEF Operation
<1>3. n \in Operation BY <1>2 DEF Operation
<1>4. /\ n.stage = o.stage /\ n.attempts = o.attempts /\ n.observations = o.observations
      /\ n.runtimeRepair = o.runtimeRepair
  BY DEF Operation
<1> QED BY <1>3, <1>4 DEF Keeps, AttemptsKept

LEMMA CompleteReplayKeeps ==
  ASSUME NEW o \in Operation, o.stage \in StageIdx,
         NEW s \in {"waiting", "succeeded", "failed"}
  PROVE  /\ Keeps(o, completeIdempotentReplay(o, s))
         /\ completeIdempotentReplay(o, s).attempts = o.attempts
<1> DEFINE c == [Replay(o) EXCEPT !.status = s, !.lease = "none"]
<1>1. Replay(o) \in ReplayClaim BY DEF Operation, Replay
<1>2. c \in ReplayClaim BY <1>1 DEF ReplayClaim, Clock
<1>3. completeIdempotentReplay(o, s) \in {o, [o EXCEPT !.replayClaims[o.stage] = c]}
  BY DEF completeIdempotentReplay, Replay, Operation
<1>4. Keeps(o, o) BY DEF Keeps, AttemptsKept
<1> QED BY <1>2, <1>3, <1>4, SetReplayKeeps

LEMMA SetFreshKeeps ==
  ASSUME NEW o \in Operation, NEW i \in StageIdx,
         NEW f \in {"none", "active", "consumed", "failed"}
  PROVE  /\ Keeps(o, [o EXCEPT !.freshContinuations[i] = f])
         /\ [o EXCEPT !.freshContinuations[i] = f].attempts = o.attempts
<1> DEFINE n == [o EXCEPT !.freshContinuations[i] = f]
<1>1. n.freshContinuations = [o.freshContinuations EXCEPT ![i] = f] BY DEF Operation
<1>2. n.freshContinuations \in [StageIdx -> {"none", "active", "consumed", "failed"}]
  BY <1>1 DEF Operation
<1>3. n \in Operation BY <1>2 DEF Operation
<1>4. /\ n.stage = o.stage /\ n.attempts = o.attempts /\ n.observations = o.observations
      /\ n.runtimeRepair = o.runtimeRepair
  BY DEF Operation
<1> QED BY <1>3, <1>4 DEF Keeps, AttemptsKept

LEMMA SetReadKeeps ==
  ASSUME NEW o \in Operation, o.stage \in StageIdx,
         NEW s \in {"none", "claimed", "pending", "ready", "failed", "expired"}
  PROVE  Keeps(o, SetRead(o, s)) /\ SetRead(o, s).attempts = o.attempts
<1> DEFINE c == [status |-> s, lease |-> IF s = "claimed" THEN "live" ELSE "none"]
           n == [o EXCEPT !.readClaims[o.stage] = c]
<1>0. c \in ReadClaim BY DEF ReadClaim, Clock
<1>1. n.readClaims = [o.readClaims EXCEPT ![o.stage] = c] BY DEF Operation
<1>2. n.readClaims \in [StageIdx -> ReadClaim] BY <1>0, <1>1 DEF Operation
<1>3. n \in Operation BY <1>2 DEF Operation
<1>4. /\ n.stage = o.stage /\ n.attempts = o.attempts /\ n.observations = o.observations
      /\ n.runtimeRepair = o.runtimeRepair
  BY DEF Operation
<1>5. SetRead(o, s) = n BY DEF SetRead
<1> QED BY <1>3, <1>4, <1>5 DEF Keeps, AttemptsKept

LEMMA AdvanceConfirms ==
  ASSUME NEW o \in Operation, NEW n \in Operation, o.stage \in StageIdx, Marks(o, n, "ready")
  PROVE  Confirms(o, advance(n))
<1>1. n.stage = o.stage BY DEF Marks
<1>2. n.stage + 1 \in 1..Succeeded BY <1>1, StageIdxType
<1>3. advance(n) \in Operation BY <1>2 DEF advance, Operation
<1>4. /\ advance(n).stage = n.stage + 1
      /\ advance(n).attempts = n.attempts
      /\ advance(n).observations = n.observations
      /\ advance(n).runtimeRepair = n.runtimeRepair
  BY DEF advance, Operation
<1> QED BY <1>1, <1>3, <1>4 DEF Confirms, Advances, Marks, AttemptsKept

-----------------------------------------------------------------------------
(* What the handlers make of their working copy.                           *)

LEMMA AttType ==
  ASSUME NEW o \in Operation, o.stage \in StageIdx
  PROVE  /\ Att(o) \in Attempt
         /\ Confirmed(Att(o)) \in Attempt /\ Confirmed(Att(o)).attempted = Att(o).attempted
         /\ Unknown(Att(o)) \in Attempt /\ Unknown(Att(o)).attempted = Att(o).attempted
<1>1. Att(o) \in Attempt BY DEF Att, Operation
<1> QED BY <1>1 DEF Attempt, Confirmed, Unknown, AttemptStatus

LEMMA AttemptWrites ==
  ASSUME NEW a \in Attempt, NEW m \in Nat, NEW d \in Clock
  PROVE  /\ [a EXCEPT !.attempted = 1, !.status = "reserved"] \in Attempt
         /\ [a EXCEPT !.pendingReadbacks = 1, !.maxPendingReadbacks = m, !.deadline = d] \in Attempt
         /\ [a EXCEPT !.maxPendingReadbacks = m] \in Attempt
         /\ [a EXCEPT !.status = "reserved", !.deadline = d] \in Attempt
         /\ [a EXCEPT !.attempted = 0, !.status = "", !.pendingReadbacks = 0] \in Attempt
         /\ [a EXCEPT !.deadline = d] \in Attempt
         /\ [a EXCEPT !.deadline = d].attempted = a.attempted
<1> USE DEF Attempt, AttemptStatus
<1>1. [a EXCEPT !.attempted = 1, !.status = "reserved"] \in Attempt OBVIOUS
<1>2. [a EXCEPT !.pendingReadbacks = 1, !.maxPendingReadbacks = m, !.deadline = d] \in Attempt OBVIOUS
<1>3. [a EXCEPT !.maxPendingReadbacks = m] \in Attempt OBVIOUS
<1>4. [a EXCEPT !.status = "reserved", !.deadline = d] \in Attempt OBVIOUS
<1>5. [a EXCEPT !.attempted = 0, !.status = "", !.pendingReadbacks = 0] \in Attempt OBVIOUS
<1>6. [a EXCEPT !.deadline = d] \in Attempt /\ [a EXCEPT !.deadline = d].attempted = a.attempted
  OBVIOUS
<1> QED BY <1>1, <1>2, <1>3, <1>4, <1>5, <1>6

LEMMA UnknownType ==
  ASSUME NEW a \in Attempt
  PROVE  Unknown(a) \in Attempt /\ Unknown(a).attempted = a.attempted
  BY DEF Attempt, Unknown, AttemptStatus

\* Completing a replay claim, spending the authorization and setting the
\* status change neither stage nor observations.
LEMMA ClosingKeeps ==
  ASSUME NEW o \in Operation, o.stage \in StageIdx, NEW s \in {"waiting", "succeeded", "failed"}
  PROVE  /\ Keeps(o, consumeResumeAuthorization(completeIdempotentReplay(o, s)))
         /\ consumeResumeAuthorization(completeIdempotentReplay(o, s)).attempts = o.attempts
<1> DEFINE n == completeIdempotentReplay(o, s)
<1>1. Keeps(o, n) /\ n.attempts = o.attempts BY CompleteReplayKeeps
<1>2. n \in Operation BY <1>1 DEF Keeps
<1>3. Keeps(n, consumeResumeAuthorization(n)) /\ consumeResumeAuthorization(n).attempts = n.attempts
  BY <1>2, ConsumeKeeps
<1> QED BY <1>1, <1>3, KeepsKeeps

LEMMA ConfirmStageConfirms ==
  ASSUME NEW o \in Operation, o.stage \in StageIdx
  PROVE  Confirms(o, ConfirmStage(o))
<1> DEFINE a == IF Att(o).attempted > 0 THEN SetAtt(o, Confirmed(Att(o))) ELSE o
           b == SetObs(a, "ready")
           c == consumeResumeAuthorization(completeIdempotentReplay(b, "succeeded"))
<1>1. Keeps(o, a)
  <2>1. Keeps(o, o) BY DEF Keeps, AttemptsKept
  <2>2. Keeps(o, SetAtt(o, Confirmed(Att(o)))) BY AttType, SetAttKeeps
  <2> QED BY <2>1, <2>2
<1>2. a \in Operation /\ a.stage = o.stage BY <1>1 DEF Keeps
<1>3. Marks(a, b, "ready") BY <1>2, SetObsMarks DEF ObservationState
<1>4. b \in Operation /\ b.stage = o.stage BY <1>2, <1>3 DEF Marks
<1>5. Keeps(b, c) BY <1>4, ClosingKeeps
<1>6. Marks(o, c, "ready") BY <1>1, <1>3, <1>5, KeepsMarks, MarksKeeps
<1>7. c \in Operation BY <1>6 DEF Marks
<1>8. Confirms(o, advance(c)) BY <1>6, <1>7, AdvanceConfirms
<1> HIDE DEF a
<1> QED BY <1>8 DEF ConfirmStage, a

LEMMA ParkStageStays ==
  ASSUME NEW o \in Operation, o.stage \in StageIdx, NEW a \in Attempt,
         Att(o).attempted = 1 => a.attempted = 1, NEW s \in NotReady
  PROVE  Stays(o, ParkStage(o, a, s))
<1> DEFINE x == SetAtt(o, a)
           y == SetObs(x, s)
           z == consumeResumeAuthorization(completeIdempotentReplay(y, "failed"))
<1>1. Keeps(o, x) BY SetAttKeeps
<1>2. x \in Operation /\ x.stage = o.stage BY <1>1 DEF Keeps
<1>3. Marks(x, y, s) BY <1>2, SetObsMarks DEF NotReady
<1>4. y \in Operation /\ y.stage = o.stage BY <1>2, <1>3 DEF Marks
<1>5. Keeps(y, z) BY <1>4, ClosingKeeps
<1>6. z \in Operation BY <1>5 DEF Keeps
<1>7. Keeps(z, [z EXCEPT !.status = "manual_review"]) BY <1>6, SetStatusKeeps
<1>8. Marks(o, y, s) BY <1>1, <1>3, KeepsMarks
<1>9. Marks(o, z, s) BY <1>5, <1>8, MarksKeeps
<1>10. Marks(o, [z EXCEPT !.status = "manual_review"], s) BY <1>7, <1>9, MarksKeeps
<1> QED BY <1>10 DEF ParkStage, Stays

LEMMA SetAsideStays ==
  ASSUME NEW o \in Operation, o.stage \in StageIdx, NEW s \in NotReady
  PROVE  Stays(o, SetAside(o, s))
<1> DEFINE y == SetObs(o, s)
           z == consumeResumeAuthorization(y)
<1>1. Marks(o, y, s) BY SetObsMarks DEF NotReady
<1>2. y \in Operation BY <1>1 DEF Marks
<1>3. Keeps(y, z) BY <1>2, ConsumeKeeps
<1>4. z \in Operation BY <1>3 DEF Keeps
<1>5. Keeps(z, [z EXCEPT !.status = "manual_review"]) BY <1>4, SetStatusKeeps
<1>6. Marks(o, [z EXCEPT !.status = "manual_review"], s) BY <1>1, <1>3, <1>5, MarksKeeps
<1> QED BY <1>6 DEF SetAside, Stays

LEMMA CountReadbackStays ==
  ASSUME NEW o \in Operation, o.stage \in StageIdx, NEW s \in NotReady
  PROVE  Stays(o, CountReadback(o, s))
<1> DEFINE a == [Att(o) EXCEPT !.pendingReadbacks = @ + 1]
<1>1. a \in Attempt /\ a.attempted = Att(o).attempted BY AttType DEF Attempt
<1>2. Unknown(a) \in Attempt /\ Unknown(a).attempted = Att(o).attempted BY <1>1, UnknownType
<1>3. Stays(o, ParkStage(o, Unknown(a), "unknown"))
  BY <1>2, ParkStageStays DEF NotReady, ObservationState
<1>4. Keeps(o, SetAtt(o, a)) BY <1>1, SetAttKeeps
<1>5. SetAtt(o, a) \in Operation /\ SetAtt(o, a).stage = o.stage BY <1>4 DEF Keeps
<1>6. Marks(SetAtt(o, a), SetObs(SetAtt(o, a), s), s) BY <1>5, SetObsMarks DEF NotReady
<1>7. Stays(o, SetObs(SetAtt(o, a), s)) BY <1>4, <1>6, KeepsMarks DEF Stays
<1> HIDE DEF a
<1> QED BY <1>3, <1>7 DEF CountReadback, a

LEMMA ReserveStageKeeps ==
  ASSUME NEW o \in Operation, o.stage \in StageIdx
  PROVE  Keeps(o, ReserveStage(o)) /\ Att(ReserveStage(o)).attempted = 1
<1> DEFINE a == [Att(o) EXCEPT !.attempted = 1, !.status = "reserved"]
<1>0. Att(o) \in Attempt BY AttType
<1>1a. a \in Attempt BY <1>0, AttemptWrites, BudgetAssumption DEF Clock
<1>1. a \in Attempt /\ a.attempted = 1 BY <1>0, <1>1a DEF Attempt
<1>2. Keeps(o, SetAtt(o, a)) /\ Att(SetAtt(o, a)) = a BY <1>1, SetAttKeeps
<1> QED BY <1>1, <1>2 DEF ReserveStage

LEMMA ClaimReplayKeeps ==
  ASSUME NEW o \in Operation, o.stage \in StageIdx, NEW n \in Nat
  PROVE  Keeps(o, ClaimReplay(o, n)) /\ ClaimReplay(o, n).attempts = o.attempts
  BY SetReplayKeeps DEF ClaimReplay, ReplayClaim, Clock

LEMMA WaitClaimedReplayStays ==
  ASSUME NEW o \in Operation, o.stage \in StageIdx, NEW s \in NotReady
  PROVE  Stays(o, waitClaimedReplay(o, s))
<1> DEFINE a == [Att(o) EXCEPT !.pendingReadbacks = @ + 1]
           x == SetAtt(o, a)
           y == SetObs(x, s)
           w == completeIdempotentReplay(y, "waiting")
           u == SetAtt(w, Unknown(a))
           v == SetObs(u, "unknown")
           z == consumeResumeAuthorization(v)
<1>1. a \in Attempt /\ a.attempted = Att(o).attempted BY AttType DEF Attempt
<1>2. Unknown(a) \in Attempt /\ Unknown(a).attempted = a.attempted BY <1>1, UnknownType
<1>3. Keeps(o, x) /\ Att(x) = a BY <1>1, SetAttKeeps
<1>4. x \in Operation /\ x.stage = o.stage BY <1>3 DEF Keeps
<1>5. Marks(x, y, s) /\ Att(y) = Att(x) BY <1>4, SetObsMarks DEF NotReady
<1>6. y \in Operation /\ y.stage = o.stage BY <1>4, <1>5 DEF Marks
<1>7. Keeps(y, w) /\ w.attempts = y.attempts BY <1>6, CompleteReplayKeeps
<1>8. w \in Operation /\ w.stage = o.stage BY <1>6, <1>7 DEF Keeps
<1>9. Att(w) = a BY <1>3, <1>5, <1>6, <1>7, <1>8 DEF Att
<1>10. Marks(o, w, s) BY <1>3, <1>5, <1>7, KeepsMarks, MarksKeeps
<1>11. Stays(o, [w EXCEPT !.status = "pending"])
  <2>1. Keeps(w, [w EXCEPT !.status = "pending"]) BY <1>8, SetStatusKeeps
  <2> QED BY <1>10, <2>1, MarksKeeps DEF Stays
<1>12. Stays(o, [z EXCEPT !.status = "manual_review"])
  <2>1. Keeps(w, u) BY <1>2, <1>8, <1>9, SetAttKeeps
  <2>2. u \in Operation /\ u.stage = o.stage BY <1>8, <2>1 DEF Keeps
  <2>3. Marks(u, v, "unknown") BY <2>2, SetObsMarks DEF ObservationState
  <2>4. v \in Operation BY <2>3 DEF Marks
  <2>5. Keeps(v, z) BY <2>4, ConsumeKeeps
  <2>6. z \in Operation BY <2>5 DEF Keeps
  <2>7. Keeps(z, [z EXCEPT !.status = "manual_review"]) BY <2>6, SetStatusKeeps
  <2>8. Marks(w, v, "unknown") BY <2>1, <2>3, KeepsMarks
  <2>9. Marks(o, v, "unknown") BY <1>10, <2>8, MarksMarks
  <2>10. Marks(o, z, "unknown") BY <2>5, <2>9, MarksKeeps
  <2> QED BY <2>7, <2>10, MarksKeeps DEF Stays, NotReady, ObservationState
<1> HIDE DEF a, w, z
<1> QED BY <1>11, <1>12 DEF waitClaimedReplay, a, w, z

LEMMA BeginFreshStays ==
  ASSUME NEW o \in Operation, o.stage \in StageIdx, NEW s \in NotReady
  PROVE  Stays(o, BeginFreshContinuation(o, s))
<1> DEFINE i == o.stage
           a == [Att(o) EXCEPT !.pendingReadbacks = 1,
                    !.maxPendingReadbacks = 1 + FreshContinuationReadBudget(i),
                    !.deadline = PendingDeadline(i)]
           x == SetAtt(o, a)
           y == SetObs(x, s)
           z == consumeResumeAuthorization(y)
           f == [z EXCEPT !.freshContinuations[i] = "active"]
<1>0. Att(o) \in Attempt BY AttType
<1>0a. 1 + FreshContinuationReadBudget(i) \in Nat /\ PendingDeadline(i) \in Clock BY BudgetType
<1>1a. a \in Attempt BY <1>0, <1>0a, AttemptWrites
<1>1. a \in Attempt /\ a.attempted = Att(o).attempted BY <1>0, <1>1a DEF Attempt
<1>2. Keeps(o, x) BY <1>1, SetAttKeeps
<1>3. x \in Operation /\ x.stage = o.stage BY <1>2 DEF Keeps
<1>4. Marks(x, y, s) BY <1>3, SetObsMarks DEF NotReady
<1>5. y \in Operation BY <1>4 DEF Marks
<1>6. Keeps(y, z) BY <1>5, ConsumeKeeps
<1>7. z \in Operation BY <1>6 DEF Keeps
<1>8. Keeps(z, f) BY <1>7, SetFreshKeeps
<1>9. f \in Operation BY <1>8 DEF Keeps
<1>10. Keeps(f, [f EXCEPT !.status = "pending"]) BY <1>9, SetStatusKeeps
<1>11. Marks(o, z, s) BY <1>2, <1>4, <1>6, KeepsMarks, MarksKeeps
<1>12. Marks(o, [f EXCEPT !.status = "pending"], s) BY <1>8, <1>10, <1>11, MarksKeeps
<1>13. BeginFreshContinuation(o, s) = [f EXCEPT !.status = "pending"]
  BY DEF BeginFreshContinuation
<1> QED BY <1>12, <1>13 DEF Stays

LEMMA ParkFreshStays ==
  ASSUME NEW o \in Operation, o.stage \in StageIdx
  PROVE  Stays(o, parkFreshTypedPending(o, Att(o)))
<1> DEFINE x == SetAtt(o, Unknown(Att(o)))
           y == SetObs(x, "unknown")
           z == completeIdempotentReplay(y, "failed")
           f == [z EXCEPT !.freshContinuations[o.stage] = "failed"]
<1>1. Keeps(o, x) BY AttType, SetAttKeeps
<1>2. x \in Operation /\ x.stage = o.stage BY <1>1 DEF Keeps
<1>3. Marks(x, y, "unknown") BY <1>2, SetObsMarks DEF ObservationState
<1>4. y \in Operation /\ y.stage = o.stage BY <1>2, <1>3 DEF Marks
<1>5. Keeps(y, z) BY <1>4, CompleteReplayKeeps
<1>6. z \in Operation BY <1>5 DEF Keeps
<1>7. Keeps(z, f) BY <1>6, SetFreshKeeps
<1>8. f \in Operation BY <1>7 DEF Keeps
<1>9. Keeps(f, [f EXCEPT !.status = "manual_review"]) BY <1>8, SetStatusKeeps
<1>10. Marks(o, y, "unknown") BY <1>1, <1>3, KeepsMarks
<1>11. Marks(o, z, "unknown") BY <1>5, <1>10, MarksKeeps
<1>12. Marks(o, f, "unknown") BY <1>7, <1>11, MarksKeeps
<1>13. Marks(o, [f EXCEPT !.status = "manual_review"], "unknown") BY <1>9, <1>12, MarksKeeps
<1>14. parkFreshTypedPending(o, Att(o)) = [f EXCEPT !.status = "manual_review"]
  BY DEF parkFreshTypedPending
<1> QED BY <1>13, <1>14 DEF Stays, NotReady, ObservationState

LEMMA ConfirmFreshConfirms ==
  ASSUME NEW o \in Operation, o.stage \in StageIdx
  PROVE  Confirms(o, ConfirmFresh(o))
<1> DEFINE x == SetAtt(o, Confirmed(Att(o)))
           y == SetObs(x, "ready")
           z == completeIdempotentReplay(y, "succeeded")
           f == [z EXCEPT !.freshContinuations[o.stage] = "consumed"]
<1>1. Keeps(o, x) BY AttType, SetAttKeeps
<1>2. x \in Operation /\ x.stage = o.stage BY <1>1 DEF Keeps
<1>3. Marks(x, y, "ready") BY <1>2, SetObsMarks DEF ObservationState
<1>4. y \in Operation /\ y.stage = o.stage BY <1>2, <1>3 DEF Marks
<1>5. Keeps(y, z) BY <1>4, CompleteReplayKeeps
<1>6. z \in Operation BY <1>5 DEF Keeps
<1>7. Keeps(z, f) BY <1>6, SetFreshKeeps
<1>8. f \in Operation BY <1>7 DEF Keeps
<1>9. Marks(o, y, "ready") BY <1>1, <1>3, KeepsMarks
<1>10. Marks(o, f, "ready") BY <1>5, <1>7, <1>9, MarksKeeps
<1>11. Confirms(o, advance(f)) BY <1>8, <1>10, AdvanceConfirms
<1> QED BY <1>11 DEF ConfirmFresh

LEMMA AuthorizeKeeps ==
  ASSUME NEW o \in Operation, o.stage \in StageIdx, NEW g \in Grant
  PROVE  Keeps(o, Authorize(o, g))
<1> DEFINE a == [Att(o) EXCEPT !.maxPendingReadbacks = Att(o).pendingReadbacks + g.reads]
           x == SetAtt(o, a)
           h == [g EXCEPT !.readbacks = Att(o).pendingReadbacks]
           y == rotateResumeAuthorization(x, h)
<1>0. Att(o) \in Attempt BY AttType
<1>1. Att(o).pendingReadbacks + g.reads \in Nat BY <1>0 DEF Attempt, Grant
<1>2. a \in Attempt BY <1>0, <1>1, AttemptWrites DEF Clock
<1>3. a.attempted = Att(o).attempted BY <1>0 DEF Attempt
<1>4. Keeps(o, x) BY <1>2, <1>3, SetAttKeeps
<1>5. x \in Operation BY <1>4 DEF Keeps
<1>6. h \in Grant BY <1>0 DEF Attempt, Grant
<1>7. Keeps(x, y) BY <1>5, <1>6, RotateKeeps
<1>8. y \in Operation BY <1>7 DEF Keeps
<1>9. Keeps(y, [y EXCEPT !.status = "pending"]) BY <1>8, SetStatusKeeps
<1>10. Keeps(o, [y EXCEPT !.status = "pending"]) BY <1>4, <1>7, <1>9, KeepsKeeps
<1> QED BY <1>10 DEF Authorize

LEMMA RecoverComputeStays ==
  ASSUME NEW o \in Operation, o.stage \in StageIdx, NEW g \in Grant, NEW s \in NotReady
  PROVE  Stays(o, recoverUnknownComputeStage(o, g, s))
<1> DEFINE c == IF FailedComputeReplayReauthorizationEligible(o)
                THEN [o EXCEPT !.replayClaims[o.stage] = NoReplay] ELSE o
           a == [Att(o) EXCEPT !.status = "reserved", !.deadline = PendingDeadline(o.stage)]
           x == SetAtt(c, a)
           y == Authorize(x, g)
<1>0. Att(o) \in Attempt BY AttType
<1>1. Keeps(o, c) /\ c.attempts = o.attempts
  <2>1. NoReplay \in ReplayClaim BY DEF NoReplay, ReplayClaim, Clock
  <2>2. Keeps(o, o) BY DEF Keeps, AttemptsKept
  <2> QED BY <2>1, <2>2, SetReplayKeeps
<1>2. c \in Operation /\ c.stage = o.stage BY <1>1 DEF Keeps
<1>3. Att(c) = Att(o) BY <1>1, <1>2 DEF Att
<1>4. PendingDeadline(o.stage) \in Clock BY BudgetType
<1>5. a \in Attempt BY <1>0, <1>4, AttemptWrites, BudgetAssumption
<1>6. a.attempted = Att(o).attempted BY <1>0 DEF Attempt
<1> HIDE DEF a, c
<1>7. Keeps(c, x) BY <1>2, <1>3, <1>5, <1>6, SetAttKeeps
<1>8. x \in Operation /\ x.stage = o.stage BY <1>2, <1>7 DEF Keeps
<1>9. Keeps(x, y) BY <1>8, AuthorizeKeeps
<1>10. y \in Operation /\ y.stage = o.stage BY <1>8, <1>9 DEF Keeps
<1>11. Marks(y, SetObs(y, s), s) BY <1>10, SetObsMarks DEF NotReady
<1>12. Marks(o, SetObs(y, s), s) BY <1>1, <1>7, <1>9, <1>11, KeepsKeeps, KeepsMarks
<1> QED BY <1>12 DEF recoverUnknownComputeStage, a, c, Stays

\* The tail shared by the operator's read-only recoveries.
LEMMA RecoveredConfirms ==
  ASSUME NEW o \in Operation, o.stage \in StageIdx, NEW n, Keeps(o, n),
         NEW a \in Attempt, Att(n).attempted = 1 => a.attempted = 1
  PROVE  Confirms(o, advance(consumeResumeAuthorization(SetObs(SetAtt(n, a), "ready"))))
<1> DEFINE x == SetAtt(n, a)
           y == SetObs(x, "ready")
           z == consumeResumeAuthorization(y)
<1>1. n \in Operation /\ n.stage = o.stage BY DEF Keeps
<1>2. Keeps(n, x) BY <1>1, SetAttKeeps
<1>3. x \in Operation /\ x.stage = o.stage BY <1>1, <1>2 DEF Keeps
<1>4. Marks(x, y, "ready") BY <1>3, SetObsMarks DEF ObservationState
<1>5. y \in Operation BY <1>4 DEF Marks
<1>6. Keeps(y, z) BY <1>5, ConsumeKeeps
<1>7. z \in Operation BY <1>6 DEF Keeps
<1>8. Keeps(o, x) BY <1>2, KeepsKeeps
<1>9. Marks(o, z, "ready") BY <1>4, <1>6, <1>8, KeepsMarks, MarksKeeps
<1> QED BY <1>7, <1>9, AdvanceConfirms

LEMMA RecoverRuntimeConfirms ==
  ASSUME NEW o \in Operation, o.stage \in StageIdx, NEW g \in Grant
  PROVE  Confirms(o, recoverUnknownRuntimeStage(o, g))
<1> DEFINE f == IF o.freshContinuations[o.stage] = "failed"
                THEN [o EXCEPT !.freshContinuations[o.stage] = "consumed"] ELSE o
           n == rotateResumeAuthorization(f, g)
<1>1. Keeps(o, f) /\ f.attempts = o.attempts
  <2>1. Keeps(o, o) BY DEF Keeps, AttemptsKept
  <2> QED BY <2>1, SetFreshKeeps
<1> HIDE DEF f
<1>2. f \in Operation BY <1>1 DEF Keeps
<1>3. Keeps(f, n) /\ n.attempts = f.attempts BY <1>2, RotateKeeps
<1>4. Keeps(o, n) BY <1>1, <1>3, KeepsKeeps
<1>5. Att(n) = Att(o) BY <1>1, <1>3, <1>4 DEF Att, Keeps
<1>6. Confirmed(Att(o)) \in Attempt /\ Confirmed(Att(o)).attempted = Att(o).attempted BY AttType
<1>7. Confirms(o, advance(consumeResumeAuthorization(SetObs(SetAtt(n, Confirmed(Att(o))), "ready"))))
  BY <1>4, <1>5, <1>6, RecoveredConfirms
<1> QED BY <1>7 DEF recoverUnknownRuntimeStage, f

LEMMA RepairedAdvances ==
  ASSUME NEW o \in Operation, o.stage \in StageIdx
  PROVE  Advances(o, RepairedRow(o)) /\ RepairedRow(o).runtimeRepair
<1> DEFINE i == o.stage
           a == Confirmed(o.attempts[i])
           n == RepairedRow(o)
<1>1. n.attempts = [o.attempts EXCEPT ![i] = a] BY DEF RepairedRow, Operation
<1>2. n.observations = [o.observations EXCEPT ![i] = "ready"] BY DEF RepairedRow, Operation
<1>3. n.stage = i + 1 BY DEF RepairedRow, Operation
<1>4. a \in Attempt /\ a.attempted = o.attempts[i].attempted BY AttType DEF Att
<1>5. AttemptsKept(o, n) BY <1>1, <1>4 DEF AttemptsKept, Operation
<1>6. n.attempts \in [StageIdx -> Attempt] BY <1>1, <1>4 DEF Operation
<1>7. n.observations \in [StageIdx -> ObservationState \cup {""}]
  BY <1>2 DEF Operation, ObservationState
<1>8. n.freshContinuations \in [StageIdx -> {"none", "active", "consumed", "failed"}]
  BY DEF RepairedRow, Operation
<1>9. i + 1 \in 1..Succeeded BY StageIdxType
<1>10. NoGrant \in Grant BY DEF NoGrant, Grant
<1>11. n \in Operation BY <1>3, <1>6, <1>7, <1>8, <1>9, <1>10 DEF RepairedRow, Operation
<1>12. n.runtimeRepair BY DEF RepairedRow, Operation
<1> QED BY <1>2, <1>3, <1>5, <1>11, <1>12 DEF Advances

LEMMA NewOperationType ==
  /\ newWorkspaceLaunchReconcileOperation \in Operation
  /\ newWorkspaceLaunchReconcileOperation.stage = 1
  /\ newWorkspaceLaunchReconcileOperation.status = "pending"
  /\ ~newWorkspaceLaunchReconcileOperation.runtimeRepair
  /\ \A i \in StageIdx : /\ newWorkspaceLaunchReconcileOperation.observations[i] = ""
                         /\ newWorkspaceLaunchReconcileOperation.attempts[i].attempted = 0
                         /\ newWorkspaceLaunchReconcileOperation.freshContinuations[i] = "none"
<1> DEFINE n == newWorkspaceLaunchReconcileOperation
<1>1. n.attempts \in [StageIdx -> Attempt]
  BY DEF newWorkspaceLaunchReconcileOperation, Attempt, AttemptStatus, Clock
<1>2. NoGrant \in Grant /\ NoReplay \in ReplayClaim /\ NoRead \in ReadClaim
  BY DEF NoGrant, Grant, NoReplay, ReplayClaim, NoRead, ReadClaim, Clock
<1>3. 1 \in 1..Succeeded BY StagesAssumption DEF Succeeded
<1>4. n \in Operation
  BY <1>1, <1>2, <1>3 DEF newWorkspaceLaunchReconcileOperation, Operation, ObservationState
<1> QED BY <1>4 DEF newWorkspaceLaunchReconcileOperation

LEMMA ResetStageType ==
  ASSUME NEW o \in Operation, o.stage \in StageIdx
  PROVE  /\ ResetStage(o) \in Operation
         /\ ResetStage(o).stage = o.stage /\ ResetStage(o).observations = o.observations
         /\ ResetStage(o).runtimeRepair = o.runtimeRepair
<1> DEFINE i == o.stage
           n == ResetStage(o)
           a == [o.attempts[i] EXCEPT !.attempted = 0, !.status = "", !.pendingReadbacks = 0]
<1>0. o.attempts[i] \in Attempt BY DEF Operation
<1>1. a \in Attempt BY <1>0, AttemptWrites, BudgetAssumption DEF Clock
<1>2. n.attempts = [o.attempts EXCEPT ![i] = a] BY DEF ResetStage, Operation
<1>3. n.attempts \in [StageIdx -> Attempt] BY <1>1, <1>2 DEF Operation
<1>4. n.freshContinuations \in [StageIdx -> {"none", "active", "consumed", "failed"}]
  BY DEF ResetStage, Operation
<1>5. NoRead \in ReadClaim BY DEF NoRead, ReadClaim, Clock
<1>6. n.readClaims \in [StageIdx -> ReadClaim] BY <1>5 DEF ResetStage, Operation
<1>7. n.stage = o.stage /\ n.observations = o.observations /\ n.runtimeRepair = o.runtimeRepair
  BY DEF ResetStage, Operation
<1>8. n \in Operation BY <1>3, <1>4, <1>6 DEF ResetStage, Operation
<1> QED BY <1>7, <1>8

\* Ageing changes no more than leases and deadlines.
Aged(o, n) ==
  /\ n \in Operation
  /\ n.stage = o.stage /\ n.status = o.status
  /\ n.observations = o.observations
  /\ n.freshContinuations = o.freshContinuations
  /\ n.runtimeRepair = o.runtimeRepair
  /\ \A i \in StageIdx : n.attempts[i].attempted = o.attempts[i].attempted

LEMMA AgeLeasesAged ==
  ASSUME NEW o \in Operation
  PROVE  Aged(o, AgeLeases(o))
<1> DEFINE n == AgeLeases(o)
<1>1. \A c \in Clock : ExpireClock(c) \in Clock BY DEF Clock, ExpireClock
<1>2. n.replayClaims \in [StageIdx -> ReplayClaim]
  <2>1. n.replayClaims = [i \in StageIdx |-> ExpireLease(o.replayClaims[i])] BY DEF AgeLeases, Operation
  <2>2. ASSUME NEW c \in ReplayClaim PROVE ExpireLease(c) \in ReplayClaim
    BY <1>1 DEF ReplayClaim, ExpireLease
  <2>3. \A i \in StageIdx : o.replayClaims[i] \in ReplayClaim BY DEF Operation
  <2> QED BY <2>1, <2>2, <2>3
<1>3. n.readClaims \in [StageIdx -> ReadClaim]
  <2>1. n.readClaims = [i \in StageIdx |-> ExpireLease(o.readClaims[i])] BY DEF AgeLeases, Operation
  <2>2. ASSUME NEW c \in ReadClaim PROVE ExpireLease(c) \in ReadClaim
    BY <1>1 DEF ReadClaim, ExpireLease
  <2>3. \A i \in StageIdx : o.readClaims[i] \in ReadClaim BY DEF Operation
  <2> QED BY <2>1, <2>2, <2>3
<1>4. n \in Operation BY <1>2, <1>3 DEF AgeLeases, Operation
<1> QED BY <1>4 DEF AgeLeases, Operation, Aged

LEMMA AgeDeadlineAged ==
  ASSUME NEW o \in Operation
  PROVE  Aged(o, AgeDeadline(o))
<1> DEFINE n == AgeDeadline(o)
<1>1. \A c \in Clock : ExpireClock(c) \in Clock BY DEF Clock, ExpireClock
<1>2. n.attempts = [i \in StageIdx |->
                      [o.attempts[i] EXCEPT !.deadline = ExpireClock(o.attempts[i].deadline)]]
  BY DEF AgeDeadline, Operation
<1>2a. ASSUME NEW a \in Attempt
       PROVE  /\ [a EXCEPT !.deadline = ExpireClock(a.deadline)] \in Attempt
              /\ [a EXCEPT !.deadline = ExpireClock(a.deadline)].attempted = a.attempted
  <2>1. a.deadline \in Clock BY DEF Attempt
  <2> QED BY <1>1, <2>1, AttemptWrites, BudgetAssumption
<1>2b. \A i \in StageIdx : o.attempts[i] \in Attempt BY DEF Operation
<1>3. n.attempts \in [StageIdx -> Attempt] BY <1>2, <1>2a, <1>2b
<1>4. \A i \in StageIdx : n.attempts[i].attempted = o.attempts[i].attempted
  BY <1>2, <1>2a, <1>2b
<1>5. n \in Operation BY <1>3 DEF AgeDeadline, Operation
<1> QED BY <1>4, <1>5 DEF AgeDeadline, Operation, Aged

-----------------------------------------------------------------------------
(* The inductive invariant.  What makes it inductive is that it speaks     *)
(* about every working copy of the row as about the stored row itself: a   *)
(* pass, however stale, never holds a row that calls a stage ready without *)
(* its effect.                                                             *)

AtStage == PC \ {"idle", "admitted", "entry", "persist"}
Nexts   == PC \ {"persist", "repair", "repairing"}
Calling == {"mutate", "freshRead", "replayRead", "convergeRead", "convergeMutate"}

RowInv(o) ==
  \A i \in StageIdx : /\ o.observations[i] = "ready" => Done(i)
                      /\ i < o.stage => o.observations[i] = "ready"

StageMatchesStatus(o) == (o.stage = Succeeded) <=> (o.status = "succeeded")

FreshReserved(o) ==
  \A i \in StageIdx : o.freshContinuations[i] = "active" => o.attempts[i].attempted = 1

PassInv(l) ==
  /\ l.next # "persist"
  /\ l.pc \in AtStage => l.row.stage \in StageIdx
  /\ l.pc = "entry" => StageMatchesStatus(l.row) /\ FreshReserved(l.row)
  /\ l.pc = "persist" /\ l.next \in AtStage => l.row.stage \in StageIdx

\* An actor that is about to call an owner works for a stored reservation.
ReservationInv(l) ==
  /\ l.held => AttemptsKept(op, l.row)
  /\ l.pc \in Calling => Att(l.row).attempted = 1 /\ op.attempts[l.row.stage].attempted = 1
  /\ l.pc = "persist" /\ l.next \in Calling => Att(l.row).attempted = 1

ActorInv(l) ==
  /\ RowInv(l.row)
  /\ PassInv(l)
  /\ ResourceBilling => ReservationInv(l)

RepairPlaced(o) ==
  o.runtimeRepair => \A i \in StageIdx : Stages[i] = Runtime => i < o.stage

\* Who repairs holds the repair lock, and until the repair is written down the
\* Runtime it brought up stays up: only another repair could remove it.
RepairInv(p, l) ==
  /\ RepairPlaced(l.row)
  /\ l.next \notin {"repair", "repairing"}
  /\ l.pc \in {"repair", "repairing"} =>
       lock["repair"] = p /\ ~op.runtimeRepair /\ IsStage(l.row.stage, Runtime)
  /\ l.row.runtimeRepair =>
       \/ op.runtimeRepair
       \/ /\ l.pc = "persist" /\ lock["repair"] = p
          /\ \A i \in StageIdx : Stages[i] = Runtime => world[i] = "ready"
  /\ l.held /\ op.runtimeRepair => l.row.runtimeRepair

IInv ==
  /\ TypeOK
  /\ RowInv(op) /\ StageMatchesStatus(op) /\ FreshReserved(op) /\ RepairPlaced(op)
  /\ \A p \in Actors : ActorInv(local[p]) /\ RepairInv(p, local[p])
  /\ StagesInOrder
  /\ ReservedBeforeDispatch

-----------------------------------------------------------------------------
(* A step of one actor that leaves the stored row alone.                   *)

\* Actor p takes and gives back no lock but its own.
LocksOf(p) ==
  /\ lock' \in [Locks -> Actors \cup {NoOne}]
  /\ \A q \in Actors : q # p /\ lock["repair"] = q => lock'["repair"] = q

\* The variables other than local and sent.
Frame(p) ==
  /\ op' = op /\ LocksOf(p)
  /\ world' \in [StageIdx -> World] /\ \A i \in StageIdx : Done(i) => Done(i)'
  /\ \A i \in StageIdx : Stages[i] = Runtime /\ world[i] = "ready" =>
       world'[i] = "ready" \/ lock["repair"] = p
  /\ gets' \in [StageIdx -> Nat] /\ repairs' \in BOOLEAN /\ crashes' \in Nat

Works(p, l) ==
  /\ Frame(p)
  /\ local' = [local EXCEPT ![p] = l] /\ l \in Local /\ ActorInv(l)' /\ RepairInv(p, l)'
  /\ sent' \in [StageIdx -> [first : {0, 1, 2}, replays : SUBSET Nat]]
  /\ \A i \in StageIdx : (Dispatches(i))' =>
       Dispatches(i) \/ (i = local[p].row.stage /\ local[p].pc \in Calling)

\* Such a step preserves the invariant.
LEMMA WorksPreserves ==
  ASSUME IInv, NEW p \in Actors, NEW l, Works(p, l)
  PROVE  IInv'
<1> USE DEF IInv
<1>1. TypeOK' BY DEF TypeOK, Works, Frame, LocksOf
<1>2. \A i \in StageIdx : Done(i) => Done(i)' BY DEF Works, Frame
<1>3. (RowInv(op) /\ StageMatchesStatus(op) /\ FreshReserved(op) /\ RepairPlaced(op))'
  BY <1>2 DEF Works, Frame, RowInv, StageMatchesStatus, FreshReserved, RepairPlaced
<1>4. ASSUME NEW q \in Actors PROVE ActorInv(local[q])' /\ RepairInv(q, local[q])'
  <2>1. CASE q = p BY <2>1 DEF Works, TypeOK
  <2>2. CASE q # p
    <3>1. local'[q] = local[q] BY <2>2 DEF Works, TypeOK
    <3>2. RowInv(local[q].row)' BY <1>2, <3>1 DEF ActorInv, RowInv
    <3>3. PassInv(local[q])'
      BY <3>1 DEF ActorInv, PassInv, StageMatchesStatus, FreshReserved
    <3>4. ResourceBilling => ReservationInv(local[q])'
      BY <3>1 DEF ActorInv, ReservationInv, Works, Frame, AttemptsKept, Att
    <3>5. RepairInv(q, local[q])'
      BY <2>2, <3>1 DEF RepairInv, RepairPlaced, Works, Frame, LocksOf
    <3> QED BY <3>2, <3>3, <3>4, <3>5 DEF ActorInv
  <2> QED BY <2>1, <2>2
<1>5. StagesInOrder'
  <2> SUFFICES ASSUME NEW i \in StageIdx, (Dispatches(i))', NEW j \in 1..(i - 1)
               PROVE  Done(j)'
    BY DEF StagesInOrder
  <2>0. j \in StageIdx /\ j < i BY StagesAssumption DEF StageIdx
  <2>1. CASE Dispatches(i) BY <1>2, <2>0, <2>1 DEF StagesInOrder
  <2>2. CASE i = local[p].row.stage
    BY <1>2, <2>0, <2>2 DEF ActorInv, RowInv
  <2> QED BY <2>1, <2>2 DEF Works
<1>6. ReservedBeforeDispatch'
  <2> SUFFICES ASSUME ResourceBilling, NEW i \in StageIdx, (Dispatches(i))'
               PROVE  op.attempts[i].attempted = 1
    BY DEF ReservedBeforeDispatch, Works, Frame
  <2>1. CASE Dispatches(i) BY <2>1 DEF ReservedBeforeDispatch
  <2>2. CASE i = local[p].row.stage /\ local[p].pc \in Calling
    BY <2>2 DEF ActorInv, ReservationInv
  <2> QED BY <2>1, <2>2 DEF Works
<1> QED BY <1>1, <1>3, <1>4, <1>5, <1>6

LEMMA LocksKept ==
  ASSUME IInv, NEW p \in Actors
  PROVE  /\ lock' = lock => LocksOf(p)
         /\ lock' = Released(p) => LocksOf(p)
         /\ \A k \in Locks : Taken(p, k) => LocksOf(p)
<1>1. lock \in [Locks -> Actors \cup {NoOne}] /\ "repair" \in Locks
  BY DEF IInv, TypeOK, Locks
<1>2. lock' = lock => LocksOf(p) BY <1>1 DEF LocksOf
<1>3. lock' = Released(p) => LocksOf(p) BY <1>1 DEF LocksOf, Released
<1>4. \A k \in Locks : Taken(p, k) => LocksOf(p)
  BY <1>1, ActorsAssumption DEF LocksOf, Taken
<1> QED BY <1>2, <1>3, <1>4

LEMMA QuietFrame ==
  ASSUME IInv, NEW p \in Actors, Quiet, LocksOf(p)
  PROVE  Frame(p)
  BY DEF IInv, TypeOK, Quiet, Frame, Done, Replacing

LEMMA ThinksFrame ==
  ASSUME IInv, NEW p \in Actors, Thinks
  PROVE  Frame(p) /\ sent' = sent
<1>1. Quiet /\ lock' = lock BY DEF Thinks
<1> QED BY <1>1, LocksKept, QuietFrame DEF Quiet

LEMMA NothingSent ==
  ASSUME IInv, NEW p \in Actors, sent' = sent
  PROVE  /\ sent' \in [StageIdx -> [first : {0, 1, 2}, replays : SUBSET Nat]]
         /\ \A i \in StageIdx : (Dispatches(i))' =>
              Dispatches(i) \/ (i = local[p].row.stage /\ local[p].pc \in Calling)
  BY DEF IInv, TypeOK, Dispatches

\* The handler returns.
LEMMA AtRestInv ==
  ASSUME NEW p
  PROVE  AtRest \in Local /\ ActorInv(AtRest)' /\ RepairInv(p, AtRest)'
<1>1. AtRest \in Local
  BY NewOperationType DEF AtRest, Local, PC, NoGrant, Grant
<1>2. AtRest.pc = "idle" /\ AtRest.next = "idle" /\ AtRest.held = FALSE
      /\ AtRest.row = newWorkspaceLaunchReconcileOperation
  BY DEF AtRest
<1>3. RowInv(AtRest.row)'
  <2>1. \A i \in StageIdx : i \in Nat /\ ~(i < 1)
    BY StagesAssumption DEF StageIdx
  <2> QED BY <1>2, <2>1, NewOperationType DEF RowInv
<1>4. PassInv(AtRest)' BY <1>2 DEF PassInv, AtStage
<1>5. ReservationInv(AtRest)' BY <1>2 DEF ReservationInv, Calling
<1>6. RepairInv(p, AtRest)' BY <1>2, NewOperationType DEF RepairInv, RepairPlaced
<1> QED BY <1>1, <1>3, <1>4, <1>5, <1>6 DEF ActorInv

LEMMA ReturnWorks ==
  ASSUME IInv, NEW p \in Actors, Return(p), sent' = sent, op' = op, gets' \in [StageIdx -> Nat],
         repairs' = repairs, crashes' \in Nat, world' = world
  PROVE  IInv'
<1>1. LocksOf(p) BY LocksKept DEF Return
<1>2. Frame(p) BY <1>1 DEF IInv, TypeOK, Frame, Done, Replacing
<1>3. Works(p, AtRest) BY <1>2, AtRestInv, NothingSent DEF Works, Return
<1> QED BY <1>3, WorksPreserves

LEMMA QuietReturn ==
  ASSUME IInv, NEW p \in Actors, Return(p), Quiet
  PROVE  IInv'
  BY ReturnWorks DEF Quiet, IInv, TypeOK

\* The handler goes on with the row it has.
LEMMA GotoWorks ==
  ASSUME IInv, NEW p \in Actors, NEW c \in Nexts \ {"entry"}, Frame(p), local[p].pc # "persist",
         sent' \in [StageIdx -> [first : {0, 1, 2}, replays : SUBSET Nat]],
         \A i \in StageIdx : (Dispatches(i))' =>
              Dispatches(i) \/ (i = local[p].row.stage /\ local[p].pc \in Calling),
         c \in AtStage => Row(p).stage \in StageIdx, c \in Calling => local[p].pc \in Calling,
         Goto(p, c, Row(p))
  PROVE  IInv'
<1>0. PICK l : l = [local[p] EXCEPT !.pc = c, !.row = Row(p)] OBVIOUS
<1>1. local[p] \in Local /\ ActorInv(local[p]) /\ RepairInv(p, local[p]) BY DEF IInv, TypeOK
<1>2. local' = [local EXCEPT ![p] = l] BY <1>0 DEF Goto, IInv, TypeOK
<1>3. l \in Local BY <1>0, <1>1 DEF Local, Nexts, Row
<1>4. l.pc = c /\ l.row = local[p].row /\ l.next = local[p].next /\ l.held = local[p].held
  BY <1>0, <1>1 DEF Local, Row
<1>5. RowInv(l.row)' BY <1>1, <1>4 DEF ActorInv, RowInv, Frame
<1>6. PassInv(l)' BY <1>1, <1>4 DEF ActorInv, PassInv, AtStage, Row, Nexts
<1>7. ResourceBilling => ReservationInv(l)'
  BY <1>1, <1>4 DEF ActorInv, ReservationInv, Frame, Nexts, AttemptsKept, Att
<1>8. RepairInv(p, l)' BY <1>1, <1>4 DEF RepairInv, RepairPlaced, Frame, Nexts
<1>9. Works(p, l) BY <1>2, <1>3, <1>5, <1>6, <1>7, <1>8 DEF Works, ActorInv
<1> QED BY <1>9, WorksPreserves

SameRepair(o, n) == n.runtimeRepair = o.runtimeRepair

\* Row n records a repair that its actor has just seen succeed.
Repaired(p, n) ==
  /\ n.runtimeRepair /\ lock'["repair"] = p /\ IsStage(Row(p).stage, Runtime)
  /\ \A i \in StageIdx : i = Row(p).stage => world'[i] = "ready"

\* The handler has made up its mind and is about to persist row n.
LEMMA SaveWorks ==
  ASSUME IInv, NEW p \in Actors, NEW n, NEW c \in Nexts, Frame(p), sent' = sent,
         Row(p).stage \in StageIdx, local[p].pc # "persist",
         Stays(Row(p), n) \/ (Advances(Row(p), n) /\ c \notin AtStage
                                  /\ \A i \in StageIdx : i = Row(p).stage => Done(i)'),
         SameRepair(Row(p), n) \/ (Advances(Row(p), n) /\ Repaired(p, n)),
         ResourceBilling /\ c \in Calling => Att(n).attempted = 1,
         Save(p, n, c)
  PROVE  IInv'
<1>0. PICK o, l : /\ o = Row(p)
                  /\ l = [local[p] EXCEPT !.pc = "persist", !.row = n, !.next = c]
  OBVIOUS
<1> USE <1>0
<1>1. local[p] \in Local /\ ActorInv(local[p]) /\ RepairInv(p, local[p]) BY DEF IInv, TypeOK
<1>2. local' = [local EXCEPT ![p] = l] BY DEF Save, IInv, TypeOK
<1>3. o \in Operation /\ RowInv(o) BY <1>1 DEF Local, Row, ActorInv
<1>4. n \in Operation /\ AttemptsKept(o, n) BY DEF Stays, Keeps, Marks, Advances
<1>5. l \in Local BY <1>1, <1>4 DEF Local, PC, Nexts
<1>6. l.pc = "persist" /\ l.row = n /\ l.next = c /\ l.held = local[p].held
  BY <1>1 DEF Local
<1>6a. \A i \in StageIdx : Done(i) => Done(i)' BY DEF Frame
<1>7. RowInv(n)'
  <2>1. CASE Keeps(o, n) BY <1>3, <1>6a, <2>1 DEF Keeps, RowInv
  <2>2. ASSUME NEW s \in NotReady, Marks(o, n, s) PROVE RowInv(n)'
    <3>1. \A i \in StageIdx : n.observations[i] = IF i = o.stage THEN s ELSE o.observations[i]
      BY <1>3, <2>2 DEF Marks, Operation
    <3>2. n.stage = o.stage /\ ~(o.stage < o.stage) BY <2>2, StageIdxType DEF Marks
    <3> QED BY <1>3, <1>6a, <3>1, <3>2 DEF RowInv, NotReady
  <2>3. CASE Advances(o, n) /\ \A i \in StageIdx : i = o.stage => Done(i)'
    <3>1. \A i \in StageIdx : n.observations[i] = IF i = o.stage THEN "ready" ELSE o.observations[i]
      BY <1>3, <2>3 DEF Advances, Operation
    <3>2. n.stage = o.stage + 1 BY <2>3 DEF Advances
    <3>3. \A i \in StageIdx : i < n.stage => i = o.stage \/ i < o.stage
      BY <3>2, StageIdxType
    <3> QED BY <1>3, <1>6a, <2>3, <3>1, <3>3 DEF RowInv
  <2> QED BY <2>1, <2>2, <2>3 DEF Stays
<1>8. PassInv(l)'
  <2>1. c \in AtStage => n.stage \in StageIdx BY DEF Stays, Keeps, Marks
  <2> QED BY <1>6, <2>1 DEF PassInv, AtStage, Nexts
<1>9. ResourceBilling => ReservationInv(l)'
  <2>1. ResourceBilling /\ l.held => AttemptsKept(op, n)
    BY <1>1, <1>4, <1>6 DEF ActorInv, ReservationInv, AttemptsKept, Row
  <2>2. op' = op BY DEF Frame
  <2> QED BY <1>6, <2>1, <2>2 DEF ReservationInv, Calling, AttemptsKept
<1>10. RepairInv(p, l)'
  <2>1. RepairPlaced(o) /\ o = local[p].row BY <1>1 DEF RepairInv, Row
  <2>2. op' = op BY DEF Frame
  <2>3. CASE SameRepair(o, n)
    <3>0. n.runtimeRepair = o.runtimeRepair BY <2>3 DEF SameRepair
    <3>1. n.stage = o.stage \/ n.stage = o.stage + 1 BY DEF Stays, Keeps, Marks, Advances
    <3>2. \A i \in StageIdx : i < o.stage => i < n.stage BY <3>1, StageIdxType
    <3>3. RepairPlaced(n) BY <2>1, <3>0, <3>2 DEF RepairPlaced
    <3>4. o.runtimeRepair => op.runtimeRepair BY <1>1, <2>1 DEF RepairInv
    <3>5. l.held /\ op.runtimeRepair => n.runtimeRepair BY <1>1, <1>6, <2>1, <3>0 DEF RepairInv
    <3> QED BY <1>6, <2>2, <3>0, <3>3, <3>4, <3>5 DEF RepairInv, RepairPlaced, Nexts
  <2>4. CASE Advances(o, n) /\ Repaired(p, n)
    <3>1. \A i \in StageIdx : Stages[i] = Runtime => i = o.stage
      BY <2>4, StagesAssumption DEF Repaired, IsStage, StageIdx
    <3>2. \A i \in StageIdx : Stages[i] = Runtime => i < n.stage /\ world'[i] = "ready"
      BY <2>4, <3>1, StageIdxType DEF Advances, Repaired
    <3>3. n.runtimeRepair /\ lock'["repair"] = p BY <2>4 DEF Repaired
    <3> QED BY <1>6, <2>2, <3>2, <3>3 DEF RepairInv, RepairPlaced, Nexts
  <2> QED BY <2>3, <2>4
<1>11. Works(p, l)
  BY <1>2, <1>5, <1>6, <1>7, <1>8, <1>9, <1>10, NothingSent DEF Works, ActorInv
<1> QED BY <1>11, WorksPreserves

\* The handler takes up the stored row, as it is or with a new authorization.
LEMMA LoadWorks ==
  ASSUME IInv, NEW p \in Actors, NEW l \in Local, Frame(p), sent' = sent,
         local' = [local EXCEPT ![p] = l], l.row = op \/ Keeps(op, l.row),
         l.next \in Nexts, l.pc \notin Calling, l.pc # "repairing",
         l.pc = "repair" => lock'["repair"] = p /\ IsStage(op.stage, Runtime),
         l.pc \in AtStage => op.stage \in StageIdx,
         l.pc = "entry" => l.row = op,
         l.pc = "persist" => l.next \notin AtStage
  PROVE  IInv'
<1>1. op' = op /\ \A i \in StageIdx : Done(i) => Done(i)' BY DEF Frame
<1>2. /\ l.row.stage = op.stage /\ l.row.observations = op.observations
      /\ AttemptsKept(op, l.row) /\ l.row.runtimeRepair = op.runtimeRepair
  BY DEF Keeps, AttemptsKept
<1>3. RowInv(l.row)' BY <1>1, <1>2 DEF IInv, RowInv
<1>4. PassInv(l)' BY <1>1, <1>2 DEF IInv, PassInv, StageMatchesStatus, FreshReserved, Nexts
<1>5. ReservationInv(l)'
  <2>1. Calling \subseteq AtStage BY DEF Calling, AtStage, PC
  <2>2. l.held => AttemptsKept(op, l.row)' BY <1>1, <1>2 DEF AttemptsKept
  <2> QED BY <2>1, <2>2 DEF ReservationInv
<1>6. RepairInv(p, l)'
  <2>1. RepairPlaced(op) BY DEF IInv
  <2>2. l.pc = "repair" => ~op.runtimeRepair
    <3>1. \A i \in StageIdx : ~(i < i) BY StageIdxType
    <3> QED BY <2>1, <3>1 DEF RepairPlaced, IsStage
  <2>3. RepairPlaced(l.row) BY <1>2, <2>1 DEF RepairPlaced
  <2> QED BY <1>1, <1>2, <2>2, <2>3 DEF RepairInv, RepairPlaced, Nexts
<1>7. Works(p, l) BY <1>3, <1>4, <1>5, <1>6, NothingSent DEF Works, ActorInv
<1> QED BY <1>7, WorksPreserves

Working(p) == local[p].pc # "persist"

\* What an actor at work can rely on.
LEMMA WorkingRow ==
  ASSUME IInv, NEW p \in Actors
  PROVE  /\ Row(p) \in Operation /\ local[p] \in Local
         /\ local[p].pc \in AtStage => Row(p).stage \in StageIdx /\ Working(p)
         /\ PendingEntry(p) => Row(p).stage \in StageIdx /\ Working(p)
         /\ (At(p, "entry") /\ Row(p).status # "succeeded") => Row(p).stage \in StageIdx /\ Working(p)
<1>1. local[p] \in Local /\ PassInv(local[p]) BY DEF IInv, TypeOK, ActorInv
<1>2. Row(p) \in Operation BY <1>1 DEF Local, Row
<1>3. Row(p).stage \in 1..Succeeded BY <1>2 DEF Operation
<1> QED BY <1>1, <1>2, <1>3, StageIdxType
        DEF PassInv, StageMatchesStatus, PendingEntry, At, Row, Working, AtStage

LEMMA SeesReady ==
  ASSUME IInv, NEW p \in Actors, Row(p).stage \in StageIdx /\ Working(p), Sees(p, "ready")
  PROVE  Done(Row(p).stage)
<1>1. world[Row(p).stage] \in World BY DEF IInv, TypeOK
<1>2. CASE Stages[Row(p).stage] = Debit
  BY <1>2 DEF Sees, ReadStage, ReadDebit, Done
<1>3. CASE Stages[Row(p).stage] # Debit
  BY <1>1, <1>3 DEF Sees, ReadStage, ReadOwner, Done, World
<1> QED BY <1>2, <1>3

\* The two ways in which most handlers end.
LEMMA StayWorks ==
  ASSUME IInv, NEW p \in Actors, NEW n, NEW c \in Nexts, Frame(p), sent' = sent,
         Row(p).stage \in StageIdx /\ Working(p), Stays(Row(p), n),
         ResourceBilling /\ c \in Calling => Att(n).attempted = 1, Save(p, n, c)
  PROVE  IInv'
<1>1. n.runtimeRepair = Row(p).runtimeRepair BY DEF Stays, Keeps, Marks
<1>2. local[p].pc # "persist" BY DEF Working
<1>3. Stays(Row(p), n) \/ (Advances(Row(p), n) /\ c \notin AtStage
                              /\ \A i \in StageIdx : i = Row(p).stage => Done(i)')
  OBVIOUS
<1>4. SameRepair(Row(p), n) BY <1>1 DEF SameRepair
<1> QED BY <1>2, <1>3, <1>4, SaveWorks

LEMMA ConfirmWorks ==
  ASSUME IInv, NEW p \in Actors, NEW n, Frame(p), sent' = sent,
         Row(p).stage \in StageIdx /\ Working(p), Sees(p, "ready"), Confirms(Row(p), n),
         Save(p, n, "idle")
  PROVE  IInv'
<1>1. Done(Row(p).stage) BY SeesReady
<1>2. \A i \in StageIdx : i = Row(p).stage => Done(i)' BY <1>1 DEF Frame
<1>3. n.runtimeRepair = Row(p).runtimeRepair BY DEF Confirms
<1>4. local[p].pc # "persist" BY DEF Working
<1>5. "idle" \in Nexts /\ "idle" \notin AtStage /\ "idle" \notin Calling
  BY DEF AtStage, Calling, PC, Nexts
<1>6. Stays(Row(p), n) \/ (Advances(Row(p), n) /\ "idle" \notin AtStage
                              /\ \A i \in StageIdx : i = Row(p).stage => Done(i)')
  BY <1>2, <1>5 DEF Confirms
<1>7. SameRepair(Row(p), n) BY <1>3 DEF SameRepair
<1> QED BY <1>4, <1>5, <1>6, <1>7, SaveWorks

-----------------------------------------------------------------------------
(* Handlers start and load the row.                                        *)

LEMMA GrantsForType ==
  ASSUME NEW o \in Operation, o.stage \in StageIdx, NEW n \in Nat, NEW g \in GrantsFor(o, n)
  PROVE  g \in Grant
<1>1. o.stage \in Nat BY StageIdxType
<1>2. ReadBudget \in Nat /\ ComputeReads \in Nat BY BudgetAssumption
<1>3. CASE g = [NoGrant EXCEPT !.id = n, !.stage = o.stage, !.mutation = 1]
  BY <1>1, <1>3 DEF NoGrant, Grant
<1>4. CASE \E r \in {0, 1}, b \in {ReadBudget, ComputeReads} :
             g = [id |-> n, stage |-> o.stage, mutation |-> 0, replay |-> r,
                  reads |-> b, readbacks |-> 0]
  BY <1>1, <1>2, <1>4 DEF Grant
<1> QED BY <1>3, <1>4 DEF GrantsFor

\* A handler that is only admitted holds no row yet.
LEMMA AdmitsInv ==
  ASSUME IInv, NEW p \in Actors, Quiet, LocksOf(p), Working(p), Goto(p, "admitted", Row(p))
  PROVE  IInv'
<1>1. Frame(p) /\ sent' = sent BY QuietFrame DEF Quiet
<1>2. "admitted" \in Nexts \ {"entry"} /\ "admitted" \notin AtStage /\ "admitted" \notin Calling
  BY DEF Nexts, PC, AtStage, Calling
<1> QED BY <1>1, <1>2, GotoWorks, NothingSent DEF Working

LEMMA ListPendingInv ==
  ASSUME IInv, NEW p \in Actors, ListPending(p) PROVE IInv'
  BY LocksKept, AdmitsInv DEF ListPending, Thinks, At, Working

LEMMA CustomerContinuesInv ==
  ASSUME IInv, NEW p \in Actors, CustomerContinues(p) PROVE IInv'
<1>1. LocksOf(p) BY LocksKept DEF CustomerContinues, Locks
<1> QED BY <1>1, AdmitsInv DEF CustomerContinues, At, Working

LEMMA ResumeAgainInv ==
  ASSUME IInv, NEW p \in Actors, ResumeAgain(p) PROVE IInv'
  BY LocksKept, AdmitsInv DEF ResumeAgain, Thinks, At, Working

LEMMA RepairAgainInv ==
  ASSUME IInv, NEW p \in Actors, RepairAgain(p) PROVE IInv'
<1>1. LocksOf(p) BY LocksKept DEF RepairAgain, Locks
<1> QED BY <1>1, AdmitsInv DEF RepairAgain, At, Working

\* What a handler may leave over for its next write.
LEMMA NextType ==
  ASSUME IInv, NEW p \in Actors
  PROVE  local[p] \in Local /\ op \in Operation /\ local[p].next \in Nexts
  BY DEF IInv, TypeOK, ActorInv, PassInv, RepairInv, Local, Nexts

LEMMA LoadInv ==
  ASSUME IInv, NEW p \in Actors, Load(p) PROVE IInv'
<1>0. PICK l : l = [local[p] EXCEPT !.pc = "entry", !.row = op, !.held = TRUE] OBVIOUS
<1>1. local[p] \in Local /\ op \in Operation /\ local[p].next \in Nexts BY NextType
<1>2. l \in Local /\ l.row = op /\ l.pc = "entry" /\ l.next \in Nexts
  BY <1>0, <1>1 DEF Local, PC
<1>3. local' = [local EXCEPT ![p] = l] BY <1>0 DEF Load, IInv, TypeOK
<1>4. LocksOf(p) BY LocksKept DEF Load, Locks
<1>5. Frame(p) /\ sent' = sent BY <1>4, QuietFrame DEF Load, Quiet
<1> QED BY <1>2, <1>3, <1>5, LoadWorks DEF AtStage, Calling

LEMMA RepairBeginsInv ==
  ASSUME IInv, NEW p \in Actors, RepairBegins(p) PROVE IInv'
<1>0. PICK l : l = [local[p] EXCEPT !.pc = "repair", !.row = op, !.held = TRUE] OBVIOUS
<1>1. local[p] \in Local /\ op \in Operation /\ local[p].next \in Nexts BY NextType
<1>2. l \in Local /\ l.row = op /\ l.pc = "repair" /\ l.next \in Nexts
  BY <1>0, <1>1 DEF Local, PC
<1>3. local' = [local EXCEPT ![p] = l] BY <1>0 DEF RepairBegins, IInv, TypeOK
<1>4. LocksOf(p) BY LocksKept DEF RepairBegins, Locks
<1>5. Frame(p) /\ sent' = sent BY <1>4, QuietFrame DEF RepairBegins, Quiet
<1>6. IsStage(op.stage, Runtime) /\ op.stage \in StageIdx
  BY DEF RepairBegins, RuntimeRepairEligible, IsStage
<1>7. lock'["repair"] = p BY DEF RepairBegins, Taken, IInv, TypeOK, Locks
<1> QED BY <1>2, <1>3, <1>5, <1>6, <1>7, LoadWorks DEF Calling

LEMMA ResumeInv ==
  ASSUME IInv, NEW p \in Actors, Resume(p) PROVE IInv'
<1>1. local[p] \in Local /\ op \in Operation /\ local[p].next \in Nexts BY NextType
<1>2. op.stage \in StageIdx
  BY <1>1, StageIdxType DEF Resume, IInv, StageMatchesStatus, Operation
<1>3. Frame(p) /\ sent' = sent BY ThinksFrame DEF Resume
<1>4. PICK n \in 1..MaxGrants : \E g \in GrantsFor(op, n) :
         \/ \E c \in {"resumeCompute", "resumeRuntime", "resumeExhausted"} :
              local' = [local EXCEPT ![p].pc = c, ![p].row = op,
                                     ![p].held = TRUE, ![p].grant = g]
         \/ local' = [local EXCEPT ![p].pc = "persist", ![p].next = "admitted",
                        ![p].row = [rotateResumeAuthorization(op, g) EXCEPT !.status = "pending"],
                        ![p].held = TRUE]
  BY DEF Resume
<1>5. n \in Nat BY BudgetAssumption
<1>6. PICK g \in GrantsFor(op, n) :
         \/ \E c \in {"resumeCompute", "resumeRuntime", "resumeExhausted"} :
              local' = [local EXCEPT ![p].pc = c, ![p].row = op,
                                     ![p].held = TRUE, ![p].grant = g]
         \/ local' = [local EXCEPT ![p].pc = "persist", ![p].next = "admitted",
                        ![p].row = [rotateResumeAuthorization(op, g) EXCEPT !.status = "pending"],
                        ![p].held = TRUE]
  BY <1>4
<1>7. g \in Grant BY <1>1, <1>2, <1>5, GrantsForType
<1>8. ASSUME NEW c \in {"resumeCompute", "resumeRuntime", "resumeExhausted"},
             local' = [local EXCEPT ![p].pc = c, ![p].row = op,
                                     ![p].held = TRUE, ![p].grant = g]
      PROVE  IInv'
  <2>0. PICK l : l = [local[p] EXCEPT !.pc = c, !.row = op, !.held = TRUE, !.grant = g] OBVIOUS
  <2>1. l \in Local /\ l.row = op /\ l.pc = c /\ l.next \in Nexts
    BY <1>1, <1>7, <2>0 DEF Local, PC
  <2>2. local' = [local EXCEPT ![p] = l] BY <1>8, <2>0 DEF IInv, TypeOK
  <2> QED BY <1>2, <1>3, <2>1, <2>2, LoadWorks DEF Calling
<1>9. CASE local' = [local EXCEPT ![p].pc = "persist", ![p].next = "admitted",
                       ![p].row = [rotateResumeAuthorization(op, g) EXCEPT !.status = "pending"],
                       ![p].held = TRUE]
  <2>0. PICK x, r, l : /\ x = rotateResumeAuthorization(op, g)
                       /\ r = [x EXCEPT !.status = "pending"]
                       /\ l = [local[p] EXCEPT !.pc = "persist", !.next = "admitted",
                                               !.row = r, !.held = TRUE]
    OBVIOUS
  <2>1. Keeps(op, x) BY <1>1, <1>7, <2>0, RotateKeeps
  <2>2. x \in Operation BY <2>1 DEF Keeps
  <2>3. Keeps(x, r) BY <2>0, <2>2, SetStatusKeeps
  <2>4. Keeps(op, r) BY <2>1, <2>3, KeepsKeeps
  <2>5. r \in Operation BY <2>4 DEF Keeps
  <2>6. l \in Local /\ l.row = r /\ l.pc = "persist" /\ l.next = "admitted"
    BY <1>1, <2>0, <2>5 DEF Local, PC
  <2>7. local' = [local EXCEPT ![p] = l] BY <1>9, <2>0 DEF IInv, TypeOK
  <2> QED BY <1>3, <2>4, <2>6, <2>7, LoadWorks DEF AtStage, Calling, Nexts, PC
<1> QED BY <1>6, <1>8, <1>9

-----------------------------------------------------------------------------
(* Reconcile.                                                              *)

LEMMA NotReadyWords ==
  "absent" \in NotReady /\ "unknown" \in NotReady /\ "pending" \in NotReady
  /\ "ownership_pending" \in NotReady
  BY DEF NotReady, ObservationState

LEMMA PCWords ==
  /\ "idle" \in Nexts /\ "idle" \notin Calling
  /\ "admitted" \in Nexts /\ "admitted" \notin Calling
  /\ {"mutate", "replayRead", "freshRead", "convergeRead"} \subseteq Nexts
  BY DEF Nexts, PC, Calling

\* A pass that ends by parking or counting at its stage.
LEMMA EndsInv ==
  ASSUME IInv, NEW p \in Actors, NEW n, Thinks, Row(p).stage \in StageIdx /\ Working(p),
         Stays(Row(p), n), Save(p, n, "idle")
  PROVE  IInv'
  BY ThinksFrame, StayWorks, PCWords

\* A pass that ends by confirming its stage.
LEMMA ConfirmsInv ==
  ASSUME IInv, NEW p \in Actors, NEW n, Thinks, Row(p).stage \in StageIdx /\ Working(p),
         Sees(p, "ready"), Confirms(Row(p), n), Save(p, n, "idle")
  PROVE  IInv'
  BY ThinksFrame, ConfirmWorks

\* Only a launch without resource billing is reset, where no reservation is
\* promised to last.
LEMMA EntryResetInv ==
  ASSUME IInv, NEW p \in Actors, EntryReset(p) PROVE IInv'
<1>0. PICK n, l : /\ n = ResetStage(Row(p))
                  /\ l = [local[p] EXCEPT !.pc = "persist", !.row = n, !.next = "entry"]
  OBVIOUS
<1>1. local[p] \in Local /\ ActorInv(local[p]) /\ RepairInv(p, local[p]) BY DEF IInv, TypeOK
<1>2. Row(p) \in Operation /\ Row(p).stage \in StageIdx /\ Working(p) /\ ~ResourceBilling
  BY WorkingRow DEF EntryReset, InRecoverableReview
<1>3. /\ n \in Operation /\ n.stage = Row(p).stage /\ n.observations = Row(p).observations
      /\ n.runtimeRepair = Row(p).runtimeRepair
  BY <1>0, <1>2, ResetStageType
<1>4. l \in Local BY <1>0, <1>1, <1>3 DEF Local, PC
<1>5. l.pc = "persist" /\ l.row = n /\ l.next = "entry" /\ l.held = local[p].held
  BY <1>0, <1>1 DEF Local
<1>6. local' = [local EXCEPT ![p] = l] BY <1>0 DEF EntryReset, Save, IInv, TypeOK
<1>7. Frame(p) /\ sent' = sent BY ThinksFrame DEF EntryReset
<1>8. RowInv(l.row)' BY <1>1, <1>3, <1>5, <1>7 DEF ActorInv, RowInv, Frame, Row
<1>9. PassInv(l)' BY <1>5 DEF PassInv, AtStage
<1>10. RepairInv(p, l)'
  BY <1>1, <1>2, <1>3, <1>5, <1>7 DEF RepairInv, RepairPlaced, Frame, Row, Working
<1>11. Works(p, l) BY <1>2, <1>4, <1>6, <1>7, <1>8, <1>9, <1>10, NothingSent DEF Works, ActorInv
<1> QED BY <1>11, WorksPreserves

LEMMA EntryReturnInv ==
  ASSUME IInv, NEW p \in Actors, EntryReturn(p) PROVE IInv'
  BY QuietReturn DEF EntryReturn

LEMMA EntryReadInv ==
  ASSUME IInv, NEW p \in Actors, EntryRead(p) PROVE IInv'
<1>1. Row(p).stage \in StageIdx /\ Working(p) BY WorkingRow DEF EntryRead
<1>2. Frame(p) /\ sent' = sent BY ThinksFrame DEF EntryRead
<1> QED BY <1>1, <1>2, GotoWorks, NothingSent DEF EntryRead, PC, Nexts, Calling, Working

LEMMA EntryPutAsideInv ==
  ASSUME IInv, NEW p \in Actors, EntryPutAside(p) PROVE IInv'
<1>1. Row(p) \in Operation /\ Row(p).stage \in StageIdx /\ Working(p)
  BY WorkingRow DEF EntryPutAside
<1>2. Stays(Row(p), [Row(p) EXCEPT !.status = "manual_review"]) BY <1>1, SetStatusKeeps DEF Stays
<1> QED BY <1>1, <1>2, EndsInv DEF EntryPutAside

LEMMA ReconcileReadyInv ==
  ASSUME IInv, NEW p \in Actors, ReconcileReady(p) PROVE IInv'
<1>1. Row(p) \in Operation /\ Row(p).stage \in StageIdx /\ Working(p)
  BY WorkingRow DEF ReconcileReady, At, AtStage, PC
<1> QED BY <1>1, ConfirmStageConfirms, ConfirmsInv DEF ReconcileReady

LEMMA ReconcileUnreadableInv ==
  ASSUME IInv, NEW p \in Actors, ReconcileUnreadable(p) PROVE IInv'
  BY QuietReturn DEF ReconcileUnreadable

LEMMA ReconcileUnknownInv ==
  ASSUME IInv, NEW p \in Actors, ReconcileUnknown(p) PROVE IInv'
<1>1. Row(p) \in Operation /\ Row(p).stage \in StageIdx /\ Working(p)
  BY WorkingRow DEF ReconcileUnknown, At, AtStage, PC
<1>2. PICK a : a = IF Att(Row(p)).status = "reserved" THEN Unknown(Att(Row(p))) ELSE Att(Row(p))
  OBVIOUS
<1>3. a \in Attempt /\ a.attempted = Att(Row(p)).attempted BY <1>1, <1>2, AttType
<1>4. Stays(Row(p), ParkStage(Row(p), a, "unknown")) BY <1>1, <1>3, ParkStageStays, NotReadyWords
<1> QED BY <1>1, <1>2, <1>4, EndsInv DEF ReconcileUnknown

\* A stage that is parked with its attempt as it is.
LEMMA ParkAsIsStays ==
  ASSUME NEW o \in Operation, o.stage \in StageIdx
  PROVE  /\ Stays(o, ParkStage(o, Att(o), "unknown"))
         /\ Stays(o, ParkStage(o, Unknown(Att(o)), "unknown"))
  BY AttType, ParkStageStays, NotReadyWords

LEMMA ReconcilePendingInv ==
  ASSUME IInv, NEW p \in Actors, ReconcilePending(p) PROVE IInv'
<1>1. Row(p) \in Operation /\ Row(p).stage \in StageIdx /\ Working(p)
  BY WorkingRow DEF ReconcilePending, At, AtStage, PC
<1>2. Stays(Row(p), CountReadback(Row(p), "pending")) BY <1>1, CountReadbackStays, NotReadyWords
<1>3. Stays(Row(p), ParkStage(Row(p), Att(Row(p)), "unknown")) BY <1>1, ParkAsIsStays
<1> QED BY <1>1, <1>2, <1>3, EndsInv DEF ReconcilePending

LEMMA ReconcileOwnershipPendingInv ==
  ASSUME IInv, NEW p \in Actors, ReconcileOwnershipPending(p) PROVE IInv'
<1>1. Row(p) \in Operation /\ Row(p).stage \in StageIdx /\ Working(p)
  BY WorkingRow DEF ReconcileOwnershipPending, At, AtStage, PC
<1>2. Stays(Row(p), CountReadback(Row(p), "ownership_pending"))
  BY <1>1, CountReadbackStays, NotReadyWords
<1>3. Stays(Row(p), ParkStage(Row(p), Att(Row(p)), "unknown")) BY <1>1, ParkAsIsStays
<1>4. Stays(Row(p), SetAside(Row(p), "unknown")) BY <1>1, SetAsideStays, NotReadyWords
<1>5. \E n : Stays(Row(p), n) /\ Save(p, n, "idle") /\ Thinks
  BY <1>2, <1>3, <1>4 DEF ReconcileOwnershipPending
<1> QED BY <1>1, <1>5, EndsInv

LEMMA ReconcileAbsentParksInv ==
  ASSUME IInv, NEW p \in Actors, ReconcileAbsentParks(p) PROVE IInv'
<1>1. Row(p) \in Operation /\ Row(p).stage \in StageIdx /\ Working(p)
  BY WorkingRow DEF ReconcileAbsentParks, At, AtStage, PC
<1>2. Stays(Row(p), parkClaimedReplay(Row(p))) BY <1>1, ParkAsIsStays DEF parkClaimedReplay
<1>3. Stays(Row(p), SetAside(Row(p), "absent")) BY <1>1, SetAsideStays, NotReadyWords
<1>4. \E n : Stays(Row(p), n) /\ Save(p, n, "idle") /\ Thinks
  BY <1>2, <1>3 DEF ReconcileAbsentParks
<1> QED BY <1>1, <1>4, EndsInv

LEMMA ReplayNotDispatchedInv ==
  ASSUME IInv, NEW p \in Actors, ReplayNotDispatched(p) PROVE IInv'
  BY QuietReturn DEF ReplayNotDispatched

LEMMA ReplayClaimedInv ==
  ASSUME IInv, NEW p \in Actors, ReplayClaimed(p) PROVE IInv'
<1>1. Row(p) \in Operation /\ Row(p).stage \in StageIdx /\ Working(p)
  BY WorkingRow DEF ReplayClaimed, ReplayReached, At, AtStage, PC
<1>2. PICK o, n : o = ReplayObserved(p) /\ n = ClaimReplay(o, Row(p).resumeAuthorization.id)
  OBVIOUS
<1>3. Stays(Row(p), o) /\ o.stage = Row(p).stage /\ o.attempts = Row(p).attempts
  <2>1. CASE o = Row(p) BY <1>1, <2>1 DEF Stays, Keeps, AttemptsKept
  <2>2. CASE o = SetObs(Row(p), "ownership_pending")
    <3>1. Marks(Row(p), o, "ownership_pending")
      BY <1>1, <2>2, SetObsMarks, NotReadyWords DEF NotReady
    <3> QED BY <1>1, <2>2, <3>1, NotReadyWords DEF Stays, Marks, SetObs, Operation
  <2> QED BY <1>2, <2>1, <2>2 DEF ReplayObserved
<1>4. o \in Operation BY <1>3 DEF Stays, Keeps, Marks
<1>5. Row(p).resumeAuthorization.id \in Nat BY <1>1 DEF Operation, Grant
<1>6. Keeps(o, n) /\ n.attempts = o.attempts BY <1>1, <1>2, <1>3, <1>4, <1>5, ClaimReplayKeeps
<1>7. Stays(Row(p), n) BY <1>3, <1>6, KeepsKeeps, MarksKeeps DEF Stays
<1>8. Att(n).attempted = 1
  BY <1>3, <1>6 DEF ReplayClaimed, ReplayReached, IdempotentReplayAuthorized, Att, Keeps
<1>9. Frame(p) /\ sent' = sent BY ThinksFrame DEF ReplayClaimed
<1>10. Save(p, n, "replayRead") BY <1>2 DEF ReplayClaimed
<1> QED BY <1>1, <1>7, <1>8, <1>9, <1>10, StayWorks, PCWords

LEMMA MutateUnavailableInv ==
  ASSUME IInv, NEW p \in Actors, MutateUnavailable(p) PROVE IInv'
  BY QuietReturn DEF MutateUnavailable

LEMMA ReconcileReserveInv ==
  ASSUME IInv, NEW p \in Actors, ReconcileReserve(p) PROVE IInv'
<1>1. Row(p) \in Operation /\ Row(p).stage \in StageIdx /\ Working(p)
  BY WorkingRow DEF ReconcileReserve, At, AtStage, PC
<1>2. Stays(Row(p), ReserveStage(Row(p))) /\ Att(ReserveStage(Row(p))).attempted = 1
  BY <1>1, ReserveStageKeeps DEF Stays
<1>3. Frame(p) /\ sent' = sent BY ThinksFrame DEF ReconcileReserve
<1> QED BY <1>1, <1>2, <1>3, StayWorks, PCWords DEF ReconcileReserve

-----------------------------------------------------------------------------
(* Calls of an owner.                                                      *)

\* A call of an owner never takes an effect back.
LEMMA AfterMutateType ==
  ASSUME NEW i \in StageIdx, NEW v \in World, NEW w \in AfterMutate(i, v)
  PROVE  w \in World /\ (v = "ready" => w = "ready")
  BY DEF AfterMutate, Effects, World

\* A call of an owner by an actor with a stored reservation.
LEMMA CallInv ==
  ASSUME IInv, NEW p \in Actors, local[p].pc \in Calling,
         NEW w \in AfterMutate(Row(p).stage, world[Row(p).stage]),
         world' = [world EXCEPT ![Row(p).stage] = w],
         sent' = Dispatched(Row(p)), NEW c \in {"postRead", "convergePostRead"},
         Goto(p, c, Row(p)), UNCHANGED <<op, lock, gets, repairs, crashes>>
  PROVE  IInv'
<1>1. Row(p) \in Operation /\ Row(p).stage \in StageIdx /\ Working(p)
  BY WorkingRow DEF AtStage, Calling, PC
<1>2. PICK i, v : i = Row(p).stage /\ v = world[i] OBVIOUS
<1>3. v \in World BY <1>1, <1>2 DEF IInv, TypeOK
<1>4. w \in World /\ (v = "ready" => w = "ready") BY <1>1, <1>2, <1>3, AfterMutateType
<1>5. Frame(p)
  <2>1. world' \in [StageIdx -> World] BY <1>1, <1>4 DEF IInv, TypeOK
  <2>2. \A j \in StageIdx : world[j] = "ready" => world'[j] = "ready"
    BY <1>1, <1>2, <1>4 DEF IInv, TypeOK
  <2>3. \A j \in StageIdx : Done(j) => Done(j)' BY <2>2 DEF Done, Replacing
  <2>4. LocksOf(p) BY LocksKept
  <2> QED BY <2>1, <2>2, <2>3, <2>4 DEF Frame, IInv, TypeOK
<1>6. sent \in [StageIdx -> [first : {0, 1, 2}, replays : SUBSET Nat]] BY DEF IInv, TypeOK
<1>7. PICK r : /\ r \in [first : {0, 1, 2}, replays : SUBSET Nat]
               /\ sent' = [sent EXCEPT ![i] = r]
  <2>1. PICK x : x = sent[i] OBVIOUS
  <2>2. x \in [first : {0, 1, 2}, replays : SUBSET Nat] BY <1>1, <1>2, <1>6, <2>1
  <2>3. Replay(Row(p)).authorization \in Nat BY <1>1 DEF Replay, Operation, ReplayClaim
  <2>4. CASE Replay(Row(p)).status = "claimed"
    <3>1. PICK y : y = [x EXCEPT !.replays = x.replays \cup {Replay(Row(p)).authorization}] OBVIOUS
    <3>2. y \in [first : {0, 1, 2}, replays : SUBSET Nat] BY <2>2, <2>3, <3>1
    <3>3. sent' = [sent EXCEPT ![i] = y] BY <1>2, <1>6, <2>1, <2>4, <3>1 DEF Dispatched
    <3> QED BY <3>2, <3>3
  <2>5. CASE Replay(Row(p)).status # "claimed"
    <3>1. PICK y : y = [x EXCEPT !.first = IF x.first < 2 THEN x.first + 1 ELSE 2] OBVIOUS
    <3>2. y \in [first : {0, 1, 2}, replays : SUBSET Nat] BY <2>2, <3>1
    <3>3. sent' = [sent EXCEPT ![i] = y] BY <1>2, <1>6, <2>1, <2>5, <3>1 DEF Dispatched
    <3> QED BY <3>2, <3>3
  <2> QED BY <2>4, <2>5
<1>8. sent' \in [StageIdx -> [first : {0, 1, 2}, replays : SUBSET Nat]] BY <1>6, <1>7
<1>9. \A j \in StageIdx : j # i => sent'[j] = sent[j] BY <1>6, <1>7
<1>10. \A j \in StageIdx : (Dispatches(j))' =>
         Dispatches(j) \/ (j = local[p].row.stage /\ local[p].pc \in Calling)
  BY <1>2, <1>9 DEF Dispatches, Row
<1> QED BY <1>1, <1>5, <1>8, <1>10, GotoWorks DEF PC, Nexts, Calling, Working

LEMMA MutateInv ==
  ASSUME IInv, NEW p \in Actors, Mutate(p) PROVE IInv'
<1>1. PICK w \in AfterMutate(Row(p).stage, world[Row(p).stage]) :
        world' = [world EXCEPT ![Row(p).stage] = w]
  BY DEF Mutate
<1> QED BY <1>1, CallInv DEF Mutate, At, Calling

LEMMA ConvergeMutateInv ==
  ASSUME IInv, NEW p \in Actors, ConvergeMutate(p) PROVE IInv'
<1>1. PICK w \in AfterMutate(Row(p).stage, world[Row(p).stage]) :
        world' = [world EXCEPT ![Row(p).stage] = w]
  BY DEF ConvergeMutate
<1> QED BY <1>1, CallInv DEF ConvergeMutate, At, Calling

LEMMA MutateRefusedInv ==
  ASSUME IInv, NEW p \in Actors, MutateRefused(p) PROVE IInv'
<1>1. Row(p).stage \in StageIdx /\ Working(p) BY WorkingRow DEF MutateRefused, At, AtStage, PC
<1>2. Frame(p) /\ sent' = sent BY ThinksFrame DEF MutateRefused
<1> QED BY <1>1, <1>2, GotoWorks, NothingSent DEF MutateRefused, At, PC, Nexts, Calling, Working

LEMMA PostReadyInv ==
  ASSUME IInv, NEW p \in Actors, PostReady(p) PROVE IInv'
<1>1. Row(p) \in Operation /\ Row(p).stage \in StageIdx /\ Working(p)
  BY WorkingRow DEF PostReady, At, AtStage, PC
<1> QED BY <1>1, ConfirmStageConfirms, ConfirmsInv DEF PostReady

LEMMA FactsRefusedInv ==
  ASSUME IInv, NEW p \in Actors, FactsRefused(p) PROVE IInv'
  BY QuietReturn DEF FactsRefused

LEMMA PostPendingInv ==
  ASSUME IInv, NEW p \in Actors, PostPending(p) PROVE IInv'
<1>1. Row(p) \in Operation /\ Row(p).stage \in StageIdx /\ Working(p)
  BY WorkingRow DEF PostPending, At, AtStage, PC
<1>2. \A s \in NotReady : /\ Stays(Row(p), waitClaimedReplay(Row(p), s))
                          /\ Stays(Row(p), BeginFreshContinuation(Row(p), s))
  BY <1>1, WaitClaimedReplayStays, BeginFreshStays
<1>3. \E n : Stays(Row(p), n) /\ Save(p, n, "idle") /\ Thinks
  BY <1>2, NotReadyWords DEF PostPending
<1> QED BY <1>1, <1>3, EndsInv

LEMMA PostUnknownInv ==
  ASSUME IInv, NEW p \in Actors, PostUnknown(p) PROVE IInv'
<1>1. Row(p) \in Operation /\ Row(p).stage \in StageIdx /\ Working(p)
  BY WorkingRow DEF PostUnknown, At, AtStage, PC
<1> QED BY <1>1, ParkAsIsStays, EndsInv DEF PostUnknown

LEMMA ReplayReadReadyInv ==
  ASSUME IInv, NEW p \in Actors, ReplayReadReady(p) PROVE IInv'
<1>1. Row(p) \in Operation /\ Row(p).stage \in StageIdx /\ Working(p)
  BY WorkingRow DEF ReplayReadReady, At, AtStage, PC
<1> QED BY <1>1, ConfirmStageConfirms, ConfirmsInv DEF ReplayReadReady

LEMMA ReplayReadPendingInv ==
  ASSUME IInv, NEW p \in Actors, ReplayReadPending(p) PROVE IInv'
<1>1. Row(p) \in Operation /\ Row(p).stage \in StageIdx /\ Working(p)
  BY WorkingRow DEF ReplayReadPending, At, AtStage, PC
<1> QED BY <1>1, WaitClaimedReplayStays, NotReadyWords, EndsInv DEF ReplayReadPending

LEMMA ReplayReadUnknownInv ==
  ASSUME IInv, NEW p \in Actors, ReplayReadUnknown(p) PROVE IInv'
<1>1. Row(p) \in Operation /\ Row(p).stage \in StageIdx /\ Working(p)
  BY WorkingRow DEF ReplayReadUnknown, At, AtStage, PC
<1> QED BY <1>1, ParkAsIsStays, EndsInv DEF ReplayReadUnknown, parkClaimedReplay

LEMMA ReplayReadRepeatsInv ==
  ASSUME IInv, NEW p \in Actors, ReplayReadRepeats(p) PROVE IInv'
<1>1. Row(p).stage \in StageIdx /\ Working(p) BY WorkingRow DEF ReplayReadRepeats, At, AtStage, PC
<1>2. Frame(p) /\ sent' = sent BY ThinksFrame DEF ReplayReadRepeats
<1> QED BY <1>1, <1>2, GotoWorks, NothingSent DEF ReplayReadRepeats, At, PC, Nexts, Calling, Working

-----------------------------------------------------------------------------
(* continueFreshTypedPending.                                              *)

LEMMA FreshHeldInv ==
  ASSUME IInv, NEW p \in Actors, FreshHeld(p) PROVE IInv'
  BY QuietReturn DEF FreshHeld

\* An active continuation belongs to a reserved attempt.
LEMMA FreshEntryRow ==
  ASSUME IInv, NEW p \in Actors, FreshEntry(p)
  PROVE  Row(p) \in Operation /\ Row(p).stage \in StageIdx /\ Working(p) /\ Att(Row(p)).attempted = 1
<1>1. Row(p) \in Operation /\ Row(p).stage \in StageIdx /\ Working(p) BY WorkingRow DEF FreshEntry
<1>2. FreshReserved(Row(p)) BY DEF FreshEntry, PendingEntry, At, IInv, ActorInv, PassInv, Row
<1> QED BY <1>1, <1>2 DEF FreshEntry, FreshActive, FreshReserved, Att

LEMMA FreshReplayTakenOverInv ==
  ASSUME IInv, NEW p \in Actors, FreshReplayTakenOver(p) PROVE IInv'
<1>1. Row(p) \in Operation /\ Row(p).stage \in StageIdx /\ Working(p) /\ Att(Row(p)).attempted = 1
  BY FreshEntryRow DEF FreshReplayTakenOver
<1>2. CASE Save(p, parkFreshTypedPending(Row(p), Att(Row(p))), "idle")
  BY <1>1, <1>2, ParkFreshStays, EndsInv DEF FreshReplayTakenOver
<1>3. CASE Save(p, ClaimReplay(Row(p), 0), "convergeRead")
  <2>1. PICK n : n = ClaimReplay(Row(p), 0) OBVIOUS
  <2>2. Keeps(Row(p), n) /\ n.attempts = Row(p).attempts BY <1>1, <2>1, ClaimReplayKeeps
  <2>3. Stays(Row(p), n) /\ Att(n).attempted = 1 BY <1>1, <2>2 DEF Stays, Keeps, Att
  <2>4. Frame(p) /\ sent' = sent BY ThinksFrame DEF FreshReplayTakenOver
  <2> QED BY <1>1, <1>3, <2>1, <2>3, <2>4, StayWorks, PCWords
<1> QED BY <1>2, <1>3 DEF FreshReplayTakenOver

LEMMA ExpireReadKeeps ==
  ASSUME NEW o \in Operation, o.stage \in StageIdx
  PROVE  Keeps(o, ExpireRead(o)) /\ ExpireRead(o).attempts = o.attempts
<1>1. Keeps(o, o) BY DEF Keeps, AttemptsKept
<1>2. Keeps(o, SetRead(o, "expired")) /\ SetRead(o, "expired").attempts = o.attempts
  BY SetReadKeeps
<1> QED BY <1>1, <1>2 DEF ExpireRead

LEMMA StaysAfterKeeps ==
  ASSUME NEW o, NEW n, NEW m, Keeps(o, n), Stays(n, m)
  PROVE  Stays(o, m)
  BY KeepsKeeps, KeepsMarks DEF Stays

LEMMA FreshClaimReadInv ==
  ASSUME IInv, NEW p \in Actors, FreshClaimRead(p) PROVE IInv'
<1>1. Row(p) \in Operation /\ Row(p).stage \in StageIdx /\ Working(p) /\ Att(Row(p)).attempted = 1
  BY FreshEntryRow DEF FreshClaimRead
<1>2. PICK o, a, n : /\ o = ExpireRead(Row(p))
                     /\ a = [Att(o) EXCEPT !.pendingReadbacks = @ + 1]
                     /\ n = SetRead(SetAtt(o, a), "claimed")
  OBVIOUS
<1>3. Keeps(Row(p), o) /\ o.attempts = Row(p).attempts BY <1>1, <1>2, ExpireReadKeeps
<1>4. o \in Operation /\ o.stage \in StageIdx /\ Att(o).attempted = 1
  BY <1>1, <1>3 DEF Keeps, Att
<1>5. CASE Save(p, parkFreshTypedPending(o, Att(o)), "idle")
  <2>1. Stays(Row(p), parkFreshTypedPending(o, Att(o)))
    BY <1>3, <1>4, ParkFreshStays, StaysAfterKeeps
  <2> QED BY <1>1, <1>5, <2>1, EndsInv DEF FreshClaimRead
<1>6. CASE Save(p, n, "freshRead")
  <2>1. a \in Attempt /\ a.attempted = 1 BY <1>2, <1>4, AttType DEF Attempt
  <2>2. Keeps(o, SetAtt(o, a)) /\ Att(SetAtt(o, a)) = a BY <1>4, <2>1, SetAttKeeps
  <2>3. SetAtt(o, a) \in Operation /\ SetAtt(o, a).stage \in StageIdx BY <1>4, <2>2 DEF Keeps
  <2>4. Keeps(SetAtt(o, a), n) /\ n.attempts = SetAtt(o, a).attempts
    BY <1>2, <2>3, SetReadKeeps
  <2>5. Stays(Row(p), n) BY <1>3, <2>2, <2>4, KeepsKeeps DEF Stays
  <2>6. Att(n).attempted = 1 BY <2>1, <2>2, <2>4 DEF Att, Keeps
  <2>7. Frame(p) /\ sent' = sent BY ThinksFrame DEF FreshClaimRead
  <2> QED BY <1>1, <1>6, <2>5, <2>6, <2>7, StayWorks, PCWords
<1> QED BY <1>2, <1>5, <1>6 DEF FreshClaimRead

LEMMA GetFrame ==
  ASSUME IInv, NEW p \in Actors, Row(p).stage \in StageIdx /\ Working(p), GetUnderClaim(p)
  PROVE  Frame(p) /\ sent' = sent
<1>1. gets' \in [StageIdx -> Nat] BY DEF GetUnderClaim, CountGet, IInv, TypeOK
<1>2. LocksOf(p) BY LocksKept DEF GetUnderClaim
<1> QED BY <1>1, <1>2 DEF GetUnderClaim, Frame, IInv, TypeOK, Done, Replacing

LEMMA FreshReadRefusedInv ==
  ASSUME IInv, NEW p \in Actors, FreshReadRefused(p) PROVE IInv'
<1>1. Row(p).stage \in StageIdx BY WorkingRow DEF FreshReadRefused, At, AtStage, PC
<1>2. gets' \in [StageIdx -> Nat] BY <1>1 DEF FreshReadRefused, CountGet, IInv, TypeOK
<1>3. crashes' \in Nat BY DEF FreshReadRefused, IInv, TypeOK
<1> QED BY <1>2, <1>3, ReturnWorks DEF FreshReadRefused

LEMMA SetReadStays ==
  ASSUME NEW o \in Operation, o.stage \in StageIdx,
         NEW s \in {"pending", "ready", "failed"}, NEW n, n = SetRead(o, s)
  PROVE  /\ n \in Operation /\ n.stage = o.stage /\ n.attempts = o.attempts
         /\ Stays(o, parkFreshTypedPending(n, Att(n)))
         /\ Confirms(o, ConfirmFresh(n))
         /\ \A t \in NotReady : Stays(o, SetObs(n, t)) /\ SetObs(n, t).attempts = o.attempts
                               /\ SetObs(n, t).stage = o.stage
<1>1. Keeps(o, n) /\ n.attempts = o.attempts BY SetReadKeeps
<1>2. n \in Operation /\ n.stage = o.stage BY <1>1 DEF Keeps
<1>3. Stays(o, parkFreshTypedPending(n, Att(n))) BY <1>1, <1>2, ParkFreshStays, StaysAfterKeeps
<1>4. Confirms(o, ConfirmFresh(n)) BY <1>1, <1>2, ConfirmFreshConfirms, KeepsConfirms
<1>5. ASSUME NEW t \in NotReady
      PROVE  Stays(o, SetObs(n, t)) /\ SetObs(n, t).attempts = o.attempts
             /\ SetObs(n, t).stage = o.stage
  <2>1. Marks(n, SetObs(n, t), t) BY <1>2, SetObsMarks DEF NotReady
  <2>2. Stays(o, SetObs(n, t)) BY <1>1, <2>1, KeepsMarks DEF Stays
  <2>3. SetObs(n, t).attempts = n.attempts BY <1>2 DEF SetObs, Operation
  <2> QED BY <1>1, <1>2, <2>1, <2>2, <2>3 DEF Marks
<1> QED BY <1>1, <1>2, <1>3, <1>4, <1>5

LEMMA FreshReadReadyInv ==
  ASSUME IInv, NEW p \in Actors, FreshReadReady(p) PROVE IInv'
<1>1. Row(p) \in Operation /\ Row(p).stage \in StageIdx /\ Working(p)
  BY WorkingRow DEF FreshReadReady, At, AtStage, PC
<1>2. Confirms(Row(p), ConfirmFresh(SetRead(Row(p), "ready"))) BY <1>1, SetReadStays
<1>3. Frame(p) /\ sent' = sent BY <1>1, GetFrame DEF FreshReadReady
<1> QED BY <1>1, <1>2, <1>3, ConfirmWorks DEF FreshReadReady

LEMMA FreshReadPendingInv ==
  ASSUME IInv, NEW p \in Actors, FreshReadPending(p) PROVE IInv'
<1>1. Row(p) \in Operation /\ Row(p).stage \in StageIdx /\ Working(p)
  BY WorkingRow DEF FreshReadPending, At, AtStage, PC
<1>2. PICK o : o = SetRead(Row(p), "pending") OBVIOUS
<1>3. Stays(Row(p), parkFreshTypedPending(o, Att(o))) /\ Stays(Row(p), SetObs(o, "pending"))
  BY <1>1, <1>2, SetReadStays, NotReadyWords
<1>4. Frame(p) /\ sent' = sent BY <1>1, GetFrame DEF FreshReadPending
<1>5. \E n : Stays(Row(p), n) /\ Save(p, n, "idle") BY <1>2, <1>3 DEF FreshReadPending
<1> QED BY <1>1, <1>4, <1>5, StayWorks, PCWords

LEMMA FreshReadFailedInv ==
  ASSUME IInv, NEW p \in Actors, FreshReadFailed(p) PROVE IInv'
<1>1. Row(p) \in Operation /\ Row(p).stage \in StageIdx /\ Working(p)
  BY WorkingRow DEF FreshReadFailed, At, AtStage, PC
<1>2. PICK o : o = SetRead(Row(p), "failed") OBVIOUS
<1>3. Stays(Row(p), parkFreshTypedPending(o, Att(o))) BY <1>1, <1>2, SetReadStays
<1>4. Frame(p) /\ sent' = sent BY <1>1, GetFrame DEF FreshReadFailed
<1> QED BY <1>1, <1>2, <1>3, <1>4, StayWorks, PCWords DEF FreshReadFailed

\* An actor that has claimed a read or a replay works for a reserved attempt.
LEMMA CallingReserved ==
  ASSUME IInv, NEW p \in Actors, local[p].pc \in Calling, ResourceBilling
  PROVE  Att(Row(p)).attempted = 1
  BY DEF IInv, ActorInv, ReservationInv, Row

LEMMA FreshReadOwnershipPendingInv ==
  ASSUME IInv, NEW p \in Actors, FreshReadOwnershipPending(p) PROVE IInv'
<1>1. Row(p) \in Operation /\ Row(p).stage \in StageIdx /\ Working(p)
  BY WorkingRow DEF FreshReadOwnershipPending, At, AtStage, PC
<1>2. PICK o, n : o = SetRead(Row(p), "pending")
                  /\ n = ClaimReplay(SetObs(o, "ownership_pending"), 0)
  OBVIOUS
<1>3. /\ Stays(Row(p), parkFreshTypedPending(o, Att(o)))
      /\ Stays(Row(p), SetObs(o, "ownership_pending"))
      /\ SetObs(o, "ownership_pending").attempts = Row(p).attempts
      /\ SetObs(o, "ownership_pending").stage = Row(p).stage
  BY <1>1, <1>2, SetReadStays, NotReadyWords
<1>4. SetObs(o, "ownership_pending") \in Operation BY <1>3 DEF Stays, Keeps, Marks
<1>5. Keeps(SetObs(o, "ownership_pending"), n) /\ n.attempts = Row(p).attempts
  BY <1>1, <1>2, <1>3, <1>4, ClaimReplayKeeps
<1>6. Stays(Row(p), n) /\ n.stage = Row(p).stage
  BY <1>3, <1>5, KeepsKeeps, MarksKeeps DEF Stays, Keeps
<1>7. ResourceBilling => Att(n).attempted = 1
  BY <1>5, <1>6, CallingReserved DEF Att, FreshReadOwnershipPending, At, Calling
<1>8. Frame(p) /\ sent' = sent BY <1>1, GetFrame DEF FreshReadOwnershipPending
<1>9. CASE Save(p, n, "convergeRead") BY <1>1, <1>6, <1>7, <1>8, <1>9, StayWorks, PCWords
<1>10. CASE \E m : Stays(Row(p), m) /\ Save(p, m, "idle") BY <1>1, <1>8, <1>10, StayWorks, PCWords
<1> QED BY <1>2, <1>3, <1>9, <1>10 DEF FreshReadOwnershipPending

LEMMA ConvergeReadyInv ==
  ASSUME IInv, NEW p \in Actors, ConvergeReady(p) PROVE IInv'
<1>1. Row(p) \in Operation /\ Row(p).stage \in StageIdx /\ Working(p)
  BY WorkingRow DEF ConvergeReady, At, AtStage, PC
<1> QED BY <1>1, ConfirmFreshConfirms, ConfirmsInv DEF ConvergeReady

LEMMA SetObsStays ==
  ASSUME NEW o \in Operation, o.stage \in StageIdx, NEW s \in NotReady
  PROVE  Stays(o, SetObs(o, s)) /\ Stays(o, completeIdempotentReplay(SetObs(o, s), "waiting"))
<1>1. Marks(o, SetObs(o, s), s) BY SetObsMarks DEF NotReady
<1>2. SetObs(o, s) \in Operation /\ SetObs(o, s).stage \in StageIdx BY <1>1 DEF Marks
<1>3. Keeps(SetObs(o, s), completeIdempotentReplay(SetObs(o, s), "waiting"))
  BY <1>2, CompleteReplayKeeps
<1> QED BY <1>1, <1>3, MarksKeeps DEF Stays

LEMMA ConvergePendingInv ==
  ASSUME IInv, NEW p \in Actors, ConvergePending(p) PROVE IInv'
<1>1. Row(p) \in Operation /\ Row(p).stage \in StageIdx /\ Working(p)
  BY WorkingRow DEF ConvergePending, At, AtStage, PC
<1> QED BY <1>1, SetObsStays, NotReadyWords, EndsInv DEF ConvergePending

LEMMA ConvergeRepeatsInv ==
  ASSUME IInv, NEW p \in Actors, ConvergeRepeats(p) PROVE IInv'
<1>1. Row(p).stage \in StageIdx /\ Working(p) BY WorkingRow DEF ConvergeRepeats, At, AtStage, PC
<1>2. Frame(p) /\ sent' = sent BY ThinksFrame DEF ConvergeRepeats
<1> QED BY <1>1, <1>2, GotoWorks, NothingSent DEF ConvergeRepeats, At, PC, Nexts, Calling, Working

LEMMA ConvergeWaitsInv ==
  ASSUME IInv, NEW p \in Actors, ConvergeWaits(p) PROVE IInv'
<1>1. Row(p) \in Operation /\ Row(p).stage \in StageIdx /\ Working(p)
  BY WorkingRow DEF ConvergeWaits, At, AtStage, PC
<1>2. \E n : Stays(Row(p), n) /\ Save(p, n, "idle") /\ Thinks
  BY <1>1, SetObsStays, NotReadyWords DEF ConvergeWaits
<1> QED BY <1>1, <1>2, EndsInv

LEMMA ConvergeFailsInv ==
  ASSUME IInv, NEW p \in Actors, ConvergeFails(p) PROVE IInv'
<1>1. Row(p) \in Operation /\ Row(p).stage \in StageIdx /\ Working(p)
  BY WorkingRow DEF ConvergeFails, At, AtStage, PC
<1> QED BY <1>1, ParkFreshStays, EndsInv DEF ConvergeFails

-----------------------------------------------------------------------------
(* The operator's requests.                                                *)

LEMMA GrantType ==
  ASSUME IInv, NEW p \in Actors PROVE local[p].grant \in Grant
  BY DEF IInv, TypeOK, Local

LEMMA ResumeConflictInv ==
  ASSUME IInv, NEW p \in Actors, ResumeConflict(p) PROVE IInv'
  BY QuietReturn DEF ResumeConflict

LEMMA AdmitsSaveInv ==
  ASSUME IInv, NEW p \in Actors, NEW n, Thinks, Row(p).stage \in StageIdx /\ Working(p),
         Stays(Row(p), n), Save(p, n, "admitted")
  PROVE  IInv'
  BY ThinksFrame, StayWorks, PCWords

LEMMA ResumeComputeInv ==
  ASSUME IInv, NEW p \in Actors, ResumeCompute(p) PROVE IInv'
<1>1. Row(p) \in Operation /\ Row(p).stage \in StageIdx /\ Working(p)
  BY WorkingRow DEF ResumeCompute, At, AtStage, PC
<1>2. \A s \in NotReady : Stays(Row(p), recoverUnknownComputeStage(Row(p), local[p].grant, s))
  BY <1>1, GrantType, RecoverComputeStays
<1>3. \E n : Stays(Row(p), n) /\ Save(p, n, "admitted") /\ Thinks
  BY <1>2, NotReadyWords DEF ResumeCompute
<1> QED BY <1>1, <1>3, AdmitsSaveInv

LEMMA ResumeRuntimeInv ==
  ASSUME IInv, NEW p \in Actors, ResumeRuntime(p) PROVE IInv'
<1>1. Row(p) \in Operation /\ Row(p).stage \in StageIdx /\ Working(p)
  BY WorkingRow DEF ResumeRuntime, At, AtStage, PC
<1> QED BY <1>1, GrantType, RecoverRuntimeConfirms, ConfirmsInv DEF ResumeRuntime

LEMMA ResumeExhaustedReadyInv ==
  ASSUME IInv, NEW p \in Actors, ResumeExhaustedReady(p) PROVE IInv'
<1>1. Row(p) \in Operation /\ Row(p).stage \in StageIdx /\ Working(p)
  BY WorkingRow DEF ResumeExhaustedReady, At, AtStage, PC
<1>2. PICK o, n : /\ o = rotateResumeAuthorization(Row(p), local[p].grant)
                  /\ n = advance(consumeResumeAuthorization(
                            SetObs(SetAtt(o, Confirmed(Att(o))), "ready")))
  OBVIOUS
<1>3. Keeps(Row(p), o) BY <1>1, <1>2, GrantType, RotateKeeps
<1>4. o \in Operation /\ o.stage \in StageIdx BY <1>1, <1>3 DEF Keeps
<1>5. Confirmed(Att(o)) \in Attempt /\ Confirmed(Att(o)).attempted = Att(o).attempted
  BY <1>4, AttType
<1>6. Confirms(Row(p), n) BY <1>1, <1>2, <1>3, <1>5, RecoveredConfirms
<1> QED BY <1>1, <1>2, <1>6, ConfirmsInv DEF ResumeExhaustedReady

LEMMA ResumeExhaustedInv ==
  ASSUME IInv, NEW p \in Actors, ResumeExhausted(p) PROVE IInv'
<1>1. Row(p) \in Operation /\ Row(p).stage \in StageIdx /\ Working(p)
  BY WorkingRow DEF ResumeExhausted, At, AtStage, PC
<1>2. PICK m : m = Authorize(Row(p), local[p].grant) OBVIOUS
<1>3. Keeps(Row(p), m) BY <1>1, <1>2, GrantType, AuthorizeKeeps
<1>4. m \in Operation /\ m.stage \in StageIdx BY <1>1, <1>3 DEF Keeps
<1>5. \A s \in NotReady : Stays(Row(p), SetObs(m, s)) BY <1>3, <1>4, SetObsStays, StaysAfterKeeps
<1>6. \E n : Stays(Row(p), n) /\ Save(p, n, "admitted") /\ Thinks
  BY <1>2, <1>5, NotReadyWords DEF ResumeExhausted
<1> QED BY <1>1, <1>6, AdmitsSaveInv

\* Who is about to repair, or repairs, is alone in doing so.
LEMMA RepairerAlone ==
  ASSUME IInv, NEW p \in Actors, local[p].pc \in {"repair", "repairing"}
  PROVE  /\ lock["repair"] = p /\ ~op.runtimeRepair /\ IsStage(Row(p).stage, Runtime)
         /\ Row(p) \in Operation /\ Row(p).stage \in StageIdx /\ Working(p)
  BY WorkingRow DEF IInv, RepairInv, Row, IsStage, Working

\* The Runtime is taken down: what was done is being replaced.
LEMMA RepairCallsInv ==
  ASSUME IInv, NEW p \in Actors, RepairCalls(p) PROVE IInv'
<1>0. PICK l, i : l = [local[p] EXCEPT !.pc = "repairing", !.row = Row(p)] /\ i = Row(p).stage
  OBVIOUS
<1>1. local[p] \in Local /\ ActorInv(local[p]) /\ RepairInv(p, local[p]) BY DEF IInv, TypeOK
<1>2. /\ lock["repair"] = p /\ ~op.runtimeRepair /\ IsStage(i, Runtime)
      /\ Row(p) \in Operation /\ i \in StageIdx
  BY <1>0, RepairerAlone DEF RepairCalls, At
<1>3. local' = [local EXCEPT ![p] = l] BY <1>0 DEF RepairCalls, Goto, IInv, TypeOK
<1>4. l \in Local BY <1>0, <1>1, <1>2 DEF Local, PC
<1>5. l.pc = "repairing" /\ l.row = local[p].row /\ l.next = local[p].next /\ l.held = local[p].held
  BY <1>0, <1>1 DEF Local, Row
<1>6. op' = op /\ sent' = sent /\ lock' = lock /\ repairs' = TRUE
  BY DEF RepairCalls
<1>7. /\ world' \in [StageIdx -> World]
      /\ \A j \in StageIdx : j # i => world'[j] = world[j]
  BY <1>0, <1>2 DEF RepairCalls, IInv, TypeOK, World
<1>8. \A j \in StageIdx : Done(j) => Done(j)'
  BY <1>2, <1>6, <1>7 DEF Done, Replacing, IsStage
<1>9. Frame(p)
  <2>1. LocksOf(p) BY <1>6, LocksKept
  <2> QED BY <1>2, <1>6, <1>7, <1>8, <2>1 DEF Frame, RepairCalls, IInv, TypeOK
<1>10. RowInv(l.row)' BY <1>1, <1>5, <1>8 DEF ActorInv, RowInv
<1>11. PassInv(l)' BY <1>0, <1>1, <1>2, <1>5 DEF ActorInv, PassInv, AtStage, Row
<1>12. ResourceBilling => ReservationInv(l)'
  BY <1>1, <1>5, <1>6 DEF ActorInv, ReservationInv, AttemptsKept, Calling
<1>13. RepairInv(p, l)'
  <2>1. ~l.row.runtimeRepair BY <1>1, <1>2, <1>5 DEF RepairInv, RepairCalls, At
  <2> QED BY <1>0, <1>1, <1>2, <1>5, <1>6, <2>1 DEF RepairInv, RepairPlaced, Row
<1>14. Works(p, l)
  BY <1>3, <1>4, <1>6, <1>9, <1>10, <1>11, <1>12, <1>13, NothingSent DEF Works, ActorInv
<1> QED BY <1>14, WorksPreserves

LEMMA RepairReadyInv ==
  ASSUME IInv, NEW p \in Actors, RepairReady(p) PROVE IInv'
<1>1. /\ lock["repair"] = p /\ IsStage(Row(p).stage, Runtime)
      /\ Row(p) \in Operation /\ Row(p).stage \in StageIdx /\ Working(p)
  BY RepairerAlone DEF RepairReady, At
<1>2. PICK n : n = RepairedRow(Row(p)) OBVIOUS
<1>3. Advances(Row(p), n) /\ n.runtimeRepair BY <1>1, <1>2, RepairedAdvances
<1>4. world' = world /\ lock' = lock BY DEF RepairReady, Thinks, Quiet
<1>5. \A i \in StageIdx : i = Row(p).stage => world'[i] = "ready" BY <1>4 DEF RepairReady
<1>6. \A i \in StageIdx : i = Row(p).stage => Done(i)' BY <1>5 DEF Done
<1>7. Repaired(p, n) BY <1>1, <1>3, <1>4, <1>5 DEF Repaired
<1>8. Frame(p) /\ sent' = sent BY ThinksFrame DEF RepairReady
<1>9. Save(p, n, "admitted") BY <1>2 DEF RepairReady
<1>10. "admitted" \notin AtStage BY DEF AtStage
<1>11. local[p].pc # "persist" BY <1>1 DEF Working
<1> QED BY <1>1, <1>3, <1>6, <1>7, <1>8, <1>9, <1>10, <1>11, SaveWorks, PCWords

LEMMA RepairFailedInv ==
  ASSUME IInv, NEW p \in Actors, RepairFailed(p) PROVE IInv'
  BY QuietReturn DEF RepairFailed

LEMMA CrashInv ==
  ASSUME IInv, NEW p \in Actors, Crash(p) PROVE IInv'
<1>1. crashes' \in Nat /\ gets' \in [StageIdx -> Nat] BY DEF Crash, IInv, TypeOK
<1> QED BY <1>1, ReturnWorks DEF Crash

-----------------------------------------------------------------------------
(* The store.                                                              *)

LEMMA DecodedRow ==
  ASSUME NEW o \in Operation, Decodes(o)
  PROVE  StageMatchesStatus(o) /\ FreshReserved(o)
<1>1. \A i \in StageIdx : DecodesFreshContinuation(o, i) BY DEF Decodes
<1>2. FreshReserved(o) BY <1>1 DEF FreshReserved, DecodesFreshContinuation
<1> QED BY <1>2 DEF Decodes, StageMatchesStatus

\* The accepted row is a copy that was still the stored one when it was taken,
\* so it forgets no reservation, and from now on no other copy is.
LEMMA PersistAcceptedInv ==
  ASSUME IInv, NEW p \in Actors, PersistAccepted(p) PROVE IInv'
<1>0. PICK l, n : l = local[p] /\ n = l.row OBVIOUS
<1>1. l \in Local /\ ActorInv(l) /\ RepairInv(p, l) /\ n \in Operation BY <1>0 DEF IInv, TypeOK, Local
<1>2. l.pc = "persist" /\ l.held /\ Decodes(n) /\ op' = n
  BY <1>0 DEF PersistAccepted, At, Accepted, Row
<1>3. StageMatchesStatus(n) /\ FreshReserved(n) BY <1>1, <1>2, DecodedRow
<1>4. world' = world /\ sent' = sent /\ repairs' = repairs BY DEF PersistAccepted
<1>4a. LocksOf(p) BY LocksKept DEF PersistAccepted
<1>4b. n.runtimeRepair /\ ~op.runtimeRepair =>
         lock["repair"] = p /\ \A i \in StageIdx : Stages[i] = Runtime => world[i] = "ready"
  BY <1>0, <1>1 DEF RepairInv
<1>4c. op.runtimeRepair => n.runtimeRepair BY <1>0, <1>1, <1>2 DEF RepairInv
<1>5. \A i \in StageIdx : /\ Done(i) => Done(i)'
                          /\ (Dispatches(i))' <=> Dispatches(i)
  <2>1. \A i \in StageIdx : Done(i) => Done(i)' BY <1>2, <1>4, <1>4b DEF Done, Replacing
  <2> QED BY <1>4, <2>1 DEF Dispatches
<1>6. ResourceBilling => AttemptsKept(op, n) BY <1>0, <1>1, <1>2 DEF ActorInv, ReservationInv
<1>7. PICK m : m = IF l.next = "idle" THEN AtRest ELSE [l EXCEPT !.pc = l.next, !.next = "idle"]
  OBVIOUS
<1>8. m \in Local
  BY <1>1, <1>7, AtRestInv DEF Local, PC
<1>9. local' = [q \in Actors |-> IF q # p THEN [local[q] EXCEPT !.held = FALSE] ELSE m]
  BY <1>0, <1>7 DEF PersistAccepted
<1>10. TypeOK'
  <2>1. \A q \in Actors : [local[q] EXCEPT !.held = FALSE] \in Local
    BY DEF IInv, TypeOK, Local
  <2>2. local' \in [Actors -> Local] BY <1>8, <1>9, <2>1
  <2>3. lock' \in [Locks -> Actors \cup {NoOne}] BY <1>4a DEF LocksOf
  <2> QED BY <1>1, <1>2, <2>2, <2>3 DEF PersistAccepted, IInv, TypeOK
<1>11. RowInv(n) /\ RowInv(n)' BY <1>1, <1>0, <1>5 DEF ActorInv, RowInv
<1>11a. RepairPlaced(n) BY <1>0, <1>1 DEF RepairInv
<1>12. (RowInv(op) /\ StageMatchesStatus(op) /\ FreshReserved(op) /\ RepairPlaced(op))'
  BY <1>2, <1>3, <1>11, <1>11a DEF RowInv, StageMatchesStatus, FreshReserved, RepairPlaced
<1>13. ActorInv(local[p])' /\ RepairInv(p, local[p])'
  <2>1. local'[p] = m BY <1>9
  <2>2. CASE l.next = "idle" BY <1>7, <2>1, <2>2, AtRestInv
  <2>3. CASE l.next # "idle"
    <3>1. m.pc = l.next /\ m.next = "idle" /\ m.row = n /\ m.held = l.held
      BY <1>0, <1>1, <1>7, <2>3 DEF Local
    <3>2. l.next # "persist" /\ (l.next \in AtStage => n.stage \in StageIdx)
      BY <1>0, <1>1, <1>2 DEF ActorInv, PassInv
    <3>3. PassInv(m)'
      BY <1>3, <3>1, <3>2 DEF PassInv, StageMatchesStatus, FreshReserved
    <3>4. ResourceBilling => ReservationInv(m)'
      <4>1. ResourceBilling /\ l.next \in Calling => Att(n).attempted = 1
        BY <1>0, <1>1, <1>2 DEF ActorInv, ReservationInv
      <4> QED BY <1>2, <3>1, <3>2, <4>1 DEF ReservationInv, AttemptsKept, Att
    <3>5. l.next \notin {"repair", "repairing"} BY <1>1 DEF RepairInv
    <3>6. RepairInv(p, m)' BY <1>2, <1>11a, <3>1, <3>5 DEF RepairInv, RepairPlaced
    <3> QED BY <1>11, <2>1, <3>1, <3>3, <3>4, <3>6 DEF ActorInv, RowInv
  <2> QED BY <2>2, <2>3
<1>14. ASSUME NEW q \in Actors, q # p PROVE ActorInv(local[q])' /\ RepairInv(q, local[q])'
  <2>0. PICK k, r : k = local[q] /\ r = [k EXCEPT !.held = FALSE] OBVIOUS
  <2>1. k \in Local /\ ActorInv(k) /\ RepairInv(q, k) BY <2>0 DEF IInv, TypeOK
  <2>2. local'[q] = r BY <1>9, <1>14, <2>0
  <2>3. r.pc = k.pc /\ r.next = k.next /\ r.row = k.row /\ ~r.held
    BY <2>0, <2>1 DEF Local
  <2>4. RowInv(r.row)' BY <1>5, <2>1, <2>3 DEF ActorInv, RowInv
  <2>5. PassInv(r)' BY <2>1, <2>3 DEF ActorInv, PassInv
  <2>6. k.pc \in Calling => k.row.stage \in StageIdx
    BY <2>1 DEF ActorInv, PassInv, Calling, AtStage, PC
  <2>7. ResourceBilling => ReservationInv(r)'
    BY <1>2, <1>6, <2>1, <2>3, <2>6 DEF ActorInv, ReservationInv, AttemptsKept
  <2>8. RepairInv(q, r)'
    <3>1. lock["repair"] = q => lock'["repair"] = q /\ (n.runtimeRepair => op.runtimeRepair)
      BY <1>4a, <1>4b, <1>14 DEF LocksOf
    <3> QED BY <1>2, <1>4, <1>4c, <2>1, <2>3, <3>1 DEF RepairInv, RepairPlaced
  <2> QED BY <2>2, <2>4, <2>5, <2>7, <2>8 DEF ActorInv
<1>15. StagesInOrder' /\ ReservedBeforeDispatch'
  <2>1. \A i \in StageIdx : \A j \in 1..(i - 1) : j \in StageIdx
    BY StagesAssumption DEF StageIdx
  <2>2. StagesInOrder' BY <1>5, <2>1 DEF IInv, StagesInOrder
  <2>3. ReservedBeforeDispatch'
    BY <1>2, <1>5, <1>6 DEF IInv, ReservedBeforeDispatch, AttemptsKept
  <2> QED BY <2>2, <2>3
<1> QED BY <1>10, <1>12, <1>13, <1>14, <1>15 DEF IInv

LEMMA PersistRejectedInv ==
  ASSUME IInv, NEW p \in Actors, PersistRejected(p) PROVE IInv'
  BY QuietReturn DEF PersistRejected

-----------------------------------------------------------------------------
(* The environment.                                                        *)

LEMMA OwnerStepsInv ==
  ASSUME IInv, NEW i \in StageIdx, OwnerSteps(i) PROVE IInv'
<1>1. PICK w \in World : world[i] # "ready" /\ world' = [world EXCEPT ![i] = w]
  BY DEF OwnerSteps, Effects, World
<1>2. world' \in [StageIdx -> World] BY <1>1 DEF IInv, TypeOK
<1>3. \A j \in StageIdx : world[j] = "ready" => world'[j] = "ready" BY <1>1 DEF IInv, TypeOK
<1>5. op' = op /\ local' = local /\ sent' = sent /\ lock' = lock /\ repairs' = repairs
  BY DEF OwnerSteps
<1>4. \A j \in StageIdx : Done(j) => Done(j)' BY <1>3, <1>5 DEF Done, Replacing
<1>6. TypeOK' BY <1>2 DEF OwnerSteps, IInv, TypeOK
<1>7. (RowInv(op) /\ StageMatchesStatus(op) /\ FreshReserved(op) /\ RepairPlaced(op))'
  BY <1>4, <1>5 DEF IInv, RowInv, StageMatchesStatus, FreshReserved, RepairPlaced
<1>8. ASSUME NEW q \in Actors PROVE ActorInv(local[q])' /\ RepairInv(q, local[q])'
  <2>1. ActorInv(local[q]) /\ RepairInv(q, local[q]) BY DEF IInv
  <2>2. RowInv(local[q].row)' BY <1>4, <1>5, <2>1 DEF ActorInv, RowInv
  <2>3. PassInv(local[q])'
    BY <1>5, <2>1 DEF ActorInv, PassInv, StageMatchesStatus, FreshReserved
  <2>4. ResourceBilling => ReservationInv(local[q])'
    BY <1>5, <2>1 DEF ActorInv, ReservationInv, AttemptsKept, Att
  <2>5. RepairInv(q, local[q])' BY <1>3, <1>5, <2>1 DEF RepairInv, RepairPlaced
  <2> QED BY <2>2, <2>3, <2>4, <2>5 DEF ActorInv
<1>9. StagesInOrder'
  <2>1. \A k \in StageIdx : \A j \in 1..(k - 1) : j \in StageIdx
    BY StagesAssumption DEF StageIdx
  <2> QED BY <1>4, <1>5, <2>1 DEF IInv, StagesInOrder, Dispatches
<1>10. ReservedBeforeDispatch' BY <1>5 DEF IInv, ReservedBeforeDispatch, Dispatches
<1> QED BY <1>6, <1>7, <1>8, <1>9, <1>10 DEF IInv

\* Time changes nothing that the invariant speaks of.
LEMMA AgedInv ==
  ASSUME IInv, NEW n, Aged(op, n), op' = n, NEW rows, local' = rows,
         rows \in [Actors -> Local],
         \A q \in Actors : /\ rows[q].pc = local[q].pc /\ rows[q].next = local[q].next
                           /\ rows[q].held = local[q].held
                           /\ Aged(local[q].row, rows[q].row),
         UNCHANGED <<world, lock, sent, gets, repairs, crashes>>
  PROVE  IInv'
<1>1. TypeOK' BY DEF Aged, IInv, TypeOK
<1>1a. \A i \in StageIdx : Done(i) => Done(i)' BY DEF Done, Replacing, Aged
<1>2. (RowInv(op) /\ StageMatchesStatus(op) /\ FreshReserved(op) /\ RepairPlaced(op))'
  BY <1>1a DEF Aged, IInv, RowInv, StageMatchesStatus, FreshReserved, RepairPlaced
<1>3. ASSUME NEW q \in Actors PROVE ActorInv(local[q])' /\ RepairInv(q, local[q])'
  <2>0. PICK k, r : k = local[q] /\ r = rows[q] OBVIOUS
  <2>1. k \in Local /\ ActorInv(k) /\ RepairInv(q, k) BY <2>0 DEF IInv, TypeOK
  <2>2. local'[q] = r /\ r.pc = k.pc /\ r.next = k.next /\ r.held = k.held
        /\ Aged(k.row, r.row)
    BY <2>0
  <2>3. RowInv(r.row)' BY <1>1a, <2>1, <2>2 DEF ActorInv, RowInv, Aged
  <2>4. PassInv(r)' BY <2>1, <2>2 DEF ActorInv, PassInv, Aged, StageMatchesStatus, FreshReserved
  <2>5. k.pc \in Calling => k.row.stage \in StageIdx
    BY <2>1 DEF ActorInv, PassInv, Calling, AtStage, PC
  <2>6. k.pc = "persist" /\ k.next \in Calling => k.row.stage \in StageIdx
    BY <2>1 DEF ActorInv, PassInv, Calling, AtStage, PC
  <2>7. ResourceBilling => ReservationInv(r)'
    BY <2>1, <2>2, <2>5, <2>6 DEF ActorInv, ReservationInv, AttemptsKept, Aged, Att
  <2>8. RepairInv(q, r)' BY <2>1, <2>2 DEF RepairInv, RepairPlaced, Aged
  <2> QED BY <2>2, <2>3, <2>4, <2>7, <2>8 DEF ActorInv
<1>4. StagesInOrder'
  <2>1. \A k \in StageIdx : \A j \in 1..(k - 1) : j \in StageIdx
    BY StagesAssumption DEF StageIdx
  <2> QED BY <1>1a, <2>1 DEF IInv, StagesInOrder, Dispatches
<1>5. ReservedBeforeDispatch' BY DEF IInv, ReservedBeforeDispatch, Dispatches, Aged
<1> QED BY <1>1, <1>2, <1>3, <1>4, <1>5 DEF IInv

LEMMA AgedActor ==
  ASSUME NEW k \in Local, NEW n, Aged(k.row, n)
  PROVE  /\ [k EXCEPT !.row = n] \in Local /\ [k EXCEPT !.row = n].row = n
         /\ [k EXCEPT !.row = n].pc = k.pc /\ [k EXCEPT !.row = n].next = k.next
         /\ [k EXCEPT !.row = n].held = k.held
<1>1. n \in Operation BY DEF Aged
<1> QED BY <1>1 DEF Local

LEMMA LeaseExpiresInv ==
  ASSUME IInv, LeaseExpires PROVE IInv'
<1>0. PICK rows : rows = [p \in Actors |-> [local[p] EXCEPT !.row = AgeLeases(local[p].row)]] OBVIOUS
<1>1. local' = rows /\ op' = AgeLeases(op) BY <1>0 DEF LeaseExpires, Ages
<1>2. Aged(op, AgeLeases(op)) BY AgeLeasesAged DEF IInv, TypeOK
<1>3. ASSUME NEW q \in Actors
      PROVE  /\ rows[q] \in Local
             /\ rows[q].pc = local[q].pc /\ rows[q].next = local[q].next
             /\ rows[q].held = local[q].held /\ Aged(local[q].row, rows[q].row)
  <2>1. local[q] \in Local /\ local[q].row \in Operation BY DEF IInv, TypeOK, Local
  <2>2. Aged(local[q].row, AgeLeases(local[q].row)) BY <2>1, AgeLeasesAged
  <2> QED BY <1>0, <2>1, <2>2, AgedActor
<1>4. rows \in [Actors -> Local] BY <1>0, <1>3
<1> QED BY <1>1, <1>2, <1>3, <1>4, AgedInv DEF LeaseExpires, Ages

LEMMA DeadlineExpiresInv ==
  ASSUME IInv, DeadlineExpires PROVE IInv'
<1>0. PICK rows : rows = [p \in Actors |-> [local[p] EXCEPT !.row = AgeDeadline(local[p].row)]] OBVIOUS
<1>1. local' = rows /\ op' = AgeDeadline(op) BY <1>0 DEF DeadlineExpires, Ages
<1>2. Aged(op, AgeDeadline(op)) BY AgeDeadlineAged DEF IInv, TypeOK
<1>3. ASSUME NEW q \in Actors
      PROVE  /\ rows[q] \in Local
             /\ rows[q].pc = local[q].pc /\ rows[q].next = local[q].next
             /\ rows[q].held = local[q].held /\ Aged(local[q].row, rows[q].row)
  <2>1. local[q] \in Local /\ local[q].row \in Operation BY DEF IInv, TypeOK, Local
  <2>2. Aged(local[q].row, AgeDeadline(local[q].row)) BY <2>1, AgeDeadlineAged
  <2> QED BY <1>0, <2>1, <2>2, AgedActor
<1>4. rows \in [Actors -> Local] BY <1>0, <1>3
<1> QED BY <1>1, <1>2, <1>3, <1>4, AgedInv DEF DeadlineExpires, Ages

-----------------------------------------------------------------------------
(* The theorems.                                                           *)

\* The new row of Create satisfies the invariant, before anyone has acted.
LEMMA InitInv == Init => IInv
<1> SUFFICES ASSUME Init PROVE IInv OBVIOUS
<1>1. TypeOK
  <2>1. AtRest \in Local BY AtRestInv
  <2>2. local \in [Actors -> Local] BY <2>1 DEF Init
  <2>3. op \in Operation BY NewOperationType DEF Init
  <2>4. sent \in [StageIdx -> [first : {0, 1, 2}, replays : SUBSET Nat]] BY DEF Init
  <2>5. world \in [StageIdx -> World] BY DEF Init, World
  <2>6. gets \in [StageIdx -> Nat] /\ crashes \in Nat BY DEF Init
  <2>7. repairs \in BOOLEAN /\ lock \in [Locks -> Actors \cup {NoOne}] BY DEF Init
  <2> QED BY <2>2, <2>3, <2>4, <2>5, <2>6, <2>7 DEF TypeOK
<1>2. \A i \in StageIdx : i \in Nat /\ ~(i < 1) BY StagesAssumption DEF StageIdx
<1>3. RowInv(newWorkspaceLaunchReconcileOperation) BY <1>2, NewOperationType DEF RowInv
<1>4. StageMatchesStatus(op) /\ FreshReserved(op) /\ RepairPlaced(op)
  <2>1. op = newWorkspaceLaunchReconcileOperation BY DEF Init
  <2>2. 1 # Succeeded BY StagesAssumption DEF Succeeded
  <2>3. StageMatchesStatus(op) BY <2>1, <2>2, NewOperationType DEF StageMatchesStatus
  <2>4. FreshReserved(op) BY <2>1, NewOperationType DEF FreshReserved
  <2>5. RepairPlaced(op) BY <2>1, NewOperationType DEF RepairPlaced
  <2> QED BY <2>3, <2>4, <2>5
<1>5. ASSUME NEW q \in Actors PROVE ActorInv(local[q]) /\ RepairInv(q, local[q])
  <2>1. local[q] = AtRest BY DEF Init
  <2>2. AtRest.pc = "idle" /\ AtRest.next = "idle" /\ AtRest.held = FALSE
        /\ AtRest.row = newWorkspaceLaunchReconcileOperation
    BY DEF AtRest
  <2>3. PassInv(AtRest) BY <2>2 DEF PassInv, AtStage
  <2>4. ReservationInv(AtRest) BY <2>2 DEF ReservationInv, Calling
  <2>5. RepairInv(q, AtRest) BY <2>2, NewOperationType DEF RepairInv, RepairPlaced
  <2> QED BY <1>3, <2>1, <2>2, <2>3, <2>4, <2>5 DEF ActorInv
<1>6. \A i \in StageIdx : ~Dispatches(i) BY DEF Init, Dispatches
<1>7. StagesInOrder /\ ReservedBeforeDispatch BY <1>6 DEF StagesInOrder, ReservedBeforeDispatch
<1> QED BY <1>1, <1>3, <1>4, <1>5, <1>7 DEF IInv, Init

\* One step per group of actions, each a lemma above.
LEMMA NextInv == IInv /\ [Next]_vars => IInv'
<1> SUFFICES ASSUME IInv, [Next]_vars PROVE IInv' OBVIOUS
<1>1. ASSUME NEW p \in Actors, Starts(p) PROVE IInv'
  BY <1>1, ListPendingInv, CustomerContinuesInv, ResumeInv, ResumeAgainInv,
     RepairBeginsInv, RepairAgainInv
     DEF Starts
<1>2. ASSUME NEW p \in Actors, Load(p) PROVE IInv'
  BY <1>2, LoadInv
<1>3. ASSUME NEW p \in Actors, Reconciles(p) PROVE IInv'
  BY <1>3, EntryResetInv, EntryReturnInv, EntryReadInv, EntryPutAsideInv,
     ReconcileReadyInv, ReconcileUnreadableInv, ReconcileUnknownInv,
     ReconcilePendingInv, ReconcileOwnershipPendingInv, ReconcileAbsentParksInv,
     ReplayNotDispatchedInv, ReplayClaimedInv, MutateUnavailableInv,
     ReconcileReserveInv, MutateInv, MutateRefusedInv, PostReadyInv, PostPendingInv,
     PostUnknownInv, FactsRefusedInv, ReplayReadReadyInv, ReplayReadPendingInv, ReplayReadUnknownInv,
     ReplayReadRepeatsInv
     DEF Reconciles
<1>4. ASSUME NEW p \in Actors, ContinuesFresh(p) PROVE IInv'
  BY <1>4, FreshHeldInv, FreshReplayTakenOverInv, FreshClaimReadInv, FreshReadReadyInv,
     FreshReadRefusedInv,
     FreshReadPendingInv, FreshReadOwnershipPendingInv, FreshReadFailedInv,
     ConvergeReadyInv, ConvergePendingInv, ConvergeRepeatsInv, ConvergeMutateInv,
     ConvergeWaitsInv, ConvergeFailsInv
     DEF ContinuesFresh
<1>5. ASSUME NEW p \in Actors, Operates(p) PROVE IInv'
  BY <1>5, ResumeConflictInv, ResumeComputeInv, ResumeRuntimeInv, ResumeExhaustedReadyInv,
     ResumeExhaustedInv, RepairCallsInv, RepairReadyInv, RepairFailedInv
     DEF Operates
<1>6. ASSUME NEW p \in Actors, Persists(p) PROVE IInv'
  BY <1>6, PersistAcceptedInv, PersistRejectedInv DEF Persists
<1>7. ASSUME NEW p \in Actors, Crash(p) PROVE IInv'
  BY <1>7, CrashInv
<1>8. CASE Environment
  BY <1>8, OwnerStepsInv, LeaseExpiresInv, DeadlineExpiresInv DEF Environment
<1>9. CASE UNCHANGED vars
  BY <1>9 DEF vars, IInv, TypeOK, RowInv, StageMatchesStatus, FreshReserved, ActorInv, PassInv,
     ReservationInv, AttemptsKept, Att, StagesInOrder, ReservedBeforeDispatch, Dispatches, Done,
     Replacing, RepairInv, RepairPlaced
<1> QED BY <1>1, <1>2, <1>3, <1>4, <1>5, <1>6, <1>7, <1>8, <1>9 DEF Next

\* The invariant holds in every state of every behaviour of the reconciler
\* (Reconcile, Resume, repairWorkspaceLaunchRuntime and persist together).
THEOREM Invariant == Spec => []IInv
  BY InitInv, NextInv, PTL DEF Spec

\* The stored row and every working copy of it stay well-formed rows
\* (the fields workspaceLaunchReconcileOperation declares).
THEOREM TypeCorrect == Spec => []TypeOK
<1>1. IInv => TypeOK BY DEF IInv
<1> QED BY <1>1, Invariant, PTL

\* For every list of stages, any number of actors and any budgets: what the
\* row calls ready is done at its owner, and every stage before the cursor
\* is ready, so a launch never ends without one of its effects (Reconcile,
\* mutateReservedStage, Resume and repairWorkspaceLaunchRuntime).
THEOREM ReadyIsRealTheorem == Spec => []ReadyIsReal
<1>1. IInv => ReadyIsReal BY DEF IInv, RowInv, ReadyIsReal
<1> QED BY <1>1, Invariant, PTL

\* No owner is called for a stage before the effects of all earlier stages
\* exist, whatever stale passes are still under way (the cursor of
\* Reconcile and the compare-and-swap of persist).
THEOREM StagesInOrderTheorem == Spec => []StagesInOrder
<1>1. IInv => StagesInOrder BY DEF IInv
<1> QED BY <1>1, Invariant, PTL

\* With resource billing no owner is ever called without a reserved attempt
\* in the store, and no write of any actor forgets it again (persist before
\* mutateReservedStage).
THEOREM ReservedBeforeDispatchTheorem == Spec => []ReservedBeforeDispatch
<1>1. IInv => ReservedBeforeDispatch BY DEF IInv
<1> QED BY <1>1, Invariant, PTL
=============================================================================
