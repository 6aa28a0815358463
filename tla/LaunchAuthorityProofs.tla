------------------------- MODULE LaunchAuthorityProofs -------------------------
(***************************************************************************)
(* Who may call an owner, read it again or take a parked launch up: the    *)
(* second inductive invariant of the launch reconciler, JInv, on top of    *)
(* IInv.  It says what every row that is stored or worked on satisfies     *)
(* beyond decoding (Good), what a handler knows of its row at each point   *)
(* (Knows), and how a row that is about to be accepted differs from the    *)
(* stored one (Write).                                                     *)
(***************************************************************************)
EXTENDS LaunchSafety, FiniteSetTheorems

-----------------------------------------------------------------------------
(* Rows.                                                                   *)

\* The attempt of stage i is never reset.
Lasting(i) == ResourceBilling \/ Stages[i] = Compute

\* Nothing has happened to stage i.
Untouched(o, i) ==
  /\ o.attempts[i].attempted = 0 /\ o.attempts[i].status = ""
  /\ o.observations[i] = "" /\ o.freshContinuations[i] = "none"
  /\ o.replayClaims[i].status = "none"

ReplayGrant(g, i) == g.stage = i /\ g.replay = 1

NoReplayGrant(o, i) == \A g \in Grants(o) : ~ReplayGrant(g, i)

\* Stage i of row o, when it is not behind the cursor.
StageGood(o, i) ==
  /\ i > o.stage => Untouched(o, i)
  /\ i = o.stage => o.observations[i] # "ready"
  /\ o.attempts[i].status = "reserved" => o.attempts[i].attempted = 1
  /\ o.attempts[i].attempted = 0 => o.observations[i] \notin {"pending", "ownership_pending"}

\* Operator replays of stage i: none before its attempt, none beside a fresh
\* continuation, at most two of compute.
ReplayGood(o, i) ==
  /\ Lasting(i) /\ o.attempts[i].attempted = 0 =>
       o.replayClaims[i].status = "none" /\ NoReplayGrant(o, i)
  /\ Lasting(i) /\ o.freshContinuations[i] # "none" => NoReplayGrant(o, i)
  /\ Stages[i] = Compute =>
       \A g, h, k \in Grants(o) :
         ReplayGrant(g, i) /\ ReplayGrant(h, i) /\ ReplayGrant(k, i) =>
           g.id = h.id \/ h.id = k.id \/ g.id = k.id

\* The open authorization counts from readbacks the stage has made.
GrantGood(o) ==
  LET g == o.resumeAuthorization IN
  /\ g.stage <= o.stage
  /\ GrantActive(o) /\ g.stage = o.stage /\ g.mutation = 0 /\ o.stage \in StageIdx =>
       g.readbacks <= Att(o).pendingReadbacks

RowAuthorized(o) ==
  o.status = "pending" /\ o.stage \in StageIdx => FreshActive(o) \/ ReadAllowed(o)

Good(o) ==
  /\ \A i \in StageIdx : StageGood(o, i) /\ ReplayGood(o, i)
  /\ ResourceBilling => GrantGood(o) /\ RowAuthorized(o)

\* A call of stage i under authorization a is on record.
Tracked(o, i, a) ==
  \/ o.replayClaims[i].status # "none" /\ o.replayClaims[i].authorization = a
  \/ /\ Stages[i] = Compute
     /\ \E g \in o.consumedAuthorizations :
          g.id = a /\ a # 0 /\ g.stage = i /\ g.mutation = 0 /\ g.replay = 1

-----------------------------------------------------------------------------
(* Writes.                                                                 *)

\* The current stage alone changes, and the cursor moves only past a ready one.
WriteStage(o, n) ==
  /\ o.stage \in StageIdx
  /\ \/ n.stage = o.stage /\ n.status \in {"pending", "manual_review"}
     \/ /\ n.stage = o.stage + 1 /\ n.observations[o.stage] = "ready"
        /\ n.status = IF n.stage = Succeeded THEN "succeeded" ELSE "pending"
  /\ \A i \in StageIdx : i # o.stage =>
       /\ n.observations[i] = o.observations[i]
       /\ n.attempts[i].status = o.attempts[i].status
       /\ n.attempts[i].attempted = o.attempts[i].attempted

SameGrants(o, n) ==
  /\ n.resumeAuthorization = o.resumeAuthorization
  /\ n.consumedAuthorizations = o.consumedAuthorizations
  /\ o.authorizationConsumed => n.authorizationConsumed

NewGrant(o, n) ==
  /\ n.resumeAuthorization.id \notin GrantIds(o)
  /\ n.consumedAuthorizations =
       IF HasGrant(o) THEN o.consumedAuthorizations \cup {o.resumeAuthorization}
                      ELSE o.consumedAuthorizations

RepairDrops(o, n) ==
  /\ n.resumeAuthorization = NoGrant
  /\ n.consumedAuthorizations = o.consumedAuthorizations
  /\ n.runtimeRepair /\ ~o.runtimeRepair

WriteGrants(o, n) ==
  /\ SameGrants(o, n) \/ NewGrant(o, n) \/ RepairDrops(o, n)
  /\ ResourceBilling /\ o.status = "manual_review" /\ n.status # "manual_review" =>
       NewGrant(o, n) \/ RepairDrops(o, n)

\* A stage is reserved by a write that does nothing else.
WriteAttempt(o, n) ==
  \/ n.attempts[o.stage].attempted = o.attempts[o.stage].attempted
  \/ /\ n.attempts[o.stage].attempted = 1
     /\ o.status = "pending" /\ n.status = "pending" /\ n.stage = o.stage

\* A fresh continuation is never forgotten and its reads are not given back.
WriteReads(o, n) ==
  \A i \in StageIdx : o.freshContinuations[i] # "none" =>
    /\ n.freshContinuations[i] # "none"
    /\ n.attempts[i].pendingReadbacks >= o.attempts[i].pendingReadbacks

WriteReplays(o, n) ==
  \A i \in StageIdx : \A a \in Nat : Tracked(o, i, a) => Tracked(n, i, a)

Write(o, n) ==
  /\ WriteStage(o, n) /\ WriteGrants(o, n) /\ WriteReplays(o, n)
  /\ ResourceBilling => WriteAttempt(o, n) /\ WriteReads(o, n)

-----------------------------------------------------------------------------
(* Handlers.                                                               *)

ReplayClaimOpen(o) ==
  /\ Replay(o).status = "claimed" /\ IdempotentReplayAuthorized(o)
  /\ Replay(o).authorization = o.resumeAuthorization.id

\* The row is that of a stage that was reserved and never called before.
FirstAttempt(o) ==
  /\ Att(o).attempted = 1 /\ Att(o).status = "reserved"
  /\ Lasting(o.stage) => Replay(o).status = "none" /\ NoReplayGrant(o, o.stage)

Plain == {"read", "replayRead", "mutate", "postRead", "refusedRead"}
Fresh == {"freshRead", "convergeRead", "convergeMutate", "convergePostRead"}
Resumes == {"resumeCompute", "resumeRuntime", "resumeExhausted"}

ResumeKnows(o, c, g) ==
  /\ o.status = "manual_review"
  /\ g.id # 0 /\ g.id \notin GrantIds(o) /\ g \in GrantsFor(o, g.id)
  /\ c = "resumeCompute" => UnknownComputeContinuationEligible(o, g)
  /\ c = "resumeRuntime" => UnknownRuntimeReadEligible(o, g)
  /\ c = "resumeExhausted" =>
       /\ Att(o).attempted = 1
       /\ ReservedStageReplayEligible(o, g) \/ ReservedStageReadEligible(o, g)

\* What a handler at c with grant g knows of its row o.
Knows(o, c, g) ==
  /\ c \in Plain => o.status = "pending" /\ ~FreshActive(o)
  /\ c \in Fresh => o.status = "pending" /\ FreshActive(o)
  /\ c \in {"convergeRead", "convergeMutate"} => Replay(o).status = "claimed"
  /\ c = "replayRead" => ReplayClaimOpen(o)
  /\ c \in {"mutate", "postRead", "refusedRead"} => ReplayClaimOpen(o) \/ FirstAttempt(o)
  /\ c \in Resumes => ResumeKnows(o, c, g)
  /\ c \in {"repair", "repairing"} => RuntimeRepairEligible(o)

\* What a handler about to write row n, and then to be at c, has to have seen
\* in the stored row.
Claims(o, n, c) ==
  ResourceBilling =>
    /\ c = "mutate" => Att(o).attempted = 0
    /\ c = "freshRead" =>
         /\ o.freshContinuations[n.stage] # "none"
         /\ Att(n).pendingReadbacks = o.attempts[n.stage].pendingReadbacks + 1

Callers == {"replayRead", "mutate", "convergeRead", "convergeMutate"}

ActorGood(l) ==
  /\ l.pc # "persist" =>
       /\ Decodes(l.row) /\ Good(l.row) /\ Knows(l.row, l.pc, l.grant)
       /\ l.held => l.row = op
  /\ l.pc = "persist" /\ l.held =>
       /\ Write(op, l.row) /\ Good(l.row) /\ Knows(l.row, l.next, l.grant)
       /\ Claims(op, l.row, l.next)
  /\ l.next \notin Resumes
  /\ l.pc \in Callers /\ Replay(l.row).status = "claimed" =>
       Tracked(op, l.row.stage, Replay(l.row).authorization)
  /\ ResourceBilling /\ l.pc \in {"repair", "repairing"} =>
       op.attempts[l.row.stage].attempted = 1

\* p is about to make the first call of stage i.
First(p, i) ==
  At(p, "mutate") /\ Row(p).stage = i /\ Replay(Row(p)).status # "claimed"

FirstAlone ==
  ResourceBilling =>
    \A i \in StageIdx : /\ sent[i].first <= 1
                        /\ \A p \in Actors : First(p, i) => sent[i].first = 0
                        /\ \A p, q \in Actors : First(p, i) /\ First(q, i) => p = q

ReplaysTracked == \A i \in StageIdx : \A a \in sent[i].replays : Tracked(op, i, a)

\* Whose read of stage i under the fresh continuation is not made yet.
Readers(i) == {p \in Actors : At(p, "freshRead") /\ Row(p).stage = i}

ReadsCounted ==
  ResourceBilling =>
    \A i \in StageIdx :
      IF op.freshContinuations[i] = "none" THEN gets[i] = 0 /\ Readers(i) = {}
      ELSE /\ IsFiniteSet(Readers(i))
           /\ gets[i] + Cardinality(Readers(i)) <= op.attempts[i].pendingReadbacks - 1

\* An owner that has done anything was asked to.
WorldAsked ==
  \A i \in StageIdx : world[i] # "absent" => Dispatches(i) \/ (repairs /\ Stages[i] = Runtime)

JInv ==
  /\ Decodes(op) /\ Good(op)
  /\ \A p \in Actors : ActorGood(local[p])
  /\ FirstAlone /\ ReplaysTracked /\ ReadsCounted /\ WorldAsked

-----------------------------------------------------------------------------
(* What the handlers make of their row, field by field: the attempt a, the *)
(* observation s, the replay claim c and the continuation f of the stage.  *)

Updates(o, n, a, s, c, f) ==
  /\ n \in Operation
  /\ n.attempts = [o.attempts EXCEPT ![o.stage] = a]
  /\ n.observations = [o.observations EXCEPT ![o.stage] = s]
  /\ n.replayClaims = [o.replayClaims EXCEPT ![o.stage] = c]
  /\ n.freshContinuations = [o.freshContinuations EXCEPT ![o.stage] = f]

\* The same, stage by stage.
LEMMA UpdatesAt ==
  ASSUME NEW o \in Operation, o.stage \in StageIdx, NEW n, NEW a, NEW s, NEW c, NEW f,
         Updates(o, n, a, s, c, f)
  PROVE  /\ n \in Operation
         /\ \A i \in StageIdx :
              /\ n.attempts[i] = IF i = o.stage THEN a ELSE o.attempts[i]
              /\ n.observations[i] = IF i = o.stage THEN s ELSE o.observations[i]
              /\ n.replayClaims[i] = IF i = o.stage THEN c ELSE o.replayClaims[i]
              /\ n.freshContinuations[i] = IF i = o.stage THEN f ELSE o.freshContinuations[i]
  BY DEF Updates, Operation

CurFresh(o) == o.freshContinuations[o.stage]

Completed(c, s) ==
  IF c.status \in {"claimed", "waiting"} THEN [c EXCEPT !.status = s, !.lease = "none"] ELSE c

\* Stage and status as they are, or as advance sets them.
Stayed(o, n, t) == n.stage = o.stage /\ n.status = t
Advanced(o, n) ==
  /\ n.stage = o.stage + 1
  /\ n.status = IF n.stage = Succeeded THEN "succeeded" ELSE "pending"

SameRest(o, n) == SameGrants(o, n) /\ n.runtimeRepair = o.runtimeRepair

\* The authorization that was open is put on record and g takes its place.
Rotated(o, n, g) ==
  /\ n.resumeAuthorization = g
  /\ n.consumedAuthorizations = IF HasGrant(o) THEN o.consumedAuthorizations \cup {o.resumeAuthorization}
                                              ELSE o.consumedAuthorizations
  /\ n.runtimeRepair = o.runtimeRepair

LEMMA StaysType == ASSUME NEW o, NEW n, Stays(o, n) PROVE n \in Operation
  BY DEF Stays, Keeps, Marks
LEMMA ConfirmsType == ASSUME NEW o, NEW n, Confirms(o, n) PROVE n \in Operation
  BY DEF Confirms, Advances

LEMMA ConfirmStageWrites ==
  ASSUME NEW o \in Operation, o.stage \in StageIdx, NEW n, n = ConfirmStage(o)
  PROVE  /\ Updates(o, n, IF Att(o).attempted > 0 THEN Confirmed(Att(o)) ELSE Att(o), "ready",
                    Completed(Replay(o), "succeeded"), CurFresh(o))
         /\ Advanced(o, n) /\ SameRest(o, n)
<1>1. n \in Operation BY ConfirmStageConfirms, ConfirmsType
<1> USE DEF ConfirmStage, advance, consumeResumeAuthorization, completeIdempotentReplay, SetObs,
            SetAtt, Att, Replay, Completed, CurFresh, HasGrant, Operation
<1>2. n.attempts = [o.attempts EXCEPT ![o.stage] = IF Att(o).attempted > 0 THEN Confirmed(Att(o)) ELSE Att(o)]
  OBVIOUS
<1>3. n.observations = [o.observations EXCEPT ![o.stage] = "ready"] OBVIOUS
<1>4. n.replayClaims = [o.replayClaims EXCEPT ![o.stage] = Completed(Replay(o), "succeeded")] OBVIOUS
<1>5. n.freshContinuations = [o.freshContinuations EXCEPT ![o.stage] = CurFresh(o)] OBVIOUS
<1>6. Advanced(o, n) BY DEF Advanced
<1>7. SameRest(o, n) BY DEF SameRest, SameGrants
<1> QED BY <1>1, <1>2, <1>3, <1>4, <1>5, <1>6, <1>7 DEF Updates

LEMMA ParkStageWrites ==
  ASSUME NEW o \in Operation, o.stage \in StageIdx, NEW a \in Attempt, NEW s \in NotReady,
         Att(o).attempted = 1 => a.attempted = 1, NEW n, n = ParkStage(o, a, s)
  PROVE  /\ Updates(o, n, a, s, Completed(Replay(o), "failed"), CurFresh(o))
         /\ Stayed(o, n, "manual_review") /\ SameRest(o, n)
<1>1. n \in Operation BY ParkStageStays, StaysType
<1> USE DEF ParkStage, consumeResumeAuthorization, completeIdempotentReplay, SetObs,
            SetAtt, Att, Replay, Completed, CurFresh, HasGrant, Operation
<1>2. n.attempts = [o.attempts EXCEPT ![o.stage] = a] OBVIOUS
<1>3. n.observations = [o.observations EXCEPT ![o.stage] = s] OBVIOUS
<1>4. n.replayClaims = [o.replayClaims EXCEPT ![o.stage] = Completed(Replay(o), "failed")] OBVIOUS
<1>5. n.freshContinuations = [o.freshContinuations EXCEPT ![o.stage] = CurFresh(o)] OBVIOUS
<1>6. Stayed(o, n, "manual_review") BY DEF Stayed
<1>7. SameRest(o, n) BY DEF SameRest, SameGrants
<1> QED BY <1>1, <1>2, <1>3, <1>4, <1>5, <1>6, <1>7 DEF Updates

LEMMA SetAsideWrites ==
  ASSUME NEW o \in Operation, o.stage \in StageIdx, NEW s \in NotReady, NEW n, n = SetAside(o, s)
  PROVE  /\ Updates(o, n, Att(o), s, Replay(o), CurFresh(o))
         /\ Stayed(o, n, "manual_review") /\ SameRest(o, n)
<1>1. n \in Operation BY SetAsideStays, StaysType
<1> USE DEF SetAside, consumeResumeAuthorization, SetObs, Att, Replay, CurFresh, HasGrant, Operation
<1>2. n.attempts = [o.attempts EXCEPT ![o.stage] = Att(o)] OBVIOUS
<1>3. n.observations = [o.observations EXCEPT ![o.stage] = s] OBVIOUS
<1>4. n.replayClaims = [o.replayClaims EXCEPT ![o.stage] = Replay(o)] OBVIOUS
<1>5. n.freshContinuations = [o.freshContinuations EXCEPT ![o.stage] = CurFresh(o)] OBVIOUS
<1>6. Stayed(o, n, "manual_review") /\ SameRest(o, n) BY DEF Stayed, SameRest, SameGrants
<1> QED BY <1>1, <1>2, <1>3, <1>4, <1>5, <1>6 DEF Updates

LEMMA SetAttObsWrites ==
  ASSUME NEW o \in Operation, o.stage \in StageIdx, NEW a \in Attempt, NEW s \in NotReady,
         Att(o).attempted = 1 => a.attempted = 1, NEW n, n = SetObs(SetAtt(o, a), s)
  PROVE  /\ Updates(o, n, a, s, Replay(o), CurFresh(o))
         /\ Stayed(o, n, o.status) /\ SameRest(o, n)
         /\ n.authorizationConsumed = o.authorizationConsumed
<1>1. n \in Operation
  <2>1. SetAtt(o, a) \in Operation /\ SetAtt(o, a).stage = o.stage BY SetAttKeeps DEF Keeps
  <2> QED BY <2>1, SetObsStays, StaysType
<1> USE DEF SetObs, SetAtt, Att, Replay, CurFresh, Operation
<1>2. n.attempts = [o.attempts EXCEPT ![o.stage] = a] OBVIOUS
<1>3. n.observations = [o.observations EXCEPT ![o.stage] = s] OBVIOUS
<1>4. n.replayClaims = [o.replayClaims EXCEPT ![o.stage] = Replay(o)] OBVIOUS
<1>5. n.freshContinuations = [o.freshContinuations EXCEPT ![o.stage] = CurFresh(o)] OBVIOUS
<1>6. Stayed(o, n, o.status) /\ SameRest(o, n) /\ n.authorizationConsumed = o.authorizationConsumed
  BY DEF Stayed, SameRest, SameGrants
<1> QED BY <1>1, <1>2, <1>3, <1>4, <1>5, <1>6 DEF Updates

LEMMA ReserveWrites ==
  ASSUME NEW o \in Operation, o.stage \in StageIdx, NEW n, n = ReserveStage(o)
  PROVE  /\ Updates(o, n, [Att(o) EXCEPT !.attempted = 1, !.status = "reserved"], Obs(o),
                    Replay(o), CurFresh(o))
         /\ Stayed(o, n, o.status) /\ SameRest(o, n)
<1>1. n \in Operation BY ReserveStageKeeps DEF Keeps
<1> USE DEF ReserveStage, SetAtt, Att, Obs, Replay, CurFresh, Operation
<1>2. n.attempts = [o.attempts EXCEPT ![o.stage] = [Att(o) EXCEPT !.attempted = 1, !.status = "reserved"]]
  OBVIOUS
<1>3. n.observations = [o.observations EXCEPT ![o.stage] = Obs(o)] OBVIOUS
<1>4. n.replayClaims = [o.replayClaims EXCEPT ![o.stage] = Replay(o)] OBVIOUS
<1>5. n.freshContinuations = [o.freshContinuations EXCEPT ![o.stage] = CurFresh(o)] OBVIOUS
<1>6. Stayed(o, n, o.status) /\ SameRest(o, n) BY DEF Stayed, SameRest, SameGrants
<1> QED BY <1>1, <1>2, <1>3, <1>4, <1>5, <1>6 DEF Updates

LEMMA ClaimReplayWrites ==
  ASSUME NEW o \in Operation, o.stage \in StageIdx, NEW auth \in Nat, NEW n, n = ClaimReplay(o, auth)
  PROVE  /\ Updates(o, n, Att(o), Obs(o), [status |-> "claimed", authorization |-> auth, lease |-> "live"],
                    CurFresh(o))
         /\ Stayed(o, n, o.status) /\ SameRest(o, n)
         /\ n.authorizationConsumed = o.authorizationConsumed
<1>1. n \in Operation BY ClaimReplayKeeps DEF Keeps
<1> USE DEF ClaimReplay, Att, Obs, CurFresh, Operation
<1>2. n.attempts = [o.attempts EXCEPT ![o.stage] = Att(o)] OBVIOUS
<1>3. n.observations = [o.observations EXCEPT ![o.stage] = Obs(o)] OBVIOUS
<1>4. n.replayClaims = [o.replayClaims EXCEPT ![o.stage] =
                          [status |-> "claimed", authorization |-> auth, lease |-> "live"]] OBVIOUS
<1>5. n.freshContinuations = [o.freshContinuations EXCEPT ![o.stage] = CurFresh(o)] OBVIOUS
<1>6. Stayed(o, n, o.status) /\ SameRest(o, n) /\ n.authorizationConsumed = o.authorizationConsumed
  BY DEF Stayed, SameRest, SameGrants
<1> QED BY <1>1, <1>2, <1>3, <1>4, <1>5, <1>6 DEF Updates

LEMMA WaitWrites ==
  ASSUME NEW o \in Operation, o.stage \in StageIdx, NEW s \in NotReady, NEW a,
         a = [Att(o) EXCEPT !.pendingReadbacks = @ + 1], NEW n, n = waitClaimedReplay(o, s)
  PROVE  /\ a \in Attempt
         /\ Exhausted(a) => /\ Updates(o, n, Unknown(a), "unknown", Completed(Replay(o), "waiting"), CurFresh(o))
                            /\ Stayed(o, n, "manual_review") /\ SameRest(o, n)
         /\ ~Exhausted(a) => /\ Updates(o, n, a, s, Completed(Replay(o), "waiting"), CurFresh(o))
                             /\ Stayed(o, n, "pending") /\ SameRest(o, n)
                             /\ n.authorizationConsumed = o.authorizationConsumed
<1>0. a \in Attempt BY AttType DEF Attempt
<1>1. n \in Operation BY WaitClaimedReplayStays, StaysType
<1>2. PICK e : e = Exhausted(a) OBVIOUS
<1>3. PICK w : w = completeIdempotentReplay(SetObs(SetAtt(o, a), s), "waiting") OBVIOUS
<1>4. /\ Updates(o, w, a, s, Completed(Replay(o), "waiting"), CurFresh(o))
      /\ Stayed(o, w, o.status) /\ SameRest(o, w)
      /\ w.authorizationConsumed = o.authorizationConsumed
  <2>1. w \in Operation
    <3>1. a.attempted = Att(o).attempted BY AttType DEF Attempt
    <3>2. SetAtt(o, a) \in Operation /\ SetAtt(o, a).stage = o.stage
      BY <1>0, <3>1, SetAttKeeps DEF Keeps
    <3> QED BY <1>3, <3>2, SetObsStays, StaysType
  <2> USE <1>3 DEF completeIdempotentReplay, SetObs, SetAtt, Replay, Completed, CurFresh, Operation
  <2>2. w.attempts = [o.attempts EXCEPT ![o.stage] = a] OBVIOUS
  <2>3. w.observations = [o.observations EXCEPT ![o.stage] = s] OBVIOUS
  <2>4. w.replayClaims = [o.replayClaims EXCEPT ![o.stage] = Completed(Replay(o), "waiting")] OBVIOUS
  <2>5. w.freshContinuations = [o.freshContinuations EXCEPT ![o.stage] = CurFresh(o)] OBVIOUS
  <2>6. Stayed(o, w, o.status) /\ w.authorizationConsumed = o.authorizationConsumed BY DEF Stayed
  <2>7. SameRest(o, w) BY DEF SameRest, SameGrants
  <2> QED BY <2>1, <2>2, <2>3, <2>4, <2>5, <2>6, <2>7 DEF Updates
<1>5. w \in Operation BY <1>4 DEF Updates
<1>6. CASE e
  <2>1. n = [consumeResumeAuthorization(SetObs(SetAtt(w, Unknown(a)), "unknown"))
               EXCEPT !.status = "manual_review"]
    BY <1>2, <1>3, <1>6 DEF waitClaimedReplay
  <2>2. n.attempts = [w.attempts EXCEPT ![w.stage] = Unknown(a)]
    BY <1>5, <2>1 DEF consumeResumeAuthorization, SetObs, SetAtt, Operation
  <2>3. n.observations = [w.observations EXCEPT ![w.stage] = "unknown"]
    BY <1>5, <2>1 DEF consumeResumeAuthorization, SetObs, SetAtt, Operation
  <2>4. n.replayClaims = w.replayClaims /\ n.freshContinuations = w.freshContinuations
        /\ n.stage = w.stage /\ n.status = "manual_review" /\ n.runtimeRepair = w.runtimeRepair
        /\ n.resumeAuthorization = w.resumeAuthorization
        /\ n.consumedAuthorizations = w.consumedAuthorizations
    BY <1>5, <2>1 DEF consumeResumeAuthorization, SetObs, SetAtt, Operation
  <2>5. w.authorizationConsumed => n.authorizationConsumed
    BY <1>5, <2>1 DEF consumeResumeAuthorization, SetObs, SetAtt, Operation
  <2>6. w.stage = o.stage BY <1>4 DEF Stayed
  <2>7. [[o.attempts EXCEPT ![o.stage] = a] EXCEPT ![o.stage] = Unknown(a)]
          = [o.attempts EXCEPT ![o.stage] = Unknown(a)]
    BY DEF Operation
  <2>8. [[o.observations EXCEPT ![o.stage] = s] EXCEPT ![o.stage] = "unknown"]
          = [o.observations EXCEPT ![o.stage] = "unknown"]
    BY DEF Operation
  <2>9. Updates(o, n, Unknown(a), "unknown", Completed(Replay(o), "waiting"), CurFresh(o))
    BY <1>1, <1>4, <2>2, <2>3, <2>4, <2>6, <2>7, <2>8 DEF Updates
  <2>10. Stayed(o, n, "manual_review") /\ SameRest(o, n)
    BY <1>4, <2>4, <2>5, <2>6 DEF Stayed, SameRest, SameGrants
  <2> QED BY <1>0, <1>2, <1>6, <2>9, <2>10
<1>7. CASE ~e
  <2>1. n = [w EXCEPT !.status = "pending"] BY <1>2, <1>3, <1>7 DEF waitClaimedReplay
  <2>2. /\ n.attempts = w.attempts /\ n.observations = w.observations /\ n.stage = w.stage
        /\ n.replayClaims = w.replayClaims /\ n.freshContinuations = w.freshContinuations
        /\ n.status = "pending" /\ n.runtimeRepair = w.runtimeRepair
        /\ n.resumeAuthorization = w.resumeAuthorization
        /\ n.consumedAuthorizations = w.consumedAuthorizations
        /\ n.authorizationConsumed = w.authorizationConsumed
    BY <1>5, <2>1 DEF Operation
  <2>3. Updates(o, n, a, s, Completed(Replay(o), "waiting"), CurFresh(o))
    BY <1>1, <1>4, <2>2 DEF Updates
  <2> QED BY <1>0, <1>2, <1>4, <1>7, <2>2, <2>3 DEF Stayed, SameRest, SameGrants
<1> QED BY <1>6, <1>7

LEMMA BeginFreshWrites ==
  ASSUME NEW o \in Operation, o.stage \in StageIdx, NEW s \in NotReady,
         NEW n, n = BeginFreshContinuation(o, s)
  PROVE  /\ Updates(o, n, [Att(o) EXCEPT !.pendingReadbacks = 1,
                             !.maxPendingReadbacks = 1 + FreshContinuationReadBudget(o.stage),
                             !.deadline = PendingDeadline(o.stage)], s, Replay(o), "active")
         /\ Stayed(o, n, "pending") /\ SameRest(o, n)
         /\ ~GrantActive(n)
<1>1. n \in Operation BY BeginFreshStays, StaysType
<1> USE DEF BeginFreshContinuation, consumeResumeAuthorization, SetObs, SetAtt, Replay, HasGrant, Operation
<1>2. n.attempts = [o.attempts EXCEPT ![o.stage] =
                      [Att(o) EXCEPT !.pendingReadbacks = 1,
                             !.maxPendingReadbacks = 1 + FreshContinuationReadBudget(o.stage),
                             !.deadline = PendingDeadline(o.stage)]] OBVIOUS
<1>3. n.observations = [o.observations EXCEPT ![o.stage] = s] OBVIOUS
<1>4. n.replayClaims = [o.replayClaims EXCEPT ![o.stage] = Replay(o)] OBVIOUS
<1>5. n.freshContinuations = [o.freshContinuations EXCEPT ![o.stage] = "active"] OBVIOUS
<1>6. Stayed(o, n, "pending") BY DEF Stayed
<1>7. SameRest(o, n) BY DEF SameRest, SameGrants
<1>8. ~GrantActive(n) BY DEF GrantActive
<1> QED BY <1>1, <1>2, <1>3, <1>4, <1>5, <1>6, <1>7, <1>8 DEF Updates

LEMMA ParkFreshWrites ==
  ASSUME NEW o \in Operation, o.stage \in StageIdx, NEW n, n = parkFreshTypedPending(o, Att(o))
  PROVE  /\ Updates(o, n, Unknown(Att(o)), "unknown", Completed(Replay(o), "failed"), "failed")
         /\ Stayed(o, n, "manual_review") /\ SameRest(o, n)
<1>1. n \in Operation BY ParkFreshStays, StaysType
<1> USE DEF parkFreshTypedPending, completeIdempotentReplay, SetObs, SetAtt, Att, Replay, Completed,
            Operation
<1>2. n.attempts = [o.attempts EXCEPT ![o.stage] = Unknown(Att(o))] OBVIOUS
<1>3. n.observations = [o.observations EXCEPT ![o.stage] = "unknown"] OBVIOUS
<1>4. n.replayClaims = [o.replayClaims EXCEPT ![o.stage] = Completed(Replay(o), "failed")] OBVIOUS
<1>5. n.freshContinuations = [o.freshContinuations EXCEPT ![o.stage] = "failed"] OBVIOUS
<1>6. Stayed(o, n, "manual_review") BY DEF Stayed
<1>7. SameRest(o, n) BY DEF SameRest, SameGrants
<1> QED BY <1>1, <1>2, <1>3, <1>4, <1>5, <1>6, <1>7 DEF Updates

LEMMA ConfirmFreshWrites ==
  ASSUME NEW o \in Operation, o.stage \in StageIdx, NEW n, n = ConfirmFresh(o)
  PROVE  /\ Updates(o, n, Confirmed(Att(o)), "ready", Completed(Replay(o), "succeeded"), "consumed")
         /\ Advanced(o, n) /\ SameRest(o, n)
<1>1. n \in Operation BY ConfirmFreshConfirms, ConfirmsType
<1> USE DEF ConfirmFresh, advance, completeIdempotentReplay, SetObs, SetAtt, Att, Replay, Completed,
            Operation
<1>2. n.attempts = [o.attempts EXCEPT ![o.stage] = Confirmed(Att(o))] OBVIOUS
<1>3. n.observations = [o.observations EXCEPT ![o.stage] = "ready"] OBVIOUS
<1>4. n.replayClaims = [o.replayClaims EXCEPT ![o.stage] = Completed(Replay(o), "succeeded")] OBVIOUS
<1>5. n.freshContinuations = [o.freshContinuations EXCEPT ![o.stage] = "consumed"] OBVIOUS
<1>6. Advanced(o, n) BY DEF Advanced
<1>7. SameRest(o, n) BY DEF SameRest, SameGrants
<1> QED BY <1>1, <1>2, <1>3, <1>4, <1>5, <1>6, <1>7 DEF Updates

LEMMA CompleteWaitWrites ==
  ASSUME NEW o \in Operation, o.stage \in StageIdx, NEW s \in NotReady,
         NEW n, n = completeIdempotentReplay(SetObs(o, s), "waiting")
  PROVE  /\ Updates(o, n, Att(o), s, Completed(Replay(o), "waiting"), CurFresh(o))
         /\ Stayed(o, n, o.status) /\ SameRest(o, n)
<1>1. n \in Operation BY SetObsStays, StaysType
<1> USE DEF completeIdempotentReplay, SetObs, Att, Replay, Completed, CurFresh, Operation
<1>2. n.attempts = [o.attempts EXCEPT ![o.stage] = Att(o)] OBVIOUS
<1>3. n.observations = [o.observations EXCEPT ![o.stage] = s] OBVIOUS
<1>4. n.replayClaims = [o.replayClaims EXCEPT ![o.stage] = Completed(Replay(o), "waiting")] OBVIOUS
<1>5. n.freshContinuations = [o.freshContinuations EXCEPT ![o.stage] = CurFresh(o)] OBVIOUS
<1>6. Stayed(o, n, o.status) BY DEF Stayed
<1>7. SameRest(o, n) BY DEF SameRest, SameGrants
<1> QED BY <1>1, <1>2, <1>3, <1>4, <1>5, <1>6, <1>7 DEF Updates

\* Rows that differ in their read claims only.
ReadsOnly(o, n) ==
  /\ n \in Operation
  /\ n.stage = o.stage /\ n.status = o.status /\ n.attempts = o.attempts
  /\ n.observations = o.observations /\ n.replayClaims = o.replayClaims
  /\ n.freshContinuations = o.freshContinuations
  /\ n.resumeAuthorization = o.resumeAuthorization
  /\ n.authorizationConsumed = o.authorizationConsumed
  /\ n.consumedAuthorizations = o.consumedAuthorizations
  /\ n.runtimeRepair = o.runtimeRepair

LEMMA SetReadOnly ==
  ASSUME NEW o \in Operation, o.stage \in StageIdx,
         NEW s \in {"none", "claimed", "pending", "ready", "failed", "expired"}
  PROVE  ReadsOnly(o, SetRead(o, s))
<1>1. SetRead(o, s) \in Operation BY SetReadKeeps DEF Keeps
<1> QED BY <1>1 DEF ReadsOnly, SetRead, Operation

LEMMA ExpireReadOnly ==
  ASSUME NEW o \in Operation, o.stage \in StageIdx
  PROVE  ReadsOnly(o, ExpireRead(o))
  BY SetReadOnly DEF ReadsOnly, ExpireRead

\* They are updated alike.
LEMMA ReadsOnlyWrites ==
  ASSUME NEW o \in Operation, o.stage \in StageIdx, NEW m, ReadsOnly(o, m), NEW n,
         NEW a, NEW s, NEW c, NEW f
  PROVE  /\ m \in Operation /\ m.stage \in StageIdx
         /\ Att(m) = Att(o) /\ Obs(m) = Obs(o) /\ Replay(m) = Replay(o) /\ CurFresh(m) = CurFresh(o)
         /\ Updates(m, n, a, s, c, f) => Updates(o, n, a, s, c, f)
         /\ Stayed(m, n, m.status) => Stayed(o, n, o.status)
         /\ Stayed(m, n, "manual_review") => Stayed(o, n, "manual_review")
         /\ Advanced(m, n) => Advanced(o, n)
         /\ SameRest(m, n) => SameRest(o, n)
  BY DEF ReadsOnly, Att, Obs, Replay, CurFresh, Updates, Stayed, Advanced, SameRest, SameGrants

LEMMA SetReadWrites ==
  ASSUME NEW o \in Operation, o.stage \in StageIdx, NEW a \in Attempt,
         Att(o).attempted = 1 => a.attempted = 1, NEW n, n = SetRead(SetAtt(o, a), "claimed")
  PROVE  /\ Updates(o, n, a, Obs(o), Replay(o), CurFresh(o))
         /\ Stayed(o, n, o.status) /\ SameRest(o, n)
<1>1. SetAtt(o, a) \in Operation /\ SetAtt(o, a).stage = o.stage BY SetAttKeeps DEF Keeps
<1>2. ReadsOnly(SetAtt(o, a), n) BY <1>1, SetReadOnly
<1>3. n \in Operation BY <1>2 DEF ReadsOnly
<1> USE <1>2 DEF ReadsOnly, SetAtt, Obs, Replay, CurFresh, Operation
<1>4. n.attempts = [o.attempts EXCEPT ![o.stage] = a] OBVIOUS
<1>5. n.observations = [o.observations EXCEPT ![o.stage] = Obs(o)] OBVIOUS
<1>6. n.replayClaims = [o.replayClaims EXCEPT ![o.stage] = Replay(o)] OBVIOUS
<1>7. n.freshContinuations = [o.freshContinuations EXCEPT ![o.stage] = CurFresh(o)] OBVIOUS
<1>8. Stayed(o, n, o.status) BY DEF Stayed
<1>9. SameRest(o, n) BY DEF SameRest, SameGrants
<1> QED BY <1>3, <1>4, <1>5, <1>6, <1>7, <1>8, <1>9 DEF Updates

LEMMA ResetWrites ==
  ASSUME NEW o \in Operation, o.stage \in StageIdx, NEW n, n = ResetStage(o)
  PROVE  /\ Updates(o, n, [Att(o) EXCEPT !.attempted = 0, !.status = "", !.pendingReadbacks = 0],
                    Obs(o), Replay(o), "none")
         /\ Stayed(o, n, "pending") /\ SameRest(o, n)
<1>1. n \in Operation BY ResetStageType
<1> USE DEF ResetStage, Att, Obs, Replay, Operation
<1>2. n.attempts = [o.attempts EXCEPT ![o.stage] =
                      [Att(o) EXCEPT !.attempted = 0, !.status = "", !.pendingReadbacks = 0]] OBVIOUS
<1>3. n.observations = [o.observations EXCEPT ![o.stage] = Obs(o)] OBVIOUS
<1>4. n.replayClaims = [o.replayClaims EXCEPT ![o.stage] = Replay(o)] OBVIOUS
<1>5. n.freshContinuations = [o.freshContinuations EXCEPT ![o.stage] = "none"] OBVIOUS
<1>6. Stayed(o, n, "pending") BY DEF Stayed
<1>7. SameRest(o, n) BY DEF SameRest, SameGrants
<1> QED BY <1>1, <1>2, <1>3, <1>4, <1>5, <1>6, <1>7 DEF Updates

LEMMA StatusWrites ==
  ASSUME NEW o \in Operation, o.stage \in StageIdx, NEW t \in {"pending", "manual_review"},
         NEW n, n = [o EXCEPT !.status = t]
  PROVE  /\ Updates(o, n, Att(o), Obs(o), Replay(o), CurFresh(o))
         /\ Stayed(o, n, t) /\ SameRest(o, n)
<1>1. n \in Operation BY SetStatusKeeps DEF Keeps
<1> USE DEF Att, Obs, Replay, CurFresh, Operation
<1>2. n.attempts = [o.attempts EXCEPT ![o.stage] = Att(o)] OBVIOUS
<1>3. n.observations = [o.observations EXCEPT ![o.stage] = Obs(o)] OBVIOUS
<1>4. n.replayClaims = [o.replayClaims EXCEPT ![o.stage] = Replay(o)] OBVIOUS
<1>5. n.freshContinuations = [o.freshContinuations EXCEPT ![o.stage] = CurFresh(o)] OBVIOUS
<1>6. Stayed(o, n, t) /\ SameRest(o, n) BY DEF Stayed, SameRest, SameGrants
<1> QED BY <1>1, <1>2, <1>3, <1>4, <1>5, <1>6 DEF Updates

LEMMA RotateWrites ==
  ASSUME NEW o \in Operation, o.stage \in StageIdx, NEW g \in Grant,
         NEW n, n = [rotateResumeAuthorization(o, g) EXCEPT !.status = "pending"]
  PROVE  /\ Updates(o, n, Att(o), Obs(o), Replay(o), CurFresh(o))
         /\ Stayed(o, n, "pending") /\ Rotated(o, n, g) /\ ~n.authorizationConsumed
<1>0. rotateResumeAuthorization(o, g) \in Operation BY RotateKeeps DEF Keeps
<1>1. n \in Operation BY <1>0, SetStatusKeeps DEF Keeps
<1> USE DEF rotateResumeAuthorization, Att, Obs, Replay, CurFresh, Operation
<1>2. n.attempts = [o.attempts EXCEPT ![o.stage] = Att(o)] OBVIOUS
<1>3. n.observations = [o.observations EXCEPT ![o.stage] = Obs(o)] OBVIOUS
<1>4. n.replayClaims = [o.replayClaims EXCEPT ![o.stage] = Replay(o)] OBVIOUS
<1>5. n.freshContinuations = [o.freshContinuations EXCEPT ![o.stage] = CurFresh(o)] OBVIOUS
<1>6. Stayed(o, n, "pending") /\ ~n.authorizationConsumed BY DEF Stayed
<1>7. Rotated(o, n, g) BY DEF Rotated
<1> QED BY <1>1, <1>2, <1>3, <1>4, <1>5, <1>6, <1>7 DEF Updates

LEMMA AuthorizeWrites ==
  ASSUME NEW o \in Operation, o.stage \in StageIdx, NEW g \in Grant, NEW s \in NotReady,
         NEW n, n = SetObs(Authorize(o, g), s)
  PROVE  /\ Updates(o, n, [Att(o) EXCEPT !.maxPendingReadbacks = Att(o).pendingReadbacks + g.reads],
                    s, Replay(o), CurFresh(o))
         /\ Stayed(o, n, "pending") /\ ~n.authorizationConsumed
         /\ Rotated(o, n, [g EXCEPT !.readbacks = Att(o).pendingReadbacks])
<1>0. Authorize(o, g) \in Operation /\ Authorize(o, g).stage = o.stage BY AuthorizeKeeps DEF Keeps
<1>1. n \in Operation BY <1>0, SetObsStays, StaysType
<1> USE DEF Authorize, rotateResumeAuthorization, SetObs, SetAtt, Replay, CurFresh, HasGrant, Operation
<1>2. n.attempts = [o.attempts EXCEPT ![o.stage] =
        [Att(o) EXCEPT !.maxPendingReadbacks = Att(o).pendingReadbacks + g.reads]] OBVIOUS
<1>3. n.observations = [o.observations EXCEPT ![o.stage] = s] OBVIOUS
<1>4. n.replayClaims = [o.replayClaims EXCEPT ![o.stage] = Replay(o)] OBVIOUS
<1>5. n.freshContinuations = [o.freshContinuations EXCEPT ![o.stage] = CurFresh(o)] OBVIOUS
<1>6. Stayed(o, n, "pending") /\ ~n.authorizationConsumed BY DEF Stayed
<1>7. Rotated(o, n, [g EXCEPT !.readbacks = Att(o).pendingReadbacks]) BY DEF Rotated
<1> QED BY <1>1, <1>2, <1>3, <1>4, <1>5, <1>6, <1>7 DEF Updates

LEMMA SetObsWrites ==
  ASSUME NEW o \in Operation, o.stage \in StageIdx, NEW s \in NotReady, NEW n, n = SetObs(o, s)
  PROVE  /\ Updates(o, n, Att(o), s, Replay(o), CurFresh(o))
         /\ Stayed(o, n, o.status) /\ SameRest(o, n)
         /\ n.authorizationConsumed = o.authorizationConsumed
<1>1. n \in Operation BY SetObsStays, StaysType
<1> USE DEF SetObs, Att, Replay, CurFresh, Operation
<1>2. n.attempts = [o.attempts EXCEPT ![o.stage] = Att(o)] OBVIOUS
<1>3. n.observations = [o.observations EXCEPT ![o.stage] = s] OBVIOUS
<1>4. n.replayClaims = [o.replayClaims EXCEPT ![o.stage] = Replay(o)] OBVIOUS
<1>5. n.freshContinuations = [o.freshContinuations EXCEPT ![o.stage] = CurFresh(o)] OBVIOUS
<1>6. Stayed(o, n, o.status) /\ SameRest(o, n) /\ n.authorizationConsumed = o.authorizationConsumed
  BY DEF Stayed, SameRest, SameGrants
<1> QED BY <1>1, <1>2, <1>3, <1>4, <1>5, <1>6 DEF Updates

\* The operator's read finds the owner ready.
LEMMA RecoveredWrites ==
  ASSUME NEW o \in Operation, o.stage \in StageIdx, NEW g \in Grant, NEW n,
         n = advance(consumeResumeAuthorization(SetObs(SetAtt(rotateResumeAuthorization(o, g),
                       Confirmed(Att(o))), "ready")))
  PROVE  /\ Updates(o, n, Confirmed(Att(o)), "ready", Replay(o), CurFresh(o))
         /\ Advanced(o, n) /\ Rotated(o, n, g)
<1>0. Keeps(o, rotateResumeAuthorization(o, g)) /\ rotateResumeAuthorization(o, g).attempts = o.attempts
  BY RotateKeeps
<1>0a. Att(rotateResumeAuthorization(o, g)) = Att(o) BY <1>0 DEF Att, Keeps
<1>0b. Confirmed(Att(o)) \in Attempt /\ Confirmed(Att(o)).attempted = Att(o).attempted BY AttType
<1>1. n \in Operation BY <1>0, <1>0a, <1>0b, RecoveredConfirms, ConfirmsType
<1> USE DEF advance, consumeResumeAuthorization, rotateResumeAuthorization, SetObs, SetAtt, Replay,
            CurFresh, HasGrant, Operation
<1>2. n.attempts = [o.attempts EXCEPT ![o.stage] = Confirmed(Att(o))] OBVIOUS
<1>3. n.observations = [o.observations EXCEPT ![o.stage] = "ready"] OBVIOUS
<1>4. n.replayClaims = [o.replayClaims EXCEPT ![o.stage] = Replay(o)] OBVIOUS
<1>5. n.freshContinuations = [o.freshContinuations EXCEPT ![o.stage] = CurFresh(o)] OBVIOUS
<1>6. Advanced(o, n) BY DEF Advanced
<1>7. Rotated(o, n, g) BY DEF Rotated
<1> QED BY <1>1, <1>2, <1>3, <1>4, <1>5, <1>6, <1>7 DEF Updates

LEMMA RecoverRuntimeWrites ==
  ASSUME NEW o \in Operation, o.stage \in StageIdx, NEW g \in Grant, NEW n,
         n = recoverUnknownRuntimeStage(o, g)
  PROVE  /\ Updates(o, n, Confirmed(Att(o)), "ready", Replay(o),
                    IF CurFresh(o) = "failed" THEN "consumed" ELSE CurFresh(o))
         /\ Advanced(o, n) /\ Rotated(o, n, g)
<1>1. PICK m : m = IF o.freshContinuations[o.stage] = "failed"
                   THEN [o EXCEPT !.freshContinuations[o.stage] = "consumed"] ELSE o
  OBVIOUS
<1>2. Keeps(o, m)
  <2>1. Keeps(o, o) BY DEF Keeps, AttemptsKept
  <2> QED BY <1>1, <2>1, SetFreshKeeps
<1>3. m \in Operation /\ m.stage = o.stage BY <1>2 DEF Keeps
<1>4. /\ m.attempts = o.attempts /\ m.observations = o.observations /\ m.replayClaims = o.replayClaims
      /\ m.resumeAuthorization = o.resumeAuthorization /\ m.runtimeRepair = o.runtimeRepair
      /\ m.consumedAuthorizations = o.consumedAuthorizations
  BY <1>1 DEF Operation
<1>5. m.freshContinuations = [o.freshContinuations EXCEPT ![o.stage] =
                                IF CurFresh(o) = "failed" THEN "consumed" ELSE CurFresh(o)]
  BY <1>1 DEF Operation, CurFresh
<1>6. Att(m) = Att(o) /\ Replay(m) = Replay(o) BY <1>3, <1>4 DEF Att, Replay
<1>7. /\ Updates(m, n, Confirmed(Att(m)), "ready", Replay(m), CurFresh(m))
      /\ Advanced(m, n) /\ Rotated(m, n, g)
  BY <1>1, <1>3, <1>6, RecoveredWrites DEF recoverUnknownRuntimeStage
<1>8. [m.freshContinuations EXCEPT ![o.stage] = CurFresh(m)] = m.freshContinuations
  BY <1>3 DEF Operation, CurFresh
<1> QED BY <1>3, <1>4, <1>5, <1>6, <1>7, <1>8 DEF Updates, Advanced, Rotated, HasGrant

LEMMA RecoverComputeWrites ==
  ASSUME NEW o \in Operation, o.stage \in StageIdx, NEW g \in Grant, NEW s \in NotReady, NEW n,
         n = recoverUnknownComputeStage(o, g, s)
  PROVE  \E a \in Attempt :
           /\ a.attempted = Att(o).attempted /\ a.status = "reserved"
           /\ a.pendingReadbacks = Att(o).pendingReadbacks
           /\ a.maxPendingReadbacks = Att(o).pendingReadbacks + g.reads
           /\ Updates(o, n, a, s, IF FailedComputeReplayReauthorizationEligible(o) THEN NoReplay
                                                                               ELSE Replay(o), CurFresh(o))
           /\ Stayed(o, n, "pending") /\ ~n.authorizationConsumed
           /\ Rotated(o, n, [g EXCEPT !.readbacks = Att(o).pendingReadbacks])
<1>1. PICK m, b, z : /\ m = IF FailedComputeReplayReauthorizationEligible(o)
                            THEN [o EXCEPT !.replayClaims[o.stage] = NoReplay] ELSE o
                     /\ b = [Att(o) EXCEPT !.status = "reserved", !.deadline = PendingDeadline(o.stage)]
                     /\ z = SetAtt(m, b)
  OBVIOUS
<1>2. Keeps(o, m) /\ m.attempts = o.attempts
  <2>1. NoReplay \in ReplayClaim BY DEF NoReplay, ReplayClaim, Clock
  <2>2. Keeps(o, o) BY DEF Keeps, AttemptsKept
  <2> QED BY <1>1, <2>1, <2>2, SetReplayKeeps
<1>3. m \in Operation /\ m.stage = o.stage /\ Att(m) = Att(o) BY <1>2 DEF Keeps, Att
<1>4. Att(o) \in Attempt /\ PendingDeadline(o.stage) \in Clock BY AttType, BudgetType
<1>5. b \in Attempt BY <1>1, <1>4, AttemptWrites, BudgetAssumption
<1>6. /\ b.attempted = Att(o).attempted /\ b.status = "reserved"
      /\ b.pendingReadbacks = Att(o).pendingReadbacks
  BY <1>1, <1>4 DEF Attempt
<1>7. Keeps(m, z) BY <1>1, <1>3, <1>5, <1>6, SetAttKeeps
<1>8. z \in Operation /\ z.stage = o.stage BY <1>3, <1>7 DEF Keeps
<1>9. /\ m.observations = o.observations /\ m.freshContinuations = o.freshContinuations
      /\ m.resumeAuthorization = o.resumeAuthorization /\ m.runtimeRepair = o.runtimeRepair
      /\ m.consumedAuthorizations = o.consumedAuthorizations
  BY <1>1 DEF Operation
<1>10. m.replayClaims = [o.replayClaims EXCEPT ![o.stage] =
           IF FailedComputeReplayReauthorizationEligible(o) THEN NoReplay ELSE Replay(o)]
  BY <1>1 DEF Operation, Replay
<1>11. /\ z.attempts = [o.attempts EXCEPT ![o.stage] = b]
       /\ z.observations = m.observations /\ z.freshContinuations = m.freshContinuations
       /\ z.resumeAuthorization = m.resumeAuthorization /\ z.runtimeRepair = m.runtimeRepair
       /\ z.consumedAuthorizations = m.consumedAuthorizations /\ z.replayClaims = m.replayClaims
  BY <1>1, <1>2, <1>3 DEF SetAtt, Operation
<1>12. Att(z) = b BY <1>8, <1>11 DEF Att, Operation
<1>13. PICK a : a = [b EXCEPT !.maxPendingReadbacks = b.pendingReadbacks + g.reads] OBVIOUS
<1>14. /\ Updates(z, n, a, s, Replay(z), CurFresh(z))
       /\ Stayed(z, n, "pending") /\ ~n.authorizationConsumed
       /\ Rotated(z, n, [g EXCEPT !.readbacks = b.pendingReadbacks])
  BY <1>1, <1>8, <1>12, <1>13, AuthorizeWrites DEF recoverUnknownComputeStage
<1>15. [z.replayClaims EXCEPT ![o.stage] = Replay(z)] = z.replayClaims BY <1>8 DEF Operation, Replay
<1>16. [z.freshContinuations EXCEPT ![o.stage] = CurFresh(z)]
          = [o.freshContinuations EXCEPT ![o.stage] = CurFresh(o)]
  BY <1>8, <1>9, <1>11 DEF CurFresh
<1>17. [z.attempts EXCEPT ![o.stage] = a] = [o.attempts EXCEPT ![o.stage] = a] BY <1>11 DEF Operation
<1>18. b.pendingReadbacks + g.reads \in Nat BY <1>5 DEF Attempt, Grant
<1>19. /\ a \in Attempt /\ a.attempted = b.attempted /\ a.status = b.status
       /\ a.pendingReadbacks = b.pendingReadbacks /\ a.maxPendingReadbacks = b.pendingReadbacks + g.reads
  BY <1>5, <1>13, <1>18 DEF Attempt
<1>20. Updates(o, n, a, s, IF FailedComputeReplayReauthorizationEligible(o) THEN NoReplay ELSE Replay(o),
               CurFresh(o))
  BY <1>8, <1>9, <1>10, <1>11, <1>14, <1>15, <1>16, <1>17 DEF Updates
<1>21. Stayed(o, n, "pending") /\ ~n.authorizationConsumed
       /\ Rotated(o, n, [g EXCEPT !.readbacks = Att(o).pendingReadbacks])
  BY <1>6, <1>8, <1>9, <1>11, <1>14 DEF Stayed, Rotated, HasGrant
<1> QED BY <1>6, <1>19, <1>20, <1>21

LEMMA RepairedWrites ==
  ASSUME NEW o \in Operation, o.stage \in StageIdx, NEW n, n = RepairedRow(o)
  PROVE  /\ Updates(o, n, Confirmed(Att(o)), "ready", Replay(o),
                    IF CurFresh(o) = "none" THEN "none" ELSE "consumed")
         /\ n.stage = o.stage + 1 /\ n.status = "pending"
         /\ n.resumeAuthorization = NoGrant /\ n.runtimeRepair
         /\ n.consumedAuthorizations = o.consumedAuthorizations
<1>1. n \in Operation BY RepairedAdvances DEF Advances
<1> USE DEF RepairedRow, Att, Replay, CurFresh, Operation
<1>2. n.attempts = [o.attempts EXCEPT ![o.stage] = Confirmed(Att(o))] OBVIOUS
<1>3. n.observations = [o.observations EXCEPT ![o.stage] = "ready"] OBVIOUS
<1>4. n.replayClaims = [o.replayClaims EXCEPT ![o.stage] = Replay(o)] OBVIOUS
<1>5. n.freshContinuations = [o.freshContinuations EXCEPT ![o.stage] =
         IF CurFresh(o) = "none" THEN "none" ELSE "consumed"] OBVIOUS
<1>6. /\ n.stage = o.stage + 1 /\ n.status = "pending"
      /\ n.resumeAuthorization = NoGrant /\ n.runtimeRepair
      /\ n.consumedAuthorizations = o.consumedAuthorizations
  OBVIOUS
<1> QED BY <1>1, <1>2, <1>3, <1>4, <1>5, <1>6 DEF Updates

-----------------------------------------------------------------------------
(* What such an update preserves, part by part.                            *)

\* A row and its stage, as every handler finds them.
OnStage(o) == o \in Operation /\ o.stage \in StageIdx /\ Decodes(o) /\ Good(o)

LEMMA StageGoodStayed ==
  ASSUME NEW o, OnStage(o), NEW n, NEW a, NEW s, NEW c, NEW f, NEW t,
         Updates(o, n, a, s, c, f), Stayed(o, n, t), s # "ready",
         a.status = "reserved" => a.attempted = 1,
         a.attempted = 0 => s \notin {"pending", "ownership_pending"}
  PROVE  \A i \in StageIdx : StageGood(n, i)
<1> SUFFICES ASSUME NEW i \in StageIdx PROVE StageGood(n, i) OBVIOUS
<1>1. StageGood(o, i) /\ o \in Operation /\ o.stage \in StageIdx BY DEF OnStage, Good
<1>2. /\ n.attempts[i] = IF i = o.stage THEN a ELSE o.attempts[i]
      /\ n.observations[i] = IF i = o.stage THEN s ELSE o.observations[i]
      /\ n.replayClaims[i] = IF i = o.stage THEN c ELSE o.replayClaims[i]
      /\ n.freshContinuations[i] = IF i = o.stage THEN f ELSE o.freshContinuations[i]
  BY <1>1, UpdatesAt
<1>2a. o.stage \in Nat BY <1>1, StageIdxType
<1>3. n.stage = o.stage /\ ~(o.stage > o.stage) BY <1>2a DEF Stayed
<1>4. CASE i = o.stage BY <1>2, <1>3, <1>4 DEF StageGood
<1>5. CASE i # o.stage BY <1>1, <1>2, <1>3, <1>5 DEF StageGood, Untouched
<1> QED BY <1>4, <1>5

LEMMA StageGoodAdvanced ==
  ASSUME NEW o, OnStage(o), NEW n, NEW a, NEW c, NEW f,
         Updates(o, n, a, "ready", c, f), n.stage = o.stage + 1,
         a.status = "reserved" => a.attempted = 1
  PROVE  /\ \A i \in StageIdx : StageGood(n, i)
         /\ n.stage \in StageIdx => Untouched(n, n.stage)
<1>1. o \in Operation /\ o.stage \in StageIdx /\ o.stage \in Nat BY StageIdxType DEF OnStage
<1>2. ASSUME NEW i \in StageIdx
      PROVE  StageGood(n, i) /\ (i > o.stage => Untouched(n, i))
  <2>1. StageGood(o, i) BY DEF OnStage, Good
  <2>2. /\ n.attempts[i] = IF i = o.stage THEN a ELSE o.attempts[i]
        /\ n.observations[i] = IF i = o.stage THEN "ready" ELSE o.observations[i]
        /\ n.replayClaims[i] = IF i = o.stage THEN c ELSE o.replayClaims[i]
        /\ n.freshContinuations[i] = IF i = o.stage THEN f ELSE o.freshContinuations[i]
    BY <1>1, UpdatesAt
  <2>3. i \in Nat /\ (i > n.stage => i > o.stage) /\ (i = n.stage => i > o.stage)
    BY <1>1, StageIdxType
  <2>4. CASE i = o.stage
    <3>1. ~(i > n.stage) /\ i # n.stage /\ ~(i > o.stage) BY <1>1, <2>3, <2>4
    <3> QED BY <2>2, <2>4, <3>1 DEF StageGood
  <2>5. CASE i # o.stage BY <2>1, <2>2, <2>3, <2>5 DEF StageGood, Untouched
  <2> QED BY <2>4, <2>5
<1>3. n.stage > o.stage BY <1>1
<1> QED BY <1>2, <1>3

LEMMA ReplayGoodWrites ==
  ASSUME NEW o, OnStage(o), NEW n, NEW a, NEW s, NEW c, NEW f, NEW h,
         Updates(o, n, a, s, c, f), Grants(n) \subseteq Grants(o) \cup {h},
         h.replay = 1 => /\ h.stage = o.stage
                         /\ Lasting(o.stage) => a.attempted # 0 /\ f = "none"
                         /\ Stages[o.stage] = Compute =>
                              \A g, k \in Grants(o) : ReplayGrant(g, o.stage) /\ ReplayGrant(k, o.stage) => g.id = k.id,
         Lasting(o.stage) /\ a.attempted = 0 => c.status = "none" /\ NoReplayGrant(o, o.stage),
         Lasting(o.stage) /\ f # "none" => NoReplayGrant(o, o.stage)
  PROVE  \A i \in StageIdx : ReplayGood(n, i)
<1> SUFFICES ASSUME NEW i \in StageIdx PROVE ReplayGood(n, i) OBVIOUS
<1>1. ReplayGood(o, i) /\ o \in Operation /\ o.stage \in StageIdx BY DEF OnStage, Good
<1>2. /\ n.attempts[i] = IF i = o.stage THEN a ELSE o.attempts[i]
      /\ n.replayClaims[i] = IF i = o.stage THEN c ELSE o.replayClaims[i]
      /\ n.freshContinuations[i] = IF i = o.stage THEN f ELSE o.freshContinuations[i]
  BY <1>1, UpdatesAt
<1>3. ASSUME NEW g \in Grants(n), ReplayGrant(g, i)
      PROVE  g \in Grants(o) \/ (g = h /\ i = o.stage /\ h.replay = 1)
  BY <1>3 DEF ReplayGrant
<1>4. Lasting(i) /\ n.attempts[i].attempted = 0 =>
        n.replayClaims[i].status = "none" /\ NoReplayGrant(n, i)
  BY <1>1, <1>2, <1>3 DEF ReplayGood, NoReplayGrant
<1>5. Lasting(i) /\ n.freshContinuations[i] # "none" => NoReplayGrant(n, i)
  BY <1>1, <1>2, <1>3 DEF ReplayGood, NoReplayGrant
<1>6. ASSUME Stages[i] = Compute, NEW x \in Grants(n), NEW y \in Grants(n), NEW z \in Grants(n),
             ReplayGrant(x, i), ReplayGrant(y, i), ReplayGrant(z, i)
      PROVE  x.id = y.id \/ y.id = z.id \/ x.id = z.id
  <2>1. CASE x \in Grants(o) /\ y \in Grants(o) /\ z \in Grants(o)
    BY <1>1, <1>6, <2>1 DEF ReplayGood
  <2>2. CASE ~(x \in Grants(o) /\ y \in Grants(o) /\ z \in Grants(o))
    <3>1. i = o.stage /\ h.replay = 1 BY <1>3, <1>6, <2>2
    <3>2. \A g, k \in Grants(o) : ReplayGrant(g, i) /\ ReplayGrant(k, i) => g.id = k.id
      BY <1>6, <3>1
    <3> QED BY <1>3, <1>6, <3>2
  <2> QED BY <2>1, <2>2
<1> QED BY <1>4, <1>5, <1>6 DEF ReplayGood

LEMMA NoGrantReplays == NoGrant.replay # 1 /\ NoGrant.id = 0 /\ NoGrant.stage = 0 /\ NoGrant \in Grant
  BY DEF NoGrant, Grant

\* The authorizations of the row stay the same.
LEMMA ReplayGoodSame ==
  ASSUME NEW o, OnStage(o), NEW n, NEW a, NEW s, NEW c, NEW f,
         Updates(o, n, a, s, c, f), SameRest(o, n),
         Lasting(o.stage) /\ a.attempted = 0 => c.status = "none" /\ NoReplayGrant(o, o.stage),
         Lasting(o.stage) /\ f # "none" => NoReplayGrant(o, o.stage)
  PROVE  \A i \in StageIdx : ReplayGood(n, i)
<1>1. Grants(n) \subseteq Grants(o) \cup {NoGrant} BY DEF SameRest, SameGrants, Grants
<1> QED BY <1>1, NoGrantReplays, ReplayGoodWrites

\* The open authorization, in a launch with resource billing.
LEMMA GrantGoodStayed ==
  ASSUME NEW o, OnStage(o), NEW n, NEW a, NEW s, NEW c, NEW f, NEW t,
         Updates(o, n, a, s, c, f), Stayed(o, n, t), SameRest(o, n), ResourceBilling,
         GrantActive(n) => a.pendingReadbacks >= Att(o).pendingReadbacks, a \in Attempt
  PROVE  GrantGood(n)
<1>1. o \in Operation /\ o.stage \in StageIdx /\ GrantGood(o) BY DEF OnStage, Good
<1>2. Att(n) = a /\ n.stage = o.stage BY <1>1, UpdatesAt DEF Stayed, Att
<1>3. n.resumeAuthorization = o.resumeAuthorization /\ (GrantActive(n) => GrantActive(o))
  <2>1. o.authorizationConsumed \in BOOLEAN /\ n.authorizationConsumed \in BOOLEAN
    BY <1>1 DEF Updates, Operation
  <2> QED BY <2>1 DEF SameRest, SameGrants, GrantActive, HasGrant
<1>4. o.resumeAuthorization.readbacks \in Nat BY <1>1 DEF Operation, Grant
<1>5. Att(o).pendingReadbacks \in Nat /\ a.pendingReadbacks \in Nat BY <1>1, AttType DEF Attempt
<1>6. GrantActive(n) /\ o.resumeAuthorization.readbacks <= Att(o).pendingReadbacks =>
         o.resumeAuthorization.readbacks <= a.pendingReadbacks
  BY <1>4, <1>5
<1> QED BY <1>1, <1>2, <1>3, <1>6 DEF GrantGood

LEMMA GrantGoodAdvanced ==
  ASSUME NEW o, OnStage(o), NEW n, NEW a, NEW s, NEW c, NEW f,
         Updates(o, n, a, s, c, f), n.stage = o.stage + 1,
         n.resumeAuthorization.stage <= o.stage
  PROVE  GrantGood(n)
<1>1. o.stage \in Nat BY StageIdxType DEF OnStage
<1>2. n.resumeAuthorization.stage \in Nat BY DEF Updates, Operation, Grant
<1>3. n.resumeAuthorization.stage <= n.stage /\ n.resumeAuthorization.stage # n.stage BY <1>1, <1>2
<1> QED BY <1>3 DEF GrantGood

LEMMA GrantGoodRotated ==
  ASSUME NEW o, OnStage(o), NEW n, NEW a, NEW s, NEW c, NEW f, NEW t, NEW g,
         Updates(o, n, a, s, c, f), Stayed(o, n, t), Rotated(o, n, g), g.stage = o.stage,
         g.mutation = 0 => g.readbacks <= a.pendingReadbacks
  PROVE  GrantGood(n)
<1>1. o \in Operation /\ o.stage \in StageIdx /\ o.stage \in Nat BY StageIdxType DEF OnStage
<1>2. Att(n) = a /\ n.stage = o.stage BY <1>1, UpdatesAt DEF Stayed, Att
<1>3. o.stage <= o.stage BY <1>1
<1> QED BY <1>2, <1>3 DEF GrantGood, Rotated

\* A stage that nothing has happened to may be read.
LEMMA RowAuthorizedUntouched ==
  ASSUME NEW n, n.stage \in StageIdx => Untouched(n, n.stage)
  PROVE  RowAuthorized(n)
  BY DEF RowAuthorized, Untouched, ReadAllowed, Att

LEMMA RowAuthorizedStayed ==
  ASSUME NEW o, OnStage(o), NEW n, NEW a, NEW s, NEW c, NEW f, NEW t,
         Updates(o, n, a, s, c, f), Stayed(o, n, t),
         t = "pending" => \/ f = "active" \/ a.status # "reserved" \/ s # "pending"
                          \/ ContinuationReadAuthorized(n)
  PROVE  RowAuthorized(n)
<1>1. o \in Operation /\ o.stage \in StageIdx BY DEF OnStage
<1>2. Att(n) = a /\ Obs(n) = s /\ n.freshContinuations[n.stage] = f /\ n.status = t
  BY <1>1, UpdatesAt DEF Stayed, Att, Obs
<1> QED BY <1>2 DEF RowAuthorized, FreshActive, ReadAllowed

-----------------------------------------------------------------------------
(* And of the relation Write.                                              *)

LEMMA WriteStageStayed ==
  ASSUME NEW o, OnStage(o), NEW n, NEW a, NEW s, NEW c, NEW f, NEW t \in {"pending", "manual_review"},
         Updates(o, n, a, s, c, f), Stayed(o, n, t)
  PROVE  WriteStage(o, n)
<1>1. o \in Operation /\ o.stage \in StageIdx BY DEF OnStage
<1>2. \A i \in StageIdx : i # o.stage => n.attempts[i] = o.attempts[i] /\ n.observations[i] = o.observations[i]
  BY <1>1, UpdatesAt
<1> QED BY <1>1, <1>2 DEF WriteStage, Stayed

LEMMA WriteStageAdvanced ==
  ASSUME NEW o, OnStage(o), NEW n, NEW a, NEW c, NEW f,
         Updates(o, n, a, "ready", c, f), Advanced(o, n)
  PROVE  WriteStage(o, n)
<1>1. o \in Operation /\ o.stage \in StageIdx BY DEF OnStage
<1>2. /\ \A i \in StageIdx : i # o.stage => n.attempts[i] = o.attempts[i] /\ n.observations[i] = o.observations[i]
      /\ n.observations[o.stage] = "ready"
  BY <1>1, UpdatesAt
<1> QED BY <1>1, <1>2 DEF WriteStage, Advanced

LEMMA WriteReplaysUpdates ==
  ASSUME NEW o, OnStage(o), NEW n, NEW a, NEW s, NEW c, NEW f,
         Updates(o, n, a, s, c, f),
         o.consumedAuthorizations \subseteq n.consumedAuthorizations,
         Replay(o).status # "none" => c.status # "none" /\ c.authorization = Replay(o).authorization
  PROVE  WriteReplays(o, n)
<1>1. o \in Operation /\ o.stage \in StageIdx BY DEF OnStage
<1> SUFFICES ASSUME NEW i \in StageIdx, NEW b \in Nat, Tracked(o, i, b) PROVE Tracked(n, i, b)
  BY DEF WriteReplays
<1>2. n.replayClaims[i] = IF i = o.stage THEN c ELSE o.replayClaims[i] BY <1>1, UpdatesAt
<1> QED BY <1>2 DEF Tracked, Replay

LEMMA CompletedKeeps ==
  ASSUME NEW c \in ReplayClaim, NEW s \in {"waiting", "succeeded", "failed"}
  PROVE  /\ c.status # "none" <=> Completed(c, s).status # "none"
         /\ Completed(c, s).authorization = c.authorization
         /\ Completed(c, s) \in ReplayClaim
  BY DEF ReplayClaim, Completed, Clock

LEMMA ReplayType ==
  ASSUME NEW o \in Operation, o.stage \in StageIdx
  PROVE  Replay(o) \in ReplayClaim
  BY DEF Operation, Replay

LEMMA WriteBilled ==
  ASSUME NEW o, OnStage(o), NEW n, NEW a, NEW s, NEW c, NEW f,
         Updates(o, n, a, s, c, f), a \in Attempt,
         a.attempted = Att(o).attempted
           \/ (a.attempted = 1 /\ o.status = "pending" /\ n.status = "pending" /\ n.stage = o.stage),
         CurFresh(o) # "none" => f # "none" /\ a.pendingReadbacks >= Att(o).pendingReadbacks
  PROVE  WriteAttempt(o, n) /\ WriteReads(o, n)
<1>1. o \in Operation /\ o.stage \in StageIdx BY DEF OnStage
<1>2. \A i \in StageIdx : /\ n.attempts[i] = IF i = o.stage THEN a ELSE o.attempts[i]
                          /\ n.freshContinuations[i] = IF i = o.stage THEN f ELSE o.freshContinuations[i]
  BY <1>1, UpdatesAt
<1>3. WriteAttempt(o, n) BY <1>1, <1>2 DEF WriteAttempt, Att
<1>4. ASSUME NEW i \in StageIdx, o.freshContinuations[i] # "none"
      PROVE  n.freshContinuations[i] # "none" /\ n.attempts[i].pendingReadbacks >= o.attempts[i].pendingReadbacks
  <2>1. o.attempts[i].pendingReadbacks \in Nat BY <1>1 DEF Operation, Attempt
  <2>2. CASE i = o.stage BY <1>2, <1>4, <2>2 DEF CurFresh, Att
  <2>3. CASE i # o.stage
    <3>1. o.attempts[i].pendingReadbacks >= o.attempts[i].pendingReadbacks BY <2>1
    <3> QED BY <1>2, <1>4, <2>3, <3>1
  <2> QED BY <2>2, <2>3
<1> QED BY <1>3, <1>4 DEF WriteReads

-----------------------------------------------------------------------------
(* The three kinds of write: at the same stage under the authorizations    *)
(* there are, at the same stage under a new one, and past the stage.       *)

LEMMA StayedGood ==
  ASSUME NEW o, OnStage(o), NEW n, NEW a \in Attempt, NEW s, NEW c, NEW f,
         NEW t \in {"pending", "manual_review"},
         Updates(o, n, a, s, c, f), Stayed(o, n, t), SameRest(o, n), s # "ready",
         o.status = "pending" \/ t = "manual_review" \/ ~ResourceBilling,
         a.status = "reserved" => a.attempted = 1,
         a.attempted = 0 => s \notin {"pending", "ownership_pending"},
         Replay(o).status # "none" => c.status # "none" /\ c.authorization = Replay(o).authorization,
         Lasting(o.stage) =>
           \/ a.attempted = 1 /\ o.status = "pending" /\ t = "pending"
           \/ a.attempted = Att(o).attempted
                /\ (Replay(o).status = "none" /\ a.attempted = 0 => c.status = "none"),
         Lasting(o.stage) /\ f # "none" => CurFresh(o) # "none" \/ NoReplayGrant(o, o.stage),
         ResourceBilling =>
           /\ GrantActive(n) \/ CurFresh(o) # "none" => a.pendingReadbacks >= Att(o).pendingReadbacks
           /\ CurFresh(o) # "none" => f # "none"
           /\ t = "pending" => \/ f = "active" \/ a.status # "reserved" \/ s # "pending"
                               \/ ContinuationReadAuthorized(n)
  PROVE  Write(o, n) /\ Good(n)
<1>1. o \in Operation /\ o.stage \in StageIdx /\ ReplayGood(o, o.stage) BY DEF OnStage, Good
<1>2. \A i \in StageIdx : StageGood(n, i) BY StageGoodStayed
<1>3. Lasting(o.stage) /\ a.attempted = 0 => c.status = "none" /\ NoReplayGrant(o, o.stage)
  BY <1>1 DEF ReplayGood, Att, Replay
<1>4. Lasting(o.stage) /\ f # "none" => NoReplayGrant(o, o.stage) BY <1>1 DEF ReplayGood, CurFresh
<1>5. \A i \in StageIdx : ReplayGood(n, i) BY <1>3, <1>4, ReplayGoodSame
<1>6. ResourceBilling => GrantGood(n) BY GrantGoodStayed
<1>7. ResourceBilling => RowAuthorized(n) BY RowAuthorizedStayed
<1>8. Good(n) BY <1>2, <1>5, <1>6, <1>7 DEF Good
<1>9. WriteStage(o, n) BY WriteStageStayed
<1>10. WriteGrants(o, n) BY DEF WriteGrants, SameRest, Stayed
<1>11. WriteReplays(o, n) BY WriteReplaysUpdates DEF SameRest, SameGrants
<1>12. ResourceBilling => WriteAttempt(o, n) /\ WriteReads(o, n)
  <2>1. ResourceBilling => a.attempted = Att(o).attempted
           \/ (a.attempted = 1 /\ o.status = "pending" /\ n.status = "pending" /\ n.stage = o.stage)
    BY DEF Lasting, Stayed
  <2> QED BY <2>1, WriteBilled
<1> QED BY <1>8, <1>9, <1>10, <1>11, <1>12 DEF Write

\* A new authorization, for the stage the row is at.
NewFor(o, g) ==
  /\ g \in Grant /\ g.id \notin GrantIds(o) /\ g.stage = o.stage
  /\ g.replay = 1 =>
       /\ Lasting(o.stage) => Att(o).attempted = 1 /\ CurFresh(o) = "none"
       /\ Stages[o.stage] = Compute =>
            \A h, k \in Grants(o) : ReplayGrant(h, o.stage) /\ ReplayGrant(k, o.stage) => h.id = k.id

LEMMA RotatedGrants ==
  ASSUME NEW o, NEW n, NEW g, Rotated(o, n, g)
  PROVE  /\ Grants(n) \subseteq Grants(o) \cup {g}
         /\ o.consumedAuthorizations \subseteq n.consumedAuthorizations
         /\ g.id \notin GrantIds(o) => WriteGrants(o, n)
<1>1. Grants(n) \subseteq Grants(o) \cup {g} BY DEF Rotated, Grants
<1>2. o.consumedAuthorizations \subseteq n.consumedAuthorizations BY DEF Rotated
<1>3. g.id \notin GrantIds(o) => NewGrant(o, n) BY DEF Rotated, NewGrant
<1> QED BY <1>1, <1>2, <1>3 DEF WriteGrants

LEMMA RotatedGood ==
  ASSUME NEW o, OnStage(o), NEW n, NEW a \in Attempt, NEW s, NEW c, NEW g,
         Updates(o, n, a, s, c, CurFresh(o)), Stayed(o, n, "pending"), Rotated(o, n, g),
         NewFor(o, g), s # "ready",
         a.status = "reserved" => a.attempted = 1,
         a.attempted = 0 => s \notin {"pending", "ownership_pending"},
         a.attempted = Att(o).attempted, a.pendingReadbacks = Att(o).pendingReadbacks,
         Replay(o).status = "none" => c.status = "none",
         WriteReplays(o, n),
         g.mutation = 0 => g.readbacks <= a.pendingReadbacks,
         ResourceBilling => a.status # "reserved" \/ s # "pending" \/ ContinuationReadAuthorized(n)
  PROVE  Write(o, n) /\ Good(n)
<1>1. o \in Operation /\ o.stage \in StageIdx /\ ReplayGood(o, o.stage) BY DEF OnStage, Good
<1>2. \A i \in StageIdx : StageGood(n, i) BY StageGoodStayed
<1>3. Lasting(o.stage) /\ a.attempted = 0 => c.status = "none" /\ NoReplayGrant(o, o.stage)
  BY <1>1 DEF ReplayGood, Att, Replay
<1>4. Lasting(o.stage) /\ CurFresh(o) # "none" => NoReplayGrant(o, o.stage)
  BY <1>1 DEF ReplayGood, CurFresh
<1>5. \A i \in StageIdx : ReplayGood(n, i) BY <1>3, <1>4, RotatedGrants, ReplayGoodWrites DEF NewFor
<1>6. GrantGood(n) BY GrantGoodRotated DEF NewFor
<1>7. ResourceBilling => RowAuthorized(n) BY RowAuthorizedStayed
<1>8. Good(n) BY <1>2, <1>5, <1>6, <1>7 DEF Good
<1>9. WriteStage(o, n) BY WriteStageStayed
<1>10. WriteGrants(o, n) BY RotatedGrants DEF NewFor
<1>11. a.pendingReadbacks >= Att(o).pendingReadbacks BY DEF Attempt
<1>12. WriteAttempt(o, n) /\ WriteReads(o, n) BY <1>11, WriteBilled
<1> QED BY <1>8, <1>9, <1>10, <1>12 DEF Write

LEMMA AdvancedGood ==
  ASSUME NEW o, OnStage(o), NEW n, NEW a \in Attempt, NEW c, NEW f, NEW h,
         Updates(o, n, a, "ready", c, f), Advanced(o, n),
         WriteGrants(o, n), n.resumeAuthorization.stage <= o.stage \/ ~ResourceBilling,
         Grants(n) \subseteq Grants(o) \cup {h},
         h.replay = 1 => /\ h.stage = o.stage
                         /\ Lasting(o.stage) => a.attempted # 0 /\ f = "none"
                         /\ Stages[o.stage] = Compute =>
                              \A g, k \in Grants(o) : ReplayGrant(g, o.stage) /\ ReplayGrant(k, o.stage) => g.id = k.id,
         o.consumedAuthorizations \subseteq n.consumedAuthorizations,
         a.attempted = Att(o).attempted, a.pendingReadbacks = Att(o).pendingReadbacks,
         a.status = "reserved" => a.attempted = 1,
         CurFresh(o) = "none" <=> f = "none",
         Replay(o).status = "none" <=> c.status = "none", c.authorization = Replay(o).authorization
  PROVE  Write(o, n) /\ Good(n)
<1>1. o \in Operation /\ o.stage \in StageIdx /\ ReplayGood(o, o.stage) BY DEF OnStage, Good
<1>2. n.stage = o.stage + 1 BY DEF Advanced
<1>3. /\ \A i \in StageIdx : StageGood(n, i)
      /\ n.stage \in StageIdx => Untouched(n, n.stage)
  BY <1>2, StageGoodAdvanced
<1>4. Lasting(o.stage) /\ a.attempted = 0 => c.status = "none" /\ NoReplayGrant(o, o.stage)
  BY <1>1 DEF ReplayGood, Att, Replay
<1>5. Lasting(o.stage) /\ f # "none" => NoReplayGrant(o, o.stage)
  BY <1>1 DEF ReplayGood, CurFresh
<1>6. \A i \in StageIdx : ReplayGood(n, i) BY <1>4, <1>5, ReplayGoodWrites
<1>7. ResourceBilling => GrantGood(n) BY <1>2, GrantGoodAdvanced
<1>8. RowAuthorized(n) BY <1>3, RowAuthorizedUntouched
<1>9. Good(n) BY <1>3, <1>6, <1>7, <1>8 DEF Good
<1>10. WriteStage(o, n) BY WriteStageAdvanced
<1>11. WriteReplays(o, n) BY WriteReplaysUpdates
<1>12. a.pendingReadbacks >= Att(o).pendingReadbacks BY DEF Attempt
<1>13. WriteAttempt(o, n) /\ WriteReads(o, n) BY <1>12, WriteBilled
<1> QED BY <1>9, <1>10, <1>11, <1>13 DEF Write

-----------------------------------------------------------------------------
(* Every row a handler is about to write is good, and a Write of its own.  *)

\* What decoding and Good say of the stage a handler works on.
LEMMA StageFacts ==
  ASSUME NEW o, OnStage(o)
  PROVE  /\ o \in Operation /\ o.stage \in StageIdx /\ Att(o) \in Attempt /\ Replay(o) \in ReplayClaim
         /\ Obs(o) # "ready"
         /\ Att(o).status = "reserved" => Att(o).attempted = 1
         /\ Att(o).attempted = 0 => Obs(o) \notin {"pending", "ownership_pending"}
         /\ FreshActive(o) => /\ Att(o).attempted = 1 /\ Att(o).status = "reserved"
                              /\ CurFresh(o) = "active" /\ Obs(o) \in {"pending", "ownership_pending"}
         /\ Att(o).status = "reserved" /\ ~FreshActive(o) => CurFresh(o) = "none"
         /\ CurFresh(o) # "none" => Att(o).attempted = 1
         /\ CurFresh(o) = "failed" => Att(o).status = "unknown"
         /\ Att(o).status = "unknown" => CurFresh(o) \in {"none", "failed"}
         /\ Att(o).status \in {"confirmed", "unknown"} => Att(o).attempted = 1
<1>1. o \in Operation /\ o.stage \in StageIdx BY DEF OnStage
<1>2. Att(o) \in Attempt /\ Replay(o) \in ReplayClaim BY <1>1, AttType, ReplayType
<1>3. StageGood(o, o.stage) BY <1>1 DEF OnStage, Good
<1>4. DecodesFreshContinuation(o, o.stage) /\ DecodesAttempt(o, o.stage) BY <1>1 DEF OnStage, Decodes
<1>5. CurFresh(o) \in {"none", "active", "consumed", "failed"} BY <1>1 DEF Operation, CurFresh
<1> QED BY <1>1, <1>2, <1>3, <1>4, <1>5
        DEF StageGood, DecodesFreshContinuation, DecodesAttempt, Att, Obs, CurFresh, FreshActive

LEMMA ConfirmGood ==
  ASSUME NEW o, OnStage(o), o.status = "pending", NEW n, n = ConfirmStage(o)
  PROVE  Write(o, n) /\ Good(n)
<1>1. PICK a : a = IF Att(o).attempted > 0 THEN Confirmed(Att(o)) ELSE Att(o) OBVIOUS
<1>2. /\ Updates(o, n, a, "ready", Completed(Replay(o), "succeeded"), CurFresh(o))
      /\ Advanced(o, n) /\ SameRest(o, n)
  BY <1>1, ConfirmStageWrites, StageFacts
<1>3. /\ a \in Attempt /\ a.attempted = Att(o).attempted
      /\ a.pendingReadbacks = Att(o).pendingReadbacks
      /\ a.status = "reserved" => a.attempted = 1
  BY <1>1, StageFacts, AttType DEF Confirmed, Attempt
<1>4. Grants(n) \subseteq Grants(o) \cup {NoGrant} BY <1>2 DEF SameRest, SameGrants, Grants
<1>5. WriteGrants(o, n) /\ o.consumedAuthorizations \subseteq n.consumedAuthorizations
  BY <1>2 DEF WriteGrants, SameRest, SameGrants
<1>6. n.resumeAuthorization.stage <= o.stage \/ ~ResourceBilling
  BY <1>2 DEF OnStage, Good, GrantGood, SameRest, SameGrants
<1>7. /\ Replay(o).status = "none" <=> Completed(Replay(o), "succeeded").status = "none"
      /\ Completed(Replay(o), "succeeded").authorization = Replay(o).authorization
  BY StageFacts, CompletedKeeps
<1> QED BY <1>2, <1>3, <1>4, <1>5, <1>6, <1>7, NoGrantReplays, AdvancedGood

LEMMA ParkGood ==
  ASSUME NEW o, OnStage(o), NEW a \in Attempt, a.attempted = Att(o).attempted,
         a.pendingReadbacks >= Att(o).pendingReadbacks, a.status = "reserved" => a.attempted = 1,
         NEW n, n = ParkStage(o, a, "unknown")
  PROVE  Write(o, n) /\ Good(n)
<1>1. /\ Updates(o, n, a, "unknown", Completed(Replay(o), "failed"), CurFresh(o))
      /\ Stayed(o, n, "manual_review") /\ SameRest(o, n)
  BY StageFacts, ParkStageWrites, NotReadyWords
<1>2. /\ Replay(o).status = "none" <=> Completed(Replay(o), "failed").status = "none"
      /\ Completed(Replay(o), "failed").authorization = Replay(o).authorization
  BY StageFacts, CompletedKeeps
<1> QED BY <1>1, <1>2, StayedGood

LEMMA SetAsideGood ==
  ASSUME NEW o, OnStage(o), NEW s \in {"unknown", "absent"}, NEW n, n = SetAside(o, s)
  PROVE  Write(o, n) /\ Good(n)
<1>1. /\ Updates(o, n, Att(o), s, Replay(o), CurFresh(o))
      /\ Stayed(o, n, "manual_review") /\ SameRest(o, n)
  BY StageFacts, SetAsideWrites, NotReadyWords
<1>2. Att(o).pendingReadbacks >= Att(o).pendingReadbacks BY StageFacts DEF Attempt
<1> QED BY <1>1, <1>2, StageFacts, StayedGood

\* One more readback leaves the authorization enough, or the stage is parked.
LEMMA CountGood ==
  ASSUME NEW o, OnStage(o), o.status = "pending", MayKeepReading(o),
         NEW s \in {"pending", "ownership_pending"}, NEW n, n = CountReadback(o, s)
  PROVE  Write(o, n) /\ Good(n)
<1>1. PICK a : a = [Att(o) EXCEPT !.pendingReadbacks = @ + 1] OBVIOUS
<1>2. /\ a \in Attempt /\ a.attempted = 1 /\ a.status = "reserved" /\ Att(o).attempted = 1
      /\ a.pendingReadbacks = Att(o).pendingReadbacks + 1
      /\ a.maxPendingReadbacks = Att(o).maxPendingReadbacks /\ Att(o).pendingReadbacks \in Nat
  BY <1>1, StageFacts DEF Attempt, MayKeepReading
<1>3. a.pendingReadbacks >= Att(o).pendingReadbacks BY <1>2
<1>4. CASE Exhausted(a)
  <2>1. Unknown(a) \in Attempt /\ Unknown(a).attempted = a.attempted
        /\ Unknown(a).pendingReadbacks = a.pendingReadbacks /\ Unknown(a).status = "unknown"
    BY <1>2, UnknownType DEF Attempt, Unknown
  <2>2. n = ParkStage(o, Unknown(a), "unknown") BY <1>1, <1>4 DEF CountReadback
  <2> QED BY <1>2, <1>3, <2>1, <2>2, ParkGood
<1>5. CASE ~Exhausted(a)
  <2>1. n = SetObs(SetAtt(o, a), s) BY <1>1, <1>5 DEF CountReadback
  <2>2. /\ Updates(o, n, a, s, Replay(o), CurFresh(o))
        /\ Stayed(o, n, "pending") /\ SameRest(o, n)
        /\ n.authorizationConsumed = o.authorizationConsumed
    BY <1>2, <2>1, StageFacts, SetAttObsWrites, NotReadyWords
  <2>3. ContinuationReadAuthorized(n)
    <3>1. Att(n) = a /\ n.stage = o.stage BY <2>2, UpdatesAt, StageFacts DEF Att, Stayed
    <3>2. n.resumeAuthorization = o.resumeAuthorization BY <2>2 DEF SameRest, SameGrants
    <3>3. ContinuationReadAuthorized(o) BY DEF MayKeepReading
    <3>4. a.pendingReadbacks < a.maxPendingReadbacks BY <1>2, <1>5 DEF Exhausted, Attempt
    <3>4a. o \in Operation BY StageFacts
    <3>5. o.resumeAuthorization.readbacks \in Nat BY <3>4a DEF Operation, Grant
    <3>6. o.resumeAuthorization.readbacks <= a.pendingReadbacks
      BY <1>2, <3>3, <3>5 DEF ContinuationReadAuthorized
    <3> QED BY <1>2, <2>2, <3>1, <3>2, <3>3, <3>4, <3>6
            DEF ContinuationReadAuthorized, GrantActive, HasGrant
  <2> QED BY <1>2, <1>3, <2>2, <2>3, StageFacts, StayedGood
<1> QED BY <1>4, <1>5

\* A replay is claimed under the authorization there is.
LEMMA ClaimGood ==
  ASSUME NEW o, OnStage(o), o.status = "pending", Att(o).attempted = 1, NEW m, NEW s, NEW auth \in Nat,
         Updates(o, m, Att(o), s, Replay(o), CurFresh(o)), Stayed(o, m, o.status), SameRest(o, m),
         m.authorizationConsumed = o.authorizationConsumed,
         s = Obs(o) \/ s = "ownership_pending",
         Replay(o).status = "none" \/ Replay(o).authorization = auth,
         NEW n, n = ClaimReplay(m, auth)
  PROVE  /\ Write(o, n) /\ Good(n)
         /\ Updates(o, n, Att(o), s, [status |-> "claimed", authorization |-> auth, lease |-> "live"], CurFresh(o))
         /\ Stayed(o, n, o.status) /\ SameRest(o, n)
         /\ n.authorizationConsumed = o.authorizationConsumed
<1>0. PICK c : c = [status |-> "claimed", authorization |-> auth, lease |-> "live"] OBVIOUS
<1>1. m \in Operation /\ m.stage = o.stage /\ m.stage \in StageIdx /\ m.status = "pending"
  BY StageFacts DEF Updates, Stayed
<1>2. /\ Updates(m, n, Att(m), Obs(m), c, CurFresh(m))
      /\ Stayed(m, n, m.status) /\ SameRest(m, n) /\ n.authorizationConsumed = m.authorizationConsumed
  BY <1>0, <1>1, ClaimReplayWrites
<1>3. Att(m) = Att(o) /\ Obs(m) = s /\ CurFresh(m) = CurFresh(o)
  BY <1>1, StageFacts, UpdatesAt DEF Att, Obs, CurFresh
<1>4. Updates(o, n, Att(o), s, c, CurFresh(o))
  <2>1. [[o.attempts EXCEPT ![o.stage] = Att(o)] EXCEPT ![o.stage] = Att(o)] = [o.attempts EXCEPT ![o.stage] = Att(o)]
    BY StageFacts DEF Operation
  <2>2. [[o.observations EXCEPT ![o.stage] = s] EXCEPT ![o.stage] = s] = [o.observations EXCEPT ![o.stage] = s]
    BY StageFacts DEF Operation
  <2>3. [[o.replayClaims EXCEPT ![o.stage] = Replay(o)] EXCEPT ![o.stage] = c] = [o.replayClaims EXCEPT ![o.stage] = c]
    BY StageFacts DEF Operation
  <2>4. [[o.freshContinuations EXCEPT ![o.stage] = CurFresh(o)] EXCEPT ![o.stage] = CurFresh(o)]
           = [o.freshContinuations EXCEPT ![o.stage] = CurFresh(o)]
    BY StageFacts DEF Operation
  <2> QED BY <1>1, <1>2, <1>3, <2>1, <2>2, <2>3, <2>4 DEF Updates
<1>5. /\ Stayed(o, n, "pending") /\ SameRest(o, n)
      /\ n.authorizationConsumed = o.authorizationConsumed
  BY <1>1, <1>2 DEF Stayed, SameRest, SameGrants
<1>6. Att(o).status # "reserved" \/ s # "pending" \/ CurFresh(o) = "active" \/ ContinuationReadAuthorized(n)
      \/ ~ResourceBilling
  <2>1. SUFFICES ASSUME ResourceBilling, Att(o).status = "reserved", s = "pending", CurFresh(o) # "active"
                 PROVE  ContinuationReadAuthorized(n)
    OBVIOUS
  <2>2. ContinuationReadAuthorized(o)
    BY <2>1, StageFacts DEF OnStage, Good, RowAuthorized, ReadAllowed, FreshActive, CurFresh
  <2>3. Att(n) = Att(o) /\ n.stage = o.stage BY <1>4, <1>5, StageFacts, UpdatesAt DEF Att, Stayed
  <2> QED BY <1>5, <2>2, <2>3 DEF ContinuationReadAuthorized, GrantActive, HasGrant, SameRest, SameGrants
<1>7. c.status = "claimed" /\ c.authorization = auth BY <1>0
<1>8. Att(o).pendingReadbacks >= Att(o).pendingReadbacks BY StageFacts DEF Attempt
<1>9. s # "ready" BY StageFacts
<1>10. Write(o, n) /\ Good(n) BY <1>4, <1>5, <1>6, <1>7, <1>8, <1>9, StageFacts, StayedGood
<1> QED BY <1>0, <1>4, <1>5, <1>10

LEMMA ReserveGood ==
  ASSUME NEW o, OnStage(o), o.status = "pending", Att(o).attempted = 0, NEW n, n = ReserveStage(o)
  PROVE  Write(o, n) /\ Good(n) /\ Knows(n, "mutate", NoGrant)
<1>1. PICK a : a = [Att(o) EXCEPT !.attempted = 1, !.status = "reserved"] OBVIOUS
<1>2. /\ Updates(o, n, a, Obs(o), Replay(o), CurFresh(o))
      /\ Stayed(o, n, "pending") /\ SameRest(o, n)
  BY <1>1, StageFacts, ReserveWrites
<1>3. /\ a \in Attempt /\ a.attempted = 1 /\ a.status = "reserved"
      /\ a.pendingReadbacks = Att(o).pendingReadbacks
  <2>1. Att(o) \in Attempt BY StageFacts
  <2> QED BY <1>1, <2>1 DEF Attempt, AttemptStatus
<1>4. a.pendingReadbacks >= Att(o).pendingReadbacks BY <1>3, StageFacts DEF Attempt
<1>5. Write(o, n) /\ Good(n) BY <1>2, <1>3, <1>4, StageFacts, StayedGood
<1>6. Att(n) = a /\ Replay(n) = Replay(o) /\ CurFresh(n) = CurFresh(o) /\ n.stage = o.stage /\ n.status = "pending"
  BY <1>2, StageFacts, UpdatesAt DEF Att, Replay, CurFresh, Stayed
<1>7. CurFresh(o) = "none" BY StageFacts
<1>8. Lasting(o.stage) => Replay(o).status = "none" /\ NoReplayGrant(o, o.stage)
  BY StageFacts DEF OnStage, Good, ReplayGood, Att, Replay
<1>9. NoReplayGrant(o, o.stage) => NoReplayGrant(n, o.stage)
  BY <1>2 DEF NoReplayGrant, Grants, SameRest, SameGrants
<1>10. FirstAttempt(n) BY <1>3, <1>6, <1>8, <1>9 DEF FirstAttempt
<1> QED BY <1>5, <1>6, <1>7, <1>10 DEF Knows, Plain, Fresh, Resumes, FreshActive, CurFresh

LEMMA WaitGood ==
  ASSUME NEW o, OnStage(o), o.status = "pending", Att(o).attempted = 1, Att(o).status = "reserved",
         ResourceBilling => ReplayClaimOpen(o),
         NEW s \in {"pending", "ownership_pending"}, NEW n, n = waitClaimedReplay(o, s)
  PROVE  Write(o, n) /\ Good(n)
<1>0. o \in Operation /\ o.stage \in StageIdx /\ Att(o) \in Attempt /\ s \in NotReady
  BY StageFacts, NotReadyWords
<1>1. PICK a : a = [Att(o) EXCEPT !.pendingReadbacks = @ + 1] OBVIOUS
<1>2. /\ a \in Attempt /\ a.attempted = 1 /\ a.status = "reserved"
      /\ a.pendingReadbacks = Att(o).pendingReadbacks + 1
      /\ a.maxPendingReadbacks = Att(o).maxPendingReadbacks /\ Att(o).pendingReadbacks \in Nat
  BY <1>0, <1>1 DEF Attempt
<1>3. a.pendingReadbacks >= Att(o).pendingReadbacks BY <1>2
<1>4. PICK c : c = Completed(Replay(o), "waiting") OBVIOUS
<1>5. /\ Replay(o).status = "none" <=> c.status = "none"
      /\ c.authorization = Replay(o).authorization
  BY <1>4, StageFacts, CompletedKeeps
<1>6. CASE Exhausted(a)
  <2>1. /\ Unknown(a) \in Attempt /\ Unknown(a).attempted = a.attempted
        /\ Unknown(a).pendingReadbacks = a.pendingReadbacks /\ Unknown(a).status = "unknown"
    BY <1>2, UnknownType DEF Attempt, Unknown
  <2>2. /\ Updates(o, n, Unknown(a), "unknown", c, CurFresh(o))
        /\ Stayed(o, n, "manual_review") /\ SameRest(o, n)
    BY <1>0, <1>1, <1>4, <1>6, WaitWrites
  <2> QED BY <1>2, <1>3, <1>5, <2>1, <2>2, StageFacts, StayedGood
<1>7. CASE ~Exhausted(a)
  <2>1. /\ Updates(o, n, a, s, c, CurFresh(o)) /\ Stayed(o, n, "pending") /\ SameRest(o, n)
        /\ n.authorizationConsumed = o.authorizationConsumed
    BY <1>0, <1>1, <1>4, <1>7, WaitWrites
  <2>2. ASSUME ResourceBilling PROVE ContinuationReadAuthorized(n)
    <3> DEFINE g == o.resumeAuthorization
    <3>1. Att(n) = a /\ n.stage = o.stage BY <1>0, <2>1, UpdatesAt DEF Att, Stayed
    <3>2. n.resumeAuthorization = g BY <2>1 DEF SameRest, SameGrants
    <3>3. ReplayClaimOpen(o) /\ IdempotentReplayAuthorized(o) BY <2>2 DEF ReplayClaimOpen
    <3>4. a.pendingReadbacks < a.maxPendingReadbacks BY <1>2, <1>7 DEF Exhausted, Attempt
    <3>5. g.readbacks \in Nat /\ g.reads \in Nat BY <1>0 DEF Operation, Grant
    <3>6. g.id # 0 /\ ~o.authorizationConsumed /\ g.stage = o.stage /\ g.mutation = 0
          /\ g.readbacks + g.reads = a.maxPendingReadbacks
      BY <1>2, <3>3 DEF IdempotentReplayAuthorized, GrantActive, HasGrant
    <3>7. g.reads > 0
      <4>1. DecodesReplayClaim(o, o.stage) BY <1>0 DEF OnStage, Decodes
      <4>2. o.replayClaims[o.stage].status # "none" /\ o.replayClaims[o.stage].authorization = g.id
        BY <3>3 DEF ReplayClaimOpen, Replay
      <4>3. ClaimAuthorization(o, o.stage).reads = g.reads BY <3>6, <4>2 DEF ClaimAuthorization
      <4> QED BY <4>1, <4>2, <4>3 DEF DecodesReplayClaim
    <3>8. g.readbacks <= Att(o).pendingReadbacks
      BY <1>0, <2>2, <3>6 DEF OnStage, Good, GrantGood, GrantActive, HasGrant
    <3>9. g.readbacks <= a.pendingReadbacks BY <1>2, <3>5, <3>8
    <3> QED BY <2>1, <3>1, <3>2, <3>4, <3>6, <3>7, <3>9 DEF ContinuationReadAuthorized, GrantActive, HasGrant
  <2>3. s # "ready" OBVIOUS
  <2> QED BY <1>2, <1>3, <1>5, <2>1, <2>2, <2>3, StageFacts, StayedGood
<1> QED BY <1>6, <1>7

LEMMA BeginFreshGood ==
  ASSUME NEW o, OnStage(o), o.status = "pending", FirstAttempt(o), Replay(o).status = "none",
         ~FreshActive(o), NEW s \in {"pending", "ownership_pending"},
         NEW n, n = BeginFreshContinuation(o, s)
  PROVE  Write(o, n) /\ Good(n)
<1>0. /\ o \in Operation /\ o.stage \in StageIdx /\ Att(o) \in Attempt /\ s \in NotReady
      /\ FreshContinuationReadBudget(o.stage) \in Nat /\ PendingDeadline(o.stage) \in Clock
  BY StageFacts, NotReadyWords, BudgetType
<1>1. PICK a : a = [Att(o) EXCEPT !.pendingReadbacks = 1,
                             !.maxPendingReadbacks = 1 + FreshContinuationReadBudget(o.stage),
                             !.deadline = PendingDeadline(o.stage)]
  OBVIOUS
<1>2. /\ Updates(o, n, a, s, Replay(o), "active")
      /\ Stayed(o, n, "pending") /\ SameRest(o, n) /\ ~GrantActive(n)
  BY <1>0, <1>1, BeginFreshWrites
<1>3. a \in Attempt /\ a.attempted = Att(o).attempted /\ a.status = "reserved" /\ a.attempted = 1
  <2>1. Att(o).attempted = 1 /\ Att(o).status = "reserved" BY DEF FirstAttempt
  <2>2. 1 + FreshContinuationReadBudget(o.stage) \in Nat BY <1>0
  <2>3. a \in Attempt BY <1>0, <1>1, <2>2, AttemptWrites
  <2>4. a.attempted = Att(o).attempted /\ a.status = Att(o).status BY <1>0, <1>1 DEF Attempt
  <2> QED BY <2>1, <2>3, <2>4
<1>4. CurFresh(o) = "none" BY StageFacts DEF FirstAttempt
<1>5. Lasting(o.stage) => NoReplayGrant(o, o.stage) BY DEF FirstAttempt
<1> QED BY <1>2, <1>3, <1>4, <1>5, StageFacts, StayedGood

\* Rows under a fresh continuation; the read claims do not matter.
LEMMA FreshGood ==
  ASSUME NEW o, OnStage(o), o.status = "pending", FreshActive(o), NEW a \in Attempt,
         a.attempted = 1, a.pendingReadbacks >= Att(o).pendingReadbacks,
         NEW s, s # "ready", NEW c, NEW f, NEW t \in {"pending", "manual_review"}, NEW n,
         Updates(o, n, a, s, c, f), Stayed(o, n, t), SameRest(o, n),
         Replay(o).status # "none" => c.status # "none" /\ c.authorization = Replay(o).authorization,
         f # "none", t = "pending" => f = "active"
  PROVE  Write(o, n) /\ Good(n)
<1>1. Att(o).attempted = 1 /\ CurFresh(o) = "active" BY StageFacts
<1> QED BY <1>1, StageFacts, StayedGood

LEMMA ParkFreshGood ==
  ASSUME NEW o, OnStage(o), o.status = "pending", FreshActive(o), NEW m, ReadsOnly(o, m),
         NEW n, n = parkFreshTypedPending(m, Att(m))
  PROVE  Write(o, n) /\ Good(n)
<1>0. o \in Operation /\ o.stage \in StageIdx /\ Att(o) \in Attempt /\ Att(o).attempted = 1 BY StageFacts
<1>1. /\ Updates(o, n, Unknown(Att(o)), "unknown", Completed(Replay(o), "failed"), "failed")
      /\ Stayed(o, n, "manual_review") /\ SameRest(o, n)
  <2>1. m \in Operation /\ m.stage \in StageIdx /\ Att(m) = Att(o) /\ Replay(m) = Replay(o)
    BY <1>0, ReadsOnlyWrites
  <2>2. /\ Updates(m, n, Unknown(Att(m)), "unknown", Completed(Replay(m), "failed"), "failed")
        /\ Stayed(m, n, "manual_review") /\ SameRest(m, n)
    BY <2>1, ParkFreshWrites
  <2> QED BY <1>0, <2>1, <2>2, ReadsOnlyWrites
<1>2. /\ Unknown(Att(o)) \in Attempt /\ Unknown(Att(o)).attempted = 1
      /\ Unknown(Att(o)).pendingReadbacks = Att(o).pendingReadbacks
  BY <1>0, UnknownType DEF Unknown, Attempt
<1>3. Unknown(Att(o)).pendingReadbacks >= Att(o).pendingReadbacks BY <1>0, <1>2 DEF Attempt
<1>4. /\ Replay(o).status # "none" => Completed(Replay(o), "failed").status # "none"
      /\ Completed(Replay(o), "failed").authorization = Replay(o).authorization
  BY StageFacts, CompletedKeeps
<1> QED BY <1>1, <1>2, <1>3, <1>4, FreshGood

LEMMA ConfirmFreshGood ==
  ASSUME NEW o, OnStage(o), o.status = "pending", FreshActive(o), NEW m, ReadsOnly(o, m),
         NEW n, n = ConfirmFresh(m)
  PROVE  Write(o, n) /\ Good(n)
<1>0. /\ o \in Operation /\ o.stage \in StageIdx /\ Att(o) \in Attempt /\ Att(o).attempted = 1
      /\ CurFresh(o) = "active"
  BY StageFacts
<1>1. /\ Updates(o, n, Confirmed(Att(o)), "ready", Completed(Replay(o), "succeeded"), "consumed")
      /\ Advanced(o, n) /\ SameRest(o, n)
  <2>1. m \in Operation /\ m.stage \in StageIdx /\ Att(m) = Att(o) /\ Replay(m) = Replay(o)
    BY <1>0, ReadsOnlyWrites
  <2>2. /\ Updates(m, n, Confirmed(Att(m)), "ready", Completed(Replay(m), "succeeded"), "consumed")
        /\ Advanced(m, n) /\ SameRest(m, n)
    BY <2>1, ConfirmFreshWrites
  <2> QED BY <1>0, <2>1, <2>2, ReadsOnlyWrites
<1>2. /\ Confirmed(Att(o)) \in Attempt /\ Confirmed(Att(o)).attempted = Att(o).attempted
      /\ Confirmed(Att(o)).pendingReadbacks = Att(o).pendingReadbacks
      /\ Confirmed(Att(o)).status = "confirmed"
  BY <1>0, AttType DEF Confirmed, Attempt
<1>4. Grants(n) \subseteq Grants(o) \cup {NoGrant} BY <1>1 DEF SameRest, SameGrants, Grants
<1>5. WriteGrants(o, n) /\ o.consumedAuthorizations \subseteq n.consumedAuthorizations
  BY <1>1 DEF WriteGrants, SameRest, SameGrants
<1>6. n.resumeAuthorization.stage <= o.stage \/ ~ResourceBilling
  BY <1>1 DEF OnStage, Good, GrantGood, SameRest, SameGrants
<1>7. /\ Replay(o).status = "none" <=> Completed(Replay(o), "succeeded").status = "none"
      /\ Completed(Replay(o), "succeeded").authorization = Replay(o).authorization
  BY StageFacts, CompletedKeeps
<1> QED BY <1>0, <1>1, <1>2, <1>4, <1>5, <1>6, <1>7, NoGrantReplays, AdvancedGood

\* A read is claimed: its ordinal is counted before it is made.
LEMMA ClaimReadGood ==
  ASSUME NEW o, OnStage(o), o.status = "pending", FreshActive(o), NEW m, ReadsOnly(o, m),
         NEW n, n = SetRead(SetAtt(m, [Att(m) EXCEPT !.pendingReadbacks = @ + 1]), "claimed")
  PROVE  /\ Write(o, n) /\ Good(n) /\ n.stage = o.stage /\ n.status = "pending" /\ FreshActive(n)
         /\ Att(n).pendingReadbacks = Att(o).pendingReadbacks + 1
<1>0. /\ o \in Operation /\ o.stage \in StageIdx /\ Att(o) \in Attempt /\ Att(o).attempted = 1
      /\ CurFresh(o) = "active" /\ Obs(o) # "ready"
  BY StageFacts
<1>1. PICK a : a = [Att(o) EXCEPT !.pendingReadbacks = @ + 1] OBVIOUS
<1>2. /\ a \in Attempt /\ a.attempted = 1 /\ a.pendingReadbacks = Att(o).pendingReadbacks + 1
      /\ Att(o).pendingReadbacks \in Nat
  BY <1>0, <1>1 DEF Attempt
<1>3. /\ Updates(o, n, a, Obs(o), Replay(o), CurFresh(o)) /\ Stayed(o, n, o.status) /\ SameRest(o, n)
  <2>1. m \in Operation /\ m.stage \in StageIdx /\ Att(m) = Att(o) /\ Replay(m) = Replay(o)
        /\ Obs(m) = Obs(o) /\ CurFresh(m) = CurFresh(o)
    BY <1>0, ReadsOnlyWrites
  <2>2. n = SetRead(SetAtt(m, a), "claimed") BY <1>1, <2>1
  <2>3. /\ Updates(m, n, a, Obs(m), Replay(m), CurFresh(m)) /\ Stayed(m, n, m.status) /\ SameRest(m, n)
    BY <1>2, <2>1, <2>2, SetReadWrites
  <2> QED BY <1>0, <2>1, <2>3, ReadsOnlyWrites
<1>4. a.pendingReadbacks >= Att(o).pendingReadbacks BY <1>2
<1>5. Write(o, n) /\ Good(n) BY <1>0, <1>2, <1>3, <1>4, FreshGood
<1>6. Att(n) = a /\ CurFresh(n) = "active" /\ n.stage = o.stage
  BY <1>0, <1>3, UpdatesAt DEF Att, CurFresh, Stayed
<1> QED BY <1>2, <1>3, <1>5, <1>6 DEF Stayed, FreshActive, CurFresh

LEMMA FreshObsGood ==
  ASSUME NEW o, OnStage(o), o.status = "pending", FreshActive(o), NEW m, ReadsOnly(o, m),
         NEW s \in {"pending", "ownership_pending"}, NEW n, n = SetObs(m, s)
  PROVE  /\ Write(o, n) /\ Good(n)
         /\ Updates(o, n, Att(o), s, Replay(o), CurFresh(o)) /\ Stayed(o, n, "pending") /\ SameRest(o, n)
         /\ n.authorizationConsumed = o.authorizationConsumed
<1>0. /\ o \in Operation /\ o.stage \in StageIdx /\ Att(o) \in Attempt /\ Att(o).attempted = 1
      /\ CurFresh(o) = "active" /\ s \in NotReady
  BY StageFacts, NotReadyWords
<1>1. m \in Operation /\ m.stage \in StageIdx /\ Att(m) = Att(o) /\ Replay(m) = Replay(o)
      /\ CurFresh(m) = CurFresh(o)
  BY <1>0, ReadsOnlyWrites
<1>2. /\ Updates(m, n, Att(m), s, Replay(m), CurFresh(m)) /\ Stayed(m, n, m.status) /\ SameRest(m, n)
      /\ n.authorizationConsumed = m.authorizationConsumed
  BY <1>0, <1>1, SetObsWrites
<1>3. Updates(o, n, Att(o), s, Replay(o), CurFresh(o)) /\ Stayed(o, n, "pending") /\ SameRest(o, n)
  BY <1>0, <1>1, <1>2, ReadsOnlyWrites
<1>4. Att(o).pendingReadbacks >= Att(o).pendingReadbacks BY <1>0 DEF Attempt
<1>5. n.authorizationConsumed = o.authorizationConsumed BY <1>2 DEF ReadsOnly
<1> QED BY <1>0, <1>3, <1>4, <1>5, FreshGood

LEMMA ConvergeWaitGood ==
  ASSUME NEW o, OnStage(o), o.status = "pending", FreshActive(o),
         NEW s \in {"pending", "ownership_pending"},
         NEW n, n = completeIdempotentReplay(SetObs(o, s), "waiting")
  PROVE  Write(o, n) /\ Good(n)
<1>0. /\ o \in Operation /\ o.stage \in StageIdx /\ Att(o) \in Attempt /\ Att(o).attempted = 1
      /\ CurFresh(o) = "active" /\ s \in NotReady
  BY StageFacts, NotReadyWords
<1>1. /\ Updates(o, n, Att(o), s, Completed(Replay(o), "waiting"), CurFresh(o))
      /\ Stayed(o, n, "pending") /\ SameRest(o, n)
  BY <1>0, CompleteWaitWrites
<1>2. Att(o).pendingReadbacks >= Att(o).pendingReadbacks BY <1>0 DEF Attempt
<1>3. /\ Replay(o).status # "none" => Completed(Replay(o), "waiting").status # "none"
      /\ Completed(Replay(o), "waiting").authorization = Replay(o).authorization
  BY StageFacts, CompletedKeeps
<1> QED BY <1>0, <1>1, <1>2, <1>3, FreshGood

\* Only stages whose attempt is not kept for good are reset.
LEMMA ResetGood ==
  ASSUME NEW o, OnStage(o), InRecoverableReview(o), NEW n, n = ResetStage(o)
  PROVE  Write(o, n) /\ Good(n)
<1>0. o \in Operation /\ o.stage \in StageIdx /\ Att(o) \in Attempt BY StageFacts
<1>1. ~Lasting(o.stage) /\ ~ResourceBilling /\ Obs(o) = "unknown"
  BY DEF InRecoverableReview, RecoverableStages, Lasting, Compute, Key, Secret, Runtime
<1>2. PICK a : a = [Att(o) EXCEPT !.attempted = 0, !.status = "", !.pendingReadbacks = 0] OBVIOUS
<1>3. a \in Attempt /\ a.status = "" BY <1>0, <1>2 DEF Attempt, AttemptStatus
<1>4. Updates(o, n, a, Obs(o), Replay(o), "none") /\ Stayed(o, n, "pending") /\ SameRest(o, n)
  BY <1>0, <1>2, ResetWrites
<1> QED BY <1>1, <1>3, <1>4, StayedGood

LEMMA PutAsideGood ==
  ASSUME NEW o, OnStage(o), NEW n, n = [o EXCEPT !.status = "manual_review"]
  PROVE  Write(o, n) /\ Good(n)
<1>1. Updates(o, n, Att(o), Obs(o), Replay(o), CurFresh(o)) /\ Stayed(o, n, "manual_review") /\ SameRest(o, n)
  BY StageFacts, StatusWrites
<1>2. Att(o).pendingReadbacks >= Att(o).pendingReadbacks BY StageFacts DEF Attempt
<1> QED BY <1>1, <1>2, StageFacts, StayedGood

\* The operator's new authorization of a mutation: the stage is not reserved.
LEMMA RotateGood ==
  ASSUME NEW o, OnStage(o), Att(o).attempted = 0, NEW g, NewFor(o, g), g.mutation = 1, g.replay = 0,
         NEW n, n = [rotateResumeAuthorization(o, g) EXCEPT !.status = "pending"]
  PROVE  Write(o, n) /\ Good(n)
<1>0. /\ o \in Operation /\ o.stage \in StageIdx /\ Att(o) \in Attempt /\ g \in Grant
      /\ Att(o).status # "reserved" /\ Obs(o) # "ready"
  BY StageFacts DEF NewFor
<1>1. /\ Updates(o, n, Att(o), Obs(o), Replay(o), CurFresh(o))
      /\ Stayed(o, n, "pending") /\ Rotated(o, n, g)
  BY <1>0, RotateWrites
<1>2. WriteReplays(o, n) BY <1>0, <1>1, RotatedGrants, WriteReplaysUpdates
<1> QED BY <1>0, <1>1, <1>2, StageFacts, RotatedGood

\* The authorization counts from the readbacks made so far.
LEMMA CountsFrom ==
  ASSUME NEW o, NEW g, NewFor(o, g), Att(o) \in Attempt, NEW h,
         h = [g EXCEPT !.readbacks = Att(o).pendingReadbacks]
  PROVE  /\ NewFor(o, h) /\ h.readbacks = Att(o).pendingReadbacks /\ h.reads = g.reads
         /\ h.mutation = g.mutation /\ h.stage = g.stage /\ h.id = g.id /\ h.replay = g.replay
<1>1. g \in Grant /\ Att(o).pendingReadbacks \in Nat BY DEF NewFor, Attempt
<1>2. /\ h \in Grant /\ h.readbacks = Att(o).pendingReadbacks /\ h.reads = g.reads
      /\ h.mutation = g.mutation /\ h.stage = g.stage /\ h.id = g.id /\ h.replay = g.replay
  BY <1>1 DEF Grant
<1> QED BY <1>2 DEF NewFor

\* The row under it may be read again.
LEMMA AuthorizedRead ==
  ASSUME NEW o, OnStage(o), NEW n, NEW a \in Attempt, NEW s, NEW c, NEW f, NEW h,
         Updates(o, n, a, s, c, f), Stayed(o, n, "pending"), Rotated(o, n, h),
         ~n.authorizationConsumed, NewFor(o, h), h.mutation = 0, h.reads > 0,
         h.readbacks = a.pendingReadbacks, a.maxPendingReadbacks = a.pendingReadbacks + h.reads,
         h.id # 0
  PROVE  ContinuationReadAuthorized(n)
<1>1. Att(n) = a /\ n.stage = o.stage BY StageFacts, UpdatesAt DEF Att, Stayed
<1>2. n.resumeAuthorization = h /\ h.stage = o.stage /\ h \in Grant BY DEF Rotated, NewFor
<1>3. a.pendingReadbacks \in Nat /\ h.reads \in Nat BY <1>2 DEF Attempt, Grant
<1>4. /\ h.readbacks <= a.pendingReadbacks /\ h.readbacks + h.reads = a.maxPendingReadbacks
      /\ a.pendingReadbacks < a.maxPendingReadbacks
  BY <1>3
<1> QED BY <1>1, <1>2, <1>4 DEF ContinuationReadAuthorized, GrantActive, HasGrant

LEMMA AuthorizeGood ==
  ASSUME NEW o, OnStage(o), Att(o).attempted = 1, NEW g, NewFor(o, g), g.id # 0,
         g.mutation = 0, g.reads > 0, NEW s \in {"absent", "pending"},
         NEW n, n = SetObs(Authorize(o, g), s)
  PROVE  Write(o, n) /\ Good(n)
<1>0. /\ o \in Operation /\ o.stage \in StageIdx /\ Att(o) \in Attempt /\ g \in Grant /\ s \in NotReady
  BY StageFacts, NotReadyWords DEF NewFor
<1>1. PICK a, h : /\ a = [Att(o) EXCEPT !.maxPendingReadbacks = Att(o).pendingReadbacks + g.reads]
                  /\ h = [g EXCEPT !.readbacks = Att(o).pendingReadbacks]
  OBVIOUS
<1>2. /\ Updates(o, n, a, s, Replay(o), CurFresh(o))
      /\ Stayed(o, n, "pending") /\ ~n.authorizationConsumed /\ Rotated(o, n, h)
  BY <1>0, <1>1, AuthorizeWrites
<1>3. /\ NewFor(o, h) /\ h.readbacks = Att(o).pendingReadbacks /\ h.reads = g.reads
      /\ h.mutation = 0 /\ h.id # 0
  BY <1>0, <1>1, CountsFrom
<1>4. Att(o).pendingReadbacks + g.reads \in Nat BY <1>0 DEF Attempt, Grant
<1>5. /\ a \in Attempt /\ a.attempted = Att(o).attempted /\ a.status = Att(o).status
      /\ a.pendingReadbacks = Att(o).pendingReadbacks
      /\ a.maxPendingReadbacks = a.pendingReadbacks + h.reads
  BY <1>0, <1>1, <1>3, <1>4 DEF Attempt
<1>6. ContinuationReadAuthorized(n) BY <1>2, <1>3, <1>5, AuthorizedRead
<1>7. WriteReplays(o, n) BY <1>0, <1>2, RotatedGrants, WriteReplaysUpdates
<1>8. h.readbacks <= a.pendingReadbacks BY <1>3, <1>5 DEF Attempt
<1> QED BY <1>2, <1>3, <1>5, <1>6, <1>7, <1>8, RotatedGood

\* A failed replay of compute is put on record when its claim is cleared.
LEMMA RecoverComputeGood ==
  ASSUME NEW o, OnStage(o), Att(o).attempted = 1, Stages[o.stage] = Compute,
         NEW g, NewFor(o, g), g.id # 0, g.mutation = 0, g.reads > 0,
         NEW s \in {"pending", "ownership_pending"}, NEW n, n = recoverUnknownComputeStage(o, g, s)
  PROVE  Write(o, n) /\ Good(n)
<1>0. /\ o \in Operation /\ o.stage \in StageIdx /\ Att(o) \in Attempt /\ g \in Grant /\ s \in NotReady
      /\ Replay(o) \in ReplayClaim
  BY StageFacts, NotReadyWords DEF NewFor
<1>1. PICK h, c : /\ h = [g EXCEPT !.readbacks = Att(o).pendingReadbacks]
                  /\ c = IF FailedComputeReplayReauthorizationEligible(o) THEN NoReplay ELSE Replay(o)
  OBVIOUS
<1>2. PICK a \in Attempt :
        /\ a.attempted = Att(o).attempted /\ a.status = "reserved"
        /\ a.pendingReadbacks = Att(o).pendingReadbacks
        /\ a.maxPendingReadbacks = Att(o).pendingReadbacks + g.reads
        /\ Updates(o, n, a, s, c, CurFresh(o))
        /\ Stayed(o, n, "pending") /\ ~n.authorizationConsumed /\ Rotated(o, n, h)
  BY <1>0, <1>1, RecoverComputeWrites
<1>3. /\ NewFor(o, h) /\ h.readbacks = Att(o).pendingReadbacks /\ h.reads = g.reads
      /\ h.mutation = 0 /\ h.id # 0
  BY <1>0, <1>1, CountsFrom
<1>4. ContinuationReadAuthorized(n) BY <1>2, <1>3, AuthorizedRead
<1>5. WriteReplays(o, n)
  <2>1. CASE ~FailedComputeReplayReauthorizationEligible(o)
    BY <1>0, <1>1, <1>2, <2>1, RotatedGrants, WriteReplaysUpdates
  <2>2. CASE FailedComputeReplayReauthorizationEligible(o)
    <3> SUFFICES ASSUME NEW i \in StageIdx, NEW b \in Nat, Tracked(o, i, b) PROVE Tracked(n, i, b)
      BY DEF WriteReplays
    <3>1. CASE i # o.stage \/ ~(o.replayClaims[i].status # "none" /\ o.replayClaims[i].authorization = b)
      <4>1. i # o.stage => n.replayClaims[i] = o.replayClaims[i] BY <1>0, <1>2, UpdatesAt
      <4> QED BY <1>2, <3>1, <4>1, RotatedGrants DEF Tracked
    <3>2. CASE i = o.stage /\ o.replayClaims[i].status # "none" /\ o.replayClaims[i].authorization = b
      <4>1. /\ o.resumeAuthorization.id = b /\ b # 0
            /\ o.resumeAuthorization.stage = i /\ o.resumeAuthorization.mutation = 0
            /\ o.resumeAuthorization.replay = 1
        BY <2>2, <3>2 DEF FailedComputeReplayReauthorizationEligible, HasGrant, Replay
      <4>2. o.resumeAuthorization \in n.consumedAuthorizations
        BY <1>2, <4>1 DEF Rotated, HasGrant
      <4> QED BY <3>2, <4>1, <4>2 DEF Tracked
    <3> QED BY <3>1, <3>2
  <2> QED BY <2>1, <2>2
<1>6. h.readbacks <= a.pendingReadbacks BY <1>2, <1>3 DEF Attempt
<1>7. Replay(o).status = "none" => c.status = "none" BY <1>1 DEF NoReplay
<1> QED BY <1>2, <1>3, <1>4, <1>5, <1>6, <1>7, RotatedGood

\* The operator's read finds the stage done.
LEMMA RecoveredGood ==
  ASSUME NEW o, OnStage(o), NEW g, NewFor(o, g), NEW n, NEW f,
         Updates(o, n, Confirmed(Att(o)), "ready", Replay(o), f),
         CurFresh(o) = "none" <=> f = "none", Advanced(o, n), Rotated(o, n, g)
  PROVE  Write(o, n) /\ Good(n)
<1>0. /\ o \in Operation /\ o.stage \in StageIdx /\ Att(o) \in Attempt /\ g \in Grant /\ g.stage = o.stage
      /\ o.stage \in Nat
  BY StageFacts, StageIdxType DEF NewFor
<1>1. /\ Confirmed(Att(o)) \in Attempt /\ Confirmed(Att(o)).attempted = Att(o).attempted
      /\ Confirmed(Att(o)).pendingReadbacks = Att(o).pendingReadbacks
      /\ Confirmed(Att(o)).status = "confirmed"
  BY <1>0, AttType DEF Confirmed, Attempt
<1>2. n.resumeAuthorization.stage <= o.stage BY <1>0 DEF Rotated
<1>3. /\ Grants(n) \subseteq Grants(o) \cup {g}
      /\ o.consumedAuthorizations \subseteq n.consumedAuthorizations /\ WriteGrants(o, n)
  BY RotatedGrants DEF NewFor
<1>4. g.replay = 1 => /\ g.stage = o.stage
                      /\ Lasting(o.stage) => Confirmed(Att(o)).attempted # 0 /\ f = "none"
                      /\ Stages[o.stage] = Compute =>
                            \A h, k \in Grants(o) : ReplayGrant(h, o.stage) /\ ReplayGrant(k, o.stage) => h.id = k.id
  BY <1>1 DEF NewFor
<1> QED BY <1>1, <1>2, <1>3, <1>4, AdvancedGood

LEMMA RepairedGood ==
  ASSUME NEW o, OnStage(o), RuntimeRepairEligible(o), ~o.runtimeRepair, NEW n, n = RepairedRow(o)
  PROVE  Write(o, n) /\ Good(n)
<1>0. /\ o \in Operation /\ o.stage \in StageIdx /\ Att(o) \in Attempt /\ o.stage \in Nat
  BY StageFacts, StageIdxType
<1>1. PICK f : f = IF CurFresh(o) = "none" THEN "none" ELSE "consumed" OBVIOUS
<1>2. /\ Updates(o, n, Confirmed(Att(o)), "ready", Replay(o), f)
      /\ n.stage = o.stage + 1 /\ n.status = "pending"
      /\ n.resumeAuthorization = NoGrant /\ n.runtimeRepair
      /\ n.consumedAuthorizations = o.consumedAuthorizations
  BY <1>0, <1>1, RepairedWrites
<1>3. Advanced(o, n)
  <2>0. Stages[o.stage] = Runtime BY DEF RuntimeRepairEligible, IsStage
  <2>1a. o.stage < Len(Stages) BY <1>0, <2>0, StagesAssumption DEF StageIdx
  <2>1b. Len(Stages) \in Nat BY StagesAssumption
  <2>1. o.stage < Len(Stages) /\ Len(Stages) \in Nat BY <2>1a, <2>1b
  <2>2. n.stage # Succeeded BY <1>0, <1>2, <2>1 DEF Succeeded
  <2> QED BY <1>2, <2>2 DEF Advanced
<1>4. /\ Confirmed(Att(o)) \in Attempt /\ Confirmed(Att(o)).attempted = Att(o).attempted
      /\ Confirmed(Att(o)).pendingReadbacks = Att(o).pendingReadbacks
      /\ Confirmed(Att(o)).status = "confirmed"
  BY <1>0, AttType DEF Confirmed, Attempt
<1>5. n.resumeAuthorization.stage <= o.stage BY <1>0, <1>2, NoGrantReplays
<1>6. Grants(n) \subseteq Grants(o) \cup {NoGrant} BY <1>2 DEF Grants
<1>7. WriteGrants(o, n) /\ o.consumedAuthorizations \subseteq n.consumedAuthorizations
  BY <1>2 DEF WriteGrants, RepairDrops
<1>8. CurFresh(o) = "none" <=> f = "none" BY <1>1
<1> QED BY <1>2, <1>3, <1>4, <1>5, <1>6, <1>7, <1>8, NoGrantReplays, AdvancedGood

-----------------------------------------------------------------------------
(* A step of one actor that leaves the stored row alone.                   *)

\* Nothing happens at an owner that nobody asked.
Asked ==
  /\ repairs => repairs'
  /\ \A i \in StageIdx : world'[i] # "absent" =>
       world[i] # "absent" \/ (Dispatches(i))' \/ (repairs' /\ Stages[i] = Runtime)

\* Calls go out from the two calling points, reads are counted at one.
Leaves(p) ==
  /\ \/ sent' = sent
     \/ sent' = Dispatched(Row(p)) /\ local[p].pc \in {"mutate", "convergeMutate"}
  /\ gets' = gets \/ (CountGet(p) /\ At(p, "freshRead"))

LEMMA JFacts ==
  ASSUME IInv, JInv
  PROVE  /\ op \in Operation /\ local \in [Actors -> Local] /\ world \in [StageIdx -> World]
         /\ sent \in [StageIdx -> [first : {0, 1, 2}, replays : SUBSET Nat]]
         /\ gets \in [StageIdx -> Nat]
         /\ \A p \in Actors : local[p] \in Local /\ Row(p) \in Operation /\ ActorGood(local[p])
  BY DEF IInv, TypeOK, JInv, Local, Row

LEMMA SentGrows ==
  ASSUME IInv, JInv, NEW p \in Actors, Leaves(p), NEW i \in StageIdx
  PROVE  /\ \/ sent'[i].first = sent[i].first
            \/ /\ First(p, i)
               /\ sent'[i].first = (IF sent[i].first < 2 THEN sent[i].first + 1 ELSE 2)
         /\ \/ sent'[i].replays = sent[i].replays
            \/ /\ sent'[i].replays = sent[i].replays \cup {Replay(Row(p)).authorization}
               /\ i = Row(p).stage /\ local[p].pc \in Callers /\ Replay(Row(p)).status = "claimed"
         /\ Dispatches(i) => (Dispatches(i))'
<1>1. sent \in [StageIdx -> [first : {0, 1, 2}, replays : SUBSET Nat]] BY JFacts
<1>0. /\ Dispatches(i) <=> (sent[i].first > 0 \/ sent[i].replays # {})
      /\ (Dispatches(i))' <=> (sent'[i].first > 0 \/ sent'[i].replays # {})
  BY DEF Dispatches
<1>2. CASE sent' = sent
  <2>1. sent'[i].first = sent[i].first /\ sent'[i].replays = sent[i].replays BY <1>2
  <2> QED BY <1>0, <2>1
<1>3. CASE sent' = Dispatched(Row(p)) /\ local[p].pc \in {"mutate", "convergeMutate"}
  <2>1. ActorGood(local[p]) BY JFacts
  <2>2. local[p].pc = "convergeMutate" => Replay(Row(p)).status = "claimed"
    BY <2>1 DEF ActorGood, Knows, Row
  <2>3. CASE Replay(Row(p)).status = "claimed"
    <3>1. sent' = [sent EXCEPT ![Row(p).stage].replays = @ \cup {Replay(Row(p)).authorization}]
      BY <1>3, <2>3 DEF Dispatched
    <3>2. sent'[i].first = sent[i].first BY <1>1, <3>1
    <3>3. sent'[i].replays = IF i = Row(p).stage THEN sent[i].replays \cup {Replay(Row(p)).authorization}
                                                 ELSE sent[i].replays
      BY <1>1, <3>1
    <3>4. sent[i].replays # {} => sent'[i].replays # {} BY <3>3
    <3>5. Dispatches(i) => (Dispatches(i))' BY <1>0, <3>2, <3>4
    <3> QED BY <1>3, <2>3, <3>2, <3>3, <3>5 DEF Callers
  <2>4. CASE Replay(Row(p)).status # "claimed"
    <3>1. sent' = [sent EXCEPT ![Row(p).stage].first = IF @ < 2 THEN @ + 1 ELSE 2]
      BY <1>3, <2>4 DEF Dispatched
    <3>2. sent'[i].replays = sent[i].replays BY <1>1, <3>1
    <3>3. sent'[i].first = IF i = Row(p).stage THEN (IF sent[i].first < 2 THEN sent[i].first + 1 ELSE 2)
                                               ELSE sent[i].first
      BY <1>1, <3>1
    <3>4. i = Row(p).stage => First(p, i) BY <1>3, <2>2, <2>4 DEF First, At
    <3>5. sent[i].first \in {0, 1, 2} BY <1>1
    <3>6. sent[i].first > 0 => sent'[i].first > 0 BY <3>3, <3>5
    <3>7. Dispatches(i) => (Dispatches(i))' BY <1>0, <3>2, <3>6
    <3> QED BY <3>2, <3>3, <3>4, <3>7
  <2> QED BY <2>3, <2>4
<1> QED BY <1>2, <1>3 DEF Leaves

\* The readers of a stage when p leaves or stays away.
LEMMA ReadersShrink ==
  ASSUME IInv, JInv, NEW p \in Actors, NEW l, local' = [local EXCEPT ![p] = l], l.pc # "freshRead",
         NEW i \in StageIdx
  PROVE  Readers(i)' = Readers(i) \ {p}
<1>1. \A q \in Actors : local'[q] = IF q = p THEN l ELSE local[q] BY JFacts
<1> QED BY <1>1 DEF Readers, At, Row

LEMMA ActsJ ==
  ASSUME IInv, JInv, NEW p \in Actors, NEW l, op' = op, local' = [local EXCEPT ![p] = l],
         ActorGood(l), l.pc # "freshRead",
         l.pc = "mutate" => Replay(l.row).status = "claimed",
         Leaves(p), Asked
  PROVE  JInv'
<1>1. \A q \in Actors : local'[q] = IF q = p THEN l ELSE local[q] BY JFacts
<1>2. Decodes(op)' /\ Good(op)'
  <2>1. Decodes(op) /\ Good(op) BY DEF JInv
  <2> QED BY <2>1
<1>3. ASSUME NEW q \in Actors PROVE ActorGood(local[q])'
  <2>1. PICK k : k = local'[q] OBVIOUS
  <2>2. ActorGood(k) BY <1>1, <2>1, JFacts
  <2>3. ActorGood(k)' BY <2>2 DEF ActorGood
  <2> QED BY <2>1, <2>3
<1>4. FirstAlone'
  <2> SUFFICES ASSUME ResourceBilling, NEW i \in StageIdx
               PROVE  /\ sent'[i].first <= 1
                      /\ \A q \in Actors : First(q, i)' => sent'[i].first = 0
                      /\ \A q, r \in Actors : First(q, i)' /\ First(r, i)' => q = r
    BY DEF FirstAlone
  <2>1. \A q \in Actors : First(q, i)' => q # p /\ First(q, i)
    BY <1>1 DEF First, At, Row
  <2>2. /\ sent[i].first <= 1
        /\ \A q \in Actors : First(q, i) => sent[i].first = 0
        /\ \A q, r \in Actors : First(q, i) /\ First(r, i) => q = r
    BY DEF JInv, FirstAlone
  <2>3. sent[i].first \in {0, 1, 2} BY JFacts
  <2>4. CASE sent'[i].first = sent[i].first BY <2>1, <2>2, <2>4
  <2>5. CASE First(p, i) /\ sent'[i].first = (IF sent[i].first < 2 THEN sent[i].first + 1 ELSE 2)
    BY <2>1, <2>2, <2>3, <2>5
  <2> QED BY <2>4, <2>5, SentGrows
<1>5. ReplaysTracked'
  <2> SUFFICES ASSUME NEW i \in StageIdx, NEW a \in sent'[i].replays PROVE Tracked(op, i, a)
    BY DEF ReplaysTracked, Tracked
  <2>1. CASE a \in sent[i].replays BY <2>1 DEF JInv, ReplaysTracked
  <2>2. CASE /\ a = Replay(Row(p)).authorization
             /\ i = Row(p).stage /\ local[p].pc \in Callers /\ Replay(Row(p)).status = "claimed"
    BY <2>2, JFacts DEF ActorGood, Row
  <2> QED BY <2>1, <2>2, SentGrows
<1>6. ReadsCounted'
  <2> SUFFICES ASSUME ResourceBilling, NEW i \in StageIdx
               PROVE  IF op.freshContinuations[i] = "none" THEN gets'[i] = 0 /\ Readers(i)' = {}
                      ELSE /\ IsFiniteSet(Readers(i)')
                           /\ gets'[i] + Cardinality(Readers(i)') <= op.attempts[i].pendingReadbacks - 1
    BY DEF ReadsCounted
  <2>1. Readers(i)' = Readers(i) \ {p} BY ReadersShrink
  <2>2. gets[i] \in Nat /\ op.attempts[i].pendingReadbacks \in Nat BY JFacts DEF Operation, Attempt
  <2>3. gets'[i] = gets[i] \/ (p \in Readers(i) /\ gets'[i] = gets[i] + 1)
    <3>1. gets \in [StageIdx -> Nat] BY JFacts
    <3>2. CASE gets' = gets BY <3>2
    <3>3. CASE CountGet(p) /\ At(p, "freshRead")
      <4>1. gets'[i] = IF i = Row(p).stage
                       THEN (IF gets[i] > FreshContinuationReadBudget(i) THEN gets[i] ELSE gets[i] + 1)
                       ELSE gets[i]
        BY <3>1, <3>3 DEF CountGet
      <4> QED BY <3>3, <4>1 DEF Readers
    <3> QED BY <3>2, <3>3 DEF Leaves
  <2>4. CASE op.freshContinuations[i] = "none" BY <2>1, <2>3, <2>4 DEF JInv, ReadsCounted
  <2>5. CASE op.freshContinuations[i] # "none"
    <3>1. /\ IsFiniteSet(Readers(i))
          /\ gets[i] + Cardinality(Readers(i)) <= op.attempts[i].pendingReadbacks - 1
      BY <2>5 DEF JInv, ReadsCounted
    <3>2. /\ IsFiniteSet(Readers(i) \ {p})
          /\ Cardinality(Readers(i) \ {p}) =
               IF p \in Readers(i) THEN Cardinality(Readers(i)) - 1 ELSE Cardinality(Readers(i))
      BY <3>1, FS_RemoveElement
    <3>3. Cardinality(Readers(i)) \in Nat BY <3>1, FS_CardinalityType
    <3>4. Cardinality(Readers(i) \ {p}) \in Nat BY <3>2, FS_CardinalityType
    <3>5. gets'[i] + Cardinality(Readers(i) \ {p}) <= op.attempts[i].pendingReadbacks - 1
      BY <2>2, <2>3, <3>1, <3>2, <3>3, <3>4
    <3> QED BY <2>1, <2>5, <3>2, <3>5
  <2> QED BY <2>4, <2>5
<1>7. WorldAsked' BY SentGrows DEF JInv, WorldAsked, Asked
<1> QED BY <1>2, <1>3, <1>4, <1>5, <1>6, <1>7 DEF JInv

\* Between two passes a handler knows nothing.
LEMMA KnowsIdle ==
  ASSUME NEW o, NEW c \in {"idle", "admitted", "entry"}, NEW g
  PROVE  Knows(o, c, g) /\ c \notin Resumes
  BY DEF Knows, Plain, Fresh, Resumes

LEMMA KnowsAnyGrant ==
  ASSUME NEW o, NEW c, NEW g, NEW h, c \notin Resumes, Knows(o, c, g)
  PROVE  Knows(o, c, h)
  BY DEF Knows

\* The row that Create leaves in the store.
LEMMA NewRowGood ==
  /\ Decodes(newWorkspaceLaunchReconcileOperation)
  /\ Good(newWorkspaceLaunchReconcileOperation)
<1>0. PICK o : o = newWorkspaceLaunchReconcileOperation OBVIOUS
<1>1. /\ o \in Operation /\ o.status = "pending" /\ o.stage = 1
      /\ o.resumeAuthorization = NoGrant /\ ~o.authorizationConsumed
      /\ o.consumedAuthorizations = {} /\ ~o.runtimeRepair
  BY <1>0, NewOperationType DEF newWorkspaceLaunchReconcileOperation
<1>2. \A i \in StageIdx :
        /\ o.attempts[i].attempted = 0 /\ o.attempts[i].status = ""
        /\ o.attempts[i].pendingReadbacks = 0 /\ o.attempts[i].maxPendingReadbacks = 0
        /\ o.attempts[i].deadline = "none"
        /\ o.observations[i] = "" /\ o.replayClaims[i].status = "none"
        /\ o.freshContinuations[i] = "none"
        /\ o.readClaims[i].status = "none" /\ o.readClaims[i].lease = "none"
  BY <1>0 DEF newWorkspaceLaunchReconcileOperation, NoReplay, NoRead
<1>3. 1 \in StageIdx /\ Succeeded # 1 BY StagesAssumption DEF StageIdx, Succeeded
<1>4. Decodes(o)
  <2>1. ASSUME NEW i \in StageIdx
        PROVE  /\ DecodesAttempt(o, i) /\ DecodesReplayClaim(o, i)
               /\ DecodesFreshContinuation(o, i) /\ DecodesReadClaim(o, i)
    <3>1. MaximumPersistedReadbacks(i) \in Nat BY BudgetAssumption DEF MaximumPersistedReadbacks
    <3>1a. 0 <= MaximumPersistedReadbacks(i) /\ 0 <= 0 BY <3>1
    <3>1b. /\ o.attempts[i].maxPendingReadbacks <= MaximumPersistedReadbacks(i)
           /\ o.attempts[i].pendingReadbacks <= o.attempts[i].maxPendingReadbacks
      BY <1>2, <3>1a, Zenon
    <3>1c. /\ o.attempts[i].status = "" /\ o.attempts[i].deadline = "none" /\ o.observations[i] = ""
      BY <1>2
    <3>2. DecodesAttempt(o, i) BY <3>1b, <3>1c DEF DecodesAttempt
    <3>3. DecodesReplayClaim(o, i) BY <1>2 DEF DecodesReplayClaim, NoReplay
    <3>4. DecodesFreshContinuation(o, i) BY <1>2 DEF DecodesFreshContinuation
    <3>5. DecodesReadClaim(o, i) BY <1>2 DEF DecodesReadClaim, NoRead
    <3> QED BY <3>2, <3>3, <3>4, <3>5
  <2> QED BY <1>1, <1>3, <2>1 DEF Decodes
<1>5. Good(o)
  <2>1. ASSUME NEW i \in StageIdx PROVE StageGood(o, i) /\ ReplayGood(o, i)
    <3>1. StageGood(o, i) BY <1>2 DEF StageGood, Untouched, NoReplay
    <3>2. \A g \in Grants(o) : g.replay # 1 BY <1>1, NoGrantReplays DEF Grants
    <3>3. ReplayGood(o, i) BY <1>2, <3>2 DEF ReplayGood, NoReplayGrant, ReplayGrant, NoReplay
    <3> QED BY <3>1, <3>3
  <2>2. GrantGood(o) BY <1>1, NoGrantReplays DEF GrantGood, GrantActive, HasGrant
  <2>3. RowAuthorized(o) BY <1>1, <1>2, <1>3 DEF RowAuthorized, ReadAllowed, Att, Obs
  <2> QED BY <2>1, <2>2, <2>3 DEF Good
<1> QED BY <1>0, <1>4, <1>5

LEMMA AtRestGood == ActorGood(AtRest)
<1>1. AtRest.pc = "idle" /\ AtRest.next = "idle" /\ AtRest.held = FALSE
      /\ AtRest.row = newWorkspaceLaunchReconcileOperation
  BY DEF AtRest
<1> QED BY <1>1, NewRowGood, KnowsIdle DEF ActorGood, Callers, Resumes

\* The handler returns.
LEMMA ReturnJ ==
  ASSUME IInv, JInv, NEW p \in Actors, Return(p), op' = op, Leaves(p), Asked
  PROVE  JInv'
<1>1. AtRest.pc = "idle" BY DEF AtRest
<1> QED BY <1>1, AtRestGood, ActsJ DEF Return

LEMMA QuietLeaves ==
  ASSUME NEW p, Quiet
  PROVE  op' = op /\ Leaves(p) /\ Asked
  BY DEF Quiet, Leaves, Asked

LEMMA QuietReturnJ ==
  ASSUME IInv, JInv, NEW p \in Actors, Return(p), Quiet
  PROVE  JInv'
  BY QuietLeaves, ReturnJ

\* The handler goes on with the row it has.
LEMMA GotoJ ==
  ASSUME IInv, JInv, NEW p \in Actors, NEW c \in PC \ {"persist", "freshRead"},
         op' = op, Leaves(p), Asked, local[p].pc # "persist",
         Knows(Row(p), c, local[p].grant),
         c = "mutate" => Replay(Row(p)).status = "claimed",
         c \in Callers => local[p].pc \in Callers,
         c \in {"repair", "repairing"} => local[p].pc \in {"repair", "repairing"},
         Goto(p, c, Row(p))
  PROVE  JInv'
<1>0. PICK l : l = [local[p] EXCEPT !.pc = c, !.row = Row(p)] OBVIOUS
<1>1. local[p] \in Local /\ ActorGood(local[p]) BY JFacts
<1>2. local' = [local EXCEPT ![p] = l] BY <1>0, JFacts DEF Goto
<1>3. l.pc = c /\ l.row = Row(p) /\ l.next = local[p].next /\ l.held = local[p].held
      /\ l.grant = local[p].grant
  BY <1>0, <1>1 DEF Local, Row
<1>4. ActorGood(l) BY <1>1, <1>3 DEF ActorGood, Row
<1> QED BY <1>2, <1>3, <1>4, ActsJ

\* The handler has made up its mind and is about to persist row n.
LEMMA SaveJ ==
  ASSUME IInv, JInv, NEW p \in Actors, NEW n, NEW c, op' = op, Leaves(p), Asked,
         local[p].pc # "persist", Write(Row(p), n), Good(n), Knows(n, c, local[p].grant),
         Claims(Row(p), n, c), c \notin Resumes, Save(p, n, c)
  PROVE  JInv'
<1>0. PICK l : l = [local[p] EXCEPT !.pc = "persist", !.row = n, !.next = c] OBVIOUS
<1>1. local[p] \in Local /\ ActorGood(local[p]) BY JFacts
<1>2. local' = [local EXCEPT ![p] = l] BY <1>0, JFacts DEF Save
<1>3. l.pc = "persist" /\ l.row = n /\ l.next = c /\ l.held = local[p].held
      /\ l.grant = local[p].grant
  BY <1>0, <1>1 DEF Local
<1>4. l.held => Row(p) = op BY <1>1, <1>3 DEF ActorGood, Row
<1>5. ActorGood(l) BY <1>3, <1>4 DEF ActorGood, Callers
<1> QED BY <1>2, <1>3, <1>5, ActsJ

\* The same, when the pass ends or starts over with the write.
LEMMA EndJ ==
  ASSUME IInv, JInv, NEW p \in Actors, NEW n, NEW c \in {"idle", "admitted", "entry"},
         op' = op, Leaves(p), Asked,
         local[p].pc # "persist", Write(Row(p), n) /\ Good(n), Save(p, n, c)
  PROVE  JInv'
<1>1. Claims(Row(p), n, c) BY DEF Claims
<1>2. Knows(n, c, local[p].grant) /\ c \notin Resumes BY KnowsIdle
<1>3. Write(Row(p), n) /\ Good(n) OBVIOUS
<1> QED BY <1>1, <1>2, <1>3, SaveJ

\* The handler takes up the stored row.
LEMMA TakeJ ==
  ASSUME IInv, JInv, NEW p \in Actors, NEW l, local' = [local EXCEPT ![p] = l],
         op' = op, Leaves(p), Asked, l.row = op, l.pc \notin {"persist", "freshRead", "mutate"},
         Knows(op, l.pc, l.grant), l.next \notin Resumes, l.pc \notin Callers,
         l.pc \in {"repair", "repairing"} => Att(op).attempted = 1
  PROVE  JInv'
<1>1. Decodes(op) /\ Good(op) BY DEF JInv
<1>2. ActorGood(l) BY <1>1 DEF ActorGood, Att
<1> QED BY <1>2, ActsJ

\* What a handler can rely on.
LEMMA RowFacts ==
  ASSUME IInv, JInv, NEW p \in Actors
  PROVE  /\ local[p].pc # "persist" => Knows(Row(p), local[p].pc, local[p].grant)
         /\ local[p].pc \in AtStage => OnStage(Row(p)) /\ local[p].pc # "persist"
         /\ At(p, "entry") /\ Row(p).status # "succeeded" => OnStage(Row(p))
         /\ PendingEntry(p) => OnStage(Row(p))
<1>1. ActorGood(local[p]) BY JFacts
<1>2. local[p].pc # "persist" => Decodes(Row(p)) /\ Good(Row(p)) /\ Knows(Row(p), local[p].pc, local[p].grant)
  BY <1>1 DEF ActorGood, Row
<1>3. local[p].pc \in AtStage => local[p].pc # "persist" BY DEF AtStage
<1> QED BY <1>2, <1>3, WorkingRow DEF OnStage, At, PendingEntry, Working

-----------------------------------------------------------------------------
(* Handlers start and load the row.                                        *)

LEMMA ThinksEnd ==
  ASSUME IInv, JInv, NEW p \in Actors, NEW n, NEW c \in {"idle", "admitted", "entry"}, Thinks,
         local[p].pc # "persist", Write(Row(p), n) /\ Good(n), Save(p, n, c)
  PROVE  JInv'
<1>1. op' = op /\ Leaves(p) /\ Asked BY QuietLeaves DEF Thinks
<1> QED BY <1>1, EndJ

LEMMA ThinksGoto ==
  ASSUME IInv, JInv, NEW p \in Actors, NEW c \in PC \ {"persist", "freshRead", "repair", "repairing"},
         Quiet, local[p].pc # "persist", Knows(Row(p), c, local[p].grant),
         c = "mutate" => Replay(Row(p)).status = "claimed",
         c \in Callers => local[p].pc \in Callers, Goto(p, c, Row(p))
  PROVE  JInv'
<1>1. op' = op /\ Leaves(p) /\ Asked BY QuietLeaves
<1> QED BY <1>1, GotoJ

LEMMA AdmitsJ ==
  ASSUME IInv, JInv, NEW p \in Actors, At(p, "idle"), Goto(p, "admitted", Row(p)), Quiet
  PROVE  JInv'
<1>1. Knows(Row(p), "admitted", local[p].grant) BY KnowsIdle
<1> QED BY <1>1, ThinksGoto DEF At, PC, Callers

LEMMA StartsAgainJ ==
  ASSUME IInv, JInv, NEW p \in Actors,
         ListPending(p) \/ CustomerContinues(p) \/ ResumeAgain(p) \/ RepairAgain(p)
  PROVE  JInv'
  BY AdmitsJ DEF ListPending, CustomerContinues, ResumeAgain, RepairAgain, Thinks

LEMMA LoadJ ==
  ASSUME IInv, JInv, NEW p \in Actors, Load(p) PROVE JInv'
<1>0. PICK l : l = [local[p] EXCEPT !.pc = "entry", !.row = op, !.held = TRUE] OBVIOUS
<1>1. local[p] \in Local /\ ActorGood(local[p]) BY JFacts
<1>2. local' = [local EXCEPT ![p] = l] BY <1>0, JFacts DEF Load
<1>3. l.pc = "entry" /\ l.row = op /\ l.next = local[p].next BY <1>0, <1>1 DEF Local
<1>4. op' = op /\ Leaves(p) /\ Asked BY QuietLeaves DEF Load
<1>5. Knows(op, l.pc, l.grant) BY <1>3, KnowsIdle
<1>6. l.next \notin Resumes BY <1>1, <1>3 DEF ActorGood
<1> QED BY <1>2, <1>3, <1>4, <1>5, <1>6, TakeJ DEF Callers

LEMMA RepairBeginsJ ==
  ASSUME IInv, JInv, NEW p \in Actors, RepairBegins(p) PROVE JInv'
<1>0. PICK l : l = [local[p] EXCEPT !.pc = "repair", !.row = op, !.held = TRUE] OBVIOUS
<1>1. local[p] \in Local /\ ActorGood(local[p]) BY JFacts
<1>2. local' = [local EXCEPT ![p] = l] BY <1>0, JFacts DEF RepairBegins
<1>3. l.pc = "repair" /\ l.row = op /\ l.next = local[p].next BY <1>0, <1>1 DEF Local
<1>4. op' = op /\ Leaves(p) /\ Asked BY QuietLeaves DEF RepairBegins
<1>5. Knows(op, l.pc, l.grant) BY <1>3 DEF Knows, RepairBegins, Plain, Fresh, Resumes
<1>6. l.next \notin Resumes BY <1>1, <1>3 DEF ActorGood
<1>7. Att(op).attempted = 1 BY DEF RepairBegins, RuntimeRepairEligible
<1> QED BY <1>2, <1>3, <1>4, <1>5, <1>6, <1>7, TakeJ DEF Callers

\* What the budgets of a request are.
LEMMA GrantsForFacts ==
  ASSUME NEW o \in Operation, o.stage \in StageIdx, NEW n \in Nat, NEW g \in GrantsFor(o, n)
  PROVE  /\ g \in Grant /\ g.id = n /\ g.stage = o.stage
         /\ g.mutation = 1 => g.replay = 0
         /\ g.mutation = 0 => g.reads > 0
<1>0. g \in Grant BY GrantsForType
<1>1. o.stage \in Nat BY StageIdxType
<1>2. ReadBudget \in Nat \ {0} /\ ComputeReads \in Nat \ {0} BY BudgetAssumption
<1>3. CASE g = [NoGrant EXCEPT !.id = n, !.stage = o.stage, !.mutation = 1]
  BY <1>0, <1>1, <1>3 DEF NoGrant
<1>4. CASE \E r \in {0, 1}, b \in {ReadBudget, ComputeReads} :
             g = [id |-> n, stage |-> o.stage, mutation |-> 0, replay |-> r,
                  reads |-> b, readbacks |-> 0]
  <2>1. PICK r \in {0, 1}, b \in {ReadBudget, ComputeReads} :
             g = [id |-> n, stage |-> o.stage, mutation |-> 0, replay |-> r,
                  reads |-> b, readbacks |-> 0]
    BY <1>4
  <2>2. b > 0 BY <1>2
  <2> QED BY <1>0, <2>1, <2>2
<1> QED BY <1>3, <1>4 DEF GrantsFor

\* A request that was found eligible asks for a new authorization.
LEMMA EligibleNew ==
  ASSUME NEW o, OnStage(o), NEW n \in Nat, NEW g \in GrantsFor(o, n), n \notin GrantIds(o),
         \/ UnknownComputeContinuationEligible(o, g)
         \/ g.replay = 0
         \/ ReservedStageReplayEligible(o, g) /\ ~FreshActive(o)
  PROVE  NewFor(o, g)
<1>1. o \in Operation /\ o.stage \in StageIdx /\ Att(o) \in Attempt BY StageFacts
<1>2. g \in Grant /\ g.id \notin GrantIds(o) /\ g.stage = o.stage BY <1>1, GrantsForFacts
<1>3. CASE g.replay = 0 BY <1>2, <1>3 DEF NewFor
<1>4. CASE ReservedStageReplayEligible(o, g) /\ ~FreshActive(o)
  <2>1. Att(o).attempted = 1 /\ CurFresh(o) = "none"
    BY <1>4, StageFacts DEF ReservedStageReplayEligible
  <2>2. \A h \in Grants(o) : ~ReplayGrant(h, o.stage)
    BY <1>4 DEF ReservedStageReplayEligible, idempotentReplayAuthorizationUsed, Grants, ReplayGrant
  <2> QED BY <1>2, <2>1, <2>2 DEF NewFor
<1>5. CASE UnknownComputeContinuationEligible(o, g)
  <2>1. Att(o).attempted = 1 /\ CurFresh(o) = "none"
    BY <1>5 DEF UnknownComputeContinuationEligible, CurFresh
  <2>2. CASE ~idempotentReplayAuthorizationUsed(o)
    <3>1. \A h \in Grants(o) : ~ReplayGrant(h, o.stage)
      BY <2>2 DEF idempotentReplayAuthorizationUsed, Grants, ReplayGrant
    <3> QED BY <1>2, <2>1, <3>1 DEF NewFor
  <2>3. CASE FailedComputeReplayReauthorizationEligible(o)
    <3>1. o.consumedAuthorizations = {} BY <2>3 DEF FailedComputeReplayReauthorizationEligible
    <3>2. \A h, k \in Grants(o) : h = k BY <3>1 DEF Grants
    <3> QED BY <1>2, <2>1, <3>2 DEF NewFor
  <2> QED BY <1>5, <2>2, <2>3 DEF UnknownComputeContinuationEligible
<1> QED BY <1>3, <1>4, <1>5

\* The stored row of a parked launch is at a stage.
LEMMA ParkedOnStage ==
  ASSUME IInv, JInv, op.status = "manual_review"
  PROVE  OnStage(op) /\ ~FreshActive(op)
<1>1. op \in Operation /\ StageMatchesStatus(op) BY DEF IInv, TypeOK
<1>2. op.stage \in 1..Succeeded /\ op.stage # Succeeded BY <1>1 DEF Operation, StageMatchesStatus
<1>3. op.stage \in StageIdx BY <1>2, StagesAssumption DEF StageIdx, Succeeded
<1>4. OnStage(op) BY <1>1, <1>3 DEF OnStage, JInv
<1>5. DecodesFreshContinuation(op, op.stage) BY <1>3 DEF JInv, Decodes
<1> QED BY <1>4, <1>5 DEF DecodesFreshContinuation, FreshActive

LEMMA ResumeJ ==
  ASSUME IInv, JInv, NEW p \in Actors, Resume(p) PROVE JInv'
<1>1. OnStage(op) /\ ~FreshActive(op) /\ op.status = "manual_review" BY ParkedOnStage DEF Resume
<1>2. op' = op /\ Leaves(p) /\ Asked BY QuietLeaves DEF Resume, Thinks
<1>3. local[p] \in Local /\ ActorGood(local[p]) /\ local \in [Actors -> Local] BY JFacts
<1>4. op \in Operation /\ op.stage \in StageIdx BY <1>1 DEF OnStage
<1> DEFINE Visits(c, g) == local' = [local EXCEPT ![p].pc = c, ![p].row = op,
                                              ![p].held = TRUE, ![p].grant = g]
           Writes(g) == local' = [local EXCEPT ![p].pc = "persist", ![p].next = "admitted",
                                ![p].row = [rotateResumeAuthorization(op, g) EXCEPT !.status = "pending"],
                                ![p].held = TRUE]
           Takes(g) == \/ UnknownComputeContinuationEligible(op, g) /\ Visits("resumeCompute", g)
                       \/ UnknownRuntimeReadEligible(op, g) /\ Visits("resumeRuntime", g)
                       \/ /\ Att(op).attempted = 1
                          /\ ReservedStageReplayEligible(op, g) \/ ReservedStageReadEligible(op, g)
                          /\ Visits("resumeExhausted", g)
                       \/ Att(op).attempted = 0 /\ g.mutation = 1 /\ Writes(g)
<1>5a. PICK n \in 1..MaxGrants : \E g \in GrantsFor(op, n) : NewGrantId(op, n) /\ Takes(g)
  BY DEF Resume
<1>5. PICK g \in GrantsFor(op, n) : NewGrantId(op, n) /\ Takes(g) BY <1>5a
<1>6. n \in Nat /\ n # 0 /\ n \notin GrantIds(op) BY <1>5, BudgetAssumption DEF NewGrantId
<1>7. g \in Grant /\ g.id = n /\ g.stage = op.stage /\ (g.mutation = 1 => g.replay = 0)
  BY <1>4, <1>6, GrantsForFacts
<1>8. ASSUME NEW c \in Resumes, ResumeKnows(op, c, g),
             Visits(c, g)
      PROVE  JInv'
  <2>0. PICK l : l = [local[p] EXCEPT !.pc = c, !.row = op, !.held = TRUE, !.grant = g] OBVIOUS
  <2>1. local' = [local EXCEPT ![p] = l] BY <1>3, <1>8, <2>0
  <2>2. l.pc = c /\ l.row = op /\ l.next = local[p].next /\ l.grant = g BY <1>3, <2>0 DEF Local
  <2>3. Knows(op, l.pc, l.grant) BY <1>8, <2>2 DEF Knows, Plain, Fresh, Resumes
  <2>4. l.next \notin Resumes BY <1>3, <2>2 DEF ActorGood
  <2>5. l.pc \notin {"persist", "freshRead", "mutate", "repair", "repairing"} /\ l.pc \notin Callers
    BY <2>2 DEF Resumes, Callers
  <2> QED BY <1>2, <2>1, <2>2, <2>3, <2>4, <2>5, TakeJ
<1>9. ASSUME Att(op).attempted = 0, g.mutation = 1,
             Writes(g)
      PROVE  JInv'
  <2>0. PICK m, l : /\ m = [rotateResumeAuthorization(op, g) EXCEPT !.status = "pending"]
                    /\ l = [local[p] EXCEPT !.pc = "persist", !.next = "admitted", !.row = m, !.held = TRUE]
    OBVIOUS
  <2>1. local' = [local EXCEPT ![p] = l] BY <1>3, <1>9, <2>0
  <2>2. l.pc = "persist" /\ l.row = m /\ l.next = "admitted" /\ l.grant = local[p].grant
    BY <1>3, <2>0 DEF Local
  <2>3. NewFor(op, g) BY <1>1, <1>5, <1>6, <1>7, <1>9, EligibleNew
  <2>4. Write(op, m) /\ Good(m) BY <1>1, <1>7, <1>9, <2>0, <2>3, RotateGood
  <2>5. Claims(op, m, "admitted") /\ Knows(m, "admitted", l.grant) /\ "admitted" \notin Resumes
    BY KnowsIdle DEF Claims
  <2>6. ActorGood(l) BY <2>2, <2>4, <2>5 DEF ActorGood, Callers
  <2> QED BY <1>2, <2>1, <2>2, <2>6, ActsJ
<1>10. g.id # 0 /\ g.id \notin GrantIds(op) /\ g \in GrantsFor(op, g.id) BY <1>5, <1>6, <1>7
<1> HIDE DEF Visits, Writes
<1>11. CASE UnknownComputeContinuationEligible(op, g) /\ Visits("resumeCompute", g)
  BY <1>1, <1>8, <1>10, <1>11 DEF ResumeKnows, Resumes
<1>12. CASE UnknownRuntimeReadEligible(op, g) /\ Visits("resumeRuntime", g)
  BY <1>1, <1>8, <1>10, <1>12 DEF ResumeKnows, Resumes
<1>13. CASE /\ Att(op).attempted = 1
            /\ ReservedStageReplayEligible(op, g) \/ ReservedStageReadEligible(op, g)
            /\ Visits("resumeExhausted", g)
  BY <1>1, <1>8, <1>10, <1>13 DEF ResumeKnows, Resumes
<1>14. CASE Att(op).attempted = 0 /\ g.mutation = 1 /\ Writes(g)
  BY <1>9, <1>14
<1> QED BY <1>5, <1>11, <1>12, <1>13, <1>14

-----------------------------------------------------------------------------
(* Reconcile.                                                              *)

LEMMA EntryJ ==
  ASSUME IInv, JInv, NEW p \in Actors, EntryReset(p) \/ EntryReturn(p) \/ EntryRead(p) \/ EntryPutAside(p)
  PROVE  JInv'
<1>1. CASE EntryReset(p)
  <2>1. At(p, "entry") /\ InRecoverableReview(Row(p)) /\ Save(p, ResetStage(Row(p)), "entry") /\ Thinks
    BY <1>1 DEF EntryReset
  <2>2. OnStage(Row(p)) /\ local[p].pc # "persist" BY <2>1, RowFacts DEF InRecoverableReview, At
  <2>3. Write(Row(p), ResetStage(Row(p))) /\ Good(ResetStage(Row(p))) BY <2>1, <2>2, ResetGood
  <2> QED BY <2>1, <2>2, <2>3, ThinksEnd
<1>2. CASE EntryReturn(p) BY <1>2, QuietReturnJ DEF EntryReturn
<1>3. CASE EntryRead(p)
  <2>1. PendingEntry(p) /\ ~FreshActive(Row(p)) /\ Goto(p, "read", Row(p)) /\ Quiet
    BY <1>3 DEF EntryRead, Thinks
  <2>2. Knows(Row(p), "read", local[p].grant)
    BY <2>1 DEF PendingEntry, Knows, Plain, Fresh, Resumes
  <2>3. "read" \in PC \ {"persist", "freshRead", "repair", "repairing"} /\ "read" \notin Callers
    BY DEF PC, Callers
  <2>4. local[p].pc # "persist" BY <2>1 DEF PendingEntry, At
  <2> QED BY <2>1, <2>2, <2>3, <2>4, ThinksGoto
<1>4. CASE EntryPutAside(p)
  <2>1. PICK n : n = [Row(p) EXCEPT !.status = "manual_review"] OBVIOUS
  <2>2. PendingEntry(p) /\ Save(p, n, "idle") /\ Thinks BY <1>4, <2>1 DEF EntryPutAside
  <2>3. OnStage(Row(p)) /\ local[p].pc # "persist" BY <2>2, RowFacts DEF PendingEntry, At
  <2>4. Write(Row(p), n) /\ Good(n) BY <2>1, <2>3, PutAsideGood
  <2> QED BY <2>2, <2>3, <2>4, ThinksEnd
<1> QED BY <1>1, <1>2, <1>3, <1>4

\* Where a plain pass is.
LEMMA PlainFacts ==
  ASSUME IInv, JInv, NEW p \in Actors, local[p].pc \in Plain
  PROVE  /\ OnStage(Row(p)) /\ local[p].pc # "persist"
         /\ Row(p).status = "pending" /\ ~FreshActive(Row(p))
         /\ Att(Row(p)) \in Attempt
         /\ Att(Row(p)).status = "reserved" => Att(Row(p)).attempted = 1
         /\ Att(Row(p)).status \in {"confirmed", "unknown"} => Att(Row(p)).attempted = 1
<1>1. local[p].pc \in AtStage BY DEF Plain, AtStage, PC
<1>2. OnStage(Row(p)) /\ local[p].pc # "persist" /\ Knows(Row(p), local[p].pc, local[p].grant)
  BY <1>1, RowFacts
<1> QED BY <1>2, StageFacts DEF Knows

\* An attempt that becomes unknown, or stays.
LEMMA UnknownWrites ==
  ASSUME NEW a \in Attempt
  PROVE  /\ Unknown(a) \in Attempt /\ Unknown(a).attempted = a.attempted
         /\ Unknown(a).pendingReadbacks = a.pendingReadbacks /\ Unknown(a).status = "unknown"
         /\ a.pendingReadbacks >= a.pendingReadbacks
<1>1. a.pendingReadbacks \in Nat BY DEF Attempt
<1>2. a.pendingReadbacks >= a.pendingReadbacks BY <1>1
<1>3. Unknown(a) \in Attempt /\ Unknown(a).attempted = a.attempted BY DEF Unknown, Attempt, AttemptStatus
<1>4. Unknown(a).pendingReadbacks = a.pendingReadbacks /\ Unknown(a).status = "unknown"
  BY DEF Unknown, Attempt
<1> QED BY <1>2, <1>3, <1>4

LEMMA ParkUnknownGood ==
  ASSUME NEW o, OnStage(o), NEW a, a = Att(o) \/ a = Unknown(Att(o))
  PROVE  Write(o, ParkStage(o, a, "unknown")) /\ Good(ParkStage(o, a, "unknown"))
<1>1. Att(o) \in Attempt /\ (Att(o).status = "reserved" => Att(o).attempted = 1) BY StageFacts
<1>2. a \in Attempt /\ a.attempted = Att(o).attempted /\ a.pendingReadbacks >= Att(o).pendingReadbacks
      /\ (a.status = "reserved" => a.attempted = 1)
  BY <1>1, UnknownWrites
<1> QED BY <1>2, ParkGood

LEMMA ReadReturnsJ ==
  ASSUME IInv, JInv, NEW p \in Actors,
         ReconcileUnreadable(p) \/ ReplayNotDispatched(p) \/ MutateUnavailable(p) \/ FactsRefused(p)
  PROVE  JInv'
  BY QuietReturnJ DEF ReconcileUnreadable, ReplayNotDispatched, MutateUnavailable, FactsRefused

LEMMA ReadyJ ==
  ASSUME IInv, JInv, NEW p \in Actors, ReconcileReady(p) \/ PostReady(p) \/ ReplayReadReady(p)
  PROVE  JInv'
<1>1. PICK n : n = ConfirmStage(Row(p)) OBVIOUS
<1>2. local[p].pc \in Plain /\ Save(p, n, "idle") /\ Thinks
  BY <1>1 DEF ReconcileReady, PostReady, ReplayReadReady, At, Plain
<1>3. OnStage(Row(p)) /\ local[p].pc # "persist" /\ Row(p).status = "pending" BY <1>2, PlainFacts
<1>4. Write(Row(p), n) /\ Good(n) BY <1>1, <1>3, ConfirmGood
<1> QED BY <1>2, <1>3, <1>4, ThinksEnd

LEMMA ReadUnknownJ ==
  ASSUME IInv, JInv, NEW p \in Actors, ReconcileUnknown(p) \/ PostUnknown(p) \/ ReplayReadUnknown(p)
  PROVE  JInv'
<1>1. PICK a : /\ a = Att(Row(p)) \/ a = Unknown(Att(Row(p)))
               /\ local[p].pc \in Plain /\ Save(p, ParkStage(Row(p), a, "unknown"), "idle") /\ Thinks
  <2>1. CASE ReconcileUnknown(p) BY <2>1 DEF ReconcileUnknown, At, Plain
  <2>2. CASE PostUnknown(p) BY <2>2 DEF PostUnknown, At, Plain
  <2>3. CASE ReplayReadUnknown(p) BY <2>3 DEF ReplayReadUnknown, parkClaimedReplay, At, Plain
  <2> QED BY <2>1, <2>2, <2>3
<1>2. PICK n : n = ParkStage(Row(p), a, "unknown") OBVIOUS
<1>3. OnStage(Row(p)) /\ local[p].pc # "persist" BY <1>1, PlainFacts
<1>4. Write(Row(p), n) /\ Good(n) BY <1>1, <1>2, <1>3, ParkUnknownGood
<1> QED BY <1>1, <1>2, <1>3, <1>4, ThinksEnd

LEMMA ReconcilePendingJ ==
  ASSUME IInv, JInv, NEW p \in Actors, ReconcilePending(p) PROVE JInv'
<1>1. PICK n : n = IF MayKeepReading(Row(p)) THEN CountReadback(Row(p), "pending")
                                             ELSE ParkStage(Row(p), Att(Row(p)), "unknown")
  OBVIOUS
<1>2. local[p].pc \in Plain /\ Save(p, n, "idle") /\ Thinks
  BY <1>1 DEF ReconcilePending, At, Plain
<1>3. OnStage(Row(p)) /\ local[p].pc # "persist" /\ Row(p).status = "pending" BY <1>2, PlainFacts
<1>4. Write(Row(p), n) /\ Good(n)
  <2>1. CASE MayKeepReading(Row(p)) BY <1>1, <1>3, <2>1, CountGood
  <2>2. CASE ~MayKeepReading(Row(p)) BY <1>1, <1>3, <2>2, ParkUnknownGood
  <2> QED BY <2>1, <2>2
<1> QED BY <1>2, <1>3, <1>4, ThinksEnd

LEMMA ReconcileOwnershipPendingJ ==
  ASSUME IInv, JInv, NEW p \in Actors, ReconcileOwnershipPending(p) PROVE JInv'
<1>0. local[p].pc \in Plain /\ Thinks BY DEF ReconcileOwnershipPending, At, Plain
<1>1. OnStage(Row(p)) /\ local[p].pc # "persist" /\ Row(p).status = "pending" BY <1>0, PlainFacts
<1>2. PICK n : /\ Save(p, n, "idle")
               /\ \/ n = ParkStage(Row(p), Att(Row(p)), "unknown")
                  \/ n = CountReadback(Row(p), "ownership_pending") /\ MayKeepReading(Row(p))
                  \/ n = SetAside(Row(p), "unknown")
  BY DEF ReconcileOwnershipPending
<1>3. Write(Row(p), n) /\ Good(n)
  <2>1. CASE n = ParkStage(Row(p), Att(Row(p)), "unknown") BY <1>1, <2>1, ParkUnknownGood
  <2>2. CASE n = CountReadback(Row(p), "ownership_pending") /\ MayKeepReading(Row(p))
    BY <1>1, <2>2, CountGood
  <2>3. CASE n = SetAside(Row(p), "unknown") BY <1>1, <2>3, SetAsideGood
  <2> QED BY <1>2, <2>1, <2>2, <2>3
<1> QED BY <1>0, <1>1, <1>2, <1>3, ThinksEnd

LEMMA ReconcileAbsentParksJ ==
  ASSUME IInv, JInv, NEW p \in Actors, ReconcileAbsentParks(p) PROVE JInv'
<1>0. local[p].pc \in Plain /\ Thinks BY DEF ReconcileAbsentParks, At, Plain
<1>1. OnStage(Row(p)) /\ local[p].pc # "persist" BY <1>0, PlainFacts
<1>2. PICK n : /\ Save(p, n, "idle")
               /\ \/ n = ParkStage(Row(p), Unknown(Att(Row(p))), "unknown")
                  \/ n = SetAside(Row(p), "absent")
  BY DEF ReconcileAbsentParks, parkClaimedReplay
<1>3. Write(Row(p), n) /\ Good(n)
  <2>1. CASE n = ParkStage(Row(p), Unknown(Att(Row(p))), "unknown") BY <1>1, <2>1, ParkUnknownGood
  <2>2. CASE n = SetAside(Row(p), "absent") BY <1>1, <2>2, SetAsideGood
  <2> QED BY <1>2, <2>1, <2>2
<1> QED BY <1>0, <1>1, <1>2, <1>3, ThinksEnd

LEMMA ReplayClaimedJ ==
  ASSUME IInv, JInv, NEW p \in Actors, ReplayClaimed(p) PROVE JInv'
<1>0. PICK o, m, id, n : /\ o = Row(p) /\ m = ReplayObserved(p) /\ id = o.resumeAuthorization.id
                         /\ n = ClaimReplay(m, id)
  OBVIOUS
<1>1. /\ local[p].pc \in Plain /\ Thinks /\ Save(p, n, "replayRead") /\ IdempotentReplayAuthorized(o)
      /\ Replay(o).status = "none" \/ Replay(o).authorization = id
  BY <1>0 DEF ReplayClaimed, ReplayReached, At, Plain
<1>2. OnStage(o) /\ local[p].pc # "persist" /\ o.status = "pending" /\ ~FreshActive(o)
  BY <1>0, <1>1, PlainFacts
<1>3. o \in Operation /\ o.stage \in StageIdx BY <1>2 DEF OnStage
<1>4. id \in Nat /\ Att(o).attempted = 1
  BY <1>0, <1>1, <1>3 DEF Operation, Grant, IdempotentReplayAuthorized
<1>5. PICK s : /\ s = Obs(o) \/ s = "ownership_pending"
               /\ Updates(o, m, Att(o), s, Replay(o), CurFresh(o)) /\ Stayed(o, m, o.status)
               /\ SameRest(o, m) /\ m.authorizationConsumed = o.authorizationConsumed
  <2>1. CASE m = o
    <3>1. Updates(o, o, Att(o), Obs(o), Replay(o), CurFresh(o)) BY <1>3 DEF Updates, Att, Obs, Replay, CurFresh, Operation
    <3> QED BY <2>1, <3>1 DEF Stayed, SameRest, SameGrants
  <2>2. CASE m = SetObs(o, "ownership_pending") BY <1>3, <2>2, SetObsWrites, NotReadyWords
  <2> QED BY <1>0, <2>1, <2>2 DEF ReplayObserved
<1>6. /\ Write(o, n) /\ Good(n)
      /\ Updates(o, n, Att(o), s, [status |-> "claimed", authorization |-> id, lease |-> "live"], CurFresh(o))
      /\ Stayed(o, n, o.status) /\ SameRest(o, n)
      /\ n.authorizationConsumed = o.authorizationConsumed
  BY <1>0, <1>1, <1>2, <1>4, <1>5, ClaimGood
<1>7. Knows(n, "replayRead", local[p].grant)
  <2>1. n.stage = o.stage /\ n.status = "pending" /\ n.resumeAuthorization = o.resumeAuthorization
    BY <1>2, <1>6 DEF Stayed, SameRest, SameGrants
  <2>2. Att(n) = Att(o) /\ Replay(n) = [status |-> "claimed", authorization |-> id, lease |-> "live"]
        /\ n.freshContinuations[n.stage] = CurFresh(o)
    BY <1>3, <1>6, <2>1, UpdatesAt DEF Att, Replay
  <2>3. ~FreshActive(n) BY <1>2, <2>2 DEF FreshActive, CurFresh
  <2>4. IdempotentReplayAuthorized(n)
    BY <1>1, <1>6, <2>1, <2>2 DEF IdempotentReplayAuthorized, GrantActive, HasGrant
  <2>5. ReplayClaimOpen(n) BY <1>0, <2>1, <2>2, <2>4 DEF ReplayClaimOpen
  <2> QED BY <2>1, <2>3, <2>5 DEF Knows, Plain, Fresh, Resumes
<1>8. Claims(o, n, "replayRead") /\ "replayRead" \notin Resumes BY DEF Claims, Resumes
<1>9. op' = op /\ Leaves(p) /\ Asked BY <1>1, QuietLeaves DEF Thinks
<1> QED BY <1>0, <1>1, <1>2, <1>6, <1>7, <1>8, <1>9, SaveJ

LEMMA ReconcileReserveJ ==
  ASSUME IInv, JInv, NEW p \in Actors, ReconcileReserve(p) PROVE JInv'
<1>0. PICK o, n : o = Row(p) /\ n = ReserveStage(o) OBVIOUS
<1>1. local[p].pc \in Plain /\ Thinks /\ Save(p, n, "mutate") /\ Att(o).attempted = 0
  BY <1>0 DEF ReconcileReserve, At, Plain
<1>2. OnStage(o) /\ local[p].pc # "persist" /\ o.status = "pending" BY <1>0, <1>1, PlainFacts
<1>3. Write(o, n) /\ Good(n) /\ Knows(n, "mutate", NoGrant) BY <1>0, <1>1, <1>2, ReserveGood
<1>4. Claims(o, n, "mutate") /\ "mutate" \notin Resumes BY <1>1 DEF Claims, Resumes
<1>5. Knows(n, "mutate", local[p].grant) BY <1>3, <1>4, KnowsAnyGrant
<1>6. op' = op /\ Leaves(p) /\ Asked BY <1>1, QuietLeaves DEF Thinks
<1> QED BY <1>0, <1>1, <1>2, <1>3, <1>4, <1>5, <1>6, SaveJ

-----------------------------------------------------------------------------
(* mutateReservedStage and the replay of a reserved stage.                 *)

LEMMA DispatchedAsks ==
  ASSUME IInv, NEW o, o.stage \in StageIdx, sent' = Dispatched(o)
  PROVE  (Dispatches(o.stage))'
<1>1. sent \in [StageIdx -> [first : {0, 1, 2}, replays : SUBSET Nat]] BY DEF IInv, TypeOK
<1>2. CASE Replay(o).status = "claimed"
  <2>1. sent' = [sent EXCEPT ![o.stage].replays = @ \cup {Replay(o).authorization}]
    BY <1>2 DEF Dispatched
  <2>2. sent'[o.stage].replays = sent[o.stage].replays \cup {Replay(o).authorization} BY <1>1, <2>1
  <2>3. sent'[o.stage].replays # {} BY <2>2
  <2> QED BY <2>3 DEF Dispatches
<1>3. CASE Replay(o).status # "claimed"
  <2>1. sent' = [sent EXCEPT ![o.stage].first = IF @ < 2 THEN @ + 1 ELSE 2] BY <1>3 DEF Dispatched
  <2>2. sent'[o.stage].first = IF sent[o.stage].first < 2 THEN sent[o.stage].first + 1 ELSE 2
    BY <1>1, <2>1
  <2>3. sent[o.stage].first \in {0, 1, 2} BY <1>1
  <2>4. sent'[o.stage].first > 0 BY <2>2, <2>3
  <2> QED BY <2>4 DEF Dispatches
<1> QED BY <1>2, <1>3

LEMMA CallJ ==
  ASSUME IInv, JInv, NEW p \in Actors, local[p].pc \in {"mutate", "convergeMutate"},
         NEW c \in {"postRead", "convergePostRead"}, Knows(Row(p), c, local[p].grant),
         NEW w, world' = [world EXCEPT ![Row(p).stage] = w],
         sent' = Dispatched(Row(p)), Goto(p, c, Row(p)),
         op' = op, gets' = gets, repairs' = repairs
  PROVE  JInv'
<1>1. local[p].pc \in AtStage BY DEF AtStage, PC
<1>2. Row(p).stage \in StageIdx /\ local[p].pc # "persist" BY <1>1, RowFacts DEF OnStage
<1>3. PICK o : o = Row(p) OBVIOUS
<1>4. (Dispatches(o.stage))' BY <1>2, <1>3, DispatchedAsks
<1>4a. \A i \in StageIdx : i # o.stage => world'[i] = world[i] BY <1>3, JFacts
<1>5. Asked BY <1>4, <1>4a DEF Asked
<1>6. Leaves(p) BY DEF Leaves
<1>7. c \in PC \ {"persist", "freshRead"} /\ c \notin Callers BY DEF PC, Callers
<1> QED BY <1>2, <1>5, <1>6, <1>7, GotoJ

LEMMA MutateJ ==
  ASSUME IInv, JInv, NEW p \in Actors, Mutate(p) \/ ConvergeMutate(p) PROVE JInv'
<1>1. CASE Mutate(p)
  <2>1. local[p].pc = "mutate" BY <1>1 DEF Mutate, At
  <2>2. Knows(Row(p), "mutate", local[p].grant) BY <2>1, RowFacts
  <2>3. Knows(Row(p), "postRead", local[p].grant) BY <2>2 DEF Knows, Plain, Fresh, Resumes
  <2>4. PICK w : world' = [world EXCEPT ![Row(p).stage] = w] BY <1>1 DEF Mutate
  <2> QED BY <1>1, <2>1, <2>3, <2>4, CallJ DEF Mutate
<1>2. CASE ConvergeMutate(p)
  <2>1. local[p].pc = "convergeMutate" BY <1>2 DEF ConvergeMutate, At
  <2>2. Knows(Row(p), "convergeMutate", local[p].grant) BY <2>1, RowFacts
  <2>3. Knows(Row(p), "convergePostRead", local[p].grant) BY <2>2 DEF Knows, Plain, Fresh, Resumes
  <2>4. PICK w : world' = [world EXCEPT ![Row(p).stage] = w] BY <1>2 DEF ConvergeMutate
  <2> QED BY <1>2, <2>1, <2>3, <2>4, CallJ DEF ConvergeMutate
<1> QED BY <1>1, <1>2

LEMMA MutateRefusedJ ==
  ASSUME IInv, JInv, NEW p \in Actors, MutateRefused(p) PROVE JInv'
<1>1. local[p].pc = "mutate" /\ Goto(p, "refusedRead", Row(p)) /\ Quiet
  BY DEF MutateRefused, At, Thinks
<1>2. Knows(Row(p), "mutate", local[p].grant) BY <1>1, RowFacts
<1>3. Knows(Row(p), "refusedRead", local[p].grant) BY <1>2 DEF Knows, Plain, Fresh, Resumes
<1> QED BY <1>1, <1>3, ThinksGoto DEF PC, Callers

LEMMA ReplayReadRepeatsJ ==
  ASSUME IInv, JInv, NEW p \in Actors, ReplayReadRepeats(p) PROVE JInv'
<1>1. local[p].pc = "replayRead" /\ Goto(p, "mutate", Row(p)) /\ Quiet
  BY DEF ReplayReadRepeats, At, Thinks
<1>2. Knows(Row(p), "replayRead", local[p].grant) BY <1>1, RowFacts
<1>3. Knows(Row(p), "mutate", local[p].grant) /\ Replay(Row(p)).status = "claimed"
  BY <1>2 DEF Knows, Plain, Fresh, Resumes, ReplayClaimOpen
<1> QED BY <1>1, <1>3, ThinksGoto DEF PC, Callers

LEMMA PostPendingJ ==
  ASSUME IInv, JInv, NEW p \in Actors, PostPending(p) \/ ReplayReadPending(p) PROVE JInv'
<1>0. PICK o : o = Row(p) OBVIOUS
<1>1a. PICK s \in {"pending", "ownership_pending"} : \E n :
        /\ local[p].pc \in {"postRead", "replayRead"} /\ Save(p, n, "idle") /\ Thinks
        /\ \/ n = waitClaimedReplay(o, s) /\ (local[p].pc = "postRead" => Replay(o).status # "none")
           \/ /\ n = BeginFreshContinuation(o, s)
              /\ local[p].pc = "postRead" /\ Replay(o).status = "none"
  BY <1>0 DEF PostPending, ReplayReadPending, At
<1>1. PICK n :
        /\ local[p].pc \in {"postRead", "replayRead"} /\ Save(p, n, "idle") /\ Thinks
        /\ \/ n = waitClaimedReplay(o, s) /\ (local[p].pc = "postRead" => Replay(o).status # "none")
           \/ /\ n = BeginFreshContinuation(o, s)
              /\ local[p].pc = "postRead" /\ Replay(o).status = "none"
  BY <1>1a
<1>2. local[p].pc \in Plain BY <1>1 DEF Plain
<1>3. OnStage(o) /\ local[p].pc # "persist" /\ o.status = "pending" /\ ~FreshActive(o)
  BY <1>0, <1>2, PlainFacts
<1>4. Knows(o, local[p].pc, local[p].grant) BY <1>0, <1>3, RowFacts
<1>5. /\ local[p].pc = "postRead" => ReplayClaimOpen(o) \/ FirstAttempt(o)
      /\ local[p].pc = "replayRead" => ReplayClaimOpen(o)
  BY <1>4 DEF Knows
<1>6. ReplayClaimOpen(o) => Replay(o).status = "claimed" /\ Att(o).attempted = 1 /\ Att(o).status = "reserved"
  BY DEF ReplayClaimOpen, IdempotentReplayAuthorized
<1>7. FirstAttempt(o) => /\ Att(o).attempted = 1 /\ Att(o).status = "reserved"
                         /\ ResourceBilling => Replay(o).status = "none"
  BY DEF FirstAttempt, Lasting
<1>8. Write(o, n) /\ Good(n)
  <2>1. CASE n = waitClaimedReplay(o, s) /\ (local[p].pc = "postRead" => Replay(o).status # "none")
    <3>1. Att(o).attempted = 1 /\ Att(o).status = "reserved" /\ (ResourceBilling => ReplayClaimOpen(o))
      BY <1>1, <1>5, <1>6, <1>7, <2>1
    <3> QED BY <1>3, <2>1, <3>1, WaitGood
  <2>2. CASE n = BeginFreshContinuation(o, s) /\ local[p].pc = "postRead" /\ Replay(o).status = "none"
    BY <1>3, <1>5, <1>6, <2>2, BeginFreshGood
  <2> QED BY <1>1, <2>1, <2>2
<1> QED BY <1>0, <1>1, <1>3, <1>8, ThinksEnd

-----------------------------------------------------------------------------
(* continueFreshTypedPending and convergeFreshComputeReplay.               *)

LEMMA FreshFacts ==
  ASSUME IInv, JInv, NEW p \in Actors, local[p].pc \in Fresh \/ FreshEntry(p)
  PROVE  /\ OnStage(Row(p)) /\ local[p].pc # "persist"
         /\ Row(p).status = "pending" /\ FreshActive(Row(p))
         /\ Row(p) \in Operation /\ Row(p).stage \in StageIdx
         /\ ReadsOnly(Row(p), Row(p)) /\ Att(Row(p)).attempted = 1
<1>1. CASE local[p].pc \in Fresh
  <2>1. local[p].pc \in AtStage BY <1>1 DEF Fresh, AtStage, PC
  <2>2. OnStage(Row(p)) /\ local[p].pc # "persist" /\ Knows(Row(p), local[p].pc, local[p].grant)
    BY <2>1, RowFacts
  <2> QED BY <1>1, <2>2, StageFacts DEF Knows, OnStage, ReadsOnly
<1>2. CASE FreshEntry(p)
  <2>1. PendingEntry(p) /\ FreshActive(Row(p)) BY <1>2 DEF FreshEntry
  <2>2. OnStage(Row(p)) /\ local[p].pc # "persist" /\ Row(p).status = "pending"
    BY <2>1, RowFacts DEF PendingEntry, At
  <2> QED BY <2>1, <2>2, StageFacts DEF OnStage, ReadsOnly
<1> QED BY <1>1, <1>2

\* The claim of a fresh continuation's one replay.
LEMMA FreshClaimGood ==
  ASSUME NEW o, OnStage(o), o.status = "pending", FreshActive(o), NEW m, NEW s, NEW g,
         Updates(o, m, Att(o), s, Replay(o), CurFresh(o)), Stayed(o, m, o.status), SameRest(o, m),
         m.authorizationConsumed = o.authorizationConsumed, s = Obs(o) \/ s = "ownership_pending",
         Replay(o).status = "none" \/ Replay(o).authorization = 0,
         NEW n, n = ClaimReplay(m, 0)
  PROVE  /\ Write(o, n) /\ Good(n) /\ Knows(n, "convergeRead", g)
         /\ Claims(o, n, "convergeRead") /\ "convergeRead" \notin Resumes
<1>1. o \in Operation /\ o.stage \in StageIdx /\ Att(o).attempted = 1 BY StageFacts
<1>2. /\ Write(o, n) /\ Good(n)
      /\ Updates(o, n, Att(o), s, [status |-> "claimed", authorization |-> 0, lease |-> "live"], CurFresh(o))
      /\ Stayed(o, n, o.status)
  BY <1>1, ClaimGood
<1>3. n.stage = o.stage /\ n.status = "pending" BY <1>2 DEF Stayed
<1>4. Replay(n).status = "claimed" /\ n.freshContinuations[n.stage] = CurFresh(o)
  BY <1>1, <1>2, <1>3, UpdatesAt DEF Replay
<1>5. FreshActive(n) BY <1>4 DEF FreshActive, CurFresh
<1> QED BY <1>2, <1>3, <1>4, <1>5 DEF Knows, Claims, Plain, Fresh, Resumes

LEMMA FreshHeldJ ==
  ASSUME IInv, JInv, NEW p \in Actors, FreshHeld(p) PROVE JInv'
  BY QuietReturnJ DEF FreshHeld

LEMMA FreshReplayTakenOverJ ==
  ASSUME IInv, JInv, NEW p \in Actors, FreshReplayTakenOver(p) PROVE JInv'
<1>0. PICK o : o = Row(p) OBVIOUS
<1>1. FreshEntry(p) /\ Replay(o).authorization = 0 /\ Thinks
  BY <1>0 DEF FreshReplayTakenOver, FreshReplayClaimed
<1>2. OnStage(o) /\ local[p].pc # "persist" /\ o.status = "pending" /\ FreshActive(o)
      /\ o \in Operation /\ o.stage \in StageIdx /\ ReadsOnly(o, o)
  BY <1>0, <1>1, FreshFacts
<1>3. CASE Save(p, parkFreshTypedPending(o, Att(o)), "idle")
  <2>1. PICK n : n = parkFreshTypedPending(o, Att(o)) OBVIOUS
  <2>2. Write(o, n) /\ Good(n) BY <1>2, <2>1, ParkFreshGood
  <2> QED BY <1>0, <1>1, <1>2, <1>3, <2>1, <2>2, ThinksEnd
<1>4. CASE Save(p, ClaimReplay(o, 0), "convergeRead")
  <2>1. PICK n : n = ClaimReplay(o, 0) OBVIOUS
  <2>2. Updates(o, o, Att(o), Obs(o), Replay(o), CurFresh(o)) /\ Stayed(o, o, o.status) /\ SameRest(o, o)
    BY <1>2 DEF Updates, Att, Obs, Replay, CurFresh, Operation, Stayed, SameRest, SameGrants
  <2>3. /\ Write(o, n) /\ Good(n) /\ Knows(n, "convergeRead", local[p].grant)
        /\ Claims(o, n, "convergeRead") /\ "convergeRead" \notin Resumes
    BY <1>1, <1>2, <2>1, <2>2, FreshClaimGood
  <2>4. op' = op /\ Leaves(p) /\ Asked BY <1>1, QuietLeaves DEF Thinks
  <2> QED BY <1>0, <1>2, <1>4, <2>1, <2>3, <2>4, SaveJ
<1> QED BY <1>0, <1>3, <1>4 DEF FreshReplayTakenOver

LEMMA FreshClaimReadJ ==
  ASSUME IInv, JInv, NEW p \in Actors, FreshClaimRead(p) PROVE JInv'
<1>0. PICK o, m : o = Row(p) /\ m = ExpireRead(o) OBVIOUS
<1>1. FreshEntry(p) /\ Thinks BY DEF FreshClaimRead
<1>2. OnStage(o) /\ local[p].pc # "persist" /\ o.status = "pending" /\ FreshActive(o)
      /\ o \in Operation /\ o.stage \in StageIdx
  BY <1>0, <1>1, FreshFacts
<1>3. ReadsOnly(o, m) BY <1>0, <1>2, ExpireReadOnly
<1>4. CASE Save(p, parkFreshTypedPending(m, Att(m)), "idle")
  <2>1. PICK n : n = parkFreshTypedPending(m, Att(m)) OBVIOUS
  <2>2. Write(o, n) /\ Good(n) BY <1>2, <1>3, <2>1, ParkFreshGood
  <2> QED BY <1>0, <1>1, <1>2, <1>4, <2>1, <2>2, ThinksEnd
<1>5. CASE Save(p, SetRead(SetAtt(m, [Att(m) EXCEPT !.pendingReadbacks = @ + 1]), "claimed"), "freshRead")
  <2>1. PICK n : n = SetRead(SetAtt(m, [Att(m) EXCEPT !.pendingReadbacks = @ + 1]), "claimed") OBVIOUS
  <2>2. /\ Write(o, n) /\ Good(n) /\ n.stage = o.stage /\ n.status = "pending" /\ FreshActive(n)
        /\ Att(n).pendingReadbacks = Att(o).pendingReadbacks + 1
    BY <1>2, <1>3, <2>1, ClaimReadGood
  <2>3. Knows(n, "freshRead", local[p].grant) /\ "freshRead" \notin Resumes
    BY <2>2 DEF Knows, Plain, Fresh, Resumes
  <2>4. Claims(o, n, "freshRead") BY <1>2, <2>2 DEF Claims, FreshActive, Att
  <2>5. op' = op /\ Leaves(p) /\ Asked BY <1>1, QuietLeaves DEF Thinks
  <2> QED BY <1>0, <1>2, <1>5, <2>1, <2>2, <2>3, <2>4, <2>5, SaveJ
<1> QED BY <1>0, <1>4, <1>5 DEF FreshClaimRead

LEMMA GetLeaves ==
  ASSUME NEW p, At(p, "freshRead"), CountGet(p), UNCHANGED <<op, world, sent, repairs>>
  PROVE  op' = op /\ Leaves(p) /\ Asked
  BY DEF Leaves, Asked

LEMMA GetEnd ==
  ASSUME IInv, JInv, NEW p \in Actors, At(p, "freshRead"), NEW n, GetUnderClaim(p),
         Write(Row(p), n) /\ Good(n), Save(p, n, "idle")
  PROVE  JInv'
<1>1. op' = op /\ Leaves(p) /\ Asked BY GetLeaves DEF GetUnderClaim
<1>2. local[p].pc # "persist" BY DEF At
<1> QED BY <1>1, <1>2, EndJ

LEMMA FreshReadRefusedJ ==
  ASSUME IInv, JInv, NEW p \in Actors, FreshReadRefused(p) PROVE JInv'
<1>1. op' = op /\ Leaves(p) /\ Asked BY GetLeaves DEF FreshReadRefused
<1> QED BY <1>1, ReturnJ DEF FreshReadRefused

LEMMA FreshReadEndsJ ==
  ASSUME IInv, JInv, NEW p \in Actors, FreshReadReady(p) \/ FreshReadPending(p) \/ FreshReadFailed(p)
  PROVE  JInv'
<1>0. PICK o : o = Row(p) OBVIOUS
<1>1. local[p].pc \in Fresh /\ At(p, "freshRead") /\ GetUnderClaim(p)
  BY DEF FreshReadReady, FreshReadPending, FreshReadFailed, At, Fresh
<1>2. OnStage(o) /\ o.status = "pending" /\ FreshActive(o) /\ o \in Operation /\ o.stage \in StageIdx
  BY <1>0, <1>1, FreshFacts
<1>3. ReadsOnly(o, SetRead(o, "ready")) /\ ReadsOnly(o, SetRead(o, "pending")) /\ ReadsOnly(o, SetRead(o, "failed"))
  BY <1>2, SetReadOnly
<1>4. PICK n, m : /\ ReadsOnly(o, m) /\ Save(p, n, "idle")
                  /\ \/ n = ConfirmFresh(m)
                     \/ n = parkFreshTypedPending(m, Att(m))
                     \/ n = SetObs(m, "pending")
  BY <1>0, <1>3 DEF FreshReadReady, FreshReadPending, FreshReadFailed
<1>5. Write(o, n) /\ Good(n)
  <2>1. CASE n = ConfirmFresh(m) BY <1>2, <1>4, <2>1, ConfirmFreshGood
  <2>2. CASE n = parkFreshTypedPending(m, Att(m)) BY <1>2, <1>4, <2>2, ParkFreshGood
  <2>3. CASE n = SetObs(m, "pending") BY <1>2, <1>4, <2>3, FreshObsGood
  <2> QED BY <1>4, <2>1, <2>2, <2>3
<1> QED BY <1>0, <1>1, <1>4, <1>5, GetEnd

LEMMA FreshReadOwnershipPendingJ ==
  ASSUME IInv, JInv, NEW p \in Actors, FreshReadOwnershipPending(p) PROVE JInv'
<1>0. PICK o, m : o = Row(p) /\ m = SetRead(o, "pending") OBVIOUS
<1>1. local[p].pc \in Fresh /\ At(p, "freshRead") /\ GetUnderClaim(p)
  BY DEF FreshReadOwnershipPending, At, Fresh
<1>2. OnStage(o) /\ o.status = "pending" /\ FreshActive(o) /\ o \in Operation /\ o.stage \in StageIdx
      /\ local[p].pc # "persist"
  BY <1>0, <1>1, FreshFacts
<1>3. ReadsOnly(o, m) BY <1>0, <1>2, SetReadOnly
<1>4. Replay(m) = Replay(o) BY <1>3 DEF ReadsOnly, Replay
<1>5. CASE Save(p, parkFreshTypedPending(m, Att(m)), "idle")
  <2>1. PICK n : n = parkFreshTypedPending(m, Att(m)) OBVIOUS
  <2>2. Write(o, n) /\ Good(n) BY <1>2, <1>3, <2>1, ParkFreshGood
  <2> QED BY <1>0, <1>1, <1>5, <2>1, <2>2, GetEnd
<1>6. CASE Save(p, SetObs(m, "ownership_pending"), "idle")
  <2>1. PICK n : n = SetObs(m, "ownership_pending") OBVIOUS
  <2>2. Write(o, n) /\ Good(n) BY <1>2, <1>3, <2>1, FreshObsGood
  <2> QED BY <1>0, <1>1, <1>6, <2>1, <2>2, GetEnd
<1>7. CASE Save(p, ClaimReplay(SetObs(m, "ownership_pending"), 0), "convergeRead") /\ Replay(m).status = "none"
  <2>1. PICK k, n : k = SetObs(m, "ownership_pending") /\ n = ClaimReplay(k, 0) OBVIOUS
  <2>2. /\ Updates(o, k, Att(o), "ownership_pending", Replay(o), CurFresh(o))
        /\ Stayed(o, k, o.status) /\ SameRest(o, k)
        /\ k.authorizationConsumed = o.authorizationConsumed
    BY <1>2, <1>3, <2>1, FreshObsGood
  <2>3. /\ Write(o, n) /\ Good(n) /\ Knows(n, "convergeRead", local[p].grant)
        /\ Claims(o, n, "convergeRead") /\ "convergeRead" \notin Resumes
    BY <1>2, <1>4, <1>7, <2>1, <2>2, FreshClaimGood
  <2>4. op' = op /\ Leaves(p) /\ Asked BY <1>1, GetLeaves DEF GetUnderClaim
  <2> QED BY <1>0, <1>2, <1>7, <2>1, <2>3, <2>4, SaveJ
<1> QED BY <1>0, <1>5, <1>6, <1>7 DEF FreshReadOwnershipPending

LEMMA ConvergeRepeatsJ ==
  ASSUME IInv, JInv, NEW p \in Actors, ConvergeRepeats(p) PROVE JInv'
<1>1. local[p].pc = "convergeRead" /\ Goto(p, "convergeMutate", Row(p)) /\ Quiet
  BY DEF ConvergeRepeats, At, Thinks
<1>2. Knows(Row(p), "convergeRead", local[p].grant) BY <1>1, RowFacts
<1>3. Knows(Row(p), "convergeMutate", local[p].grant) BY <1>2 DEF Knows, Plain, Fresh, Resumes
<1> QED BY <1>1, <1>3, ThinksGoto DEF PC, Callers

LEMMA ConvergeEndsJ ==
  ASSUME IInv, JInv, NEW p \in Actors,
         ConvergeReady(p) \/ ConvergePending(p) \/ ConvergeWaits(p) \/ ConvergeFails(p)
  PROVE  JInv'
<1>0. PICK o : o = Row(p) OBVIOUS
<1>1. local[p].pc \in Fresh /\ Thinks
  BY DEF ConvergeReady, ConvergePending, ConvergeWaits, ConvergeFails, At, Fresh
<1>2. OnStage(o) /\ o.status = "pending" /\ FreshActive(o) /\ ReadsOnly(o, o) /\ local[p].pc # "persist"
  BY <1>0, <1>1, FreshFacts
<1>3. PICK n :
        /\ Save(p, n, "idle")
        /\ \/ n = ConfirmFresh(o) \/ n = SetObs(o, "pending")
           \/ \E s \in {"pending", "ownership_pending"} :
                n = completeIdempotentReplay(SetObs(o, s), "waiting")
           \/ n = parkFreshTypedPending(o, Att(o))
  <2>2. CASE ConvergeReady(p) BY <1>0, <2>2 DEF ConvergeReady
  <2>3. CASE ConvergePending(p) BY <1>0, <2>3 DEF ConvergePending
  <2>4. CASE ConvergeWaits(p) BY <1>0, <2>4 DEF ConvergeWaits
  <2>5. CASE ConvergeFails(p) BY <1>0, <2>5 DEF ConvergeFails
  <2> QED BY <2>2, <2>3, <2>4, <2>5
<1>4. Write(o, n) /\ Good(n)
  <2>1. CASE n = ConfirmFresh(o) BY <1>2, <2>1, ConfirmFreshGood
  <2>2. CASE n = SetObs(o, "pending") BY <1>2, <2>2, FreshObsGood
  <2>3. CASE \E s \in {"pending", "ownership_pending"} :
               n = completeIdempotentReplay(SetObs(o, s), "waiting")
    BY <1>2, <2>3, ConvergeWaitGood
  <2>4. CASE n = parkFreshTypedPending(o, Att(o)) BY <1>2, <2>4, ParkFreshGood
  <2> QED BY <1>3, <2>1, <2>2, <2>3, <2>4
<1> QED BY <1>0, <1>1, <1>2, <1>3, <1>4, ThinksEnd

-----------------------------------------------------------------------------
(* The operator's requests.                                                *)

LEMMA OperatorFacts ==
  ASSUME IInv, JInv, NEW p \in Actors, local[p].pc \in Resumes
  PROVE  /\ OnStage(Row(p)) /\ local[p].pc # "persist" /\ ~FreshActive(Row(p))
         /\ ResumeKnows(Row(p), local[p].pc, local[p].grant)
         /\ local[p].grant \in Grant /\ local[p].grant.id # 0
<1>1. local[p].pc \in AtStage BY DEF Resumes, AtStage, PC
<1>2. OnStage(Row(p)) /\ local[p].pc # "persist" /\ Knows(Row(p), local[p].pc, local[p].grant)
  BY <1>1, RowFacts
<1>3. ResumeKnows(Row(p), local[p].pc, local[p].grant) BY <1>2 DEF Knows
<1>4. DecodesFreshContinuation(Row(p), Row(p).stage) BY <1>2 DEF OnStage, Decodes
<1>5. ~FreshActive(Row(p)) BY <1>3, <1>4 DEF ResumeKnows, DecodesFreshContinuation, FreshActive
<1>6. local[p].grant \in Grant BY GrantType
<1> QED BY <1>2, <1>3, <1>5, <1>6 DEF ResumeKnows

LEMMA OperatorNew ==
  ASSUME IInv, JInv, NEW p \in Actors, local[p].pc \in Resumes
  PROVE  NewFor(Row(p), local[p].grant)
<1>0. PICK o, g, n : o = Row(p) /\ g = local[p].grant /\ n = g.id OBVIOUS
<1>1. OnStage(o) /\ ~FreshActive(o) /\ ResumeKnows(o, local[p].pc, g) /\ g \in Grant
  BY <1>0, OperatorFacts
<1>2. n \in Nat /\ g \in GrantsFor(o, n) /\ n \notin GrantIds(o) BY <1>0, <1>1 DEF Grant, ResumeKnows
<1>3. \/ UnknownComputeContinuationEligible(o, g) \/ g.replay = 0 \/ ReservedStageReplayEligible(o, g)
  BY <1>1 DEF ResumeKnows, Resumes, UnknownRuntimeReadEligible, ReservedStageReadEligible
<1>4. NewFor(o, g) BY <1>1, <1>2, <1>3, EligibleNew
<1> QED BY <1>0, <1>4

LEMMA ResumeConflictJ ==
  ASSUME IInv, JInv, NEW p \in Actors, ResumeConflict(p) PROVE JInv'
  BY QuietReturnJ DEF ResumeConflict

LEMMA ResumeComputeJ ==
  ASSUME IInv, JInv, NEW p \in Actors, ResumeCompute(p) PROVE JInv'
<1>0. PICK o, g : o = Row(p) /\ g = local[p].grant OBVIOUS
<1>1. local[p].pc = "resumeCompute" /\ local[p].pc \in Resumes /\ Thinks BY DEF ResumeCompute, At, Resumes
<1>2. OnStage(o) /\ local[p].pc # "persist" /\ ResumeKnows(o, "resumeCompute", g) /\ g.id # 0 /\ NewFor(o, g)
      /\ g \in Grant
  BY <1>0, <1>1, OperatorFacts, OperatorNew
<1>3. UnknownComputeContinuationEligible(o, g) BY <1>2 DEF ResumeKnows
<1>4. Att(o).attempted = 1 /\ Stages[o.stage] = Compute /\ g.mutation = 0 /\ g.reads = ComputeReads
  BY <1>3 DEF UnknownComputeContinuationEligible, IsStage
<1>5. g.reads > 0 BY <1>4, BudgetAssumption
<1>6. PICK s \in {"pending", "ownership_pending"} :
        Save(p, recoverUnknownComputeStage(o, g, s), "admitted")
  BY <1>0 DEF ResumeCompute
<1>7. PICK n : n = recoverUnknownComputeStage(o, g, s) OBVIOUS
<1>8. Write(o, n) /\ Good(n) BY <1>2, <1>4, <1>5, <1>7, RecoverComputeGood
<1> QED BY <1>0, <1>1, <1>2, <1>6, <1>7, <1>8, ThinksEnd

LEMMA ResumeRuntimeJ ==
  ASSUME IInv, JInv, NEW p \in Actors, ResumeRuntime(p) PROVE JInv'
<1>0. PICK o, g, n : o = Row(p) /\ g = local[p].grant /\ n = recoverUnknownRuntimeStage(o, g) OBVIOUS
<1>1. local[p].pc \in Resumes /\ Thinks /\ Save(p, n, "idle")
  BY <1>0 DEF ResumeRuntime, At, Resumes
<1>2. OnStage(o) /\ local[p].pc # "persist" /\ NewFor(o, g) /\ g \in Grant
      /\ o \in Operation /\ o.stage \in StageIdx
  BY <1>0, <1>1, OperatorFacts, OperatorNew DEF OnStage
<1>3. PICK f : f = IF CurFresh(o) = "failed" THEN "consumed" ELSE CurFresh(o) OBVIOUS
<1>4. Updates(o, n, Confirmed(Att(o)), "ready", Replay(o), f) /\ Advanced(o, n) /\ Rotated(o, n, g)
  BY <1>0, <1>2, <1>3, RecoverRuntimeWrites
<1>5. CurFresh(o) = "none" <=> f = "none" BY <1>3
<1>6. Write(o, n) /\ Good(n) BY <1>2, <1>4, <1>5, RecoveredGood
<1> QED BY <1>0, <1>1, <1>2, <1>6, ThinksEnd

LEMMA ResumeExhaustedReadyJ ==
  ASSUME IInv, JInv, NEW p \in Actors, ResumeExhaustedReady(p) PROVE JInv'
<1>0. PICK o, g, m : o = Row(p) /\ g = local[p].grant /\ m = rotateResumeAuthorization(o, g) OBVIOUS
<1>1. PICK n : n = advance(consumeResumeAuthorization(SetObs(SetAtt(m, Confirmed(Att(m))), "ready")))
  OBVIOUS
<1>2. local[p].pc \in Resumes /\ Thinks /\ Save(p, n, "idle")
  BY <1>0, <1>1 DEF ResumeExhaustedReady, At, Resumes
<1>3. OnStage(o) /\ local[p].pc # "persist" /\ NewFor(o, g) /\ g \in Grant
      /\ o \in Operation /\ o.stage \in StageIdx
  BY <1>0, <1>2, OperatorFacts, OperatorNew DEF OnStage
<1>4. m.attempts = o.attempts /\ m.stage = o.stage BY <1>0, <1>3, RotateKeeps DEF Keeps
<1>5. Att(m) = Att(o) BY <1>4 DEF Att
<1>6. Updates(o, n, Confirmed(Att(o)), "ready", Replay(o), CurFresh(o)) /\ Advanced(o, n) /\ Rotated(o, n, g)
  BY <1>0, <1>1, <1>3, <1>5, RecoveredWrites
<1>7. Write(o, n) /\ Good(n) BY <1>3, <1>6, RecoveredGood
<1> QED BY <1>0, <1>2, <1>3, <1>7, ThinksEnd

LEMMA ResumeExhaustedJ ==
  ASSUME IInv, JInv, NEW p \in Actors, ResumeExhausted(p) PROVE JInv'
<1>0. PICK o, g : o = Row(p) /\ g = local[p].grant OBVIOUS
<1>1. local[p].pc = "resumeExhausted" /\ local[p].pc \in Resumes /\ Thinks
  BY DEF ResumeExhausted, At, Resumes
<1>2. OnStage(o) /\ local[p].pc # "persist" /\ ResumeKnows(o, "resumeExhausted", g) /\ g.id # 0 /\ NewFor(o, g)
  BY <1>0, <1>1, OperatorFacts, OperatorNew
<1>3. Att(o).attempted = 1 /\ g.mutation = 0 /\ g.reads > 0
  BY <1>2 DEF ResumeKnows, ReservedStageReplayEligible, ReservedStageReadEligible
<1>4. PICK s \in {"absent", "pending"} : Save(p, SetObs(Authorize(o, g), s), "admitted")
  BY <1>0 DEF ResumeExhausted
<1>5. PICK n : n = SetObs(Authorize(o, g), s) OBVIOUS
<1>6. Write(o, n) /\ Good(n) BY <1>2, <1>3, <1>5, AuthorizeGood
<1> QED BY <1>0, <1>1, <1>2, <1>4, <1>5, <1>6, ThinksEnd

LEMMA RepairCallsJ ==
  ASSUME IInv, JInv, NEW p \in Actors, RepairCalls(p) PROVE JInv'
<1>1. local[p].pc = "repair" /\ Goto(p, "repairing", Row(p)) /\ repairs' = TRUE
      /\ op' = op /\ sent' = sent /\ gets' = gets
  BY DEF RepairCalls, At
<1>2. IsStage(Row(p).stage, Runtime) BY <1>1, RepairerAlone
<1>3. \A i \in StageIdx : i # Row(p).stage => world'[i] = world[i] BY JFacts DEF RepairCalls
<1>4. Asked BY <1>1, <1>2, <1>3 DEF Asked, IsStage
<1>5. Leaves(p) BY <1>1 DEF Leaves
<1>6. Knows(Row(p), "repair", local[p].grant) BY <1>1, RowFacts
<1>7. Knows(Row(p), "repairing", local[p].grant) BY <1>6 DEF Knows, Plain, Fresh, Resumes
<1> QED BY <1>1, <1>4, <1>5, <1>7, GotoJ DEF PC, Callers

LEMMA RepairReadyJ ==
  ASSUME IInv, JInv, NEW p \in Actors, RepairReady(p) PROVE JInv'
<1>0. PICK o, n : o = Row(p) /\ n = RepairedRow(o) OBVIOUS
<1>1. local[p].pc = "repairing" /\ local[p].pc \in AtStage /\ Thinks /\ Save(p, n, "admitted")
  BY <1>0 DEF RepairReady, At, AtStage, PC
<1>2. OnStage(o) /\ local[p].pc # "persist" /\ Knows(o, "repairing", local[p].grant)
  BY <1>0, <1>1, RowFacts
<1>3. RuntimeRepairEligible(o) BY <1>2 DEF Knows
<1>4. ~o.runtimeRepair BY <1>0, <1>1, RepairerAlone DEF IInv, RepairInv, Row
<1>5. Write(o, n) /\ Good(n) BY <1>0, <1>2, <1>3, <1>4, RepairedGood
<1> QED BY <1>0, <1>1, <1>2, <1>5, ThinksEnd

LEMMA RepairFailedJ ==
  ASSUME IInv, JInv, NEW p \in Actors, RepairFailed(p) PROVE JInv'
  BY QuietReturnJ DEF RepairFailed

LEMMA CrashJ ==
  ASSUME IInv, JInv, NEW p \in Actors, Crash(p) PROVE JInv'
<1>1. Leaves(p) /\ Asked BY DEF Crash, Leaves, Asked
<1> QED BY <1>1, ReturnJ DEF Crash

LEMMA PersistRejectedJ ==
  ASSUME IInv, JInv, NEW p \in Actors, PersistRejected(p) PROVE JInv'
  BY QuietReturnJ DEF PersistRejected

-----------------------------------------------------------------------------
(* The store.                                                              *)

\* What is known of an accepted row.
LEMMA AcceptedFacts ==
  ASSUME IInv, JInv, NEW p \in Actors, PersistAccepted(p), NEW l, NEW n, l = local[p], n = l.row
  PROVE  /\ l \in Local /\ n \in Operation /\ l.pc = "persist" /\ l.held /\ op' = n
         /\ Decodes(n) /\ Good(n) /\ Write(op, n)
         /\ Knows(n, l.next, l.grant) /\ Claims(op, n, l.next)
         /\ l.next \notin Resumes /\ l.next # "persist" /\ l.next \notin {"repair", "repairing"}
         /\ ResourceBilling => AttemptsKept(op, n)
<1>1. l \in Local /\ ActorGood(l) /\ n \in Operation BY JFacts DEF Row
<1>2. l.pc = "persist" /\ l.held /\ op' = n /\ Decodes(n) BY DEF PersistAccepted, Accepted, At, Row
<1>3. ActorInv(l) /\ RepairInv(p, l) BY DEF IInv
<1>4. /\ Good(n) /\ Write(op, n) /\ Knows(n, l.next, l.grant) /\ Claims(op, n, l.next)
      /\ l.next \notin Resumes
  BY <1>1, <1>2 DEF ActorGood
<1>5. l.next # "persist" /\ l.next \notin {"repair", "repairing"} BY <1>3 DEF ActorInv, PassInv, RepairInv
<1>6. ResourceBilling => AttemptsKept(op, n) BY <1>2, <1>3 DEF ActorInv, ReservationInv
<1> QED BY <1>1, <1>2, <1>4, <1>5, <1>6

\* Where everybody is afterwards.
LEMMA AcceptedLocals ==
  ASSUME IInv, JInv, NEW p \in Actors, PersistAccepted(p), NEW l, NEW n, l = local[p], n = l.row
  PROVE  /\ \A q \in Actors : q # p =>
              /\ local'[q].pc = local[q].pc /\ local'[q].row = local[q].row
              /\ local'[q].next = local[q].next /\ local'[q].grant = local[q].grant
              /\ ~local'[q].held
         /\ \/ local'[p] = AtRest /\ l.next = "idle"
            \/ /\ local'[p].pc = l.next /\ local'[p].row = n /\ local'[p].next = "idle"
               /\ local'[p].grant = l.grant
<1>1. \A q \in Actors : local[q] \in Local BY JFacts
<1>2. \A q \in Actors : q # p => local'[q] = [local[q] EXCEPT !.held = FALSE] BY DEF PersistAccepted
<1>3. local'[p] = IF l.next = "idle" THEN AtRest ELSE [l EXCEPT !.pc = l.next, !.next = "idle"]
  BY DEF PersistAccepted
<1>4. ASSUME NEW k \in Local, NEW r, r = [k EXCEPT !.held = FALSE]
      PROVE  r.pc = k.pc /\ r.row = k.row /\ r.next = k.next /\ r.grant = k.grant /\ ~r.held
  BY <1>4 DEF Local
<1>5. l \in Local BY <1>1
<1>5a. \A q \in Actors : q # p =>
         /\ local'[q].pc = local[q].pc /\ local'[q].row = local[q].row
         /\ local'[q].next = local[q].next /\ local'[q].grant = local[q].grant
         /\ ~local'[q].held
  <2> SUFFICES ASSUME NEW q \in Actors, q # p
               PROVE  /\ local'[q].pc = local[q].pc /\ local'[q].row = local[q].row
                      /\ local'[q].next = local[q].next /\ local'[q].grant = local[q].grant
                      /\ ~local'[q].held
    OBVIOUS
  <2>1. PICK k, r : k = local[q] /\ r = local'[q] OBVIOUS
  <2>2. k \in Local /\ r = [k EXCEPT !.held = FALSE] BY <1>1, <1>2, <2>1
  <2>3. r.pc = k.pc /\ r.row = k.row /\ r.next = k.next /\ r.grant = k.grant /\ ~r.held
    BY <1>4, <2>2
  <2> QED BY <2>1, <2>3
<1>6. CASE l.next # "idle"
  <2>1. PICK r : r = [l EXCEPT !.pc = l.next, !.next = "idle"] OBVIOUS
  <2>2. r.pc = l.next /\ r.row = n /\ r.next = "idle" /\ r.grant = l.grant BY <1>5, <2>1 DEF Local
  <2>3. local'[p] = r BY <1>3, <1>6, <2>1
  <2> QED BY <1>5a, <2>2, <2>3
<1>7. CASE l.next = "idle" BY <1>3, <1>5a, <1>7
<1> QED BY <1>6, <1>7

LEMMA PersistActorsJ ==
  ASSUME IInv, JInv, NEW p \in Actors, PersistAccepted(p), NEW q \in Actors
  PROVE  ActorGood(local[q])'
<1>0. PICK l, n, k, r : l = local[p] /\ n = l.row /\ k = local[q] /\ r = local'[q] OBVIOUS
<1>1. /\ l \in Local /\ n \in Operation /\ op' = n /\ Decodes(n) /\ Good(n) /\ Write(op, n)
      /\ Knows(n, l.next, l.grant) /\ l.next # "persist" /\ l.next \notin {"repair", "repairing"}
      /\ ResourceBilling => AttemptsKept(op, n)
  BY <1>0, AcceptedFacts
<1>2. CASE q # p
  <2>1. r.pc = k.pc /\ r.row = k.row /\ r.next = k.next /\ r.grant = k.grant /\ ~r.held
    BY <1>0, <1>2, AcceptedLocals
  <2>2. ActorGood(k) /\ k.row \in Operation /\ ActorInv(k) BY <1>0, JFacts DEF IInv, Row
  <2>3. k.pc \in Callers \cup {"repair", "repairing"} => k.row.stage \in StageIdx
    BY <2>2 DEF ActorInv, PassInv, Callers, AtStage, PC
  <2>4. k.pc \in Callers /\ Replay(k.row).status = "claimed" =>
          Tracked(n, k.row.stage, Replay(k.row).authorization)
    <3> HAVE k.pc \in Callers /\ Replay(k.row).status = "claimed"
    <3>1. k.row.stage \in StageIdx BY <2>3
    <3>2. Replay(k.row).authorization \in Nat BY <2>2, <3>1, ReplayType DEF ReplayClaim
    <3>3. Tracked(op, k.row.stage, Replay(k.row).authorization) BY <2>2 DEF ActorGood
    <3> QED BY <1>1, <3>1, <3>2, <3>3 DEF Write, WriteReplays
  <2>5. ResourceBilling /\ k.pc \in {"repair", "repairing"} => n.attempts[k.row.stage].attempted = 1
    BY <1>1, <2>2, <2>3 DEF ActorGood, AttemptsKept
  <2>6. k.pc # "persist" => Decodes(k.row) /\ Good(k.row) /\ Knows(k.row, k.pc, k.grant)
    BY <2>2 DEF ActorGood
  <2>7. ActorGood(r)'
    <3>1. k.next \notin Resumes BY <2>2 DEF ActorGood
    <3> QED BY <1>1, <2>1, <2>4, <2>5, <2>6, <3>1 DEF ActorGood, Tracked
  <2> QED BY <1>0, <2>7
<1>3. CASE q = p
  <2>1. CASE r = AtRest
    <3>1. ActorGood(AtRest)' 
      <4>1. AtRest.pc = "idle" /\ AtRest.next = "idle" /\ AtRest.held = FALSE
            /\ AtRest.row = newWorkspaceLaunchReconcileOperation
        BY DEF AtRest
      <4> QED BY <4>1, NewRowGood, KnowsIdle DEF ActorGood, Callers, Resumes
    <3> QED BY <1>0, <2>1, <3>1
  <2>2. CASE r.pc = l.next /\ r.row = n /\ r.next = "idle" /\ r.grant = l.grant
    <3>1. Replay(n).status = "claimed" => Tracked(n, n.stage, Replay(n).authorization)
      BY DEF Tracked, Replay
    <3>2. ActorGood(r)'
      BY <1>1, <2>2, <3>1 DEF ActorGood, Resumes, Tracked
    <3> QED BY <1>0, <3>2
  <2> QED BY <1>0, <1>3, <2>1, <2>2, AcceptedLocals
<1> QED BY <1>2, <1>3

\* The first call of a stage is prepared by one actor only: it found the stage
\* not reserved in the row that was stored until now.
LEMMA PersistFirstJ ==
  ASSUME IInv, JInv, NEW p \in Actors, PersistAccepted(p)
  PROVE  FirstAlone'
<1> SUFFICES ASSUME ResourceBilling, NEW i \in StageIdx
             PROVE  /\ sent'[i].first <= 1
                    /\ \A q \in Actors : First(q, i)' => sent'[i].first = 0
                    /\ \A q, r \in Actors : First(q, i)' /\ First(r, i)' => q = r
  BY DEF FirstAlone
<1>0. PICK l, n : l = local[p] /\ n = l.row OBVIOUS
<1>1. sent' = sent /\ sent[i].first \in {0, 1, 2} BY JFacts DEF PersistAccepted
<1>2. /\ sent[i].first <= 1
      /\ \A q \in Actors : First(q, i) => sent[i].first = 0
      /\ \A q, r \in Actors : First(q, i) /\ First(r, i) => q = r
  BY DEF JInv, FirstAlone
<1>3. \A q \in Actors : q # p /\ First(q, i)' => First(q, i)
  BY <1>0, AcceptedLocals DEF First, At, Row
<1>4. First(p, i)' => op.attempts[i].attempted = 0
  <2> SUFFICES ASSUME First(p, i)' PROVE op.attempts[i].attempted = 0 OBVIOUS
  <2>1. l.next = "mutate" /\ n.stage = i /\ Replay(n).status # "claimed"
    <3>1. AtRest.pc = "idle" BY DEF AtRest
    <3> QED BY <1>0, <3>1, AcceptedLocals DEF First, At, Row
  <2>2. /\ Write(op, n) /\ Claims(op, n, "mutate") /\ Knows(n, "mutate", l.grant) BY <1>0, <2>1, AcceptedFacts
  <2>3. Att(op).attempted = 0 BY <2>2 DEF Claims
  <2>4. FirstAttempt(n) BY <2>1, <2>2 DEF Knows, ReplayClaimOpen
  <2>5. n.attempts[i].attempted = 1 BY <2>1, <2>4 DEF FirstAttempt, Att
  <2>6. WriteStage(op, n) BY <2>2 DEF Write
  <2>7. CASE n.stage = op.stage BY <2>1, <2>3, <2>7 DEF Att
  <2>8. CASE n.stage = op.stage + 1
    <3>0. op.stage \in Nat /\ i \in Nat BY <2>6, StageIdxType DEF WriteStage
    <3>1. i > op.stage /\ i # op.stage BY <2>1, <2>8, <3>0
    <3>2. op.attempts[i].attempted = 0 BY <3>1 DEF JInv, Good, StageGood, Untouched
    <3> QED BY <3>2
  <2> QED BY <2>6, <2>7, <2>8 DEF WriteStage
<1>5. First(p, i)' => sent[i].first = 0
  <2>1. sent[i].first > 0 => op.attempts[i].attempted = 1 BY DEF IInv, ReservedBeforeDispatch, Dispatches
  <2> QED BY <1>1, <1>4, <2>1
<1>6. \A q \in Actors : First(p, i)' => ~First(q, i)
  <2>1. \A q \in Actors : First(q, i) => op.attempts[i].attempted = 1
    BY DEF First, At, Row, IInv, ActorInv, ReservationInv, Calling
  <2> QED BY <1>4, <2>1
<1> QED BY <1>1, <1>2, <1>3, <1>5, <1>6

\* A read that is claimed was counted in the same write.
LEMMA PersistReadsJ ==
  ASSUME IInv, JInv, NEW p \in Actors, PersistAccepted(p)
  PROVE  ReadsCounted'
<1>0. PICK l, n : l = local[p] /\ n = l.row OBVIOUS
<1>1. /\ l \in Local /\ n \in Operation /\ l.pc = "persist" /\ op' = n /\ Decodes(n) /\ Write(op, n)
      /\ Knows(n, l.next, l.grant) /\ Claims(op, n, l.next)
  BY <1>0, AcceptedFacts
<1> SUFFICES ASSUME ResourceBilling, NEW i \in StageIdx
             PROVE  IF n.freshContinuations[i] = "none" THEN gets[i] = 0 /\ Readers(i)' = {}
                    ELSE /\ IsFiniteSet(Readers(i)')
                         /\ gets[i] + Cardinality(Readers(i)') <= n.attempts[i].pendingReadbacks - 1
  BY <1>1 DEF ReadsCounted, PersistAccepted
<1> DEFINE New == l.next = "freshRead" /\ n.stage = i
<1>2. p \notin Readers(i) BY <1>0, <1>1 DEF Readers, At
<1>3. Readers(i)' = IF New THEN Readers(i) \cup {p} ELSE Readers(i)
  <2>1. \A q \in Actors : q # p => (At(q, "freshRead") /\ Row(q).stage = i)' = (At(q, "freshRead") /\ Row(q).stage = i)
    BY <1>0, AcceptedLocals DEF At, Row
  <2>2. (At(p, "freshRead") /\ Row(p).stage = i)' = New
    <3>1. AtRest.pc = "idle" BY DEF AtRest
    <3> QED BY <1>0, <3>1, AcceptedLocals DEF At, Row
  <2> QED BY <1>2, <2>1, <2>2 DEF Readers
<1>4. WriteReads(op, n) BY <1>1 DEF Write
<1>5. New => /\ op.freshContinuations[i] # "none" /\ n.freshContinuations[i] # "none"
             /\ n.attempts[i].pendingReadbacks = op.attempts[i].pendingReadbacks + 1
  BY <1>1 DEF Claims, Att, Knows, Fresh, FreshActive
<1>6. gets[i] \in Nat /\ op.attempts[i].pendingReadbacks \in Nat /\ n.attempts[i].pendingReadbacks \in Nat
  BY <1>1, JFacts DEF Operation, Attempt
<1> HIDE DEF New
<1>7. CASE op.freshContinuations[i] = "none"
  <2>1. gets[i] = 0 /\ Readers(i)' = {} BY <1>3, <1>5, <1>7 DEF JInv, ReadsCounted
  <2>2. n.freshContinuations[i] # "none" => n.attempts[i].pendingReadbacks >= 1
    BY <1>1 DEF Decodes, DecodesFreshContinuation
  <2>3. IsFiniteSet({}) /\ Cardinality({}) = 0 BY FS_EmptySet
  <2>4. n.freshContinuations[i] # "none" => gets[i] + 0 <= n.attempts[i].pendingReadbacks - 1
    BY <1>6, <2>1, <2>2
  <2> QED BY <2>1, <2>3, <2>4
<1>8. CASE op.freshContinuations[i] # "none"
  <2>1. /\ IsFiniteSet(Readers(i))
        /\ gets[i] + Cardinality(Readers(i)) <= op.attempts[i].pendingReadbacks - 1
    BY <1>8 DEF JInv, ReadsCounted
  <2>2. /\ n.freshContinuations[i] # "none"
        /\ n.attempts[i].pendingReadbacks >= op.attempts[i].pendingReadbacks
    BY <1>4, <1>8 DEF WriteReads
  <2>3. Cardinality(Readers(i)) \in Nat BY <2>1, FS_CardinalityType
  <2>4. CASE New
    <3>1. /\ IsFiniteSet(Readers(i) \cup {p})
          /\ Cardinality(Readers(i) \cup {p}) = Cardinality(Readers(i)) + 1
      BY <1>2, <2>1, FS_AddElement
    <3>2. gets[i] + (Cardinality(Readers(i)) + 1) <= n.attempts[i].pendingReadbacks - 1
      BY <1>5, <1>6, <2>1, <2>3, <2>4
    <3> QED BY <1>3, <2>2, <2>4, <3>1, <3>2
  <2>5. CASE ~New
    <3>1. gets[i] + Cardinality(Readers(i)) <= n.attempts[i].pendingReadbacks - 1
      BY <1>6, <2>1, <2>2, <2>3
    <3> QED BY <1>3, <2>1, <2>2, <2>5, <3>1
  <2> QED BY <2>4, <2>5
<1> QED BY <1>7, <1>8

LEMMA PersistAcceptedJ ==
  ASSUME IInv, JInv, NEW p \in Actors, PersistAccepted(p)
  PROVE  JInv'
<1>0. PICK l, n : l = local[p] /\ n = l.row OBVIOUS
<1>1. op' = n /\ Decodes(n) /\ Good(n) /\ Write(op, n) BY <1>0, AcceptedFacts
<1>2. Decodes(op)' /\ Good(op)' BY <1>1
<1>3. \A q \in Actors : ActorGood(local[q])' BY PersistActorsJ
<1>4. FirstAlone' BY PersistFirstJ
<1>5. ReplaysTracked'
  <2> SUFFICES ASSUME NEW i \in StageIdx, NEW a \in sent'[i].replays PROVE Tracked(op, i, a)'
    BY DEF ReplaysTracked
  <2>1. a \in sent[i].replays /\ a \in Nat BY JFacts DEF PersistAccepted
  <2>2. Tracked(op, i, a) BY <2>1 DEF JInv, ReplaysTracked
  <2>3. Tracked(n, i, a) BY <1>1, <2>1, <2>2 DEF Write, WriteReplays
  <2> QED BY <1>1, <2>3 DEF Tracked
<1>6. ReadsCounted' BY PersistReadsJ
<1>7. WorldAsked' BY DEF JInv, WorldAsked, Dispatches, PersistAccepted
<1> QED BY <1>2, <1>3, <1>4, <1>5, <1>6, <1>7 DEF JInv

-----------------------------------------------------------------------------
(* The environment.                                                        *)

LEMMA OwnerStepsJ ==
  ASSUME IInv, JInv, NEW i \in StageIdx, OwnerSteps(i) PROVE JInv'
<1>1. op' = op /\ local' = local /\ sent' = sent /\ gets' = gets /\ repairs' = repairs BY DEF OwnerSteps
<1>2. \A j \in StageIdx : world'[j] # "absent" => world[j] # "absent"
  <2>1. world \in [StageIdx -> World] BY JFacts
  <2>2. world[i] # "absent" /\ \E w : world' = [world EXCEPT ![i] = w] BY DEF OwnerSteps
  <2> QED BY <2>1, <2>2
<1>3. WorldAsked' BY <1>1, <1>2 DEF JInv, WorldAsked, Dispatches
<1>4. Decodes(op)' /\ Good(op)' BY <1>1 DEF JInv
<1>5. ASSUME NEW q \in Actors PROVE ActorGood(local[q])'
  <2>1. PICK k : k = local[q] OBVIOUS
  <2>2. ActorGood(k) BY <2>1, JFacts
  <2>3. ActorGood(k)' BY <1>1, <2>2 DEF ActorGood
  <2> QED BY <1>1, <2>1, <2>3
<1>6. FirstAlone' BY <1>1 DEF JInv, FirstAlone, First, At, Row
<1>7. ReplaysTracked' BY <1>1 DEF JInv, ReplaysTracked, Tracked
<1>8. ReadsCounted' BY <1>1 DEF JInv, ReadsCounted, Readers, At, Row
<1> QED BY <1>3, <1>4, <1>5, <1>6, <1>7, <1>8 DEF JInv

LEMMA StutterJ ==
  ASSUME IInv, JInv, UNCHANGED vars PROVE JInv'
<1>1. op' = op /\ local' = local /\ sent' = sent /\ gets' = gets /\ repairs' = repairs /\ world' = world
  BY DEF vars
<1>3. WorldAsked' BY <1>1 DEF JInv, WorldAsked, Dispatches
<1>4. Decodes(op)' /\ Good(op)' BY <1>1 DEF JInv
<1>5. ASSUME NEW q \in Actors PROVE ActorGood(local[q])'
  <2>1. PICK k : k = local[q] OBVIOUS
  <2>2. ActorGood(k) BY <2>1, JFacts
  <2>3. ActorGood(k)' BY <1>1, <2>2 DEF ActorGood
  <2> QED BY <1>1, <2>1, <2>3
<1>6. FirstAlone' BY <1>1 DEF JInv, FirstAlone, First, At, Row
<1>7. ReplaysTracked' BY <1>1 DEF JInv, ReplaysTracked, Tracked
<1>8. ReadsCounted' BY <1>1 DEF JInv, ReadsCounted, Readers, At, Row
<1> QED BY <1>3, <1>4, <1>5, <1>6, <1>7, <1>8 DEF JInv

\* Row n is row o after some time: leases and deadlines alone may differ, and
\* none of them comes or goes.
Older(o, n) ==
  /\ n \in Operation
  /\ n.stage = o.stage /\ n.status = o.status
  /\ n.observations = o.observations
  /\ n.resumeAuthorization = o.resumeAuthorization
  /\ n.authorizationConsumed = o.authorizationConsumed
  /\ n.consumedAuthorizations = o.consumedAuthorizations
  /\ n.freshContinuations = o.freshContinuations
  /\ n.runtimeRepair = o.runtimeRepair
  /\ \A i \in StageIdx :
       /\ n.attempts[i].attempted = o.attempts[i].attempted
       /\ n.attempts[i].status = o.attempts[i].status
       /\ n.attempts[i].pendingReadbacks = o.attempts[i].pendingReadbacks
       /\ n.attempts[i].maxPendingReadbacks = o.attempts[i].maxPendingReadbacks
       /\ n.attempts[i].deadline = "none" <=> o.attempts[i].deadline = "none"
       /\ n.replayClaims[i].status = o.replayClaims[i].status
       /\ n.replayClaims[i].authorization = o.replayClaims[i].authorization
       /\ n.replayClaims[i].lease = "none" <=> o.replayClaims[i].lease = "none"
       /\ n.readClaims[i].status = o.readClaims[i].status
       /\ n.readClaims[i].lease = "none" <=> o.readClaims[i].lease = "none"

LEMMA AgeLeasesOlder ==
  ASSUME NEW o \in Operation, NEW n, n = AgeLeases(o) PROVE Older(o, n)
<1>1. n \in Operation BY AgeLeasesAged DEF Aged
<1>2. /\ n.stage = o.stage /\ n.status = o.status /\ n.observations = o.observations
      /\ n.resumeAuthorization = o.resumeAuthorization
      /\ n.authorizationConsumed = o.authorizationConsumed
      /\ n.consumedAuthorizations = o.consumedAuthorizations
      /\ n.freshContinuations = o.freshContinuations
      /\ n.runtimeRepair = o.runtimeRepair /\ n.attempts = o.attempts
  BY DEF AgeLeases, Operation
<1>3. \A i \in StageIdx : /\ n.replayClaims[i] = ExpireLease(o.replayClaims[i])
                          /\ n.readClaims[i] = ExpireLease(o.readClaims[i])
  BY DEF AgeLeases, Operation
<1>4. ASSUME NEW c \in ReplayClaim, NEW d, d = ExpireLease(c)
      PROVE  d.status = c.status /\ d.authorization = c.authorization /\ (d.lease = "none" <=> c.lease = "none")
  BY <1>4 DEF ExpireLease, ExpireClock, ReplayClaim
<1>5. ASSUME NEW c \in ReadClaim, NEW d, d = ExpireLease(c)
      PROVE  d.status = c.status /\ (d.lease = "none" <=> c.lease = "none")
  BY <1>5 DEF ExpireLease, ExpireClock, ReadClaim
<1>6. \A i \in StageIdx : o.replayClaims[i] \in ReplayClaim /\ o.readClaims[i] \in ReadClaim BY DEF Operation
<1>7. \A i \in StageIdx :
        /\ n.replayClaims[i].status = o.replayClaims[i].status
        /\ n.replayClaims[i].authorization = o.replayClaims[i].authorization
        /\ n.replayClaims[i].lease = "none" <=> o.replayClaims[i].lease = "none"
  BY <1>3, <1>4, <1>6
<1>8. \A i \in StageIdx :
        /\ n.readClaims[i].status = o.readClaims[i].status
        /\ n.readClaims[i].lease = "none" <=> o.readClaims[i].lease = "none"
  BY <1>3, <1>5, <1>6
<1> QED BY <1>1, <1>2, <1>7, <1>8 DEF Older

LEMMA AgeDeadlineOlder ==
  ASSUME NEW o \in Operation, NEW n, n = AgeDeadline(o) PROVE Older(o, n)
<1>1. n \in Operation BY AgeDeadlineAged DEF Aged
<1>2. /\ n.stage = o.stage /\ n.status = o.status /\ n.observations = o.observations
      /\ n.resumeAuthorization = o.resumeAuthorization
      /\ n.authorizationConsumed = o.authorizationConsumed
      /\ n.consumedAuthorizations = o.consumedAuthorizations
      /\ n.freshContinuations = o.freshContinuations
      /\ n.runtimeRepair = o.runtimeRepair
      /\ n.replayClaims = o.replayClaims /\ n.readClaims = o.readClaims
  BY DEF AgeDeadline, Operation
<1>3. \A i \in StageIdx :
        n.attempts[i] = [o.attempts[i] EXCEPT !.deadline = ExpireClock(o.attempts[i].deadline)]
  BY DEF AgeDeadline, Operation
<1>4. ASSUME NEW a \in Attempt, NEW d, d = [a EXCEPT !.deadline = ExpireClock(a.deadline)]
      PROVE  /\ d.attempted = a.attempted /\ d.status = a.status
             /\ d.pendingReadbacks = a.pendingReadbacks
             /\ d.maxPendingReadbacks = a.maxPendingReadbacks
             /\ d.deadline = "none" <=> a.deadline = "none"
  BY <1>4 DEF ExpireClock, Attempt
<1>5. \A i \in StageIdx : o.attempts[i] \in Attempt BY DEF Operation
<1>6. \A i \in StageIdx :
        /\ n.attempts[i].attempted = o.attempts[i].attempted
        /\ n.attempts[i].status = o.attempts[i].status
        /\ n.attempts[i].pendingReadbacks = o.attempts[i].pendingReadbacks
        /\ n.attempts[i].maxPendingReadbacks = o.attempts[i].maxPendingReadbacks
        /\ n.attempts[i].deadline = "none" <=> o.attempts[i].deadline = "none"
  BY <1>3, <1>4, <1>5
<1> QED BY <1>1, <1>2, <1>6 DEF Older

LEMMA OlderDecodes ==
  ASSUME NEW o \in Operation, NEW n, Older(o, n), Decodes(o) PROVE Decodes(n)
<1>1. ASSUME NEW i \in StageIdx
      PROVE  DecodesAttempt(n, i) /\ DecodesReplayClaim(n, i) /\ DecodesFreshContinuation(n, i)
             /\ DecodesReadClaim(n, i)
  <2>0. /\ DecodesAttempt(o, i) /\ DecodesReplayClaim(o, i) /\ DecodesFreshContinuation(o, i)
        /\ DecodesReadClaim(o, i)
    BY DEF Decodes
  <2>1. DecodesAttempt(n, i) BY <2>0 DEF DecodesAttempt, Older
  <2>2. ClaimAuthorization(n, i) = ClaimAuthorization(o, i)
    <3>1. /\ n.replayClaims[i].authorization = o.replayClaims[i].authorization
          /\ n.resumeAuthorization = o.resumeAuthorization
          /\ n.authorizationConsumed = o.authorizationConsumed
          /\ n.consumedAuthorizations = o.consumedAuthorizations
          /\ n.freshContinuations = o.freshContinuations
      BY DEF Older
    <3> QED BY <3>1, Zenon DEF ClaimAuthorization
  <2>3. DecodesReplayClaim(n, i) BY <2>0, <2>2 DEF DecodesReplayClaim, Older
  <2>4. DecodesFreshContinuation(n, i) BY <2>0 DEF DecodesFreshContinuation, Older
  <2>5. DecodesReadClaim(n, i) BY <2>0 DEF DecodesReadClaim, Older
  <2> QED BY <2>1, <2>3, <2>4, <2>5
<1> QED BY <1>1 DEF Decodes, Older, HasGrant

LEMMA OlderGood ==
  ASSUME NEW o \in Operation, NEW n, Older(o, n), Good(o) PROVE Good(n)
<1>1. ASSUME NEW i \in StageIdx PROVE StageGood(n, i) /\ ReplayGood(n, i)
  <2>1. StageGood(o, i) /\ ReplayGood(o, i) BY DEF Good
  <2>2. StageGood(n, i) BY <2>1 DEF StageGood, Untouched, Older
  <2>3. Grants(n) = Grants(o) BY DEF Grants, Older
  <2>4. ReplayGood(n, i) BY <2>1, <2>3 DEF ReplayGood, NoReplayGrant, Older
  <2> QED BY <2>2, <2>4
<1>2. ResourceBilling => GrantGood(n)
  <2>1. ResourceBilling => GrantGood(o) BY DEF Good
  <2> QED BY <2>1 DEF GrantGood, GrantActive, HasGrant, Att, Older
<1>3. ResourceBilling => RowAuthorized(n)
  <2>1. ResourceBilling => RowAuthorized(o) BY DEF Good
  <2> QED BY <2>1 DEF RowAuthorized, FreshActive, ReadAllowed, ContinuationReadAuthorized, GrantActive,
                      HasGrant, Att, Obs, Older
<1> QED BY <1>1, <1>2, <1>3 DEF Good

LEMMA OlderGrants ==
  ASSUME NEW o \in Operation, NEW n, Older(o, n)
  PROVE  GrantIds(n) = GrantIds(o) /\ Grants(n) = Grants(o) /\ \A m : GrantsFor(n, m) = GrantsFor(o, m)
<1>1. {n.replayClaims[i].authorization : i \in StageIdx} = {o.replayClaims[i].authorization : i \in StageIdx}
  BY DEF Older
<1>2. n.consumedAuthorizations = o.consumedAuthorizations /\ n.resumeAuthorization = o.resumeAuthorization
      /\ n.stage = o.stage
  BY DEF Older
<1>3. GrantIds(n) = GrantIds(o) BY <1>1, <1>2 DEF GrantIds
<1>4. Grants(n) = Grants(o) BY <1>2 DEF Grants
<1>5. ASSUME NEW m PROVE GrantsFor(n, m) = GrantsFor(o, m)
  <2>1. PICK s : s = o.stage OBVIOUS
  <2>2. n.stage = s /\ o.stage = s BY <1>2, <2>1
  <2> QED BY <2>2 DEF GrantsFor
<1> QED BY <1>3, <1>4, <1>5

LEMMA OlderTracked ==
  ASSUME NEW o, NEW n, Older(o, n), NEW i \in StageIdx, NEW a, Tracked(o, i, a)
  PROVE  Tracked(n, i, a)
  BY DEF Tracked, Older

LEMMA OlderKnows ==
  ASSUME NEW o \in Operation, NEW n, Older(o, n), NEW c, NEW g, Knows(o, c, g),
         c \in AtStage => o.stage \in StageIdx
  PROVE  Knows(n, c, g)
<1>1. CASE c \in Plain \cup Fresh \cup Resumes \cup {"repair", "repairing"}
  <2>1. o.stage \in StageIdx BY <1>1 DEF Plain, Fresh, Resumes, AtStage, PC
  <2>2. /\ n.stage = o.stage /\ n.status = o.status /\ n.observations = o.observations
        /\ n.resumeAuthorization = o.resumeAuthorization
        /\ n.authorizationConsumed = o.authorizationConsumed
        /\ n.consumedAuthorizations = o.consumedAuthorizations
        /\ n.freshContinuations = o.freshContinuations
        /\ Att(n).attempted = Att(o).attempted /\ Att(n).status = Att(o).status
        /\ Att(n).pendingReadbacks = Att(o).pendingReadbacks
        /\ Att(n).maxPendingReadbacks = Att(o).maxPendingReadbacks
        /\ Replay(n).status = Replay(o).status
        /\ Replay(n).authorization = Replay(o).authorization
        /\ Obs(n) = Obs(o)
    BY <2>1 DEF Older, Att, Replay, Obs
  <2>3. FreshActive(n) <=> FreshActive(o) BY <2>2 DEF FreshActive
  <2>4. ReplayClaimOpen(n) <=> ReplayClaimOpen(o)
    BY <2>2 DEF ReplayClaimOpen, IdempotentReplayAuthorized, GrantActive, HasGrant
  <2>5. FirstAttempt(n) <=> FirstAttempt(o) BY <2>2 DEF FirstAttempt, NoReplayGrant, Grants
  <2>6. idempotentReplayAuthorizationUsed(n) <=> idempotentReplayAuthorizationUsed(o)
    BY <2>2 DEF idempotentReplayAuthorizationUsed
  <2>7. FailedComputeReplayReauthorizationEligible(n) <=> FailedComputeReplayReauthorizationEligible(o)
    BY <2>2 DEF FailedComputeReplayReauthorizationEligible, HasGrant
  <2>8. /\ UnknownComputeContinuationEligible(n, g) <=> UnknownComputeContinuationEligible(o, g)
        /\ UnknownRuntimeReadEligible(n, g) <=> UnknownRuntimeReadEligible(o, g)
        /\ ReservedStageReplayEligible(n, g) <=> ReservedStageReplayEligible(o, g)
        /\ ReservedStageReadEligible(n, g) <=> ReservedStageReadEligible(o, g)
    BY <2>2, <2>6, <2>7 DEF UnknownComputeContinuationEligible, UnknownRuntimeReadEligible,
       ReservedStageReplayEligible, ReservedStageReadEligible
  <2>9. ResumeKnows(o, c, g) => ResumeKnows(n, c, g)
    BY <2>2, <2>8, OlderGrants DEF ResumeKnows
  <2>10. RuntimeRepairEligible(o) => RuntimeRepairEligible(n)
    <3>1. \A i \in StageIdx : /\ n.attempts[i].attempted = o.attempts[i].attempted
                              /\ n.attempts[i].status = o.attempts[i].status
      BY DEF Older
    <3>2. PICK s, obs, fresh : s = o.stage /\ obs = o.observations /\ fresh = o.freshContinuations OBVIOUS
    <3>3. n.stage = s /\ n.observations = obs /\ n.freshContinuations = fresh BY <2>2, <3>2
    <3> SUFFICES ASSUME RuntimeRepairEligible(o) PROVE RuntimeRepairEligible(n) OBVIOUS
    <3>4. \A i \in StageIdx : i < s => n.attempts[i].status = "confirmed" /\ obs[i] = "ready"
      BY <3>1, <3>2 DEF RuntimeRepairEligible
    <3>5. \A i \in StageIdx : i > s => n.attempts[i].attempted = 0 /\ obs[i] = ""
      BY <3>1, <3>2 DEF RuntimeRepairEligible
    <3>6. /\ n.status = "manual_review" /\ IsStage(s, Runtime) /\ ResourceBilling
          /\ Att(n).attempted = 1 /\ Att(n).status = "unknown" /\ Obs(n) = "unknown"
          /\ fresh[s] \in {"none", "failed"}
      BY <2>2, <3>2 DEF RuntimeRepairEligible
    <3> QED BY <3>3, <3>4, <3>5, <3>6 DEF RuntimeRepairEligible
  <2> QED BY <2>2, <2>3, <2>4, <2>5, <2>9, <2>10 DEF Knows
<1>2. CASE c \notin Plain \cup Fresh \cup Resumes \cup {"repair", "repairing"}
  BY <1>2 DEF Knows, Plain, Fresh, Resumes
<1> QED BY <1>1, <1>2

LEMMA OlderWrite ==
  ASSUME NEW o \in Operation, NEW n \in Operation, NEW o2, NEW n2, Older(o, o2), Older(n, n2), Write(o, n)
  PROVE  Write(o2, n2)
<1>1. o.stage \in StageIdx /\ o2.stage = o.stage /\ n2.stage = n.stage BY DEF Write, WriteStage, Older
<1>2. WriteStage(o2, n2)
  <2>1. WriteStage(o, n) BY DEF Write
  <2>2. o2.observations = o.observations /\ n2.observations = n.observations /\ n2.status = n.status BY DEF Older
  <2>3. \A i \in StageIdx : /\ n2.attempts[i].status = n.attempts[i].status
                            /\ n2.attempts[i].attempted = n.attempts[i].attempted
                            /\ o2.attempts[i].status = o.attempts[i].status
                            /\ o2.attempts[i].attempted = o.attempts[i].attempted
    BY DEF Older
  <2>4. PICK s, t : s = o.stage /\ t = n.stage OBVIOUS
  <2>5. \A i \in StageIdx : i # s =>
          /\ n2.observations[i] = o2.observations[i]
          /\ n2.attempts[i].status = o2.attempts[i].status
          /\ n2.attempts[i].attempted = o2.attempts[i].attempted
    BY <2>1, <2>2, <2>3, <2>4 DEF WriteStage
  <2>6. \/ t = s /\ n2.status \in {"pending", "manual_review"}
        \/ /\ t = s + 1 /\ n2.observations[s] = "ready"
           /\ n2.status = IF t = Succeeded THEN "succeeded" ELSE "pending"
    BY <2>1, <2>2, <2>4 DEF WriteStage
  <2> QED BY <1>1, <2>4, <2>5, <2>6 DEF WriteStage
<1>3. WriteGrants(o2, n2)
  <2>1. WriteGrants(o, n) BY DEF Write
  <2>2. /\ n2.resumeAuthorization = n.resumeAuthorization
        /\ n2.consumedAuthorizations = n.consumedAuthorizations
        /\ n2.authorizationConsumed = n.authorizationConsumed
        /\ o2.resumeAuthorization = o.resumeAuthorization
        /\ o2.consumedAuthorizations = o.consumedAuthorizations
        /\ o2.authorizationConsumed = o.authorizationConsumed
        /\ n2.runtimeRepair = n.runtimeRepair /\ o2.runtimeRepair = o.runtimeRepair
        /\ n2.status = n.status /\ o2.status = o.status
    BY DEF Older
  <2>3. GrantIds(o2) = GrantIds(o) BY OlderGrants
  <2>4. SameGrants(o, n) => SameGrants(o2, n2) BY <2>2 DEF SameGrants
  <2>5. NewGrant(o, n) => NewGrant(o2, n2) BY <2>2, <2>3 DEF NewGrant, HasGrant
  <2>6. RepairDrops(o, n) => RepairDrops(o2, n2) BY <2>2 DEF RepairDrops
  <2> QED BY <2>1, <2>2, <2>4, <2>5, <2>6 DEF WriteGrants
<1>4. WriteReplays(o2, n2)
  <2> SUFFICES ASSUME NEW i \in StageIdx, NEW a \in Nat, Tracked(o2, i, a) PROVE Tracked(n2, i, a)
    BY DEF WriteReplays
  <2>1. Tracked(o, i, a) BY DEF Tracked, Older
  <2>2. Tracked(n, i, a) BY <2>1 DEF Write, WriteReplays
  <2> QED BY <2>2, OlderTracked
<1>5. ResourceBilling => WriteAttempt(o2, n2)
  <2>1. ResourceBilling => WriteAttempt(o, n) BY DEF Write
  <2>2. /\ n2.attempts[o.stage].attempted = n.attempts[o.stage].attempted
        /\ o2.attempts[o.stage].attempted = o.attempts[o.stage].attempted
        /\ n2.status = n.status /\ o2.status = o.status
    BY <1>1 DEF Older
  <2> QED BY <1>1, <2>1, <2>2 DEF WriteAttempt
<1>6. ResourceBilling => WriteReads(o2, n2)
  <2>1. ResourceBilling => WriteReads(o, n) BY DEF Write
  <2> QED BY <2>1 DEF WriteReads, Older
<1> QED BY <1>2, <1>3, <1>4, <1>5, <1>6 DEF Write

LEMMA OlderClaims ==
  ASSUME NEW o, NEW n, NEW o2, NEW n2, Older(o, o2), Older(n, n2), o.stage \in StageIdx,
         NEW c, c = "freshRead" => n.stage \in StageIdx, Claims(o, n, c)
  PROVE  Claims(o2, n2, c)
<1>1. Att(o2).attempted = Att(o).attempted BY DEF Older, Att
<1>2. CASE c = "freshRead"
  <2>1. n.stage \in StageIdx BY <1>2
  <2>2. /\ n2.stage = n.stage /\ o2.freshContinuations = o.freshContinuations
        /\ Att(n2).pendingReadbacks = Att(n).pendingReadbacks
        /\ o2.attempts[n.stage].pendingReadbacks = o.attempts[n.stage].pendingReadbacks
    BY <2>1 DEF Older, Att
  <2> QED BY <1>1, <1>2, <2>2 DEF Claims
<1>3. CASE c # "freshRead" BY <1>1, <1>3 DEF Claims
<1> QED BY <1>2, <1>3

\* A handler's row after some time.
LEMMA OlderActor ==
  ASSUME IInv, JInv, NEW n, Older(op, n), op' = n, NEW k \in Local, ActorGood(k), PassInv(k),
         NEW r \in Local, r.pc = k.pc, r.next = k.next, r.held = k.held, r.grant = k.grant,
         Older(k.row, r.row), k.row = op => r.row = n
  PROVE  ActorGood(r)'
<1>0. PICK o, m, d : o = op /\ m = k.row /\ d = r.row OBVIOUS
<1>1. o \in Operation /\ m \in Operation /\ d \in Operation /\ Older(o, n) /\ Older(m, d)
  BY <1>0, JFacts DEF Local
<1>2. k.pc \in AtStage => m.stage \in StageIdx BY <1>0 DEF PassInv
<1>3. k.pc = "persist" /\ k.next \in AtStage => m.stage \in StageIdx BY <1>0 DEF PassInv
<1>4. k.pc # "persist" =>
        /\ Decodes(d) /\ Good(d) /\ Knows(d, k.pc, k.grant)
        /\ k.held => d = n
  <2>1. k.pc # "persist" => Decodes(m) /\ Good(m) /\ Knows(m, k.pc, k.grant) /\ (k.held => m = o)
    BY <1>0 DEF ActorGood
  <2> QED BY <1>0, <1>1, <1>2, <2>1, OlderDecodes, OlderGood, OlderKnows
<1>5. k.pc = "persist" /\ k.held =>
        /\ Write(n, d) /\ Good(d) /\ Knows(d, k.next, k.grant) /\ Claims(n, d, k.next)
  <2> SUFFICES ASSUME k.pc = "persist", k.held
               PROVE  /\ Write(n, d) /\ Good(d) /\ Knows(d, k.next, k.grant) /\ Claims(n, d, k.next)
    OBVIOUS
  <2>1. Write(o, m) /\ Good(m) /\ Knows(m, k.next, k.grant) /\ Claims(o, m, k.next)
    BY <1>0 DEF ActorGood
  <2>2. o.stage \in StageIdx BY <2>1 DEF Write, WriteStage
  <2>3. k.next = "freshRead" => m.stage \in StageIdx BY <1>3 DEF AtStage, PC
  <2>4. Write(n, d) BY <1>1, <2>1, OlderWrite
  <2>5. Good(d) /\ Knows(d, k.next, k.grant) BY <1>1, <1>3, <2>1, OlderGood, OlderKnows
  <2>6. Claims(n, d, k.next) BY <1>1, <2>1, <2>2, <2>3, OlderClaims
  <2> QED BY <2>4, <2>5, <2>6
<1>6. k.next \notin Resumes BY DEF ActorGood
<1>7. k.pc \in Callers /\ Replay(d).status = "claimed" => Tracked(n, d.stage, Replay(d).authorization)
  <2> SUFFICES ASSUME k.pc \in Callers, Replay(d).status = "claimed"
               PROVE  Tracked(n, d.stage, Replay(d).authorization)
    OBVIOUS
  <2>1. m.stage \in StageIdx BY <1>2 DEF Callers, AtStage, PC
  <2>2. d.stage = m.stage /\ Replay(d).status = Replay(m).status
        /\ Replay(d).authorization = Replay(m).authorization
    BY <1>1, <2>1 DEF Older, Replay
  <2>3. Tracked(o, m.stage, Replay(m).authorization) BY <1>0, <2>2 DEF ActorGood
  <2> QED BY <1>1, <2>1, <2>2, <2>3, OlderTracked
<1>8. ResourceBilling /\ k.pc \in {"repair", "repairing"} => n.attempts[d.stage].attempted = 1
  <2> SUFFICES ASSUME ResourceBilling, k.pc \in {"repair", "repairing"}
               PROVE  n.attempts[d.stage].attempted = 1
    OBVIOUS
  <2>1. m.stage \in StageIdx BY <1>2 DEF AtStage, PC
  <2>2. o.attempts[m.stage].attempted = 1 BY <1>0 DEF ActorGood
  <2> QED BY <1>1, <2>1, <2>2 DEF Older
<1>9. op' = n /\ r.row = d BY <1>0
<1> QED BY <1>4, <1>5, <1>6, <1>7, <1>8, <1>9 DEF ActorGood

LEMMA AgedJ ==
  ASSUME IInv, JInv, NEW n, Older(op, n), op' = n, NEW rows, local' = rows,
         rows \in [Actors -> Local],
         \A q \in Actors : /\ rows[q].pc = local[q].pc /\ rows[q].next = local[q].next
                           /\ rows[q].held = local[q].held /\ rows[q].grant = local[q].grant
                           /\ Older(local[q].row, rows[q].row)
                           /\ local[q].row = op => rows[q].row = n,
         UNCHANGED <<world, lock, sent, gets, repairs, crashes>>
  PROVE  JInv'
<1>0. PICK o : o = op OBVIOUS
<1>1. Decodes(op)' /\ Good(op)'
  <2>1. o \in Operation /\ Decodes(o) /\ Good(o) /\ Older(o, n) BY <1>0, JFacts DEF JInv
  <2>2. Decodes(n) /\ Good(n) BY <2>1, OlderDecodes, OlderGood
  <2> QED BY <2>2
<1>2. ASSUME NEW q \in Actors PROVE ActorGood(local[q])'
  <2>1. PICK k, r : k = local[q] /\ r = rows[q] OBVIOUS
  <2>2. k \in Local /\ ActorGood(k) /\ PassInv(k) BY <2>1, JFacts DEF IInv, ActorInv
  <2>3. r \in Local /\ r.pc = k.pc /\ r.next = k.next /\ r.held = k.held /\ r.grant = k.grant
        /\ Older(k.row, r.row) /\ (k.row = op => r.row = n)
    BY <2>1
  <2>4. ActorGood(r)' BY <2>2, <2>3, OlderActor
  <2> QED BY <2>1, <2>4
<1>3. \A q \in Actors : \A c : \A i \in StageIdx :
         (At(q, c) /\ Row(q).stage = i)' <=> (At(q, c) /\ Row(q).stage = i)
  BY DEF At, Row, Older
<1>4. \A q \in Actors : \A i \in StageIdx : First(q, i)' => First(q, i)
  BY DEF First, At, Row, Replay, Older
<1>5. FirstAlone' BY <1>4 DEF JInv, FirstAlone
<1>6. ReplaysTracked'
  <2>1. \A i \in StageIdx : \A a \in sent[i].replays : Tracked(n, i, a)
    BY OlderTracked DEF JInv, ReplaysTracked
  <2> QED BY <2>1 DEF ReplaysTracked, Tracked
<1>7. ReadsCounted'
  <2>1. \A i \in StageIdx : Readers(i)' = Readers(i) BY <1>3 DEF Readers
  <2>2. \A i \in StageIdx : /\ n.freshContinuations[i] = op.freshContinuations[i]
                            /\ n.attempts[i].pendingReadbacks = op.attempts[i].pendingReadbacks
    BY DEF Older
  <2> QED BY <2>1, <2>2 DEF JInv, ReadsCounted
<1>8. WorldAsked' BY DEF JInv, WorldAsked, Dispatches
<1> QED BY <1>1, <1>2, <1>5, <1>6, <1>7, <1>8 DEF JInv

LEMMA LeaseExpiresJ ==
  ASSUME IInv, JInv, LeaseExpires PROVE JInv'
<1>0. PICK rows : rows = [p \in Actors |-> [local[p] EXCEPT !.row = AgeLeases(local[p].row)]] OBVIOUS
<1>1. local' = rows /\ op' = AgeLeases(op) BY <1>0 DEF LeaseExpires, Ages
<1>2. Older(op, AgeLeases(op)) BY AgeLeasesOlder, JFacts
<1>3. ASSUME NEW q \in Actors
      PROVE  /\ rows[q] \in Local
             /\ rows[q].pc = local[q].pc /\ rows[q].next = local[q].next
             /\ rows[q].held = local[q].held /\ rows[q].grant = local[q].grant
             /\ rows[q].row = AgeLeases(local[q].row) /\ Older(local[q].row, rows[q].row)
  <2>1. local[q] \in Local /\ local[q].row \in Operation BY JFacts DEF Local
  <2>2. PICK k, m, r : k = local[q] /\ m = AgeLeases(local[q].row) /\ r = rows[q] OBVIOUS
  <2>3. Older(k.row, m) /\ m \in Operation BY <2>1, <2>2, AgeLeasesOlder DEF Older
  <2>4. r = [k EXCEPT !.row = m] /\ k \in Local BY <1>0, <2>1, <2>2
  <2>5. r \in Local /\ r.pc = k.pc /\ r.next = k.next /\ r.held = k.held /\ r.grant = k.grant /\ r.row = m
    BY <2>3, <2>4 DEF Local
  <2> QED BY <2>2, <2>3, <2>5
<1>4. rows \in [Actors -> Local] BY <1>0, <1>3
<1> QED BY <1>1, <1>2, <1>3, <1>4, AgedJ DEF LeaseExpires, Ages

LEMMA DeadlineExpiresJ ==
  ASSUME IInv, JInv, DeadlineExpires PROVE JInv'
<1>0. PICK rows : rows = [p \in Actors |-> [local[p] EXCEPT !.row = AgeDeadline(local[p].row)]] OBVIOUS
<1>1. local' = rows /\ op' = AgeDeadline(op) BY <1>0 DEF DeadlineExpires, Ages
<1>2. Older(op, AgeDeadline(op)) BY AgeDeadlineOlder, JFacts
<1>3. ASSUME NEW q \in Actors
      PROVE  /\ rows[q] \in Local
             /\ rows[q].pc = local[q].pc /\ rows[q].next = local[q].next
             /\ rows[q].held = local[q].held /\ rows[q].grant = local[q].grant
             /\ rows[q].row = AgeDeadline(local[q].row) /\ Older(local[q].row, rows[q].row)
  <2>1. local[q] \in Local /\ local[q].row \in Operation BY JFacts DEF Local
  <2>2. PICK k, m, r : k = local[q] /\ m = AgeDeadline(local[q].row) /\ r = rows[q] OBVIOUS
  <2>3. Older(k.row, m) /\ m \in Operation BY <2>1, <2>2, AgeDeadlineOlder DEF Older
  <2>4. r = [k EXCEPT !.row = m] /\ k \in Local BY <1>0, <2>1, <2>2
  <2>5. r \in Local /\ r.pc = k.pc /\ r.next = k.next /\ r.held = k.held /\ r.grant = k.grant /\ r.row = m
    BY <2>3, <2>4 DEF Local
  <2> QED BY <2>2, <2>3, <2>5
<1>4. rows \in [Actors -> Local] BY <1>0, <1>3
<1> QED BY <1>1, <1>2, <1>3, <1>4, AgedJ DEF DeadlineExpires, Ages

-----------------------------------------------------------------------------
(* The invariant.                                                          *)

\* Nobody has called, read or written anything.
LEMMA InitJ == Init => JInv
<1> SUFFICES ASSUME Init PROVE JInv OBVIOUS
<1>1. Decodes(op) /\ Good(op) BY NewRowGood DEF Init
<1>2. \A p \in Actors : local[p] = AtRest BY DEF Init
<1>3. \A p \in Actors : ActorGood(local[p]) BY <1>2, AtRestGood
<1>4. \A p \in Actors : At(p, "idle") BY <1>2 DEF At, AtRest
<1>5. FirstAlone
  <2>1. \A i \in StageIdx : sent[i].first = 0 BY DEF Init
  <2>2. \A p \in Actors : \A i \in StageIdx : ~First(p, i) BY <1>4 DEF First, At
  <2> QED BY <2>1, <2>2 DEF FirstAlone
<1>6. ReplaysTracked BY DEF Init, ReplaysTracked
<1>7. ReadsCounted
  <2>1. \A i \in StageIdx : op.freshContinuations[i] = "none"
    BY DEF Init, newWorkspaceLaunchReconcileOperation
  <2>2. \A i \in StageIdx : gets[i] = 0 BY DEF Init
  <2>3. \A i \in StageIdx : Readers(i) = {} BY <1>4 DEF Readers, At
  <2> QED BY <2>1, <2>2, <2>3 DEF ReadsCounted
<1>8. WorldAsked BY DEF Init, WorldAsked
<1> QED BY <1>1, <1>3, <1>5, <1>6, <1>7, <1>8 DEF JInv

\* One step per group of actions, each a lemma above.
LEMMA NextJ == IInv /\ JInv /\ [Next]_vars => JInv'
<1> SUFFICES ASSUME IInv, JInv, [Next]_vars PROVE JInv' OBVIOUS
<1>1. ASSUME NEW p \in Actors, Starts(p) PROVE JInv'
  BY <1>1, StartsAgainJ, ResumeJ, RepairBeginsJ DEF Starts
<1>2. ASSUME NEW p \in Actors, Load(p) PROVE JInv'
  BY <1>2, LoadJ
<1>3. ASSUME NEW p \in Actors, Reconciles(p) PROVE JInv'
  BY <1>3, EntryJ, ReadReturnsJ, ReadyJ, ReadUnknownJ, ReconcilePendingJ, ReconcileOwnershipPendingJ,
     ReconcileAbsentParksJ, ReplayClaimedJ, ReconcileReserveJ, MutateJ, MutateRefusedJ,
     ReplayReadRepeatsJ, PostPendingJ
     DEF Reconciles
<1>4. ASSUME NEW p \in Actors, ContinuesFresh(p) PROVE JInv'
  BY <1>4, FreshHeldJ, FreshReplayTakenOverJ, FreshClaimReadJ, FreshReadRefusedJ, FreshReadEndsJ,
     FreshReadOwnershipPendingJ, ConvergeRepeatsJ, ConvergeEndsJ, MutateJ
     DEF ContinuesFresh
<1>5. ASSUME NEW p \in Actors, Operates(p) PROVE JInv'
  BY <1>5, ResumeConflictJ, ResumeComputeJ, ResumeRuntimeJ, ResumeExhaustedReadyJ, ResumeExhaustedJ,
     RepairCallsJ, RepairReadyJ, RepairFailedJ
     DEF Operates
<1>6. ASSUME NEW p \in Actors, Persists(p) PROVE JInv'
  BY <1>6, PersistAcceptedJ, PersistRejectedJ DEF Persists
<1>7. ASSUME NEW p \in Actors, Crash(p) PROVE JInv'
  BY <1>7, CrashJ
<1>8. CASE Environment
  BY <1>8, OwnerStepsJ, LeaseExpiresJ, DeadlineExpiresJ DEF Environment
<1>9. CASE UNCHANGED vars BY <1>9, StutterJ
<1> QED BY <1>1, <1>2, <1>3, <1>4, <1>5, <1>6, <1>7, <1>8, <1>9 DEF Next

\* Every stored row decodes and is good, every working copy is what its
\* handler took it for, and every call and every read that was made is on
\* record, in every behaviour of the reconciler (Reconcile, Resume,
\* continueFreshTypedPending, repairWorkspaceLaunchRuntime and persist).
THEOREM Authority == Spec => []JInv
<1>1. Init => JInv BY InitJ
<1>2. IInv /\ JInv /\ [Next]_vars => JInv' BY NextJ
<1> QED BY <1>1, <1>2, Invariant, PTL DEF Spec

-----------------------------------------------------------------------------
(* What follows for every state.                                           *)

\* For every list of stages and any number of workers, customers and
\* operators: a stage of a billed launch is called for the first time at most
\* once (Attempt.Max = 1, reserved by persist before mutateReservedStage).
THEOREM SingleFirstDispatchTheorem == Spec => []SingleFirstDispatch
<1>1. JInv => SingleFirstDispatch BY DEF JInv, FirstAlone, SingleFirstDispatch
<1> QED BY <1>1, Authority, PTL

\* A billed launch that is pending on a reserved stage typed pending always
\* has an active fresh continuation or an open authorization with reads left,
\* for every read budget and any sequence of authorizations (the guard of
\* Reconcile, CountReadback, waitClaimedReplay, parkFreshTypedPending).
THEOREM PendingIsAuthorizedTheorem == Spec => []PendingIsAuthorized
<1>1. JInv => PendingIsAuthorized BY DEF JInv, Good, RowAuthorized, PendingIsAuthorized
<1> QED BY <1>1, Authority, PTL

\* The owner reads made under a fresh continuation never exceed its budget,
\* whatever the budgets are and however many passes die between the claim of
\* a read and its report (continueFreshTypedPending).
THEOREM FreshReadsWithinBudgetTheorem == Spec => []FreshReadsWithinBudget
<1>1. ASSUME IInv, JInv PROVE FreshReadsWithinBudget
  <2> SUFFICES ASSUME ResourceBilling, NEW i \in StageIdx
               PROVE  gets[i] <= FreshContinuationReadBudget(i)
    BY DEF FreshReadsWithinBudget
  <2>1. FreshContinuationReadBudget(i) \in Nat BY BudgetAssumption DEF FreshContinuationReadBudget
  <2>2. gets[i] \in Nat BY <1>1, JFacts
  <2>3. CASE op.freshContinuations[i] = "none"
    <3>1. gets[i] = 0 BY <1>1, <2>3 DEF JInv, ReadsCounted
    <3> QED BY <2>1, <3>1
  <2>4. CASE op.freshContinuations[i] # "none"
    <3>1. /\ IsFiniteSet(Readers(i))
          /\ gets[i] + Cardinality(Readers(i)) <= op.attempts[i].pendingReadbacks - 1
      BY <1>1, <2>4 DEF JInv, ReadsCounted
    <3>2. Cardinality(Readers(i)) \in Nat BY <3>1, FS_CardinalityType
    <3>3. op \in Operation BY <1>1, JFacts
    <3>4. op.attempts[i].pendingReadbacks \in Nat /\ op.attempts[i].maxPendingReadbacks \in Nat
      BY <3>3 DEF Operation, Attempt
    <3>5. op.attempts[i].pendingReadbacks <= op.attempts[i].maxPendingReadbacks
      BY <1>1 DEF JInv, Decodes, DecodesAttempt
    <3>6. op.attempts[i].maxPendingReadbacks = 1 + FreshContinuationReadBudget(i)
      BY <1>1, <2>4 DEF JInv, Decodes, DecodesFreshContinuation
    <3> QED BY <2>1, <2>2, <3>1, <3>2, <3>4, <3>5, <3>6
  <2> QED BY <2>3, <2>4
<1> QED BY <1>1, Invariant, Authority, PTL

\* Two different ones at most.
LEMMA AtMostTwo ==
  ASSUME NEW S, \A a, b, c \in S : a = b \/ b = c \/ a = c
  PROVE  Cardinality(S) <= 2
<1>1. CASE S = {} BY <1>1, FS_EmptySet
<1>2. CASE S # {}
  <2>1. PICK x \in S : TRUE BY <1>2
  <2>2. IsFiniteSet({x}) /\ Cardinality({x}) = 1 BY FS_Singleton
  <2>3. CASE S = {x} BY <2>2, <2>3
  <2>4. CASE S # {x}
    <3>1. PICK y \in S : y # x BY <2>1, <2>4
    <3>2. S = {x} \cup {y} BY <2>1, <3>1
    <3>3. Cardinality({x} \cup {y}) = 1 + 1 BY <2>2, <3>1, FS_AddElement
    <3> QED BY <3>2, <3>3
  <2> QED BY <2>3, <2>4
<1> QED BY <1>1, <1>2

LEMMA AtMostOne ==
  ASSUME NEW S, NEW x, \A a \in S : a = x
  PROVE  Cardinality(S) <= 1
<1>1. CASE S = {} BY <1>1, FS_EmptySet
<1>2. CASE S # {}
  <2>1. S = {x} BY <1>2
  <2>2. Cardinality({x}) = 1 BY FS_Singleton
  <2> QED BY <2>1, <2>2
<1> QED BY <1>1, <1>2

\* Who a call on record was made for: the stage's own continuation of compute
\* or an authorization of exactly this stage.
LEMMA TrackedGrant ==
  ASSUME NEW o \in Operation, Decodes(o), NEW i \in StageIdx, NEW a, Tracked(o, i, a)
  PROVE  \/ a = 0 /\ Stages[i] = Compute /\ o.freshContinuations[i] # "none"
         \/ \E g \in Grants(o) : g.id = a /\ g.stage = i /\ g.mutation = 0 /\ g.replay = 1
<1>1. CASE o.replayClaims[i].status # "none" /\ o.replayClaims[i].authorization = a
  <2>1. PICK c : c = ClaimAuthorization(o, i) OBVIOUS
  <2>2. c.found /\ c.stage = i /\ c.mutation = 0 /\ c.replay = 1
    BY <1>1, <2>1 DEF Decodes, DecodesReplayClaim
  <2>3. CASE a = 0 /\ o.freshContinuations[i] # "none"
    <3>1. c.replay = FreshContinuationReplayBudget(i) BY <1>1, <2>1, <2>3 DEF ClaimAuthorization
    <3> QED BY <2>2, <2>3, <3>1 DEF FreshContinuationReplayBudget
  <2>4. CASE a # 0 /\ o.resumeAuthorization.id = a
    <3>1. /\ c.stage = o.resumeAuthorization.stage /\ c.mutation = o.resumeAuthorization.mutation
          /\ c.replay = o.resumeAuthorization.replay
      BY <1>1, <2>1, <2>4 DEF ClaimAuthorization
    <3> QED BY <2>2, <2>4, <3>1 DEF Grants
  <2>5. CASE a # 0 /\ o.resumeAuthorization.id # a /\ {g \in o.consumedAuthorizations : g.id = a} # {}
    <3>1. PICK h : h = CHOOSE g \in {g \in o.consumedAuthorizations : g.id = a} : TRUE OBVIOUS
    <3>2. h \in o.consumedAuthorizations /\ h.id = a BY <2>5, <3>1
    <3>3. c.stage = h.stage /\ c.mutation = h.mutation /\ c.replay = h.replay
      BY <1>1, <2>1, <2>5, <3>1 DEF ClaimAuthorization
    <3> QED BY <2>2, <3>2, <3>3 DEF Grants
  <2>6. CASE /\ ~(a = 0 /\ o.freshContinuations[i] # "none")
             /\ ~(a # 0 /\ o.resumeAuthorization.id = a)
             /\ ~(a # 0 /\ o.resumeAuthorization.id # a /\ {g \in o.consumedAuthorizations : g.id = a} # {})
    <3>1. c.found = FALSE BY <1>1, <2>1, <2>6 DEF ClaimAuthorization
    <3> QED BY <2>2, <3>1
  <2> QED BY <2>3, <2>4, <2>5, <2>6
<1>2. CASE \E g \in o.consumedAuthorizations :
             g.id = a /\ a # 0 /\ g.stage = i /\ g.mutation = 0 /\ g.replay = 1
  BY <1>2 DEF Grants
<1> QED BY <1>1, <1>2 DEF Tracked

\* An owner is called again only under a recorded authorization of that stage
\* with a replay budget, once per stage and twice for compute, for any number
\* of operators and authorizations (idempotentReplayAuthorizationUsed,
\* FailedComputeReplayReauthorization, claimIdempotentReplay).
THEOREM ReplayNeedsGrantTheorem == Spec => []ReplayNeedsGrant
<1>1. ASSUME IInv, JInv PROVE ReplayNeedsGrant
  <2> SUFFICES ASSUME NEW i \in StageIdx
               PROVE  /\ \A a \in sent[i].replays :
                           \/ a = 0 /\ Stages[i] = Compute
                           \/ \E g \in Grants(op) : g.id = a /\ g.stage = i /\ g.mutation = 0 /\ g.replay = 1
                      /\ Cardinality(sent[i].replays) <= (IF Stages[i] = Compute THEN 2 ELSE 1)
    BY DEF ReplayNeedsGrant
  <2>1. PICK o, S : o = op /\ S = sent[i].replays OBVIOUS
  <2>2. o \in Operation /\ Decodes(o) /\ Good(o) /\ \A a \in S : Tracked(o, i, a)
    BY <1>1, <2>1, JFacts DEF JInv, ReplaysTracked
  <2>3. \A a \in S :
          \/ a = 0 /\ Stages[i] = Compute /\ o.freshContinuations[i] # "none"
          \/ \E g \in Grants(o) : g.id = a /\ g.stage = i /\ g.mutation = 0 /\ g.replay = 1
    BY <2>2, TrackedGrant
  <2>4. CASE Stages[i] # Compute
    <3>0. PICK x : x = o.replayClaims[i].authorization OBVIOUS
    <3>1. \A a \in S : a = x BY <2>2, <2>4, <3>0 DEF Tracked
    <3>2. Cardinality(S) <= 1 BY <3>1, AtMostOne
    <3> QED BY <2>1, <2>3, <2>4, <3>2
  <2>5. CASE Stages[i] = Compute
    <3>1. ReplayGood(o, i) /\ Lasting(i) BY <2>2, <2>5 DEF Good, Lasting
    <3>2. CASE o.freshContinuations[i] # "none"
      <4>1. \A a \in S : a = 0 BY <2>3, <3>1, <3>2 DEF ReplayGood, NoReplayGrant, ReplayGrant
      <4>2. \A a, b, c \in S : a = b \/ b = c \/ a = c BY <4>1
      <4> QED BY <2>1, <2>3, <2>5, <4>2, AtMostTwo
    <3>3. CASE o.freshContinuations[i] = "none"
      <4>1. \A a \in S : \E g \in Grants(o) : ReplayGrant(g, i) /\ g.id = a
        BY <2>3, <3>3 DEF ReplayGrant
      <4>2. \A g, h, k \in Grants(o) :
              ReplayGrant(g, i) /\ ReplayGrant(h, i) /\ ReplayGrant(k, i) =>
                g.id = h.id \/ h.id = k.id \/ g.id = k.id
        BY <2>5, <3>1 DEF ReplayGood
      <4>3. ASSUME NEW a \in S, NEW b \in S, NEW c \in S PROVE a = b \/ b = c \/ a = c
        <5>1. PICK g \in Grants(o) : ReplayGrant(g, i) /\ g.id = a BY <4>1
        <5>2. PICK h \in Grants(o) : ReplayGrant(h, i) /\ h.id = b BY <4>1
        <5>3. PICK k \in Grants(o) : ReplayGrant(k, i) /\ k.id = c BY <4>1
        <5> QED BY <4>2, <5>1, <5>2, <5>3
      <4> QED BY <2>1, <2>3, <2>5, <4>3, AtMostTwo
    <3> QED BY <3>2, <3>3
  <2> QED BY <2>4, <2>5
<1> QED BY <1>1, Invariant, Authority, PTL

-----------------------------------------------------------------------------
(* What follows for every step.                                            *)

\* Nothing another party can see changes.
Silent == UNCHANGED <<op, world, sent, repairs>>

\* Whoever acts, the row, the owners and the calls change in few ways.
LEMMA StepKinds ==
  ASSUME [Next]_vars
  PROVE  \/ Silent
         \/ \E p \in Actors : Mutate(p) \/ ConvergeMutate(p)
         \/ \E p \in Actors : RepairCalls(p)
         \/ \E p \in Actors : PersistAccepted(p)
         \/ \E i \in StageIdx : OwnerSteps(i)
         \/ LeaseExpires \/ DeadlineExpires
<1>0. Quiet => Silent BY DEF Quiet, Silent
<1>1. ASSUME NEW p \in Actors, Starts(p) PROVE Silent
  BY <1>0, <1>1 DEF Starts, ListPending, CustomerContinues, Resume, ResumeAgain, RepairBegins,
     RepairAgain, Thinks
<1>2. ASSUME NEW p \in Actors, Load(p) PROVE Silent
  BY <1>0, <1>2 DEF Load
<1>3. ASSUME NEW p \in Actors, Reconciles(p) PROVE Silent \/ Mutate(p)
  BY <1>0, <1>3 DEF Reconciles, EntryReset, EntryReturn, EntryRead, EntryPutAside, ReconcileReady,
     ReconcileUnreadable, ReconcileUnknown, ReconcilePending, ReconcileOwnershipPending,
     ReconcileAbsentParks, ReplayNotDispatched, ReplayClaimed, MutateUnavailable, ReconcileReserve,
     MutateRefused, PostReady, PostPending, PostUnknown, FactsRefused, ReplayReadReady,
     ReplayReadPending, ReplayReadUnknown, ReplayReadRepeats, Thinks
<1>4. ASSUME NEW p \in Actors, ContinuesFresh(p) PROVE Silent \/ ConvergeMutate(p)
  <2>1. FreshHeld(p) \/ FreshReplayTakenOver(p) \/ FreshClaimRead(p) => Silent
    BY <1>0 DEF FreshHeld, FreshReplayTakenOver, FreshClaimRead, Thinks
  <2>2. ConvergeReady(p) \/ ConvergePending(p) \/ ConvergeRepeats(p) \/ ConvergeWaits(p)
        \/ ConvergeFails(p) => Silent
    BY <1>0 DEF ConvergeReady, ConvergePending, ConvergeRepeats, ConvergeWaits, ConvergeFails, Thinks
  <2>3. GetUnderClaim(p) => Silent BY DEF GetUnderClaim, Silent
  <2>4. FreshReadReady(p) \/ FreshReadPending(p) \/ FreshReadOwnershipPending(p) \/ FreshReadFailed(p)
        => Silent
    BY <2>3 DEF FreshReadReady, FreshReadPending, FreshReadOwnershipPending, FreshReadFailed
  <2>5. FreshReadRefused(p) => Silent BY DEF FreshReadRefused, Silent
  <2> QED BY <1>4, <2>1, <2>2, <2>4, <2>5 DEF ContinuesFresh
<1>5. ASSUME NEW p \in Actors, Operates(p) PROVE Silent \/ RepairCalls(p)
  BY <1>0, <1>5 DEF Operates, ResumeConflict, ResumeCompute, ResumeRuntime, ResumeExhaustedReady,
     ResumeExhausted, RepairReady, RepairFailed, Thinks
<1>6. ASSUME NEW p \in Actors, PersistRejected(p) \/ Crash(p) PROVE Silent
  BY <1>0, <1>6 DEF PersistRejected, Crash, Silent
<1>7. CASE UNCHANGED vars BY <1>7 DEF vars, Silent
<1> QED BY <1>1, <1>2, <1>3, <1>4, <1>5, <1>6, <1>7 DEF Next, Persists, Environment

\* The stored row stays, grows older, or is replaced by a row that was written
\* on top of it.
LEMMA StoredRowSteps ==
  ASSUME IInv, JInv, [Next]_vars
  PROVE  \/ op' = op
         \/ Older(op, op')
         \/ op' \in Operation /\ Write(op, op')
<1>1. CASE Silent BY <1>1 DEF Silent
<1>2. ASSUME NEW p \in Actors, Mutate(p) \/ ConvergeMutate(p) \/ RepairCalls(p) PROVE op' = op
  BY <1>2 DEF Mutate, ConvergeMutate, RepairCalls
<1>3. ASSUME NEW p \in Actors, PersistAccepted(p) PROVE op' \in Operation /\ Write(op, op')
  <2>1. PICK l, n : l = local[p] /\ n = l.row OBVIOUS
  <2> QED BY <1>3, <2>1, AcceptedFacts
<1>4. ASSUME NEW i \in StageIdx, OwnerSteps(i) PROVE op' = op BY <1>4 DEF OwnerSteps
<1>5. CASE LeaseExpires
  <2>1. op' = AgeLeases(op) /\ op \in Operation BY <1>5, JFacts DEF LeaseExpires, Ages
  <2> QED BY <2>1, AgeLeasesOlder
<1>6. CASE DeadlineExpires
  <2>1. op' = AgeDeadline(op) /\ op \in Operation BY <1>6, JFacts DEF DeadlineExpires, Ages
  <2> QED BY <2>1, AgeDeadlineOlder
<1> QED BY <1>1, <1>2, <1>3, <1>4, <1>5, <1>6, StepKinds

\* No step takes back a stage that is ready, skips one or reopens a finished
\* launch, however stale the pass that takes it (persist's compare-and-swap).
THEOREM ConfirmedIsFinalTheorem == Spec => ConfirmedIsFinal
<1>1. ASSUME IInv, JInv, [Next]_vars PROVE Monotone
  <2>0. PICK o, n : o = op /\ n = op' OBVIOUS
  <2>1. o \in Operation /\ Decodes(o) /\ Good(o) BY <1>1, <2>0, JFacts DEF JInv
  <2>2. o.stage \in Nat
    <3>1. o.stage \in 1..Succeeded BY <2>1 DEF Operation
    <3> QED BY <3>1, StageIdxType
  <2>3. CASE n = o BY <2>0, <2>2, <2>3 DEF Monotone
  <2>4. CASE Older(o, n)
    <3>1. /\ n.stage = o.stage /\ n.status = o.status /\ n.observations = o.observations
          /\ \A i \in StageIdx : /\ n.attempts[i].status = o.attempts[i].status
                                 /\ n.attempts[i].attempted = o.attempts[i].attempted
      BY <2>4 DEF Older
    <3>2. n.stage - o.stage \in {0, 1} BY <2>2, <3>1
    <3> QED BY <2>0, <3>1, <3>2 DEF Monotone
  <2>5. CASE Write(o, n)
    <3>1. WriteStage(o, n) BY <2>5 DEF Write
    <3>2. o.observations[o.stage] # "ready" BY <2>1, <3>1 DEF Good, StageGood, WriteStage
    <3>3. \A i \in StageIdx : o.observations[i] = "ready" =>
            /\ n.observations[i] = "ready"
            /\ n.attempts[i].status = o.attempts[i].status
            /\ n.attempts[i].attempted = o.attempts[i].attempted
      BY <3>1, <3>2 DEF WriteStage
    <3>4. n.stage - o.stage \in {0, 1} BY <2>2, <3>1 DEF WriteStage
    <3>5. o.status # "succeeded" BY <2>1, <3>1, StageIdxType DEF WriteStage, Decodes
    <3> QED BY <2>0, <3>3, <3>4, <3>5 DEF Monotone
  <2> QED BY <1>1, <2>0, <2>3, <2>4, <2>5, StoredRowSteps
<1> QED BY <1>1, Invariant, Authority, PTL DEF Spec, ConfirmedIsFinal

\* An authorization that was used up never opens again: no pass or crash gives
\* a budget back (consumeResumeAuthorization, rotateResumeAuthorization).
THEOREM GrantSpentOnceTheorem == Spec => GrantSpentOnce
<1>1. ASSUME IInv, JInv, [Next]_vars
      PROVE  \A n \in 1..MaxGrants : Spent(op, n) =>
               ~(op'.resumeAuthorization.id = n /\ ~op'.authorizationConsumed)
  <2> SUFFICES ASSUME NEW n \in 1..MaxGrants, Spent(op, n)
               PROVE  ~(op'.resumeAuthorization.id = n /\ ~op'.authorizationConsumed)
    OBVIOUS
  <2>0. PICK o, m : o = op /\ m = op' OBVIOUS
  <2>1. Decodes(o) /\ Spent(o, n) /\ n # 0 BY <1>1, <2>0, BudgetAssumption DEF JInv
  <2>2. CASE \/ m = o \/ Older(o, m) \/ SameGrants(o, m)
    <3>1. /\ m.resumeAuthorization = o.resumeAuthorization
          /\ o.authorizationConsumed => m.authorizationConsumed
      BY <2>2 DEF Older, SameGrants
    <3>2. \A g \in o.consumedAuthorizations : g.id # o.resumeAuthorization.id BY <2>1 DEF Decodes
    <3> QED BY <2>0, <2>1, <3>1, <3>2 DEF Spent
  <2>3. CASE NewGrant(o, m)
    <3>1. n \in GrantIds(o) BY <2>1 DEF Spent, GrantIds
    <3> QED BY <2>0, <2>3, <3>1 DEF NewGrant
  <2>4. CASE RepairDrops(o, m) BY <2>0, <2>1, <2>4, NoGrantReplays DEF RepairDrops
  <2> QED BY <1>1, <2>0, <2>2, <2>3, <2>4, StoredRowSteps DEF Write, WriteGrants
<1> QED BY <1>1, Invariant, Authority, PTL DEF Spec, GrantSpentOnce

\* A parked billed launch is taken up again only by a new authorization or by
\* a Runtime repair, never by a pass that was already under way (the early
\* return of Reconcile, Resume, repairWorkspaceLaunchRuntime).
THEOREM ParkedNeedsOperatorTheorem == Spec => ParkedNeedsOperator
<1>1. ASSUME IInv, JInv, [Next]_vars
      PROVE  (ResourceBilling /\ op.status = "manual_review" /\ op'.status # "manual_review") =>
               \/ op'.runtimeRepair /\ ~op.runtimeRepair
               \/ op'.resumeAuthorization.id \notin {g.id : g \in Grants(op)}
  <2> SUFFICES ASSUME ResourceBilling, op.status = "manual_review", op'.status # "manual_review"
               PROVE  \/ op'.runtimeRepair /\ ~op.runtimeRepair
                      \/ op'.resumeAuthorization.id \notin {g.id : g \in Grants(op)}
    OBVIOUS
  <2>0. PICK o, m : o = op /\ m = op' OBVIOUS
  <2>1. Write(o, m) BY <1>1, <2>0, StoredRowSteps DEF Older
  <2>2. NewGrant(o, m) \/ RepairDrops(o, m) BY <2>0, <2>1 DEF Write, WriteGrants
  <2>3. {g.id : g \in Grants(o)} \subseteq GrantIds(o) BY DEF Grants, GrantIds
  <2> QED BY <2>0, <2>2, <2>3 DEF NewGrant, RepairDrops
<1> QED BY <1>1, Invariant, Authority, PTL DEF Spec, ParkedNeedsOperator

-----------------------------------------------------------------------------
(* The reconciler implements LaunchPromise.                                *)

Reserved == {i \in StageIdx : op.attempts[i].attempted = 1}
Requested == {i \in StageIdx : Dispatches(i) \/ (repairs /\ Stages[i] = Runtime)}
Effected == {i \in StageIdx : world[i] = "ready" \/ Replacing(i)}

\* The steps of LaunchPromise in the reconciler's terms.
PromiseStutters ==
  /\ op'.stage = op.stage /\ op'.status = op.status
  /\ Reserved' = Reserved /\ Requested' = Requested /\ Effected' = Effected

PromiseReserves ==
  /\ op.status = "pending" /\ Reserved' = Reserved \cup {op.stage}
  /\ op'.stage = op.stage /\ op'.status = op.status /\ Requested' = Requested /\ Effected' = Effected

PromiseCalls(i) ==
  /\ i \in Reserved /\ Requested' = Requested \cup {i}
  /\ Effected' \in {Effected, Effected \cup {i}}
  /\ op'.stage = op.stage /\ op'.status = op.status /\ Reserved' = Reserved

PromiseTakesEffect(i) ==
  /\ i \in Requested /\ Effected' = Effected \cup {i}
  /\ op'.stage = op.stage /\ op'.status = op.status /\ Reserved' = Reserved /\ Requested' = Requested

PromiseAdvances ==
  /\ op.status # "succeeded" /\ op.stage \in Effected
  /\ op'.stage = op.stage + 1
  /\ op'.status = IF op.stage = Len(Stages) THEN "succeeded" ELSE "pending"
  /\ Reserved' = Reserved /\ Requested' = Requested /\ Effected' = Effected

PromisePutsAside ==
  /\ op.status = "pending" /\ op'.status = "manual_review" /\ op'.stage = op.stage
  /\ Reserved' = Reserved /\ Requested' = Requested /\ Effected' = Effected

PromiseTakesUp ==
  /\ op.status = "manual_review" /\ op'.status = "pending" /\ op'.stage = op.stage
  /\ Reserved' = Reserved /\ Requested' = Requested /\ Effected' = Effected

PromiseSteps ==
  \/ PromiseStutters \/ PromiseReserves \/ PromiseAdvances \/ PromisePutsAside \/ PromiseTakesUp
  \/ \E i \in StageIdx : PromiseCalls(i) \/ PromiseTakesEffect(i)

LEMMA PromiseMapped ==
  ASSUME PromiseSteps PROVE [Promise!Next]_(Promise!promised)
<1> USE DEF Reserved, Requested, Effected
<1>1. CASE PromiseStutters BY <1>1 DEF PromiseStutters, Promise!promised
<1>2. CASE PromiseReserves BY <1>2 DEF PromiseReserves, Promise!Next, Promise!Reserve
<1>3. CASE PromiseAdvances BY <1>3 DEF PromiseAdvances, Promise!Next, Promise!Advance
<1>4. CASE PromisePutsAside BY <1>4 DEF PromisePutsAside, Promise!Next, Promise!PutAside
<1>5. CASE PromiseTakesUp BY <1>5 DEF PromiseTakesUp, Promise!Next, Promise!TakeUp
<1>6. ASSUME NEW i \in StageIdx, PromiseCalls(i) PROVE Promise!Next
  <2>1. Promise!Call(i) BY <1>6 DEF PromiseCalls, Promise!Call
  <2> QED BY <2>1 DEF Promise!Next, StageIdx
<1>7. ASSUME NEW i \in StageIdx, PromiseTakesEffect(i) PROVE Promise!Next
  <2>1. Promise!TakeEffect(i) BY <1>7 DEF PromiseTakesEffect, Promise!TakeEffect
  <2> QED BY <2>1 DEF Promise!Next, StageIdx
<1> QED BY <1>1, <1>2, <1>3, <1>4, <1>5, <1>6, <1>7 DEF PromiseSteps

\* An owner is called for a stored reservation, and an effect is not undone.
LEMMA CallsPromised ==
  ASSUME ResourceBilling, IInv, JInv, NEW p \in Actors, Mutate(p) \/ ConvergeMutate(p)
  PROVE  PromiseSteps
<1>0. PICK i : i = Row(p).stage OBVIOUS
<1>1. local[p].pc \in {"mutate", "convergeMutate"} BY DEF Mutate, ConvergeMutate, At
<1>2. ActorInv(local[p]) /\ world \in [StageIdx -> World] BY JFacts DEF IInv
<1>3. i \in StageIdx /\ op.attempts[i].attempted = 1
  <2>1. local[p].pc \in AtStage /\ local[p].pc \in Calling BY <1>1 DEF AtStage, Calling, PC
  <2> QED BY <1>0, <1>2, <2>1 DEF ActorInv, PassInv, ReservationInv, Row
<1>4. op' = op /\ repairs' = repairs BY DEF Mutate, ConvergeMutate
<1>5. PICK w \in AfterMutate(i, world[i]) : world' = [world EXCEPT ![i] = w]
  BY <1>0 DEF Mutate, ConvergeMutate
<1>6. world[i] = "ready" => w = "ready" BY <1>5 DEF AfterMutate
<1>7. \A j \in StageIdx : /\ world[j] = "ready" => world'[j] = "ready"
                          /\ j # i => world'[j] = world[j]
  BY <1>2, <1>3, <1>5, <1>6
<1>8. \A j \in StageIdx : Dispatches(j)' <=> Dispatches(j) \/ j = i
  <2>1. sent \in [StageIdx -> [first : {0, 1, 2}, replays : SUBSET Nat]] BY JFacts
  <2>2. sent' = Dispatched(Row(p)) BY DEF Mutate, ConvergeMutate
  <2>3. \A j \in StageIdx : j # i => sent'[j] = sent[j] BY <1>0, <2>1, <2>2 DEF Dispatched
  <2>4. sent'[i].first > 0 \/ sent'[i].replays # {}
    <3>1. sent[i].first \in {0, 1, 2} BY <1>3, <2>1
    <3>2. CASE Replay(Row(p)).status = "claimed"
      <4>1. sent'[i].replays = sent[i].replays \cup {Replay(Row(p)).authorization}
        BY <1>0, <1>3, <2>1, <2>2, <3>2 DEF Dispatched
      <4> QED BY <4>1
    <3>3. CASE Replay(Row(p)).status # "claimed"
      <4>1. sent'[i].first = IF sent[i].first < 2 THEN sent[i].first + 1 ELSE 2
        BY <1>0, <1>3, <2>1, <2>2, <3>3 DEF Dispatched
      <4> QED BY <3>1, <4>1
    <3> QED BY <3>2, <3>3
  <2> QED BY <1>3, <2>3, <2>4 DEF Dispatches
<1>9. Reserved' = Reserved /\ i \in Reserved BY <1>3, <1>4 DEF Reserved
<1>10. Requested' = Requested \cup {i} BY <1>3, <1>4, <1>8 DEF Requested
<1>11. \A j \in StageIdx : Replacing(j)' <=> Replacing(j) BY <1>4 DEF Replacing
<1>12. \A j \in StageIdx : /\ j \in Effected => j \in Effected'
                           /\ j \in Effected' => j \in Effected \/ j = i
  BY <1>7, <1>11 DEF Effected
<1>13. Effected' = Effected \/ Effected' = Effected \cup {i}
  <2>1. Effected \subseteq StageIdx /\ Effected' \subseteq StageIdx BY DEF Effected
  <2> QED BY <1>3, <1>12, <2>1
<1>14. PromiseCalls(i) BY <1>4, <1>9, <1>10, <1>13 DEF PromiseCalls
<1> QED BY <1>3, <1>14 DEF PromiseSteps

\* A repair takes the Runtime down, which then counts as being replaced.
LEMMA RepairPromised ==
  ASSUME ResourceBilling, IInv, JInv, NEW p \in Actors, RepairCalls(p)
  PROVE  PromiseSteps
<1>0. PICK i : i = Row(p).stage OBVIOUS
<1>1. ~op.runtimeRepair /\ IsStage(i, Runtime) /\ i \in StageIdx
  BY <1>0, RepairerAlone DEF RepairCalls, At
<1>2. op.attempts[i].attempted = 1 BY <1>0, JFacts DEF ActorGood, RepairCalls, At, Row
<1>3. op' = op /\ sent' = sent /\ repairs' = TRUE /\ world' = [world EXCEPT ![i] = "inflight"]
  BY <1>0 DEF RepairCalls
<1>4. world \in [StageIdx -> World] /\ repairs \in BOOLEAN BY DEF IInv, TypeOK
<1>5. \A j \in StageIdx : Stages[j] = Runtime <=> j = i
  BY <1>1, StagesAssumption DEF IsStage, StageIdx
<1>6. Reserved' = Reserved /\ i \in Reserved BY <1>1, <1>2, <1>3 DEF Reserved
<1>7. Requested' = Requested \cup {i}
  <2>1. \A j \in StageIdx : Dispatches(j)' <=> Dispatches(j) BY <1>3 DEF Dispatches
  <2> QED BY <1>1, <1>3, <1>4, <1>5, <2>1 DEF Requested
<1>8. Effected' = Effected \cup {i}
  <2>1. \A j \in StageIdx : j # i => world'[j] = world[j] BY <1>3, <1>4
  <2>2. \A j \in StageIdx : Replacing(j)' <=> j = i BY <1>1, <1>3, <1>5 DEF Replacing
  <2>3. \A j \in StageIdx : j # i => ~Replacing(j) BY <1>5 DEF Replacing
  <2> QED BY <1>1, <2>1, <2>2, <2>3 DEF Effected
<1>9. PromiseCalls(i) BY <1>3, <1>6, <1>7, <1>8 DEF PromiseCalls
<1> QED BY <1>1, <1>9 DEF PromiseSteps

\* A late effect is one that was asked for.
LEMMA OwnerPromised ==
  ASSUME IInv, JInv, NEW i \in StageIdx, OwnerSteps(i)
  PROVE  PromiseSteps
<1>1. op' = op /\ sent' = sent /\ repairs' = repairs /\ world[i] \in {"inflight", "provisioning"}
  BY DEF OwnerSteps
<1>2. PICK w : world' = [world EXCEPT ![i] = w] BY DEF OwnerSteps
<1>3. world \in [StageIdx -> World] BY JFacts
<1>4. world'[i] = w /\ \A j \in StageIdx : j # i => world'[j] = world[j] BY <1>2, <1>3
<1>5. \A j \in StageIdx : (Replacing(j)' <=> Replacing(j)) /\ (Dispatches(j)' <=> Dispatches(j))
  BY <1>1 DEF Replacing, Dispatches
<1>6. Reserved' = Reserved /\ Requested' = Requested BY <1>1, <1>5 DEF Reserved, Requested
<1>7. i \in Requested BY <1>1 DEF Requested, JInv, WorldAsked
<1>8. CASE w = "ready"
  <2>1. Effected' = Effected \cup {i} BY <1>4, <1>5, <1>8 DEF Effected
  <2>2. PromiseTakesEffect(i) BY <1>1, <1>6, <1>7, <2>1 DEF PromiseTakesEffect
  <2> QED BY <2>2 DEF PromiseSteps
<1>9. CASE w # "ready"
  <2>1. Effected' = Effected BY <1>1, <1>4, <1>5, <1>9 DEF Effected
  <2> QED BY <1>1, <1>6, <2>1 DEF PromiseSteps, PromiseStutters
<1> QED BY <1>8, <1>9

\* What the store accepts is one step of the launch or none.
LEMMA PersistPromised ==
  ASSUME ResourceBilling, IInv, JInv, NEW p \in Actors, PersistAccepted(p)
  PROVE  PromiseSteps
<1>0. PICK l, n, o : l = local[p] /\ n = l.row /\ o = op OBVIOUS
<1>1. l.held /\ op' = n /\ n \in Operation /\ Write(o, n) BY <1>0, AcceptedFacts
<1>2. o \in Operation /\ Decodes(o) BY <1>0, JFacts DEF JInv
<1>3. ActorInv(l) /\ RepairInv(p, l) BY <1>0 DEF IInv
<1>4. world' = world /\ sent' = sent /\ repairs' = repairs BY DEF PersistAccepted
<1>5. WriteStage(o, n) /\ WriteAttempt(o, n) BY <1>1 DEF Write
<1>6. o.stage \in StageIdx /\ o.stage \in Nat BY <1>5, StageIdxType DEF WriteStage
<1>7. o.status \in {"pending", "manual_review"}
  BY <1>2, <1>6, StageIdxType DEF Decodes, Operation
<1>8. Requested' = Requested BY <1>4 DEF Requested, Dispatches
<1>9. Effected' = Effected
  <2>1. n.runtimeRepair /\ ~o.runtimeRepair => \A i \in StageIdx : Stages[i] = Runtime => world[i] = "ready"
    BY <1>0, <1>3 DEF RepairInv
  <2>2. o.runtimeRepair => n.runtimeRepair BY <1>0, <1>1, <1>3 DEF RepairInv
  <2>3. \A i \in StageIdx : (world[i] = "ready" \/ Replacing(i))' <=> (world[i] = "ready" \/ Replacing(i))
    BY <1>0, <1>1, <1>4, <2>1, <2>2 DEF Replacing
  <2> QED BY <2>3 DEF Effected
<1>10. n.attempts[o.stage].attempted = o.attempts[o.stage].attempted => Reserved' = Reserved
  <2>1. \A i \in StageIdx : i # o.stage => n.attempts[i].attempted = o.attempts[i].attempted
    BY <1>5 DEF WriteStage
  <2> QED BY <1>0, <1>1, <2>1 DEF Reserved
<1>11. CASE n.stage = o.stage + 1
  <2>1. n.observations[o.stage] = "ready" /\ n.status = IF n.stage = Succeeded THEN "succeeded" ELSE "pending"
    BY <1>5, <1>6, <1>11 DEF WriteStage
  <2>2. Done(o.stage) BY <1>0, <1>3, <1>6, <2>1 DEF ActorInv, RowInv
  <2>3. o.stage \in Effected BY <1>6, <2>2 DEF Effected, Done
  <2>4. Reserved' = Reserved BY <1>5, <1>6, <1>10, <1>11 DEF WriteAttempt
  <2>5. n.stage = Succeeded <=> o.stage = Len(Stages)
    BY <1>6, <1>11, StagesAssumption DEF Succeeded
  <2>6. PromiseAdvances BY <1>0, <1>1, <1>7, <1>8, <1>9, <1>11, <2>1, <2>3, <2>4, <2>5 DEF PromiseAdvances
  <2> QED BY <2>6 DEF PromiseSteps
<1>12. CASE n.stage = o.stage
  <2>1. n.status \in {"pending", "manual_review"} BY <1>5, <1>6, <1>12 DEF WriteStage
  <2>2. CASE n.attempts[o.stage].attempted = o.attempts[o.stage].attempted
    <3>1. Reserved' = Reserved BY <1>10, <2>2
    <3>2. PromiseStutters \/ PromisePutsAside \/ PromiseTakesUp
      BY <1>0, <1>1, <1>7, <1>8, <1>9, <1>12, <2>1, <3>1
         DEF PromiseStutters, PromisePutsAside, PromiseTakesUp
    <3> QED BY <3>2 DEF PromiseSteps
  <2>3. CASE n.attempts[o.stage].attempted # o.attempts[o.stage].attempted
    <3>1. n.attempts[o.stage].attempted = 1 /\ o.status = "pending" /\ n.status = "pending"
      BY <1>5, <2>3 DEF WriteAttempt
    <3>2. \A i \in StageIdx : i # o.stage => n.attempts[i].attempted = o.attempts[i].attempted
      BY <1>5 DEF WriteStage
    <3>3. Reserved' = Reserved \cup {o.stage} BY <1>0, <1>1, <1>6, <3>1, <3>2 DEF Reserved
    <3>4. PromiseReserves BY <1>0, <1>1, <1>8, <1>9, <1>12, <3>1, <3>3 DEF PromiseReserves
    <3> QED BY <3>4 DEF PromiseSteps
  <2> QED BY <2>2, <2>3
<1> QED BY <1>5, <1>11, <1>12 DEF WriteStage

LEMMA AgesPromised ==
  ASSUME NEW n, Older(op, n), op' = n, UNCHANGED <<world, sent, repairs>>
  PROVE  PromiseSteps
<1>1. Reserved' = Reserved BY DEF Reserved, Older
<1>2. Requested' = Requested BY DEF Requested, Dispatches
<1>3. Effected' = Effected BY DEF Effected, Replacing, Older
<1>4. n.stage = op.stage /\ n.status = op.status BY DEF Older
<1> QED BY <1>1, <1>2, <1>3, <1>4 DEF PromiseSteps, PromiseStutters

\* For every list of stages and any number of actors the reconciler of a
\* billed launch implements LaunchPromise: every write of the row is one
\* reservation, one advance past an effect that exists, one putting aside or
\* taking up, and every owner call is for a reserved stage (persist,
\* MutateStage, RepairWorkspaceRuntime).
THEOREM KeepsPromiseTheorem ==
  ASSUME ResourceBilling PROVE Spec => KeepsPromise
<1>1. Init => Promise!Init
  <2> SUFFICES ASSUME Init PROVE Promise!Init OBVIOUS
  <2>1. op.stage = 1 /\ op.status = "pending" /\ \A i \in StageIdx : op.attempts[i].attempted = 0
    BY NewOperationType DEF Init
  <2>2. \A i \in StageIdx : ~Dispatches(i) /\ ~Replacing(i) /\ world[i] = "absent"
    BY DEF Init, Dispatches, Replacing
  <2>3. Reserved = {} /\ Requested = {} /\ Effected = {}
    BY <2>1, <2>2 DEF Init, Reserved, Requested, Effected
  <2> QED BY <2>1, <2>3 DEF Promise!Init, Reserved, Requested, Effected
<1>2. ASSUME IInv, JInv, [Next]_vars PROVE [Promise!Next]_(Promise!promised)
  <2>1. ASSUME Silent PROVE PromiseSteps
    <3>1. op' = op /\ world' = world /\ sent' = sent /\ repairs' = repairs BY <2>1 DEF Silent
    <3>2. Reserved' = Reserved /\ Requested' = Requested /\ Effected' = Effected
      BY <3>1 DEF Reserved, Requested, Effected, Dispatches, Replacing
    <3> QED BY <3>1, <3>2 DEF PromiseSteps, PromiseStutters
  <2>2. CASE LeaseExpires
    <3>1. op' = AgeLeases(op) /\ op \in Operation BY <1>2, <2>2, JFacts DEF LeaseExpires, Ages
    <3>2. Older(op, op') BY <3>1, AgeLeasesOlder
    <3>3. UNCHANGED <<world, sent, repairs>> BY <2>2 DEF LeaseExpires, Ages
    <3> QED BY <3>2, <3>3, AgesPromised, PromiseMapped
  <2>3. CASE DeadlineExpires
    <3>1. op' = AgeDeadline(op) /\ op \in Operation BY <1>2, <2>3, JFacts DEF DeadlineExpires, Ages
    <3>2. Older(op, op') BY <3>1, AgeDeadlineOlder
    <3>3. UNCHANGED <<world, sent, repairs>> BY <2>3 DEF DeadlineExpires, Ages
    <3> QED BY <3>2, <3>3, AgesPromised, PromiseMapped
  <2> QED BY <1>2, <2>1, <2>2, <2>3, StepKinds, CallsPromised, RepairPromised, PersistPromised,
             OwnerPromised, PromiseMapped
<1> QED BY <1>1, <1>2, Invariant, Authority, PTL DEF Spec, KeepsPromise, Promise!Spec
=============================================================================
