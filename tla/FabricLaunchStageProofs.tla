---------------------- MODULE FabricLaunchStageProofs ----------------------
(***************************************************************************)
(* What the storage stage promises, for any number of overlapping          *)
(* requests, claims and leases.                                            *)
(***************************************************************************)
EXTENDS FabricLaunchStage, TLAPS

InMutation == {"examine", "leased", "dispatch", "complete"}

\* What a request may rely on of the rows it has read: the child row it works on
\* stays in the journal, and one it read succeeded is succeeded.
RequestHolds(w) ==
    /\ w.at \in InMutation => w.a.status # "none" /\ child[w.m].status # "none"
    /\ w.at \in InMutation \cup {"begin"} /\ w.m = "binding" =>
           child["disk"].status = "succeeded"
    /\ w.at \in Reading \cup {"claim"} => w.m = "disk"
    /\ w.at = "complete" /\ w.ok => world[w.m] # "absent"
    /\ w.at \in InMutation /\ w.a.status = "succeeded" => child[w.m].status = "succeeded"
    /\ w.replay => w.at \in InMutation
    /\ w.at = "leased" \/ w.replay => w.a.status # "succeeded"
    /\ w.fresh => w.at \in {"dispatch", "complete"} /\ w.a = [status |-> "started", epoch |-> NoEpoch]

\* The inductive invariant.
IInv ==
    /\ TypeOK /\ ReadyIsReal /\ BindingAfterDisk /\ FirstCallOnce
    /\ \A c \in Callers : RequestHolds(work[c])

\* What a step may do to the shared state while some request works with it.
Grows ==
    /\ \A m \in Mutations : child[m].status # "none" => child'[m].status # "none"
    /\ \A m \in Mutations : child[m].status = "succeeded" => child'[m] = child[m]
    /\ \A m \in Mutations : world[m] # "absent" => world'[m] # "absent"

\* No resource disappears again, and none is reached past the journal.
WorldHolds ==
    /\ Ready => Ready'
    /\ \A m \in Mutations :
           world'[m] # "absent" \/ m \in late' => child'[m].status # "none"

\* The two provider mutations of the stage.
LEMMA MutationsTwo == "disk" \in Mutations /\ "binding" \in Mutations
  BY DEF Mutations

\* The initial values have their types.
LEMMA IdleType == Idle \in Works /\ NoChild \in Children /\ NoEpoch \in Epochs
  BY ConstantsAssumption
  DEF Idle, Works, NoChild, NoEpoch, Epochs, Children, Rows, Places, Mutations, Statuses,
      EpochStates

\* One step of one request: what it leaves to itself must hold, the rest follows.
LEMMA RequestStep ==
  ASSUME IInv, NEW c \in Callers, NEW w \in Works, Goes(c, w), Grows, WorldHolds,
         row' \in Rows, child' \in [Mutations -> Children],
         leases' \in [Mutations -> 0..MaxLeases], over' \in [Mutations -> 0..MaxLeases],
         world' \in [Mutations -> {"absent", "created", "ready"}],
         late' \in SUBSET Mutations,
         row'.status = "succeeded" => row.status = "succeeded" \/ Ready,
         \A m \in Mutations : child'[m].status = "succeeded" =>
             child[m].status = "succeeded" \/ world'[m] # "absent",
         child'["binding"].status # "none" =>
             child["binding"].status # "none" \/ child'["disk"].status = "succeeded",
         w.fresh => \/ work[c].fresh /\ work[c].m = w.m
                    \/ child[w.m].status = "none",
         RequestHolds(w)'
  PROVE  IInv'
  <1>1. work' \in [Callers -> Works] /\ work'[c] = w /\ \A d \in Callers \ {c} : work'[d] = work[d]
    BY DEF IInv, TypeOK, Goes
  <1>2. TypeOK'
    BY <1>1 DEF TypeOK
  <1>3. ReadyIsReal'
    BY DEF IInv, ReadyIsReal, Grows, WorldHolds
  <1>4. BindingAfterDisk'
    BY MutationsTwo DEF IInv, BindingAfterDisk, Grows
  <1>5. \A d \in Callers : RequestHolds(work[d])'
    <2> TAKE d \in Callers
    <2>1. CASE d = c
      BY <2>1, <1>1 DEF RequestHolds
    <2>2. CASE d # c
      <3>1. RequestHolds(work[d]) /\ work[d] \in Works /\ work'[d] = work[d]
        BY <2>2, <1>1 DEF IInv, TypeOK
      <3> QED BY <3>1, MutationsTwo DEF RequestHolds, Grows, Works
    <2> QED BY <2>1, <2>2
  <1>6. FirstCallOnce'
    <2>1. \A d \in Callers : work[d].fresh => child[work[d].m].status # "none"
      BY DEF IInv, RequestHolds, InMutation
    <2>2. \A m \in Mutations : \A d, e \in Callers :
              work'[d].m = m /\ work'[e].m = m /\ work'[d].fresh /\ work'[e].fresh => d = e
      BY <1>1, <2>1 DEF IInv, FirstCallOnce, TypeOK, Works
    <2> QED BY <2>2 DEF FirstCallOnce, WorldHolds
  <1> QED BY <1>2, <1>3, <1>4, <1>5, <1>6 DEF IInv

\* A step that only moves a request on.
LEMMA QuietStep ==
  ASSUME IInv, NEW c \in Callers, NEW w \in Works, Goes(c, w),
         UNCHANGED <<row, child, leases, over, world, late>>,
         w.fresh => work[c].fresh /\ work[c].m = w.m,
         RequestHolds(w)
  PROVE  IInv'
  <1>1. Grows
    BY DEF Grows
  <1>2. WorldHolds
    BY DEF WorldHolds, Ready, IInv, FirstCallOnce
  <1>3. RequestHolds(w)'
    BY DEF RequestHolds
  <1> QED BY <1>1, <1>2, <1>3, RequestStep DEF IInv, TypeOK

\* A request that holds no child row relies on nothing, unless it is at the binding.
LEMMA HoldsNothing ==
  ASSUME NEW op \in Rows, NEW at \in Places \ InMutation
  PROVE  LET w == [Idle EXCEPT !.op = op, !.at = at] IN
         w \in Works /\ RequestHolds(w) /\ ~w.fresh
  BY IdleType DEF Idle, Works, RequestHolds, InMutation, Reading

\* A request that is not running relies on nothing.
LEMMA IdleHolds == Idle \in Works /\ RequestHolds(Idle) /\ ~Idle.fresh
  BY IdleType DEF Idle, RequestHolds, InMutation, Reading

\* Requests that only read, and those that end.
LEMMA ReadingSteps ==
  ASSUME IInv, NEW c \in Callers,
         StartEnsure(c) \/ StartRead(c) \/ ReadAbsent(c) \/ ReadEnds(c) \/ Abandon(c)
         \/ ExaminePending(c) \/ ExamineRefused(c) \/ FinishUnavailable(c)
  PROVE  IInv'
  <1> DEFINE w == work[c]
  <1>0. w \in Works /\ row \in Rows /\ w.op \in Rows /\ RequestHolds(w)
    BY DEF IInv, TypeOK, Works
  <1>1. CASE StartEnsure(c)
    <2> DEFINE look == [Idle EXCEPT !.op = row, !.at = "look"]
               claim == [Idle EXCEPT !.at = "claim"]
    <2>1. "look" \in Places \ InMutation
      BY DEF Places, Reading, InMutation
    <2>2. look \in Works /\ RequestHolds(look) /\ ~look.fresh
      BY <1>0, <2>1, HoldsNothing
    <2>3. claim \in Works /\ RequestHolds(claim) /\ ~claim.fresh
      BY IdleType DEF Idle, Works, RequestHolds, InMutation, Places
    <2> HIDE DEF look, claim
    <2>4. Goes(c, IF row.status = "failed" THEN look ELSE claim)
      BY <1>1 DEF StartEnsure, look, claim
    <2> QED BY <1>1, <2>2, <2>3, <2>4, QuietStep DEF StartEnsure
  <1>2. CASE StartRead(c)
    <2>1. "read" \in Places \ InMutation
      BY DEF Places, Reading, InMutation
    <2> QED BY <1>0, <1>2, <2>1, HoldsNothing, QuietStep DEF StartRead
  <1>3. CASE ReadAbsent(c)
    <2> DEFINE claim == [Idle EXCEPT !.at = "claim"]
               begin == [w EXCEPT !.at = "begin"]
               next == CASE w.op.status = "succeeded" -> Idle
                         [] w.at = "look" -> claim
                         [] w.at = "readback" -> begin
                         [] OTHER -> Idle
    <2>1. claim \in Works /\ RequestHolds(claim) /\ ~claim.fresh
      BY IdleType DEF Idle, Works, RequestHolds, InMutation, Places
    <2>2. begin \in Works /\ RequestHolds(begin) /\ ~begin.fresh
      BY <1>0, <1>3 DEF ReadAbsent, Works, RequestHolds, InMutation, Reading, Places
    <2>3. Goes(c, next) /\ w.at \in Reading
      BY <1>3 DEF ReadAbsent
    <2> HIDE DEF claim, begin
    <2>4. next \in {Idle, claim, begin}
      OBVIOUS
    <2>5. next \in Works /\ RequestHolds(next) /\ ~next.fresh
      BY <2>1, <2>2, <2>4, IdleHolds
    <2> HIDE DEF next
    <2> QED BY <1>3, <2>3, <2>5, QuietStep DEF ReadAbsent
  <1>4. CASE ReadEnds(c) \/ Abandon(c) \/ ExaminePending(c)
    BY <1>4, IdleHolds, QuietStep DEF ReadEnds, Abandon, ExaminePending
  <1>5. CASE ExamineRefused(c) \/ FinishUnavailable(c)
    <2>1. "fail" \in Places \ InMutation
      BY DEF Places, InMutation
    <2> QED BY <1>0, <1>5, <2>1, HoldsNothing, QuietStep DEF ExamineRefused, FinishUnavailable, Moves
  <1> QED BY <1>1, <1>2, <1>3, <1>4, <1>5

\* The steps that write the stage row.
LEMMA RowSteps ==
  ASSUME IInv, NEW c \in Callers,
         ReadReady(c) \/ ClaimRuntime(c) \/ Finish(c) \/ FailStage(c)
  PROVE  IInv'
  <1> DEFINE w == work[c]
  <1>0. w \in Works /\ row \in Rows /\ RequestHolds(w)
    BY DEF IInv, TypeOK, Works
  <1>1. UNCHANGED <<child, leases, over, world, late>>
    BY DEF ReadReady, ClaimRuntime, Finish, FailStage
  <1>2. Grows
    BY <1>1 DEF Grows
  <1>3. WorldHolds
    BY <1>1 DEF WorldHolds, Ready, IInv, FirstCallOnce
  <1>4. CASE ReadReady(c) \/ Finish(c) \/ FailStage(c)
    <2>1. row' \in Rows /\ (row'.status = "succeeded" => row.status = "succeeded" \/ Ready)
      BY <1>0, <1>4 DEF ReadReady, Finish, FailStage, Rows, Statuses
    <2>2. Goes(c, Idle)
      BY <1>4 DEF ReadReady, Finish, FailStage
    <2>3. RequestHolds(Idle)'
      BY IdleHolds, <1>1 DEF RequestHolds, Idle, InMutation, Reading
    <2> QED BY <1>1, <1>2, <1>3, <2>1, <2>2, <2>3, IdleHolds, RequestStep DEF IInv, TypeOK
  <1>5. CASE ClaimRuntime(c)
    <2>1. row' \in Rows /\ (row'.status = "succeeded" => row.status = "succeeded")
      BY <1>0, <1>5, ConstantsAssumption DEF ClaimRuntime, Rows, Statuses
    <2>2. PICK next \in Works :
              next = [w EXCEPT !.op = row', !.at = IF row' = row THEN "readback" ELSE "begin"]
      BY <1>0, <2>1 DEF Works, Places, Reading
    <2>3. Goes(c, next) /\ ~next.fresh
      BY <1>0, <1>5, <2>2 DEF ClaimRuntime, Works, RequestHolds, InMutation
    <2>4. RequestHolds(next)'
      <3>1. next.at \in {"readback", "begin"} /\ next.m = "disk" /\ ~next.fresh /\ next.replay = w.replay
            /\ next.a = w.a
        BY <1>0, <1>5, <2>2, <2>3 DEF ClaimRuntime, RequestHolds, Works
      <3>2. w.at = "claim" /\ ~w.replay
        BY <1>0, <1>5 DEF ClaimRuntime, RequestHolds, InMutation
      <3> QED BY <1>0, <3>1, <3>2 DEF RequestHolds, InMutation, Reading
    <2> QED BY <1>1, <1>2, <1>3, <2>1, <2>3, <2>4, RequestStep DEF IInv, TypeOK
  <1> QED BY <1>4, <1>5

\* The steps that write the child row a request works on, and no more.
LEMMA ChildStep ==
  ASSUME IInv, NEW c \in Callers, NEW next \in Works, NEW new \in Children, Goes(c, next),
         work[c].at \in InMutation \cup {"begin"},
         Writes(work[c].m, new), new.status # "none",
         child[work[c].m].status = "succeeded" => new = child[work[c].m],
         new.status = "succeeded" => world[work[c].m] # "absent",
         UNCHANGED <<row, over, world, late>>, leases' \in [Mutations -> 0..MaxLeases],
         next.fresh => \/ work[c].fresh /\ work[c].m = next.m
                       \/ child[next.m].status = "none",
         RequestHolds(next)'
  PROVE  IInv'
  <1> DEFINE w == work[c]
  <1>0. w \in Works /\ w.m \in Mutations /\ RequestHolds(w)
    BY DEF IInv, TypeOK, Works
  <1>1. /\ child' \in [Mutations -> Children]
        /\ child'[w.m] = new
        /\ \A m \in Mutations \ {w.m} : child'[m] = child[m]
    BY <1>0 DEF IInv, TypeOK, Writes
  <1>2. Grows
    BY <1>0, <1>1 DEF Grows
  <1>3. WorldHolds
    BY <1>1 DEF WorldHolds, Ready, IInv, FirstCallOnce
  <1>4. child'["binding"].status # "none" =>
            child["binding"].status # "none" \/ child'["disk"].status = "succeeded"
    BY <1>0, <1>1, <1>2, MutationsTwo DEF Grows, RequestHolds, Mutations
  <1>5. \A m \in Mutations : child'[m].status = "succeeded" =>
            child[m].status = "succeeded" \/ world'[m] # "absent"
    BY <1>1
  <1> QED BY <1>1, <1>2, <1>3, <1>4, <1>5, RequestStep DEF IInv, TypeOK

\* The steps of CreateStorageVolume that only read: the resource is found, or
\* cannot be read.
LEMMA ExamineSteps ==
  ASSUME IInv, NEW c \in Callers, ExamineFound(c) \/ ExamineError(c)
  PROVE  IInv'
  <1>0. work[c] \in Works /\ RequestHolds(work[c])
    BY DEF IInv, TypeOK
  <1>1. PICK ok \in BOOLEAN : /\ Goes(c, [work[c] EXCEPT !.ok = ok, !.at = "complete"])
                              /\ ok => world[work[c].m] # "absent"
    BY DEF ExamineFound, ExamineError
  <1>2. PICK next \in Works : next = [work[c] EXCEPT !.ok = ok, !.at = "complete"]
    BY <1>0 DEF Works, Places
  <1>3. RequestHolds(next) /\ (next.fresh => work[c].fresh /\ work[c].m = next.m)
    BY <1>0, <1>1, <1>2 DEF RequestHolds, InMutation, Reading, Works, ExamineFound, ExamineError
  <1>4. UNCHANGED <<row, child, leases, over, world, late>>
    BY DEF ExamineFound, ExamineError
  <1> QED BY <1>1, <1>2, <1>3, <1>4, QuietStep

\* beginProviderMutationWithState.
LEMMA BeginStep ==
  ASSUME IInv, NEW c \in Callers, Begin(c)
  PROVE  IInv'
  <1>0. work[c] \in Works /\ RequestHolds(work[c]) /\ work[c].m \in Mutations
        /\ child \in [Mutations -> Children]
    BY DEF IInv, TypeOK, Works
  <1>1. work[c].at = "begin" /\ ~work[c].fresh /\ UNCHANGED <<row, leases, over, world, late>>
    BY <1>0 DEF Begin, RequestHolds, InMutation
  <1>2. CASE child[work[c].m].status = "none"
    <2> DEFINE new == [status |-> "started", epoch |-> NoEpoch]
    <2>1. new \in Children
      BY IdleType DEF Children, Statuses
    <2>2. PICK next \in Works :
              next = [work[c] EXCEPT !.a = new, !.fresh = TRUE, !.at = "dispatch"]
      BY <1>0, <2>1 DEF Works, Places
    <2>3. Writes(work[c].m, new) /\ child'[work[c].m] = new
      BY <1>0, <1>2 DEF Begin, Writes
    <2>4. Goes(c, next)
      BY <1>2, <2>2, <2>3 DEF Begin
    <2>5. RequestHolds(next)'
      <3>1. next.at = "dispatch" /\ next.m = work[c].m /\ next.fresh /\ next.a = new
            /\ next.replay = work[c].replay
        BY <1>0, <2>2 DEF Works
      <3>2. work[c].m = "binding" => child'["disk"].status = "succeeded"
        BY <1>0, <1>1, <2>3 DEF RequestHolds, Writes, Mutations
      <3> QED BY <1>0, <1>1, <2>3, <3>1, <3>2 DEF RequestHolds, InMutation, Reading
    <2>6. next.m = work[c].m
      BY <1>0, <2>2 DEF Works
    <2> QED BY <1>0, <1>1, <1>2, <2>1, <2>3, <2>4, <2>5, <2>6, ChildStep
        DEF IInv, TypeOK, InMutation
  <1>3. CASE child[work[c].m].status # "none"
    <2>1. PICK next \in Works : next = [work[c] EXCEPT !.a = child[work[c].m], !.at = "examine"]
      BY <1>0 DEF Works, Places
    <2>2. Goes(c, next) /\ UNCHANGED child
      BY <1>3, <2>1 DEF Begin
    <2>3. RequestHolds(next) /\ ~next.fresh
      BY <1>0, <1>1, <1>3, <2>1 DEF RequestHolds, InMutation, Reading, Works
    <2> QED BY <1>1, <2>2, <2>3, QuietStep
  <1> QED BY <1>2, <1>3

\* claimReplay.
LEMMA ClaimReplayStep ==
  ASSUME IInv, NEW c \in Callers, ClaimReplay(c)
  PROVE  IInv'
  <1> DEFINE w == work[c]
             new == [w.a EXCEPT !.epoch.state = "leased", !.epoch.lease = leases[w.m] + 1]
  <1>0. w \in Works /\ RequestHolds(w) /\ w.m \in Mutations /\ w.a \in Children
        /\ child \in [Mutations -> Children] /\ leases \in [Mutations -> 0..MaxLeases]
    BY DEF IInv, TypeOK, Works
  <1>1. w.at = "examine" /\ UNCHANGED <<row, over, world, late>> /\ ChildUnchanged(w.m, w.a)
        /\ w.a.status \in {"started", "failed"} /\ Writes(w.m, new)
    BY DEF ClaimReplay, Replayable
  <1>2. leases[w.m] + 1 \in 0..MaxLeases /\ leases' \in [Mutations -> 0..MaxLeases]
    <2>1. leases["disk"] \in Nat /\ leases["binding"] \in Nat
          /\ leases["disk"] + leases["binding"] < MaxLeases
          /\ w.m \in {"disk", "binding"}
      BY <1>0, ConstantsAssumption DEF ClaimReplay, Mutations
    <2>2. leases[w.m] + 1 \in 0..MaxLeases
      BY <2>1, ConstantsAssumption
    <2> QED BY <1>0, <2>2 DEF ClaimReplay
  <1>3. new \in Children /\ new.status = w.a.status
    BY <1>0, <1>2 DEF Children, Epochs, EpochStates
  <1> HIDE DEF new
  <1>4. PICK next \in Works : next = [w EXCEPT !.a = new, !.replay = TRUE, !.at = "leased"]
    BY <1>0, <1>3 DEF Works, Places
  <1>5. Goes(c, next)
    BY <1>4 DEF ClaimReplay, new
  <1>6. next.at = "leased" /\ next.m = w.m /\ next.fresh = w.fresh /\ next.a = new
    BY <1>0, <1>4 DEF Works
  <1>7. ~w.fresh
    BY <1>0, <1>1 DEF RequestHolds
  <1>8. RequestHolds(next)'
    BY <1>0, <1>1, <1>3, <1>6, <1>7 DEF RequestHolds, InMutation, Reading, Writes, Mutations
  <1> QED BY <1>0, <1>1, <1>2, <1>3, <1>5, <1>6, <1>7, <1>8, ChildStep DEF InMutation, ChildUnchanged

\* A request that has ended or gives up relies on nothing afterwards either.
LEMMA MovesHolds ==
  ASSUME IInv, NEW c \in Callers, NEW at \in {"fail", "finish"}
  PROVE  \E next \in Works :
             /\ next = [Idle EXCEPT !.op = work[c].op, !.at = at]
             /\ ~next.fresh /\ RequestHolds(next) /\ RequestHolds(next)'
  <1>1. work[c].op \in Rows
    BY DEF IInv, TypeOK, Works
  <1>2. PICK next \in Works : next = [Idle EXCEPT !.op = work[c].op, !.at = at]
    BY <1>1, IdleType DEF Works, Places
  <1>3. next.at = at /\ ~next.fresh /\ ~next.replay
    BY <1>2 DEF Idle
  <1>4. RequestHolds(next) /\ RequestHolds(next)'
    BY <1>3 DEF RequestHolds, InMutation, Reading
  <1> QED BY <1>2, <1>3, <1>4

\* markReplayDispatch.
LEMMA MarkReplayDispatchStep ==
  ASSUME IInv, NEW c \in Callers, MarkReplayDispatch(c)
  PROVE  IInv'
  <1> DEFINE w == work[c]
             new == [w.a EXCEPT !.epoch.state = "awaiting_readback", !.epoch.dispatched = TRUE]
  <1>0. w \in Works /\ RequestHolds(w) /\ w.m \in Mutations /\ w.a \in Children
        /\ child \in [Mutations -> Children]
    BY DEF IInv, TypeOK, Works
  <1>1. w.at = "leased" /\ UNCHANGED <<row, leases, over, world, late>> /\ ~w.fresh
    BY <1>0 DEF MarkReplayDispatch, RequestHolds
  <1>2. CASE ChildUnchanged(w.m, w.a)
    <2>1. new \in Children /\ new.status = w.a.status
      BY <1>0 DEF Children, Epochs, EpochStates
    <2>2. Writes(w.m, new)
      BY <1>2 DEF MarkReplayDispatch
    <2> HIDE DEF new
    <2>3. PICK next \in Works : next = [w EXCEPT !.a = new, !.at = "dispatch"]
      BY <1>0, <2>1 DEF Works, Places
    <2>4. Goes(c, next)
      BY <1>2, <2>3 DEF MarkReplayDispatch, new
    <2>5. next.at = "dispatch" /\ next.m = w.m /\ ~next.fresh /\ next.a = new
      BY <1>0, <1>1, <2>3 DEF Works
    <2>6. RequestHolds(next)'
      BY <1>0, <1>1, <2>1, <2>2, <2>5 DEF RequestHolds, InMutation, Reading, Writes, Mutations
    <2>7. w.a.status \notin {"none", "succeeded"}
      BY <1>0, <1>1 DEF RequestHolds, InMutation
    <2> QED BY <1>0, <1>1, <1>2, <2>1, <2>2, <2>4, <2>5, <2>6, <2>7, ChildStep
        DEF InMutation, ChildUnchanged, IInv, TypeOK
  <1>3. CASE ~ChildUnchanged(w.m, w.a)
    <2>1. UNCHANGED child /\ Moves(c, "fail")
      BY <1>3 DEF MarkReplayDispatch
    <2>2. PICK next \in Works : /\ next = [Idle EXCEPT !.op = work[c].op, !.at = "fail"]
                                /\ ~next.fresh /\ RequestHolds(next)
      BY MovesHolds
    <2>3. Goes(c, next)
      BY <2>1, <2>2 DEF Moves
    <2> QED BY <1>1, <2>1, <2>2, <2>3, QuietStep
  <1> QED BY <1>2, <1>3

\* A provider call, answered or not.
LEMMA DispatchSteps ==
  ASSUME IInv, NEW c \in Callers, DispatchAnswered(c) \/ DispatchFailed(c)
  PROVE  IInv'
  <1> DEFINE w == work[c]
  <1>0. w \in Works /\ RequestHolds(w) /\ w.m \in Mutations /\ w.at = "dispatch"
        /\ world \in [Mutations -> {"absent", "created", "ready"}] /\ late \in SUBSET Mutations
    BY DEF IInv, TypeOK, Works, DispatchAnswered, DispatchFailed
  <1>1. UNCHANGED <<row, child, leases, over>>
    BY DEF DispatchAnswered, DispatchFailed
  <1>2. /\ world' \in [Mutations -> {"absent", "created", "ready"}]
        /\ late' \in SUBSET Mutations
        /\ \A m \in Mutations : /\ world[m] # "absent" => world'[m] = world[m]
                                /\ m # w.m => world'[m] = world[m]
                                /\ m # w.m /\ m \in late' => m \in late
    BY <1>0 DEF DispatchAnswered, DispatchFailed, Appears
  <1>3. Grows
    BY <1>1, <1>2 DEF Grows
  <1>4. WorldHolds
    <2>1. Ready => Ready'
      BY <1>2 DEF Ready
    <2>2. child[w.m].status # "none"
      BY <1>0 DEF RequestHolds, InMutation
    <2> QED BY <1>1, <1>2, <2>1, <2>2 DEF WorldHolds, IInv, FirstCallOnce
  <1>5. PICK ok \in BOOLEAN : /\ Goes(c, [work[c] EXCEPT !.ok = ok, !.at = "complete"])
                              /\ ok => world'[w.m] # "absent"
    <2>1. DispatchAnswered(c) => world'[w.m] # "absent"
      BY <1>0 DEF DispatchAnswered, Appears
    <2> QED BY <2>1 DEF DispatchAnswered, DispatchFailed
  <1>6. PICK next \in Works : next = [w EXCEPT !.ok = ok, !.at = "complete"]
    BY <1>0 DEF Works, Places
  <1>7. /\ next.at = "complete" /\ next.m = w.m /\ next.fresh = w.fresh /\ next.a = w.a
        /\ next.replay = w.replay /\ next.ok = ok
    BY <1>0, <1>6 DEF Works
  <1>8. RequestHolds(next)'
    BY <1>0, <1>1, <1>5, <1>7 DEF RequestHolds, InMutation, Reading
  <1> QED BY <1>1, <1>2, <1>3, <1>4, <1>5, <1>6, <1>7, <1>8, RequestStep DEF IInv, TypeOK

\* complete, after an error.
LEMMA CompleteErrorStep ==
  ASSUME IInv, NEW c \in Callers, CompleteError(c)
  PROVE  IInv'
  <1> DEFINE w == work[c]
             new == FailedChild(w)
  <1>0. w \in Works /\ RequestHolds(w) /\ w.m \in Mutations /\ w.a \in Children
        /\ child \in [Mutations -> Children] /\ w.at = "complete"
    BY DEF IInv, TypeOK, Works, CompleteError
  <1>1. UNCHANGED <<row, leases, over, world, late>> /\ Writes(w.m, new)
    BY DEF CompleteError
  <1>2. new \in Children /\ new.status # "none"
        /\ (child[w.m].status = "succeeded" => new = child[w.m])
        /\ (new.status = "succeeded" => child[w.m].status = "succeeded")
    <2>1. child[w.m] \in Children /\ child[w.m].status # "none" /\ w.a.status # "none"
      BY <1>0 DEF RequestHolds, InMutation
    <2>2. CASE w.replay /\ w.a.epoch.state = "leased" /\ ChildUnchanged(w.m, w.a)
      <3>1. PICK st \in EpochStates : new = [w.a EXCEPT !.epoch.state = st]
        BY <2>2 DEF FailedChild, EpochStates
      <3>2. new \in Children /\ new.status = w.a.status
        BY <1>0, <3>1 DEF Children, Epochs
      <3>3. w.a.status # "succeeded" /\ child[w.m] = w.a
        BY <1>0, <2>2 DEF RequestHolds, ChildUnchanged
      <3> QED BY <2>1, <3>2, <3>3
    <2>3. CASE ~w.replay /\ w.a.status = "started" /\ ChildCurrent(w.m)
      <3>1. new = [status |-> "failed", epoch |-> w.a.epoch]
        BY <2>3 DEF FailedChild
      <3> QED BY <1>0, <2>3, <3>1 DEF Children, Statuses, ChildCurrent
    <2>4. CASE /\ ~(w.replay /\ w.a.epoch.state = "leased" /\ ChildUnchanged(w.m, w.a))
               /\ ~(~w.replay /\ w.a.status = "started" /\ ChildCurrent(w.m))
      BY <2>1, <2>4 DEF FailedChild
    <2> QED BY <2>2, <2>3, <2>4
  <1>3. new.status = "succeeded" => world[w.m] # "absent"
    BY <1>0, <1>2 DEF IInv, ReadyIsReal
  <1> HIDE DEF new
  <1>4. PICK next \in Works : /\ next = [Idle EXCEPT !.op = work[c].op, !.at = "fail"]
                              /\ ~next.fresh /\ RequestHolds(next)'
    BY MovesHolds
  <1>5. Goes(c, next)
    BY <1>4 DEF CompleteError, Moves
  <1> QED BY <1>0, <1>1, <1>2, <1>3, <1>4, <1>5, ChildStep DEF InMutation, IInv, TypeOK

\* Where a success leads, once the disk's row says so.
LEMMA ProceedsHolds ==
  ASSUME IInv, NEW c \in Callers, Proceeds(c), child'[work[c].m].status = "succeeded"
  PROVE  \E next \in Works : Goes(c, next) /\ ~next.fresh /\ RequestHolds(next)'
  <1>0. work[c].op \in Rows
    BY DEF IInv, TypeOK, Works
  <1>1. CASE work[c].m = "disk"
    <2>1. PICK next \in Works :
              next = [Idle EXCEPT !.op = work[c].op, !.m = "binding", !.at = "begin"]
      BY <1>0, IdleType DEF Works, Places, Mutations
    <2>2. next.at = "begin" /\ next.m = "binding" /\ ~next.fresh /\ ~next.replay
      BY <2>1 DEF Idle
    <2>3. RequestHolds(next)'
      BY <1>1, <2>2 DEF RequestHolds, InMutation, Reading
    <2> QED BY <1>1, <2>1, <2>2, <2>3 DEF Proceeds
  <1>2. CASE work[c].m # "disk"
    <2>1. PICK next \in Works : /\ next = [Idle EXCEPT !.op = work[c].op, !.at = "finish"]
                                /\ ~next.fresh /\ RequestHolds(next)'
      BY MovesHolds
    <2> QED BY <1>2, <2>1 DEF Proceeds, Moves
  <1> QED BY <1>1, <1>2

\* complete, after a success.
LEMMA CompleteSuccessStep ==
  ASSUME IInv, NEW c \in Callers, CompleteSuccess(c)
  PROVE  IInv'
  <1> DEFINE w == work[c]
             new == SucceededChild(w)
  <1>0. w \in Works /\ RequestHolds(w) /\ w.m \in Mutations /\ w.a \in Children
        /\ child \in [Mutations -> Children] /\ w.at = "complete" /\ w.ok
    BY DEF IInv, TypeOK, Works, CompleteSuccess
  <1>1. UNCHANGED <<row, leases, over, world, late>>
    BY DEF CompleteSuccess
  <1>2. CASE ~w.fresh /\ w.a.status = "succeeded"
    <2>1. child[w.m].status = "succeeded" /\ child[w.m] \in Children
      BY <1>0, <1>2 DEF RequestHolds, InMutation
    <2>2. Proceeds(c) /\ UNCHANGED child
      BY <1>2 DEF CompleteSuccess
    <2>3. PICK next \in Works : Goes(c, next) /\ ~next.fresh /\ RequestHolds(next)'
      BY <2>1, <2>2, ProceedsHolds
    <2>4. Writes(w.m, child[w.m])
      BY <1>0, <2>2 DEF Writes
    <2>5. world[w.m] # "absent"
      BY <1>0 DEF RequestHolds
    <2> QED BY <1>0, <1>1, <2>1, <2>3, <2>4, <2>5, ChildStep DEF InMutation, IInv, TypeOK
  <1>3. CASE ~(~w.fresh /\ w.a.status = "succeeded") /\ SuccessAccepted(w)
    <2>1. new \in Children /\ new.status = "succeeded"
      <3>1. w.a.epoch \in Epochs /\ [w.a.epoch EXCEPT !.state = "succeeded"] \in Epochs
        BY <1>0 DEF Children, Epochs, EpochStates
      <3> QED BY <3>1 DEF SucceededChild, Children, Statuses
    <2>2. Writes(w.m, new) /\ Proceeds(c)
      BY <1>3 DEF CompleteSuccess
    <2> HIDE DEF new
    <2>3. child'[w.m] = new
      BY <1>0, <2>2 DEF Writes
    <2>4. PICK next \in Works : Goes(c, next) /\ ~next.fresh /\ RequestHolds(next)'
      BY <2>1, <2>2, <2>3, ProceedsHolds
    <2>5. world[w.m] # "absent"
      BY <1>0 DEF RequestHolds
    <2>6. child[w.m].status # "succeeded"
      <3>1. w.a.status # "succeeded"
        BY <1>0, <1>3 DEF RequestHolds
      <3> QED BY <1>3, <3>1 DEF SuccessAccepted, ChildUnchanged, ChildCurrent
    <2> QED BY <1>0, <1>1, <2>1, <2>2, <2>4, <2>5, <2>6, ChildStep DEF InMutation, IInv, TypeOK
  <1>4. CASE ~(~w.fresh /\ w.a.status = "succeeded") /\ ~SuccessAccepted(w)
    <2>1. UNCHANGED child /\ Moves(c, "fail")
      BY <1>4 DEF CompleteSuccess
    <2>2. PICK next \in Works : /\ next = [Idle EXCEPT !.op = work[c].op, !.at = "fail"]
                                /\ ~next.fresh /\ RequestHolds(next)
      BY MovesHolds
    <2>3. Goes(c, next)
      BY <2>1, <2>2 DEF Moves
    <2> QED BY <1>1, <2>1, <2>2, <2>3, QuietStep
  <1> QED BY <1>2, <1>3, <1>4

\* What happens to the leases and at the provider, with no request involved.
LEMMA OutsideSteps ==
  ASSUME IInv, NEW m \in Mutations, LeaseRunsOut(m) \/ TakesEffect(m) \/ BecomesReady(m)
  PROVE  IInv'
  <1>0. TypeOK
    BY DEF IInv
  <1>1. UNCHANGED <<row, child, leases, work>>
    BY DEF LeaseRunsOut, TakesEffect, BecomesReady
  <1>2. over' \in [Mutations -> 0..MaxLeases]
    BY <1>0, ConstantsAssumption DEF TypeOK, LeaseRunsOut, TakesEffect, BecomesReady
  <1>3. /\ world' \in [Mutations -> {"absent", "created", "ready"}]
        /\ late' \in SUBSET Mutations
        /\ \A n \in Mutations :
               /\ world[n] # "absent" => world'[n] # "absent"
               /\ world[n] = "ready" => world'[n] = "ready"
               /\ world'[n] # "absent" \/ n \in late' => world[n] # "absent" \/ n \in late
    BY <1>0 DEF TypeOK, LeaseRunsOut, TakesEffect, BecomesReady, Appears
  <1>4. TypeOK'
    BY <1>0, <1>1, <1>2, <1>3 DEF TypeOK
  <1>5. ReadyIsReal' /\ BindingAfterDisk' /\ FirstCallOnce'
    BY <1>1, <1>3 DEF IInv, ReadyIsReal, BindingAfterDisk, FirstCallOnce, Ready
  <1>6. \A c \in Callers : RequestHolds(work[c])'
    BY <1>0, <1>1, <1>3 DEF IInv, RequestHolds, TypeOK, Works
  <1> QED BY <1>4, <1>5, <1>6 DEF IInv

\* Every step of the specification preserves the invariant.
LEMMA NextStep == ASSUME IInv, [Next]_vars PROVE IInv'
  <1>1. CASE Next
    <2>1. ASSUME NEW c \in Callers, StartEnsure(c) \/ StartRead(c) \/ Step(c) \/ Abandon(c)
          PROVE  IInv'
      BY <2>1, ReadingSteps, RowSteps, ExamineSteps, BeginStep, ClaimReplayStep,
         MarkReplayDispatchStep, DispatchSteps, CompleteErrorStep, CompleteSuccessStep
      DEF Step
    <2> QED BY <1>1, <2>1, OutsideSteps DEF Next
  <1>2. CASE UNCHANGED vars
    BY <1>2 DEF vars, IInv, TypeOK, ReadyIsReal, BindingAfterDisk, FirstCallOnce, Ready, RequestHolds
  <1> QED BY <1>1, <1>2

\* No request has been served yet.
LEMMA InitHolds == Init => IInv
  <1> SUFFICES ASSUME Init PROVE IInv
    OBVIOUS
  <1>1. TypeOK
    BY IdleType, ConstantsAssumption DEF Init, TypeOK, Rows, Statuses
  <1>2. ReadyIsReal /\ BindingAfterDisk
    BY DEF Init, ReadyIsReal, BindingAfterDisk, NoChild, Mutations
  <1>3. FirstCallOnce
    BY DEF Init, FirstCallOnce, Idle
  <1>4. \A c \in Callers : RequestHolds(work[c])
    BY IdleHolds DEF Init
  <1> QED BY <1>1, <1>2, <1>3, <1>4 DEF IInv

\* The invariant holds of Fabric's storage stage for any number of requests,
\* claims of the stage row and replay leases.
THEOREM StageInvariant == Spec => []IInv
  BY InitHolds, NextStep, PTL DEF Spec

\* Type correctness of the stage row, the journal and the requests.
THEOREM TypeOKTheorem == Spec => []TypeOK
  <1>1. IInv => TypeOK
    BY DEF IInv
  <1> QED BY <1>1, StageInvariant, PTL

\* A stage row that EnsureWorkspaceLaunchStage or a readback has persisted as
\* succeeded stands for a disk and a binding that are ready.
THEOREM ReadyIsRealTheorem == Spec => []ReadyIsReal
  <1>1. IInv => ReadyIsReal
    BY DEF IInv
  <1> QED BY <1>1, StageInvariant, PTL

\* beginProviderMutation of the static binding follows the success of the disk.
THEOREM BindingAfterDiskTheorem == Spec => []BindingAfterDisk
  <1>1. IInv => BindingAfterDisk
    BY DEF IInv
  <1> QED BY <1>1, StageInvariant, PTL

\* At most one request calls the provider without a readback, and no call is
\* unknown to the journal of provider mutations.
THEOREM FirstCallOnceTheorem == Spec => []FirstCallOnce
  <1>1. IInv => FirstCallOnce
    BY DEF IInv
  <1> QED BY <1>1, StageInvariant, PTL

\* Who writes a child row, and that it is not one that has succeeded.
LEMMA ChildFinal ==
  ASSUME IInv, NEW c \in Callers, NEW m \in Mutations, child[m].status = "succeeded",
         \/ Begin(c) \/ ClaimReplay(c) \/ MarkReplayDispatch(c)
         \/ CompleteSuccess(c) \/ CompleteError(c)
  PROVE  child'[m] = child[m]
  <1> DEFINE w == work[c]
  <1>0. RequestHolds(w) /\ w.m \in Mutations /\ child \in [Mutations -> Children]
    BY DEF IInv, TypeOK, Works
  <1>1. CASE w.m # m
    BY <1>0, <1>1 DEF Begin, ClaimReplay, MarkReplayDispatch, CompleteSuccess, CompleteError, Writes
  <1>2. CASE w.m = m
    <2>1. CASE Begin(c)
      BY <1>2, <2>1 DEF Begin
    <2>2. CASE ClaimReplay(c)
      BY <1>2, <2>2 DEF ClaimReplay, Replayable, ChildUnchanged
    <2>3. CASE MarkReplayDispatch(c)
      BY <1>0, <1>2, <2>3 DEF MarkReplayDispatch, ChildUnchanged, RequestHolds
    <2>4. CASE CompleteSuccess(c)
      <3>1. CASE ~w.fresh /\ w.a.status = "succeeded"
        BY <2>4, <3>1 DEF CompleteSuccess
      <3>2. CASE ~(~w.fresh /\ w.a.status = "succeeded")
        <4>1. w.a.status # "succeeded"
          BY <1>0, <3>2 DEF RequestHolds
        <4>2. ~SuccessAccepted(w)
          BY <1>2, <4>1 DEF SuccessAccepted, ChildUnchanged, ChildCurrent
        <4> QED BY <2>4, <3>2, <4>2 DEF CompleteSuccess
      <3> QED BY <3>1, <3>2
    <2>5. CASE CompleteError(c)
      <3>1. ~(w.replay /\ ChildUnchanged(w.m, w.a)) /\ ~ChildCurrent(w.m)
        BY <1>0, <1>2 DEF RequestHolds, ChildUnchanged, ChildCurrent
      <3>2. FailedChild(w) = child[w.m]
        BY <3>1 DEF FailedChild
      <3> QED BY <1>0, <1>2, <2>5, <3>2 DEF CompleteError, Writes
    <2> QED BY <2>1, <2>2, <2>3, <2>4, <2>5
  <1> QED BY <1>1, <1>2

\* SaveRuntime, ConvergeRuntimeReadback and the replay writes never take a
\* stage row or a child row back from succeeded, whatever the order in which
\* overlapping requests end.
THEOREM SucceededIsFinalTheorem == Spec => SucceededIsFinal
  <1>1. ASSUME IInv, [Next]_vars
        PROVE  [/\ row.status = "succeeded" => row' = row
                /\ \A m \in Mutations : child[m].status = "succeeded" => child'[m] = child[m]]_vars
    <2>1. CASE UNCHANGED vars
      BY <2>1 DEF vars
    <2>2. ASSUME NEW c \in Callers, row.status = "succeeded",
                 StartEnsure(c) \/ StartRead(c) \/ Step(c) \/ Abandon(c)
          PROVE  row' = row
      BY <2>2
      DEF Step, StartEnsure, StartRead, Abandon, ReadReady, ReadAbsent, ReadEnds, ClaimRuntime,
          Begin, ExamineFound, ExamineError, ExaminePending, ExamineRefused, ClaimReplay,
          MarkReplayDispatch, DispatchAnswered, DispatchFailed, CompleteSuccess, CompleteError,
          Finish, FinishUnavailable, FailStage, PersistAccepted, RowCurrent, RowUnchanged
    <2>3. ASSUME NEW c \in Callers, NEW m \in Mutations, child[m].status = "succeeded",
                 StartEnsure(c) \/ StartRead(c) \/ Step(c) \/ Abandon(c)
          PROVE  child'[m] = child[m]
      <3>1. CASE \/ Begin(c) \/ ClaimReplay(c) \/ MarkReplayDispatch(c)
                 \/ CompleteSuccess(c) \/ CompleteError(c)
        BY <1>1, <2>3, <3>1, ChildFinal
      <3>2. CASE ~(\/ Begin(c) \/ ClaimReplay(c) \/ MarkReplayDispatch(c)
                   \/ CompleteSuccess(c) \/ CompleteError(c))
        BY <2>3, <3>2
        DEF Step, StartEnsure, StartRead, Abandon, ReadReady, ReadAbsent, ReadEnds, ClaimRuntime,
            ExamineFound, ExamineError, ExaminePending, ExamineRefused, DispatchAnswered,
            DispatchFailed, Finish, FinishUnavailable, FailStage
      <3> QED BY <3>1, <3>2
    <2>4. ASSUME NEW n \in Mutations, LeaseRunsOut(n) \/ TakesEffect(n) \/ BecomesReady(n)
          PROVE  UNCHANGED <<row, child>>
      BY <2>4 DEF LeaseRunsOut, TakesEffect, BecomesReady
    <2> QED BY <1>1, <2>1, <2>2, <2>3, <2>4 DEF Next
  <1> QED BY <1>1, StageInvariant, PTL DEF Spec, SucceededIsFinal

============================================================================
