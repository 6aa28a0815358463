------------------------- MODULE WorkspaceDeleteProofs -------------------------
(***************************************************************************)
(* The safety of a deletion, for any number of overlapping processes,       *)
(* request keys, readbacks, lease generations and crashes.                  *)
(*                                                                         *)
(* A request works from a copy of the row that may be out of date.  What    *)
(* saves it is that resources only disappear: what its copy calls absent    *)
(* stays absent, so the invariant says of every copy, and of every row      *)
(* about to be written, what AbsenceIsReal says of the stored row.  Calls   *)
(* and readbacks are counted against the reservations in the row together   *)
(* with the requests that hold one and have not used it yet.                *)
(***************************************************************************)
EXTENDS WorkspaceDelete, FiniteSetTheorems, TLAPS

-----------------------------------------------------------------------------
(* The inductive invariant                                                  *)

\* What the row o calls absent is gone at its owner.
Gone(o) ==
    /\ o.phase # "claimed" => RuntimeAbsent
    /\ o.phase \notin {"claimed", "runtime_secret_absent"} => "attachment" \notin left
    /\ o.phase \notin {"claimed", "runtime_secret_absent", "attachment_absent"} =>
           "storage" \notin left
    /\ o.phase \notin {"claimed", "runtime_secret_absent", "attachment_absent",
                       "storage_absent"} => "compute" \notin left
    /\ o.phase \notin {"claimed", "runtime_secret_absent", "attachment_absent",
                       "storage_absent", "compute_absent"} => "key" \notin left

\* The places of a request that has the row, and the phase each belongs to.
AtRuntime == {"destroy_runtime", "runtime_destroyed", "runtime_unanswered"}
AtKey == {"key_again", "key_delete", "key_sent", "key_unanswered"}
Working == {"run", "write", "compute_read"} \cup AtRuntime \cup AtKey

PhaseOf(pc, o) ==
    /\ pc \in AtRuntime => o.phase = "claimed"
    /\ pc = "compute_read" => o.phase = "storage_absent" /\ o.reads > 0
    /\ pc \in AtKey => o.phase = "compute_absent"
    /\ pc = "key_again" /\ o.auth # None => o.replay = "claimed"
    /\ pc = "key_delete" /\ o.auth # None => o.replay = "dispatched"

Sent == {"dispatched", "consumed"}

\* The store takes n over o, apart from the Workspace.
Fits(o, n) == ValidState(n) /\ ValidTransition(o, n)

\* A write of n over o: what it may not take back, and what its request may do next.
WriteHolds(o, n, then) ==
    /\ n \in Rows /\ Fits(o, n) /\ Gone(n) /\ PhaseOf(then, n)
    /\ then \in {"idle", "run", "compute_read", "key_again", "key_delete"}
    /\ o.replay \in Sent => n.replay \in Sent
    /\ then = "compute_read" => n.reads = o.reads + 1
    /\ then = "key_again" /\ n.auth = None => n.attempted /\ ~o.attempted
    /\ then = "key_delete" => n.auth # None /\ o.replay \notin Sent

RequestHolds(l) ==
    /\ l.pc \in Working \cup {"create"} => l.key \in Keys
    /\ l.pc \in Working =>
           /\ l.copy \in Rows /\ ValidState(l.copy) /\ Gone(l.copy) /\ PhaseOf(l.pc, l.copy)
    /\ l.pc = "write" => WriteHolds(l.copy, l.want, l.then)

\* Requests that may still send the first DELETE of the key, or its replay, or read the
\* compute back: each holds what the row has reserved.
MayDelete(l) == l.pc \in {"key_again", "key_delete"} /\ l.copy.auth = None
MayReplay(l) == l.pc = "key_delete" /\ l.copy.auth # None
Readers == {p \in Processes : local[p].pc = "compute_read"}

Bit(b) == IF b THEN 1 ELSE 0

\* The calls sent and still to be sent are covered by the row.
KeyCallsCovered ==
    /\ \A p \in Processes : MayDelete(local[p]) => row # None /\ row.attempted
    /\ \A p \in Processes : MayReplay(local[p]) => row # None /\ row.replay \in Sent
    /\ \A p, q \in Processes : MayDelete(local[p]) /\ MayDelete(local[q]) => p = q
    /\ \A p, q \in Processes : MayReplay(local[p]) /\ MayReplay(local[q]) => p = q
    /\ keyCalls + Bit(\E p \in Processes : MayDelete(local[p]))
                + Bit(\E p \in Processes : MayReplay(local[p]))
          <= Bit(row # None /\ row.attempted) + Bit(row # None /\ row.replay \in Sent)

ReadsCovered ==
    /\ IsFiniteSet(Readers)
    /\ reads + Cardinality(Readers) <= IF row = None THEN 0 ELSE row.reads

IInv ==
    /\ TypeOK /\ RemovedInOrder /\ ReceiptIsTrue
    /\ expired < MaxClaims
    /\ row # None => Gone(row)
    /\ workspace = (row = None \/ row.phase \notin {"workspace_absent",
                                       "deletion_receipt_recorded", "complete"})
    /\ \A p \in Processes : RequestHolds(local[p])
    /\ KeyCallsCovered /\ ReadsCovered

-----------------------------------------------------------------------------
(* Lemmas about the row                                                     *)

\* The rank of every phase.
LEMMA Ranks ==
    /\ RankOf("claimed") = 1 /\ RankOf("runtime_secret_absent") = 2
    /\ RankOf("attachment_absent") = 3 /\ RankOf("storage_absent") = 4
    /\ RankOf("compute_absent") = 5 /\ RankOf("key_absent") = 6
    /\ RankOf("workspace_absent") = 7 /\ RankOf("deletion_receipt_recorded") = 8
    /\ RankOf("complete") = 9
  <1>1. /\ DOMAIN Phases = 1..9
        /\ Phases[1] = "claimed" /\ Phases[2] = "runtime_secret_absent"
        /\ Phases[3] = "attachment_absent" /\ Phases[4] = "storage_absent"
        /\ Phases[5] = "compute_absent" /\ Phases[6] = "key_absent"
        /\ Phases[7] = "workspace_absent" /\ Phases[8] = "deletion_receipt_recorded"
        /\ Phases[9] = "complete"
    BY DEF Phases
  <1>2. \A i \in 1..9 : i \in {1, 2, 3, 4, 5, 6, 7, 8, 9}
    OBVIOUS
  <1> QED BY <1>1, <1>2 DEF RankOf

LEMMA RankOfPhase == \A o : Rank(o) = RankOf(o.phase)
  BY DEF Rank, RankOf

PhaseNames == {"claimed", "runtime_secret_absent", "attachment_absent", "storage_absent",
               "compute_absent", "key_absent", "workspace_absent",
               "deletion_receipt_recorded", "complete"}

\* The phases a row may have are the nine named ones.
LEMMA RowPhases == {Phases[i] : i \in DOMAIN Phases} = PhaseNames
  <1>1. /\ DOMAIN Phases = 1..9
        /\ Phases[1] = "claimed" /\ Phases[2] = "runtime_secret_absent"
        /\ Phases[3] = "attachment_absent" /\ Phases[4] = "storage_absent"
        /\ Phases[5] = "compute_absent" /\ Phases[6] = "key_absent"
        /\ Phases[7] = "workspace_absent" /\ Phases[8] = "deletion_receipt_recorded"
        /\ Phases[9] = "complete"
    BY DEF Phases
  <1>2. \A i \in 1..9 : i \in {1, 2, 3, 4, 5, 6, 7, 8, 9}
    OBVIOUS
  <1>3. \A x \in {Phases[i] : i \in DOMAIN Phases} : x \in PhaseNames
    BY <1>1, <1>2 DEF PhaseNames
  <1>4. \A x \in PhaseNames : \E i \in DOMAIN Phases : Phases[i] = x
    BY <1>1 DEF PhaseNames
  <1> QED BY <1>3, <1>4

LEMMA RowsAre ==
    Rows = [phase: PhaseNames, status: {"running", "manual_review", "succeeded"},
            code: Codes \cup {None}, reads: 0..MaxReads, attempted: BOOLEAN,
            auth: Keys \cup {None},
            replay: {"none", "claimed", "dispatched", "consumed"}, generation: 0..MaxClaims]
  BY RowPhases DEF Rows

\* What a valid row says of its reservation of the key and of its replay.
LEMMA Reservations ==
  ASSUME NEW o \in Rows, ValidState(o)
  PROVE  /\ o.auth # None => o.attempted /\ o.replay # "none"
         /\ o.auth = None => o.replay = "none" /\ o.generation = 0
  BY DEF ValidState, ValidReplay, Rows

\* ValidState, with the ranks written out.
LEMMA ValidStateIs ==
  ASSUME NEW o \in Rows
  PROVE  ValidState(o) <=>
           /\ ValidReplay(o)
           /\ o.reads > 0 => o.phase \notin {"claimed", "runtime_secret_absent",
                                            "attachment_absent"}
           /\ o.reads > 0 \/ o.phase \in {"claimed", "runtime_secret_absent",
                                          "attachment_absent", "storage_absent"}
           /\ o.status = "succeeded" <=> o.phase = "complete"
           /\ o.status = "manual_review" <=> o.code # None
           /\ o.attempted => o.phase \notin {"claimed", "runtime_secret_absent",
                                             "attachment_absent", "storage_absent"}
           /\ o.auth # None => o.attempted
           /\ o.phase = "compute_absent" => o.replay # "consumed"
           /\ o.auth # None => o.phase = "compute_absent" \/ o.replay = "consumed"
  <1>1. /\ o.phase \in PhaseNames /\ o.reads \in 0..MaxReads /\ Rank(o) = RankOf(o.phase)
        /\ o.status \in {"running", "manual_review", "succeeded"}
    BY RowsAre, RankOfPhase
  <1>2. /\ Rank(o) >= RankOf("storage_absent") <=>
             o.phase \notin {"claimed", "runtime_secret_absent", "attachment_absent"}
        /\ Rank(o) >= RankOf("compute_absent") <=>
             o.phase \notin {"claimed", "runtime_secret_absent", "attachment_absent",
                             "storage_absent"}
        /\ Rank(o) >= RankOf("key_absent") <=>
             o.phase \notin {"claimed", "runtime_secret_absent", "attachment_absent",
                             "storage_absent", "compute_absent"}
    BY <1>1, Ranks DEF PhaseNames
  <1>3. ValidReadbacks(o) <=>
           /\ o.reads > 0 => o.phase \notin {"claimed", "runtime_secret_absent",
                                            "attachment_absent"}
           /\ o.reads > 0 \/ o.phase \in {"claimed", "runtime_secret_absent",
                                          "attachment_absent", "storage_absent"}
    BY <1>1, <1>2 DEF ValidReadbacks
  <1>4. (CASE o.status = "running"       -> o.phase # "complete" /\ o.code = None
           [] o.status = "manual_review" -> o.phase # "complete" /\ o.code # None
           [] o.status = "succeeded"     -> o.phase = "complete" /\ o.code = None)
        <=> /\ o.status = "succeeded" <=> o.phase = "complete"
            /\ o.status = "manual_review" <=> o.code # None
    BY <1>1
  <1> QED BY <1>2, <1>3, <1>4 DEF ValidState

\* The first row is a valid one, and none of its resources need be gone.
LEMMA FirstRow == NewOperation \in Rows /\ ValidState(NewOperation) /\ Gone(NewOperation)
  <1>1. NewOperation \in Rows
    BY RowsAre, ConstantsAssumption DEF NewOperation, PhaseNames
  <1>2. ValidState(NewOperation)
    BY Ranks, RankOfPhase, ConstantsAssumption
    DEF NewOperation, ValidState, ValidReplay, ValidReadbacks
  <1> QED BY <1>1, <1>2 DEF NewOperation, Gone

-----------------------------------------------------------------------------
(* Lemmas about the owners                                                  *)

LEMMA ResourcesAre ==
    Resources = {"runtime", "secret", "residual", "attachment", "storage", "compute", "key"}
  BY DEF Resources, Calls, Removes

\* RemovedInOrder, written out.
Chain ==
    /\ "attachment" \in flight \/ "attachment" \notin left => "runtime" \notin left
    /\ "storage" \in flight \/ "storage" \notin left =>
           "runtime" \notin left /\ "attachment" \notin left
    /\ "compute" \in flight \/ "compute" \notin left =>
           "runtime" \notin left /\ "attachment" \notin left /\ "storage" \notin left
    /\ "key" \in flight \/ "key" \notin left =>
           /\ "runtime" \notin left /\ "attachment" \notin left
           /\ "storage" \notin left /\ "compute" \notin left

LEMMA ChainIsOrder == (RemovedInOrder <=> Chain) /\ (RemovedInOrder' <=> Chain')
  <1>1. /\ DOMAIN RemovalOrder = 1..5
        /\ RemovalOrder[1] = "runtime" /\ RemovalOrder[2] = "attachment"
        /\ RemovalOrder[3] = "storage" /\ RemovalOrder[4] = "compute"
        /\ RemovalOrder[5] = "key"
    BY DEF RemovalOrder
  <1>2. \A i \in 1..5 : i \in {1, 2, 3, 4, 5}
    OBVIOUS
  <1>3. RemovedInOrder <=> Chain
    <2>1. ASSUME RemovedInOrder PROVE Chain
      BY <1>1, <2>1 DEF RemovedInOrder, Chain
    <2>2. ASSUME Chain PROVE RemovedInOrder
      BY <1>1, <1>2, <2>2 DEF RemovedInOrder, Chain
    <2> QED BY <2>1, <2>2
  <1>4. RemovedInOrder' <=> Chain'
    <2>1. ASSUME RemovedInOrder' PROVE Chain'
      BY <1>1, <2>1 DEF RemovedInOrder, Chain
    <2>2. ASSUME Chain' PROVE RemovedInOrder'
      BY <1>1, <1>2, <2>2 DEF RemovedInOrder, Chain
    <2> QED BY <2>1, <2>2
  <1> QED BY <1>3, <1>4

\* What is gone stays gone.
LEMMA GoneStays ==
  ASSUME NEW o, left' \subseteq left, Gone(o)
  PROVE  Gone(o)'
  BY DEF Gone, RuntimeAbsent

LEMMA RequestStays ==
  ASSUME NEW l, left' \subseteq left, RequestHolds(l)
  PROVE  RequestHolds(l)'
  <1>1. Gone(l.copy) => Gone(l.copy)'
    BY GoneStays
  <1>2. Gone(l.want) => Gone(l.want)'
    BY GoneStays
  <1> QED BY <1>1, <1>2 DEF RequestHolds, WriteHolds

-----------------------------------------------------------------------------
(* Lemmas about one request's step                                          *)

Locals == [pc: Places, key: Keys \cup {None}, copy: Rows \cup {None},
           want: Rows \cup {None}, then: Places]

Goes(p, l) ==
    /\ local' = [local EXCEPT ![p] = l]
    /\ local' \in [Processes -> Locals] /\ local'[p] = l
    /\ \A q \in Processes \ {p} : local'[q] = local[q]

\* The request p becomes l.
LEMMA Moves ==
  ASSUME TypeOK, NEW p \in Processes, NEW l \in Locals, local' = [local EXCEPT ![p] = l]
  PROVE  Goes(p, l)
  BY DEF TypeOK, Goes, Locals

\* The forms the actions use.
LEMMA MovesTo ==
  ASSUME TypeOK, NEW p \in Processes
  PROVE  /\ local[p] \in Locals /\ local \in [Processes -> Locals]
         /\ Return(p) => local' = [local EXCEPT ![p] = Idle]
         /\ \A pc : Goto(p, pc) => local' = [local EXCEPT ![p] = [local[p] EXCEPT !.pc = pc]]
  BY DEF TypeOK, Locals, Return, Goto

\* The reservations cover the calls after a step that takes none and drops no reservation.
LEMMA KeyCallsKept ==
  ASSUME TypeOK, KeyCallsCovered, NEW p \in Processes, NEW l \in Locals, Goes(p, l),
         MayDelete(l) => MayDelete(local[p]), MayReplay(l) => MayReplay(local[p]),
         row # None => /\ row' # None
                       /\ row.attempted => row'.attempted
                       /\ row.replay \in Sent => row'.replay \in Sent,
         keyCalls' = keyCalls
  PROVE  KeyCallsCovered'
  <1>1. /\ \A q \in Processes : MayDelete(local[q])' => MayDelete(local[q])
        /\ \A q \in Processes : MayReplay(local[q])' => MayReplay(local[q])
    BY DEF Goes, MayDelete, MayReplay
  <1> DEFINE a == \E q \in Processes : MayDelete(local[q])
             b == \E q \in Processes : MayReplay(local[q])
             c == row # None /\ row.attempted
             d == row # None /\ row.replay \in Sent
  <1>2. (a' => a) /\ (b' => b) /\ (c => c') /\ (d => d')
    BY <1>1
  <1>3. keyCalls + Bit(a) + Bit(b) <= Bit(c) + Bit(d)
    BY DEF KeyCallsCovered
  <1>4. keyCalls' + Bit(a') + Bit(b') <= Bit(c') + Bit(d')
    <2> HIDE DEF a, b, c, d
    <2> QED BY <1>2, <1>3 DEF Bit, TypeOK
  <1>5. /\ \A q \in Processes : MayDelete(local[q])' => (row # None /\ row.attempted)'
        /\ \A q \in Processes : MayReplay(local[q])' => (row # None /\ row.replay \in Sent)'
    BY <1>1 DEF KeyCallsCovered
  <1>6. /\ \A q, r \in Processes : MayDelete(local[q])' /\ MayDelete(local[r])' => q = r
        /\ \A q, r \in Processes : MayReplay(local[q])' /\ MayReplay(local[r])' => q = r
    BY <1>1 DEF KeyCallsCovered
  <1> QED BY <1>4, <1>5, <1>6 DEF KeyCallsCovered

\* The readbacks are covered after a step that starts none and drops no reservation.
LEMMA ReadsKept ==
  ASSUME TypeOK, ReadsCovered, NEW p \in Processes, NEW l \in Locals, Goes(p, l),
         l.pc # "compute_read",
         reads' = reads \/ (local[p].pc = "compute_read" /\ reads' = reads + 1),
         row # None => row' # None /\ row'.reads >= row.reads,
         row' # None => row' \in Rows
  PROVE  ReadsCovered'
  <1>1. Readers' \subseteq Readers
    BY DEF Readers, Goes
  <1>2. /\ IsFiniteSet(Readers') /\ Cardinality(Readers') <= Cardinality(Readers)
        /\ Cardinality(Readers) \in Nat /\ Cardinality(Readers') \in Nat
    BY <1>1, FS_Subset, FS_CardinalityType DEF ReadsCovered
  <1>3. local[p].pc = "compute_read" => Cardinality(Readers) = Cardinality(Readers') + 1
    <2> HAVE local[p].pc = "compute_read"
    <2>1. Readers = Readers' \cup {p} /\ p \notin Readers'
      BY DEF Readers, Goes
    <2> QED BY <1>2, <2>1, FS_AddElement
  <1>4. row # None => row.reads \in Nat
    BY DEF TypeOK, Rows
  <1>5. row' # None => row'.reads \in Nat
    BY DEF Rows
  <1> QED BY <1>2, <1>3, <1>4, <1>5 DEF ReadsCovered, TypeOK

\* A step of a request that leaves the row alone.
LEMMA RequestGoes ==
  ASSUME IInv, NEW p \in Processes, NEW l \in Locals, Goes(p, l),
         RequestHolds(l)', l.pc # "compute_read",
         KeyCallsCovered', keyCalls' \in 0..3,
         UNCHANGED <<row, workspace, clock>>, crashes' \in 0..MaxCrashes,
         reads' = reads \/ (local[p].pc = "compute_read" /\ reads' = reads + 1),
         left' \subseteq left, flight' \subseteq Calls, receipt' \in BOOLEAN,
         Chain', ReceiptIsTrue'
  PROVE  IInv'
  <1>1. TypeOK
    BY DEF IInv
  <1>2. TypeOK'
    <2>1. row' \in Rows \cup {None} /\ (row' # None => ValidState(row'))
      BY <1>1 DEF TypeOK
    <2> QED BY <1>1, <2>1 DEF TypeOK, Goes, Locals, clock
  <1>3. RemovedInOrder'
    BY ChainIsOrder
  <1>4. row' # None => Gone(row)'
    BY GoneStays DEF IInv
  <1>5. \A q \in Processes : RequestHolds(local[q])'
    BY RequestStays DEF IInv, Goes
  <1>6. ReadsCovered'
    <2>1. row # None => row' # None /\ row'.reads >= row.reads
      BY <1>1 DEF TypeOK, Rows
    <2>2. row' # None => row' \in Rows
      BY <1>1 DEF TypeOK
    <2> QED BY <1>1, <2>1, <2>2, ReadsKept DEF IInv
  <1> QED BY <1>2, <1>3, <1>4, <1>5, <1>6 DEF IInv, clock

\* The same when it uses no reservation.
LEMMA RequestStep ==
  ASSUME IInv, NEW p \in Processes, NEW l \in Locals, local' = [local EXCEPT ![p] = l],
         RequestHolds(l)', l.pc # "compute_read",
         MayDelete(l) => MayDelete(local[p]), MayReplay(l) => MayReplay(local[p]),
         UNCHANGED <<row, workspace, clock, keyCalls, reads>>, crashes' \in 0..MaxCrashes,
         left' \subseteq left, flight' \subseteq Calls, receipt' \in BOOLEAN,
         Chain', ReceiptIsTrue'
  PROVE  IInv'
  <1>1. TypeOK /\ KeyCallsCovered /\ keyCalls' \in 0..3
    BY DEF IInv, TypeOK
  <1>2. Goes(p, l)
    BY <1>1, Moves
  <1>3. KeyCallsCovered'
    BY <1>1, <1>2, KeyCallsKept
  <1>4. reads' = reads \/ (local[p].pc = "compute_read" /\ reads' = reads + 1)
    OBVIOUS
  <1>5. UNCHANGED <<row, workspace, clock>>
    OBVIOUS
  <1> QED BY <1>1, <1>2, <1>3, <1>4, <1>5, RequestGoes

\* A step of a request that changes nothing but the request.
LEMMA QuietStep ==
  ASSUME IInv, NEW p \in Processes, NEW l \in Locals, local' = [local EXCEPT ![p] = l],
         RequestHolds(l), l.pc # "compute_read",
         MayDelete(l) => MayDelete(local[p]), MayReplay(l) => MayReplay(local[p]),
         UNCHANGED <<row, workspace, owners, clock, keyCalls, reads>>, crashes' \in 0..MaxCrashes
  PROVE  IInv'
  <1>1. RequestHolds(l)'
    BY RequestStays DEF owners
  <1>2. Chain' /\ ReceiptIsTrue'
    BY ChainIsOrder DEF IInv, Chain, ReceiptIsTrue, owners
  <1> QED BY <1>1, <1>2, RequestStep DEF IInv, TypeOK, owners

-----------------------------------------------------------------------------
(* Lemmas about writes                                                      *)

Holding == Working \ {"write"}

\* A request that is about to write n.
LEMMA WriteRequest ==
  ASSUME IInv, NEW p \in Processes, local[p].pc \in Holding,
         NEW o, o = local[p].copy, NEW n \in Rows, NEW then, Write(p, n, then),
         WriteHolds(o, n, then)', left' \subseteq left
  PROVE  \E l \in Locals : /\ local' = [local EXCEPT ![p] = l] /\ RequestHolds(l)'
                           /\ ~MayDelete(l) /\ ~MayReplay(l) /\ l.pc = "write"
  <1> DEFINE w == [local[p] EXCEPT !.pc = "write", !.want = n, !.then = then]
  <1>1. TypeOK /\ local[p] \in Locals
    BY MovesTo DEF IInv
  <1>2. local' = [local EXCEPT ![p] = w]
    BY <1>1 DEF Write, TypeOK, Locals
  <1>3. then \in Places
    BY DEF WriteHolds, Places
  <1>4. w \in Locals
    BY <1>1, <1>3 DEF Locals, Places
  <1>5. PICK l \in Locals : l = w
    BY <1>4
  <1>6. l.pc = "write" /\ l.copy = o /\ l.want = n /\ l.then = then /\ l.key = local[p].key
    BY <1>1, <1>5 DEF Locals
  <1>7. RequestHolds(local[p])
    BY DEF IInv
  <1>8. o \in Rows /\ ValidState(o) /\ Gone(o) /\ l.key \in Keys
    BY <1>6, <1>7 DEF RequestHolds, Holding
  <1>9. Gone(o)'
    BY <1>8, GoneStays
  <1>10. RequestHolds(l)'
    BY <1>6, <1>8, <1>9 DEF RequestHolds, Working, AtRuntime, AtKey, PhaseOf
  <1>11. ~MayDelete(l) /\ ~MayReplay(l)
    BY <1>6 DEF MayDelete, MayReplay
  <1> QED BY <1>2, <1>5, <1>6, <1>10, <1>11

LEMMA WriteStep ==
  ASSUME IInv, NEW p \in Processes, local[p].pc \in Holding,
         NEW o, o = local[p].copy, NEW n \in Rows, NEW then, Write(p, n, then),
         WriteHolds(o, n, then)',
         UNCHANGED <<row, workspace, clock, keyCalls, reads, crashes>>,
         left' \subseteq left, flight' \subseteq Calls, receipt' \in BOOLEAN,
         Chain', ReceiptIsTrue'
  PROVE  IInv'
  <1>1. PICK l \in Locals : /\ local' = [local EXCEPT ![p] = l] /\ RequestHolds(l)'
                            /\ ~MayDelete(l) /\ ~MayReplay(l) /\ l.pc = "write"
    BY WriteRequest
  <1> QED BY <1>1, RequestStep DEF IInv, TypeOK

\* The same when the owners are left alone.
LEMMA QuietWrite ==
  ASSUME IInv, NEW p \in Processes, local[p].pc \in Holding,
         NEW o, o = local[p].copy, NEW n \in Rows, NEW then, Write(p, n, then),
         WriteHolds(o, n, then),
         UNCHANGED <<row, workspace, owners, clock, keyCalls, reads, crashes>>
  PROVE  IInv'
  <1>1. WriteHolds(o, n, then)'
    BY GoneStays DEF owners, WriteHolds
  <1>2. Chain' /\ ReceiptIsTrue'
    BY ChainIsOrder DEF IInv, Chain, ReceiptIsTrue, owners
  <1> QED BY <1>1, <1>2, WriteStep DEF IInv, TypeOK, owners

\* The row n has the phase of o, or the next.
Follows(o, phase) ==
    \/ o.phase = "claimed" /\ phase = "runtime_secret_absent"
    \/ o.phase = "runtime_secret_absent" /\ phase = "attachment_absent"
    \/ o.phase = "attachment_absent" /\ phase = "storage_absent"
    \/ o.phase = "storage_absent" /\ phase = "compute_absent" /\ o.reads > 0
    \/ o.phase = "compute_absent" /\ phase = "key_absent"
    \/ o.phase = "key_absent" /\ phase = "workspace_absent"
    \/ o.phase = "workspace_absent" /\ phase = "deletion_receipt_recorded"
    \/ o.phase = "deletion_receipt_recorded" /\ phase = "complete"

LEMMA StaysOrFollows ==
  ASSUME NEW o \in Rows, NEW n \in Rows, n.phase = o.phase \/ Follows(o, n.phase),
         o.phase # "complete", n.reads >= o.reads, o.attempted => n.attempted
  PROVE  ValidTransition(o, n)
  <1>1. Rank(o) = RankOf(o.phase) /\ Rank(n) = RankOf(n.phase) /\ o.phase \in PhaseNames
    BY RankOfPhase, RowsAre
  <1>2. RankOf(n.phase) \in RankOf(o.phase)..(RankOf(o.phase) + 1)
    BY <1>1, Ranks DEF Follows, PhaseNames
  <1> QED BY <1>1, <1>2 DEF ValidTransition

\* The copy of a request that holds the row.
LEMMA CopyHolds ==
  ASSUME IInv, NEW p \in Processes, local[p].pc \in Holding
  PROVE  /\ local[p].key \in Keys /\ local[p].copy \in Rows
         /\ ValidState(local[p].copy) /\ Gone(local[p].copy)
         /\ PhaseOf(local[p].pc, local[p].copy)
  BY DEF IInv, RequestHolds, Holding

\* Parking the row changes no phase and no reservation.
LEMMA ParkHolds ==
  ASSUME NEW o \in Rows, NEW code \in Codes, Gone(o), ValidState(o), o.phase # "complete"
  PROVE  Unconfirmed(o, code) \in Rows /\ WriteHolds(o, Unconfirmed(o, code), "idle")
  <1> DEFINE n == Unconfirmed(o, code)
  <1>1. /\ n \in Rows /\ n.phase = o.phase /\ n.replay = o.replay /\ n.reads = o.reads
        /\ n.attempted = o.attempted /\ n.auth = o.auth /\ n.generation = o.generation
        /\ n.status = "manual_review" /\ n.code # None
    BY NoRowAssumption DEF Rows, Unconfirmed
  <1> HIDE DEF n
  <1>2. Gone(n)
    BY <1>1 DEF Gone
  <1>3. ValidState(n)
    BY <1>1, ValidStateIs DEF ValidReplay
  <1>4. ValidTransition(o, n)
    <2>1. n.reads >= o.reads
      BY <1>1 DEF Rows
    <2> QED BY <1>1, <2>1, StaysOrFollows
  <1> QED BY <1>1, <1>2, <1>3, <1>4 DEF WriteHolds, Fits, PhaseOf, AtRuntime, AtKey, n

\* A request that parks the row, whatever it has asked of the owners.
LEMMA ParkStep ==
  ASSUME IInv, NEW p \in Processes, local[p].pc \in Holding, NEW code \in Codes,
         markWorkspaceDeleteUnconfirmed(p, code), local[p].copy.phase # "complete",
         UNCHANGED <<row, workspace, clock, keyCalls, reads, crashes>>,
         left' = left, flight' \subseteq Calls, receipt' = receipt, Chain'
  PROVE  IInv'
  <1>1. PICK o \in Rows : o = local[p].copy /\ Gone(o) /\ ValidState(o)
    BY CopyHolds
  <1>2. PICK n \in Rows : n = Unconfirmed(o, code) /\ WriteHolds(o, n, "idle")
    BY <1>1, ParkHolds
  <1>3. WriteHolds(o, n, "idle")'
    BY <1>2, GoneStays DEF WriteHolds
  <1>4. Write(p, n, "idle")
    BY <1>1, <1>2 DEF markWorkspaceDeleteUnconfirmed
  <1>5. ReceiptIsTrue' /\ receipt' \in BOOLEAN /\ left' \subseteq left
    BY DEF IInv, ReceiptIsTrue, TypeOK
  <1> QED BY <1>1, <1>3, <1>4, <1>5, WriteStep

\* The owners left alone keep their order.
LEMMA ChainKept ==
  ASSUME IInv, UNCHANGED owners
  PROVE  Chain' /\ left' = left /\ flight' \subseteq Calls /\ receipt' = receipt
  BY ChainIsOrder DEF IInv, TypeOK, Chain, owners

\* The row in the next phase.
LEMMA AdvancedIs ==
  ASSUME NEW o \in Rows, NEW phase \in PhaseNames, NEW n, n = Advanced(o, phase)
  PROVE  /\ n \in Rows /\ n.phase = phase /\ n.replay = o.replay /\ n.reads = o.reads
         /\ n.attempted = o.attempted /\ n.auth = o.auth /\ n.generation = o.generation
         /\ n.status = (IF phase = "complete" THEN "succeeded" ELSE "running")
         /\ n.code = None
  BY RowsAre DEF Advanced

\* Reaching the next phase changes no reservation, and the store takes the row.
LEMMA AdvanceHolds ==
  ASSUME NEW o \in Rows, ValidState(o), NEW phase \in PhaseNames, Follows(o, phase),
         phase # "key_absent"
  PROVE  /\ Gone(Advanced(o, phase)) => WriteHolds(o, Advanced(o, phase), "run")
         /\ Gone(Advanced(o, phase))' => WriteHolds(o, Advanced(o, phase), "run")'
  <1> DEFINE n == Advanced(o, phase)
  <1>1. /\ n \in Rows /\ n.phase = phase /\ n.replay = o.replay /\ n.reads = o.reads
        /\ n.attempted = o.attempted /\ n.auth = o.auth /\ n.generation = o.generation
        /\ n.status = (IF phase = "complete" THEN "succeeded" ELSE "running")
        /\ n.code = None
    BY AdvancedIs
  <1> HIDE DEF n
  <1>2. ValidState(n)
    <2>1. ValidReplay(o) /\ ValidReplay(n)
      BY <1>1, ValidStateIs DEF ValidReplay
    <2>2. phase = "compute_absent" => n.replay # "consumed"
      BY <1>1, <2>1, ValidStateIs DEF Follows, ValidReplay
    <2> QED BY <1>1, <2>1, <2>2, ValidStateIs DEF Follows
  <1>3. ValidTransition(o, n)
    <2>1. n.reads >= o.reads
      BY <1>1 DEF Rows
    <2> QED BY <1>1, <2>1, StaysOrFollows DEF Follows
  <1>4. Gone(n) => WriteHolds(o, n, "run")
    BY <1>1, <1>2, <1>3 DEF WriteHolds, Fits, PhaseOf, AtRuntime, AtKey
  <1>5. Gone(n)' => WriteHolds(o, n, "run")'
    BY <1>1, <1>2, <1>3 DEF WriteHolds, Fits, PhaseOf, AtRuntime, AtKey
  <1> QED BY <1>4, <1>5 DEF n

\* An idle request relies on nothing.
LEMMA IdleHolds ==
    Idle \in Locals /\ RequestHolds(Idle) /\ ~MayDelete(Idle) /\ ~MayReplay(Idle)
    /\ Idle.pc # "compute_read"
  BY DEF Idle, Locals, Places, RequestHolds, Working, AtRuntime, AtKey, MayDelete, MayReplay

\* A request that returns.
LEMMA ReturnStep ==
  ASSUME IInv, NEW p \in Processes, Return(p),
         UNCHANGED <<row, workspace, owners, clock, keyCalls, reads>>, crashes' \in 0..MaxCrashes
  PROVE  IInv'
  BY IdleHolds, QuietStep DEF Return

-----------------------------------------------------------------------------
(* Loading and creating the row                                             *)

LEMMA RequestPreserves ==
  ASSUME IInv, NEW p \in Processes, Request(p)
  PROVE  IInv'
  <1> DEFINE pc == IF row = None THEN "create" ELSE "run"
  <1>1. PICK k \in Keys : local' = [local EXCEPT ![p] =
            [Idle EXCEPT !.pc = pc, !.key = k, !.copy = row]]
    BY DEF Request
  <1>2. pc \in {"create", "run"} /\ (pc = "run" => row # None) /\ row \in Rows \cup {None}
    BY DEF IInv, TypeOK
  <1> HIDE DEF pc
  <1>3. [Idle EXCEPT !.pc = pc, !.key = k, !.copy = row] \in Locals
    BY <1>2, IdleHolds DEF Locals, Places
  <1>4. PICK l \in Locals : l = [Idle EXCEPT !.pc = pc, !.key = k, !.copy = row]
    BY <1>3
  <1>5. l.pc = pc /\ l.key = k /\ l.copy = row
    BY <1>4, IdleHolds DEF Locals
  <1>6. RequestHolds(l)
    BY <1>2, <1>5 DEF IInv, TypeOK, RequestHolds, Working, AtRuntime, AtKey, PhaseOf
  <1>7. ~MayDelete(l) /\ ~MayReplay(l) /\ l.pc # "compute_read"
    BY <1>2, <1>5 DEF MayDelete, MayReplay
  <1> QED BY <1>1, <1>4, <1>6, <1>7, QuietStep DEF IInv, TypeOK, Request

\* A step of a request that writes the row.
LEMMA RowStep ==
  ASSUME IInv, NEW p \in Processes, NEW l \in Locals, local' = [local EXCEPT ![p] = l],
         NEW n \in Rows, row' = n, ValidState(n), Gone(n), RequestHolds(l),
         workspace' \in BOOLEAN, workspace' => workspace,
         workspace' = (n.phase \notin {"workspace_absent", "deletion_receipt_recorded",
                                       "complete"}),
         UNCHANGED <<owners, clock, keyCalls, reads, crashes>>,
         KeyCallsCovered', ReadsCovered'
  PROVE  IInv'
  <1>1. TypeOK
    BY DEF IInv
  <1>2. Goes(p, l)
    BY <1>1, Moves
  <1>3. TypeOK'
    BY <1>1, <1>2 DEF TypeOK, Goes, Locals, clock, owners
  <1>4. Chain' /\ left' \subseteq left
    BY ChainKept
  <1>5. RemovedInOrder' /\ ReceiptIsTrue'
    BY <1>4, ChainIsOrder DEF IInv, ReceiptIsTrue, owners
  <1>6. Gone(row)'
    BY <1>4, GoneStays
  <1>7. \A q \in Processes : RequestHolds(local[q])'
    BY <1>2, <1>4, RequestStays DEF IInv, Goes
  <1> QED BY <1>3, <1>5, <1>6, <1>7, NoRowAssumption DEF IInv, clock

LEMMA CreatePreserves ==
  ASSUME IInv, NEW p \in Processes, Create(p)
  PROVE  IInv'
  <1>1. TypeOK /\ local[p] \in Locals
    BY MovesTo DEF IInv
  <1>2. /\ row' \in Rows /\ row' # None /\ ValidState(row') /\ Gone(row')
        /\ row # None => row' = row
        /\ row = None => row' = NewOperation
    BY <1>1, FirstRow, NoRowAssumption DEF Create, IInv, TypeOK
  <1> DEFINE w == [local[p] EXCEPT !.pc = "run", !.copy = row']
  <1>3. w \in Locals /\ w.pc = "run" /\ w.copy = row' /\ w.key = local[p].key
    BY <1>1, <1>2 DEF Locals, Places
  <1>4. PICK l \in Locals : l = w
    BY <1>3
  <1>5. local' = [local EXCEPT ![p] = l]
    BY <1>1, <1>4 DEF Create, TypeOK, Locals
  <1>6. PICK n \in Rows : n = row'
    BY <1>2
  <1>7. RequestHolds(l)
    BY <1>2, <1>3, <1>4 DEF Create, IInv, RequestHolds, Working, AtRuntime, AtKey, PhaseOf
  <1>8. ~MayDelete(l) /\ ~MayReplay(l) /\ l.pc # "compute_read"
    BY <1>3, <1>4 DEF MayDelete, MayReplay
  <1>9. Goes(p, l)
    BY <1>1, <1>5, Moves
  <1>10. KeyCallsCovered'
    BY <1>1, <1>2, <1>8, <1>9, KeyCallsKept DEF IInv, Create
  <1>11. ReadsCovered'
    <2>1. row # None => row' # None /\ row'.reads >= row.reads
      BY <1>1, <1>2 DEF TypeOK, Rows
    <2>2. ReadsCovered
      BY DEF IInv
    <2>3. reads' = reads \/ (local[p].pc = "compute_read" /\ reads' = reads + 1)
      BY DEF Create
    <2> QED BY <1>1, <1>2, <1>8, <1>9, <2>1, <2>2, <2>3, ReadsKept
  <1>12. /\ workspace' \in BOOLEAN /\ (workspace' => workspace)
         /\ workspace' = (n.phase \notin {"workspace_absent", "deletion_receipt_recorded",
                                          "complete"})
    BY <1>1, <1>2, <1>6 DEF Create, IInv, TypeOK, NewOperation
  <1> QED BY <1>2, <1>5, <1>6, <1>7, <1>10, <1>11, <1>12, RowStep DEF Create

\* The write of n over o: the compare-and-swap succeeds, and the request goes on.
LEMMA PersistPreserves ==
  ASSUME IInv, NEW p \in Processes, Persist(p)
  PROVE  IInv'
  <1>1. TypeOK /\ local[p] \in Locals /\ RequestHolds(local[p]) /\ local[p].pc = "write"
    BY MovesTo DEF IInv, Persist
  <1>2. PICK o \in Rows, n \in Rows, then \in Places, k \in Keys :
            /\ o = local[p].copy /\ n = local[p].want /\ then = local[p].then
            /\ k = local[p].key
            /\ ValidState(o) /\ WriteHolds(o, n, then)
    BY <1>1 DEF RequestHolds, WriteHolds, Working, Locals
  <1>3. row = o /\ row' = n /\ ValidState(n) /\ ValidTransition(o, n) /\ row # None /\ row' # None
    BY <1>2, NoRowAssumption DEF Persist, Holds
  <1>4. (o.attempted => n.attempted) /\ n.reads >= o.reads /\ n.reads \in Nat /\ o.reads \in Nat
    BY <1>2, <1>3 DEF ValidTransition, Rows
  <1> DEFINE w == IF then = "idle" THEN Idle ELSE [Idle EXCEPT !.pc = then, !.key = k, !.copy = n]
  <1>5. /\ w \in Locals /\ w.pc = then
        /\ then # "idle" => w.key = k /\ w.copy = n
    BY <1>2, IdleHolds DEF Locals, Idle
  <1>6. local' = [local EXCEPT ![p] = w]
    BY <1>2 DEF Persist
  <1>7. PICK l \in Locals : l = w
    BY <1>5
  <1> HIDE DEF w
  <1>8. l.pc = then /\ (then # "idle" => l.key = k /\ l.copy = n)
    BY <1>5, <1>7
  <1>9. Goes(p, l)
    BY <1>1, <1>6, <1>7, Moves
  <1>10. RequestHolds(l)
    BY <1>2, <1>3, <1>8 DEF RequestHolds, WriteHolds, Working, AtRuntime, AtKey
  <1>11. /\ workspace' \in BOOLEAN /\ (workspace' => workspace)
         /\ workspace' = (n.phase \notin {"workspace_absent", "deletion_receipt_recorded",
                                          "complete"})
    <2>1. workspace' = (workspace /\ n.phase # "workspace_absent") /\ workspace \in BOOLEAN
      BY <1>1, <1>2, <1>3 DEF Persist, TypeOK
    <2>2. workspace = (o.phase \notin {"workspace_absent", "deletion_receipt_recorded",
                                       "complete"})
      BY <1>3 DEF IInv
    <2>3. /\ RankOf(n.phase) \in RankOf(o.phase)..(RankOf(o.phase) + 1)
          /\ o.phase \in PhaseNames /\ n.phase \in PhaseNames
      BY <1>3, RankOfPhase, RowsAre DEF ValidTransition
    <2>4. n.phase \in {"workspace_absent", "deletion_receipt_recorded", "complete"}
          <=> \/ o.phase \in {"workspace_absent", "deletion_receipt_recorded", "complete"}
              \/ n.phase = "workspace_absent"
      BY <2>3, Ranks DEF PhaseNames
    <2> QED BY <2>1, <2>2, <2>4
  <1>12. KeyCallsCovered'
    <2>1. ~MayDelete(local[p]) /\ ~MayReplay(local[p])
      BY <1>1 DEF MayDelete, MayReplay
    <2>2. row.replay \in Sent => row'.replay \in Sent
      BY <1>2, <1>3 DEF WriteHolds
    <2>3. CASE ~MayDelete(l) /\ ~MayReplay(l)
      BY <1>1, <1>3, <1>4, <1>9, <2>2, <2>3, KeyCallsKept DEF Persist, IInv
    <2>4. CASE MayDelete(l)
      <3>1. then = "key_again" /\ n.auth = None
        BY <1>2, <1>8, <2>4 DEF MayDelete, WriteHolds
      <3>2. n.attempted /\ ~o.attempted /\ ~MayReplay(l)
        BY <1>2, <1>8, <3>1 DEF WriteHolds, MayReplay
      <3>3. o.auth = None /\ o.replay \notin Sent
        BY <1>2, <3>2, Reservations DEF Sent
      <3>4. \A q \in Processes : ~MayDelete(local[q]) /\ ~MayReplay(local[q])
        BY <1>3, <3>2, <3>3 DEF IInv, KeyCallsCovered
      <3>5. keyCalls = 0
        BY <1>1, <1>3, <3>2, <3>3, <3>4 DEF IInv, KeyCallsCovered, Bit, TypeOK
      <3>6. \A q \in Processes : /\ MayDelete(local[q])' => q = p
                                 /\ ~MayReplay(local[q])'
        BY <1>9, <3>2, <3>4 DEF Goes, MayDelete, MayReplay
      <3>7. keyCalls' = 0
        BY <3>5 DEF Persist
      <3> QED BY <1>3, <3>2, <3>6, <3>7 DEF KeyCallsCovered, Bit
    <2>5. CASE MayReplay(l)
      <3>1. then = "key_delete" /\ n.auth # None
        BY <1>2, <1>8, <2>5 DEF MayReplay, WriteHolds
      <3>2. n.replay \in Sent /\ o.replay \notin Sent /\ ~MayDelete(l)
        BY <1>2, <1>8, <3>1 DEF WriteHolds, PhaseOf, Sent, MayDelete
      <3>3. \A q \in Processes : ~MayReplay(local[q])
        BY <1>3, <3>2 DEF IInv, KeyCallsCovered
      <3>4. \A q \in Processes : /\ MayReplay(local[q])' => q = p
                                 /\ MayDelete(local[q])' => MayDelete(local[q])
        BY <1>9, <3>2, <3>3 DEF Goes, MayDelete, MayReplay
      <3> DEFINE a == \E q \in Processes : MayDelete(local[q])
                 b == \E q \in Processes : MayReplay(local[q])
                 c == row # None /\ row.attempted
                 d == row # None /\ row.replay \in Sent
      <3>5. keyCalls + Bit(a) + Bit(b) <= Bit(c) + Bit(d)
        BY DEF IInv, KeyCallsCovered
      <3>6. (a' => a) /\ ~b /\ (c => c') /\ ~d /\ d' /\ keyCalls' = keyCalls /\ keyCalls \in Nat
        BY <1>1, <1>3, <1>4, <3>2, <3>3, <3>4 DEF Persist, TypeOK
      <3>8. keyCalls' + Bit(a') + Bit(b') <= Bit(c') + Bit(d')
        <4> HIDE DEF a, b, c, d
        <4> QED BY <3>5, <3>6 DEF Bit
      <3>9. /\ \A q \in Processes : MayDelete(local[q])' => row' # None /\ row'.attempted
            /\ \A q \in Processes : MayReplay(local[q])' => row' # None /\ row'.replay \in Sent
        BY <1>3, <1>4, <3>2, <3>4 DEF IInv, KeyCallsCovered
      <3>10. /\ \A q, r \in Processes : MayDelete(local[q])' /\ MayDelete(local[r])' => q = r
             /\ \A q, r \in Processes : MayReplay(local[q])' /\ MayReplay(local[r])' => q = r
        BY <3>4 DEF IInv, KeyCallsCovered
      <3> QED BY <3>8, <3>9, <3>10 DEF KeyCallsCovered
    <2> QED BY <2>3, <2>4, <2>5
  <1>13. ReadsCovered'
    <2>1. CASE then # "compute_read"
      <3>1. ReadsCovered /\ l.pc # "compute_read"
        BY <1>8, <2>1 DEF IInv
      <3>2. reads' = reads \/ (local[p].pc = "compute_read" /\ reads' = reads + 1)
        BY DEF Persist
      <3> QED BY <1>1, <1>3, <1>4, <1>9, <3>1, <3>2, ReadsKept
    <2>2. CASE then = "compute_read"
      <3>1. Readers' = Readers \cup {p} /\ p \notin Readers
        BY <1>1, <1>8, <1>9, <2>2 DEF Readers, Goes
      <3>2. IsFiniteSet(Readers') /\ Cardinality(Readers') = Cardinality(Readers) + 1
        BY <3>1, FS_AddElement DEF IInv, ReadsCovered
      <3>3. Cardinality(Readers) \in Nat /\ reads \in Nat /\ reads' = reads
        BY <1>1, FS_CardinalityType DEF IInv, ReadsCovered, TypeOK, Persist
      <3>4. n.reads = o.reads + 1
        BY <1>2, <2>2 DEF WriteHolds
      <3> QED BY <1>3, <1>4, <3>2, <3>3, <3>4 DEF IInv, ReadsCovered
    <2> QED BY <2>1, <2>2
  <1>14. Gone(n)
    BY <1>2 DEF WriteHolds
  <1> QED BY <1>3, <1>6, <1>7, <1>10, <1>11, <1>12, <1>13, <1>14, RowStep DEF Persist

-----------------------------------------------------------------------------
(* The steps of a phase                                                     *)

\* A request that moves on within its phase.
LEMMA GotoStep ==
  ASSUME IInv, NEW p \in Processes, local[p].pc \in Holding,
         NEW pc \in Holding \ {"compute_read", "key_again"}, Goto(p, pc),
         PhaseOf(pc, local[p].copy),
         pc = "key_delete" => local[p].pc = "key_again" /\ local[p].copy.auth = None,
         UNCHANGED <<row, workspace, clock, keyCalls, reads, crashes>>,
         left' = left, flight' \subseteq Calls, receipt' = receipt, Chain'
  PROVE  IInv'
  <1>1. TypeOK /\ local[p] \in Locals /\ RequestHolds(local[p])
    BY MovesTo DEF IInv
  <1>2. local' = [local EXCEPT ![p] = [local[p] EXCEPT !.pc = pc]]
    BY <1>1 DEF Goto, TypeOK, Locals
  <1>3. pc \in Places /\ pc # "write"
    BY DEF Holding, Working, AtRuntime, AtKey, Places
  <1>4. [local[p] EXCEPT !.pc = pc] \in Locals
    BY <1>1, <1>3 DEF Locals
  <1>5. PICK l \in Locals : l = [local[p] EXCEPT !.pc = pc]
    BY <1>4
  <1>6. l.pc = pc /\ l.key = local[p].key /\ l.copy = local[p].copy
    BY <1>1, <1>5 DEF Locals
  <1>7. RequestHolds(l)
    BY <1>1, <1>3, <1>6 DEF RequestHolds, Holding
  <1>8. RequestHolds(l)'
    BY <1>7, RequestStays
  <1>9. l.pc # "compute_read" /\ (MayDelete(l) => MayDelete(local[p])) /\ ~MayReplay(l)
    BY <1>6 DEF MayDelete, MayReplay
  <1>10. ReceiptIsTrue' /\ receipt' \in BOOLEAN /\ left' \subseteq left
         /\ crashes' \in 0..MaxCrashes
    BY <1>1 DEF IInv, ReceiptIsTrue, TypeOK
  <1> QED BY <1>2, <1>5, <1>8, <1>9, <1>10, RequestStep

\* An accepted call keeps the order if all that comes before it is gone.
LEMMA AcceptedKeeps ==
  ASSUME IInv, NEW call \in Calls, Accepted(call),
         call = "attachment" => "runtime" \notin left,
         call = "storage" => "runtime" \notin left /\ "attachment" \notin left,
         call = "compute" => /\ "runtime" \notin left /\ "attachment" \notin left
                             /\ "storage" \notin left,
         call = "key" => /\ "runtime" \notin left /\ "attachment" \notin left
                         /\ "storage" \notin left /\ "compute" \notin left
  PROVE  Chain' /\ left' = left /\ flight' \subseteq Calls
  BY ChainIsOrder DEF IInv, Accepted, TypeOK, Chain

LEMMA LostKeeps ==
  ASSUME IInv, Lost
  PROVE  Chain' /\ left' = left /\ flight' \subseteq Calls
  BY ChainIsOrder DEF IInv, Lost, TypeOK, Chain

\* A request in its phase holds a row in that phase.
LEMMA AtHolds ==
  ASSUME IInv, NEW p \in Processes, NEW phase, At(p, phase)
  PROVE  /\ local[p].pc = "run" /\ local[p].pc \in Holding
         /\ local[p].copy.phase = phase /\ local[p].copy \in Rows
         /\ ValidState(local[p].copy) /\ Gone(local[p].copy) /\ local[p].key \in Keys
  <1>1. local[p].pc = "run" /\ local[p].copy.phase = phase
    BY DEF At
  <1>2. local[p].pc \in Holding
    BY <1>1 DEF Holding, Working
  <1> QED BY <1>1, <1>2, CopyHolds

LEMMA CodesAre ==
    {"runtime_readback", "runtime_conflict", "runtime_destroy", "runtime_absence",
     "attachment", "storage", "compute_destroy", "compute_absence",
     "key_readback", "key_delete", "key_absence"} \subseteq Codes
  BY DEF Codes

\* A request that reaches the next phase with the owners left alone.
LEMMA AdvanceStep ==
  ASSUME IInv, NEW p \in Processes, local[p].pc \in Holding, NEW phase \in PhaseNames,
         Write(p, Advanced(local[p].copy, phase), "run"),
         Gone(Advanced(local[p].copy, phase)),
         Follows(local[p].copy, phase), phase # "key_absent",
         UNCHANGED <<row, workspace, owners, clock, keyCalls, reads, crashes>>
  PROVE  IInv'
  <1>1. PICK o \in Rows : o = local[p].copy /\ ValidState(o)
    BY CopyHolds
  <1>2. PICK n \in Rows : n = Advanced(o, phase) /\ WriteHolds(o, n, "run")
    BY <1>1, AdvanceHolds, AdvancedIs
  <1> QED BY <1>1, <1>2, QuietWrite

LEMMA RuntimeSteps ==
  ASSUME IInv, NEW p \in Processes,
         RuntimeUnreadable(p) \/ RuntimeConflict(p) \/ RuntimeGone(p) \/ RuntimeSeenReady(p)
         \/ DestroyRuntime(p) \/ RuntimeReadback(p)
  PROVE  IInv'
  <1>0. AtRuntime \subseteq Holding \ {"compute_read", "key_again", "key_delete"}
    BY DEF AtRuntime, Holding, Working
  <1>1. CASE RuntimeUnreadable(p) \/ RuntimeConflict(p)
    <2>1. local[p].pc \in Holding /\ local[p].copy.phase # "complete"
      BY <1>1, AtHolds DEF RuntimeUnreadable, RuntimeConflict
    <2>2. UNCHANGED owners
      BY <1>1 DEF RuntimeUnreadable, RuntimeConflict
    <2> QED BY <1>1, <2>1, <2>2, ChainKept, CodesAre, ParkStep
            DEF RuntimeUnreadable, RuntimeConflict
  <1> DEFINE n == Advanced(local[p].copy, "runtime_secret_absent")
  <1>2. ASSUME local[p].pc \in Holding, RuntimeAbsent
        PROVE  Gone(n) /\ "runtime_secret_absent" \in PhaseNames
    <2>1. n.phase = "runtime_secret_absent"
      BY <1>2, CopyHolds, AdvancedIs DEF PhaseNames
    <2> QED BY <1>2, <2>1 DEF Gone, PhaseNames
  <1>3. CASE RuntimeGone(p)
    <2>1. local[p].pc \in Holding /\ RuntimeAbsent /\ Follows(local[p].copy, "runtime_secret_absent")
      BY <1>3, AtHolds DEF RuntimeGone, Follows
    <2> QED BY <1>2, <1>3, <2>1, AdvanceStep DEF RuntimeGone
  <1>4. CASE RuntimeSeenReady(p)
    <2>1. local[p].pc \in Holding /\ PhaseOf("destroy_runtime", local[p].copy)
      BY <1>4, AtHolds DEF RuntimeSeenReady, PhaseOf, AtKey
    <2>2. "destroy_runtime" \in Holding \ {"compute_read", "key_again"}
      BY DEF Holding, Working, AtRuntime
    <2> QED BY <1>4, <2>1, <2>2, ChainKept, GotoStep DEF RuntimeSeenReady
  <1>5. CASE DestroyRuntime(p)
    <2>1. local[p].pc \in Holding /\ local[p].copy.phase = "claimed"
      BY <1>0, <1>5, CopyHolds DEF DestroyRuntime, PhaseOf, AtRuntime
    <2>2. Chain' /\ left' = left /\ flight' \subseteq Calls
      BY <1>5, AcceptedKeeps, LostKeeps DEF DestroyRuntime, Calls
    <2>3. PICK pc \in {"runtime_destroyed", "runtime_unanswered"} : Goto(p, pc)
      BY <1>5 DEF DestroyRuntime
    <2>4. PhaseOf(pc, local[p].copy)
      BY <2>1 DEF PhaseOf, AtKey
    <2>5. pc \in Holding \ {"compute_read", "key_again"} /\ pc # "key_delete"
      BY <1>0 DEF AtRuntime
    <2> QED BY <1>5, <2>1, <2>2, <2>3, <2>4, <2>5, GotoStep DEF DestroyRuntime
  <1>6. CASE RuntimeReadback(p)
    <2>1. local[p].pc \in Holding /\ local[p].copy.phase = "claimed"
      BY <1>0, <1>6, CopyHolds DEF RuntimeReadback, AtRuntime, PhaseOf
    <2>4. Follows(local[p].copy, "runtime_secret_absent")
      BY <2>1 DEF Follows
    <2>2. CASE /\ Removes("runtime") \cap left = {}
               /\ Write(p, n, "run")
      <3>1. RuntimeAbsent
        BY <2>2 DEF Removes, RuntimeAbsent
      <3> QED BY <1>2, <1>6, <2>1, <2>2, <2>4, <3>1, AdvanceStep DEF RuntimeReadback
    <2>3. CASE markWorkspaceDeleteUnconfirmed(p,
                   IF local[p].pc = "runtime_destroyed" THEN "runtime_absence"
                                                        ELSE "runtime_destroy")
      <3>1. PICK code \in Codes : markWorkspaceDeleteUnconfirmed(p, code)
        BY <2>3, CodesAre
      <3> QED BY <1>6, <2>1, <3>1, ChainKept, ParkStep DEF RuntimeReadback
    <2> QED BY <1>6, <2>2, <2>3 DEF RuntimeReadback
  <1> QED BY <1>1, <1>3, <1>4, <1>5, <1>6

\* The call of a phase, its answer believed: all that comes before the call is gone.
LEMMA RemovalSteps ==
  ASSUME IInv, NEW p \in Processes, DetachStorage(p) \/ DestroyStorage(p)
  PROVE  IInv'
  <1>1. ASSUME NEW phase, NEW call \in {"attachment", "storage"}, NEW next \in PhaseNames,
               Removal(p, phase, call, next),
               \/ phase = "runtime_secret_absent" /\ call = "attachment"
                  /\ next = "attachment_absent"
               \/ phase = "attachment_absent" /\ call = "storage" /\ next = "storage_absent"
        PROVE  IInv'
    <2>1. /\ local[p].pc \in Holding /\ local[p].copy \in Rows /\ Gone(local[p].copy)
          /\ local[p].copy.phase = phase /\ ValidState(local[p].copy)
          /\ local[p].copy.phase # "complete"
      BY <1>1, AtHolds DEF Removal
    <2>2. /\ "runtime" \notin left /\ "secret" \notin left
          /\ call = "storage" => "attachment" \notin left
      BY <1>1, <2>1 DEF Gone, RuntimeAbsent
    <2>3. call \in Calls /\ call \in Codes /\ Removes(call) = {call}
      BY <1>1, CodesAre DEF Calls, Removes
    <2>4. CASE Finished(call) /\ Write(p, Advanced(local[p].copy, next), "run")
      <3>1. left' = left \ {call} /\ flight' = flight \ {call}
        BY <2>3, <2>4 DEF Finished
      <3>2. Chain'
        BY <1>1, <2>2, <3>1, ChainIsOrder DEF IInv, Chain
      <3>3. ReceiptIsTrue' /\ receipt' \in BOOLEAN
        BY <1>1, <3>1 DEF IInv, TypeOK, ReceiptIsTrue, Removal
      <3>4. PICK o \in Rows : o = local[p].copy
        BY <2>1
      <3>8. Follows(o, next) /\ next # "key_absent" /\ ValidState(o)
        BY <1>1, <2>1, <3>4 DEF Follows
      <3>5. PICK n \in Rows : /\ n = Advanced(o, next) /\ n.phase = next
                              /\ Gone(n)' => WriteHolds(o, n, "run")'
        BY <3>8, AdvanceHolds, AdvancedIs
      <3>6. Gone(n)'
        BY <1>1, <2>2, <3>1, <3>5 DEF Gone, RuntimeAbsent
      <3>7. flight' \subseteq Calls /\ left' \subseteq left
        BY <3>1 DEF IInv, TypeOK
      <3> QED BY <1>1, <2>1, <2>4, <3>2, <3>3, <3>4, <3>5, <3>6, <3>7, WriteStep DEF Removal
    <2>5. CASE (Accepted(call) \/ Lost) /\ markWorkspaceDeleteUnconfirmed(p, call)
      <3>1. Chain' /\ left' = left /\ flight' \subseteq Calls
        BY <1>1, <2>2, <2>3, <2>5, AcceptedKeeps, LostKeeps
      <3> QED BY <1>1, <2>1, <2>3, <2>5, <3>1, ParkStep DEF Removal
    <2> QED BY <1>1, <2>4, <2>5 DEF Removal
  <1> QED BY <1>1 DEF DetachStorage, DestroyStorage, PhaseNames

\* The compute is asked for, and read back under a readback claimed in the row.
LEMMA ComputeSteps ==
  ASSUME IInv, NEW p \in Processes,
         DestroyCompute(p) \/ ReadbackTooEarly(p) \/ ReadbackClaimed(p)
  PROVE  IInv'
  <1>0. /\ local[p].pc \in Holding /\ local[p].copy \in Rows /\ Gone(local[p].copy)
        /\ local[p].copy.phase = "storage_absent" /\ ValidState(local[p].copy)
    BY AtHolds DEF DestroyCompute, ReadbackTooEarly, ReadbackClaimed
  <1>1. PICK o \in Rows : /\ o = local[p].copy /\ o.phase = "storage_absent" /\ Gone(o)
                          /\ ValidState(o)
    BY <1>0
  <1> DEFINE n == ClaimReadback(o)
  <1>2. ASSUME o.reads < MaxReads
        PROVE  n \in Rows /\ WriteHolds(o, n, "compute_read")
    <2>1. o.reads \in Nat /\ o.reads + 1 \in 0..MaxReads
      BY <1>2, ConstantsAssumption DEF Rows
    <2>2. /\ n \in Rows /\ n.phase = o.phase /\ n.replay = o.replay
          /\ n.reads = o.reads + 1 /\ n.attempted = o.attempted /\ n.auth = o.auth
          /\ n.generation = o.generation /\ n.status = o.status /\ n.code = o.code
      BY <2>1 DEF Rows, ClaimReadback
    <2>3. Gone(n)
      BY <1>1, <2>2 DEF Gone
    <2> HIDE DEF n
    <2>4. n.reads > 0 /\ n.reads >= o.reads
      BY <2>1, <2>2
    <2>5. ValidState(n)
      BY <1>1, <2>2, <2>4, ValidStateIs DEF ValidReplay
    <2>6. ValidTransition(o, n)
      BY <1>1, <2>2, <2>4, StaysOrFollows
    <2> QED BY <1>1, <2>2, <2>3, <2>4, <2>5, <2>6 DEF WriteHolds, Fits, PhaseOf, AtRuntime, AtKey
  <1> HIDE DEF n
  <1>3. CASE DestroyCompute(p)
    <2>1. "runtime" \notin left /\ "attachment" \notin left /\ "storage" \notin left
      BY <1>1 DEF Gone, RuntimeAbsent
    <2>2. Chain' /\ left' = left /\ flight' \subseteq Calls
      BY <1>3, <2>1, AcceptedKeeps, LostKeeps DEF DestroyCompute, Calls
    <2>3. CASE markWorkspaceDeleteUnconfirmed(p, "compute_destroy")
      BY <1>0, <1>3, <2>2, <2>3, CodesAre, ParkStep DEF DestroyCompute
    <2>4. CASE Write(p, n, "compute_read")
      <3>1. o.reads < MaxReads
        BY <1>1, <1>3, ConstantsAssumption DEF DestroyCompute, ComputeDestroying, Rows
      <3>2. PICK m \in Rows : m = n /\ WriteHolds(o, m, "compute_read")
        BY <1>2, <3>1
      <3>3. WriteHolds(o, m, "compute_read")'
        BY <2>2, <3>2, GoneStays DEF WriteHolds
      <3>4. ReceiptIsTrue' /\ receipt' \in BOOLEAN /\ left' \subseteq left
        BY <1>3, <2>2 DEF IInv, TypeOK, ReceiptIsTrue, DestroyCompute
      <3> QED BY <1>0, <1>1, <1>3, <2>2, <2>4, <3>2, <3>3, <3>4, WriteStep DEF DestroyCompute
    <2> QED BY <1>1, <1>3, <2>3, <2>4 DEF DestroyCompute, n
  <1>4. CASE ReadbackTooEarly(p)
    BY <1>4, ReturnStep DEF ReadbackTooEarly, IInv, TypeOK
  <1>5. CASE ReadbackClaimed(p)
    <2>1. CASE o.reads >= MaxReads
      BY <1>0, <1>1, <1>5, <2>1, ChainKept, CodesAre, ParkStep DEF ReadbackClaimed
    <2>2. CASE ~(o.reads >= MaxReads)
      <3>1. o.reads < MaxReads
        BY <2>2, ConstantsAssumption DEF Rows
      <3>2. Write(p, n, "compute_read")
        BY <1>1, <1>5, <2>2 DEF ReadbackClaimed, n
      <3> QED BY <1>0, <1>1, <1>2, <1>5, <3>1, <3>2, QuietWrite DEF ReadbackClaimed
    <2> QED BY <2>1, <2>2
  <1> QED BY <1>3, <1>4, <1>5

\* The readback itself: it uses up what the row has claimed.
LEMMA ComputeReadbackPreserves ==
  ASSUME IInv, NEW p \in Processes, ComputeReadback(p)
  PROVE  IInv'
  <1>1. local[p].pc = "compute_read" /\ local[p].pc \in Holding
    BY DEF ComputeReadback, Holding, Working
  <1>2. PICK o \in Rows : /\ o = local[p].copy /\ o.phase = "storage_absent" /\ Gone(o)
                          /\ ValidState(o) /\ o.reads > 0
    BY <1>1, CopyHolds DEF PhaseOf
  <1>3. PICK l \in Locals : /\ local' = [local EXCEPT ![p] = l] /\ RequestHolds(l)'
                            /\ ~MayDelete(l) /\ ~MayReplay(l) /\ l.pc # "compute_read"
    <2>0. left' \subseteq left
      BY DEF ComputeReadback, owners
    <2>1. CASE markWorkspaceDeleteUnconfirmed(p, "compute_absence")
      <3>1. PICK n \in Rows : n = Unconfirmed(o, "compute_absence") /\ WriteHolds(o, n, "idle")
        BY <1>2, ParkHolds, CodesAre
      <3>2. WriteHolds(o, n, "idle")'
        BY <2>0, <3>1, GoneStays DEF WriteHolds
      <3>3. Write(p, n, "idle")
        BY <1>2, <2>1, <3>1 DEF markWorkspaceDeleteUnconfirmed
      <3> QED BY <1>1, <1>2, <2>0, <3>2, <3>3, WriteRequest
    <2>2. CASE Return(p)
      BY <2>0, <2>2, IdleHolds, RequestStays DEF Return
    <2>3. CASE "compute" \notin left /\ Write(p, Advanced(o, "compute_absent"), "run")
      <3>1. "compute_absent" \in PhaseNames
        BY DEF PhaseNames
      <3>2. PICK n \in Rows : /\ n = Advanced(o, "compute_absent") /\ n.phase = "compute_absent"
                              /\ Gone(n)' => WriteHolds(o, n, "run")'
        BY <1>2, <3>1, AdvanceHolds, AdvancedIs DEF Follows
      <3>3. Gone(n)
        BY <1>2, <2>3, <3>2 DEF Gone
      <3>4. Gone(n)'
        BY <2>0, <3>3, GoneStays
      <3> QED BY <1>1, <1>2, <2>0, <2>3, <3>2, <3>4, WriteRequest
    <2> QED BY <1>2, <2>1, <2>2, <2>3 DEF ComputeReadback
  <1>4. TypeOK /\ KeyCallsCovered /\ keyCalls' = keyCalls /\ keyCalls' \in 0..3 /\ row' = row
    BY DEF IInv, TypeOK, ComputeReadback
  <1>5. Goes(p, l)
    BY <1>3, <1>4, Moves
  <1>6. KeyCallsCovered'
    BY <1>3, <1>4, <1>5, KeyCallsKept
  <1>7. Chain' /\ left' = left /\ flight' \subseteq Calls /\ receipt' = receipt
    BY ChainKept DEF ComputeReadback
  <1>8. /\ left' \subseteq left /\ receipt' \in BOOLEAN /\ ReceiptIsTrue'
        /\ crashes' \in 0..MaxCrashes /\ reads' = reads + 1
    BY <1>7 DEF IInv, TypeOK, ReceiptIsTrue, ComputeReadback
  <1>9. UNCHANGED <<row, workspace, clock>>
    BY DEF ComputeReadback
  <1> QED BY <1>1, <1>3, <1>4, <1>5, <1>6, <1>7, <1>8, <1>9, RequestGoes

\* The key read gone, or not read: no call is reserved.
LEMMA KeyReads ==
  ASSUME IInv, NEW p \in Processes, KeyGone(p) \/ KeyUnreadable(p) \/ KeyUnconfirmed(p)
  PROVE  IInv'
  <1>1. local[p].pc \in Holding /\ local[p].copy.phase = "compute_absent"
    <2>1. CASE At(p, "compute_absent")
      BY <2>1, AtHolds
    <2>2. CASE local[p].pc \in AtKey
      <3>1. local[p].pc \in Holding
        BY <2>2 DEF Holding, Working, AtKey
      <3> QED BY <2>2, <3>1, CopyHolds DEF PhaseOf
    <2> QED BY <2>1, <2>2 DEF KeyGone, KeyUnreadable, KeyUnconfirmed, AtKey
  <1>2. PICK o \in Rows : /\ o = local[p].copy /\ o.phase = "compute_absent" /\ Gone(o)
                          /\ ValidState(o)
    BY <1>1, CopyHolds
  <1>3. CASE KeyGone(p)
    <2> DEFINE c == consumeWorkspaceDeleteReplay(o)
               n == Advanced(c, "key_absent")
    <2>1. /\ c \in Rows /\ (o.replay \in Sent => c.replay \in Sent)
          /\ c.reads = o.reads /\ c.attempted = o.attempted /\ c.auth = o.auth
          /\ c.generation = o.generation
          /\ o.auth = None => c.replay = o.replay
          /\ o.auth # None => c.replay = "consumed"
      BY DEF consumeWorkspaceDeleteReplay, Rows, Sent
    <2> HIDE DEF c
    <2>2. "key_absent" \in PhaseNames
      BY DEF PhaseNames
    <2>3. /\ n \in Rows /\ n.phase = "key_absent" /\ n.replay = c.replay /\ n.reads = c.reads
          /\ n.attempted = c.attempted /\ n.auth = c.auth /\ n.generation = c.generation
          /\ n.status = "running" /\ n.code = None
      BY <2>1, <2>2, AdvancedIs
    <2> HIDE DEF n
    <2>4. Gone(n)
      BY <1>2, <1>3, <2>3 DEF Gone, KeyGone
    <2>7. ValidState(n)
      <3>1. ValidReplay(o) /\ ValidReplay(n)
        BY <1>2, <2>1, <2>3, ValidStateIs DEF ValidReplay
      <3> QED BY <1>2, <2>1, <2>3, <3>1, ValidStateIs
    <2>8. ValidTransition(o, n)
      <3>1. n.reads >= o.reads
        BY <2>1, <2>3 DEF Rows
      <3> QED BY <1>2, <2>1, <2>3, <3>1, StaysOrFollows DEF Follows
    <2>5. WriteHolds(o, n, "run")
      BY <2>1, <2>3, <2>4, <2>7, <2>8 DEF WriteHolds, Fits, PhaseOf, AtRuntime, AtKey
    <2>6. Write(p, n, "run")
      BY <1>2, <1>3 DEF KeyGone, confirmWorkspaceDeleteKeyAbsent, n, c
    <2> QED BY <1>1, <1>2, <1>3, <2>3, <2>5, <2>6, QuietWrite DEF KeyGone
  <1>4. CASE KeyUnreadable(p)
    BY <1>1, <1>4, ChainKept, CodesAre, ParkStep DEF KeyUnreadable
  <1>5. CASE KeyUnconfirmed(p)
    <2>1. PICK code \in Codes : markWorkspaceDeleteUnconfirmed(p, code)
      BY <1>5, CodesAre DEF KeyUnconfirmed
    <2> QED BY <1>1, <1>5, <2>1, ChainKept, ParkStep DEF KeyUnconfirmed
  <1> QED BY <1>3, <1>4, <1>5

\* A reservation written at compute_absent is one the store takes.
LEMMA KeptFits ==
  ASSUME NEW o \in Rows, ValidState(o), o.phase = "compute_absent", NEW n \in Rows,
         n.phase = o.phase, n.reads = o.reads, n.attempted,
         \/ n.status = o.status /\ n.code = o.code
         \/ n.status = "running" /\ n.code = None,
         \/ n.auth = o.auth /\ n.replay = o.replay /\ n.generation = o.generation
         \/ n.auth # None /\ n.replay \in {"claimed", "dispatched"} /\ n.generation > 0
  PROVE  Fits(o, n)
  <1>1. ValidReplay(o) /\ ValidReplay(n)
    BY ValidStateIs DEF ValidReplay
  <1>2. ValidState(n)
    BY <1>1, ValidStateIs
  <1>3. n.reads >= o.reads
    BY DEF Rows
  <1> QED BY <1>2, <1>3, StaysOrFollows DEF Fits

\* The first call reserved, a replay claimed, a replay marked dispatched.
LEMMA KeyReservations ==
  ASSUME IInv, NEW p \in Processes,
         KeyReserved(p) \/ claimWorkspaceDeleteReplay(p) \/ KeySeenAgain(p)
  PROVE  IInv'
  <1>1. /\ local[p].pc \in Holding /\ local[p].copy.phase = "compute_absent"
        /\ KeySeenAgain(p) => local[p].pc = "key_again"
    <2>1. CASE At(p, "compute_absent")
      BY <2>1, AtHolds DEF KeySeenAgain
    <2>2. CASE local[p].pc = "key_again"
      <3>1. local[p].pc \in Holding
        BY <2>2 DEF Holding, Working, AtKey
      <3> QED BY <2>2, <3>1, CopyHolds DEF PhaseOf, AtKey
    <2> QED BY <2>1, <2>2 DEF KeyReserved, claimWorkspaceDeleteReplay, KeySeenAgain
  <1>2. PICK o \in Rows : /\ o = local[p].copy /\ o.phase = "compute_absent" /\ Gone(o)
                          /\ ValidState(o) /\ PhaseOf(local[p].pc, o)
    BY <1>1, CopyHolds
  <1>3. CASE KeyReserved(p)
    <2> DEFINE n == [o EXCEPT !.attempted = TRUE, !.status = "running", !.code = None]
    <2>1. /\ n \in Rows /\ n.phase = o.phase /\ n.replay = o.replay /\ n.auth = o.auth
          /\ n.attempted /\ n.reads = o.reads /\ n.generation = o.generation
          /\ n.status = "running" /\ n.code = None
      BY DEF Rows
    <2>2. ~o.attempted /\ Write(p, n, "key_again")
      BY <1>2, <1>3 DEF KeyReserved
    <2> HIDE DEF n
    <2>3. Gone(n) /\ n.auth = None
      BY <1>2, <2>1, <2>2, Reservations DEF Gone
    <2>5. Fits(o, n)
      BY <1>2, <2>1, KeptFits
    <2>4. WriteHolds(o, n, "key_again")
      BY <1>2, <2>1, <2>2, <2>3, <2>5 DEF WriteHolds, PhaseOf, AtRuntime, AtKey
    <2> QED BY <1>1, <1>2, <1>3, <2>1, <2>2, <2>4, QuietWrite DEF KeyReserved
  <1>4. CASE claimWorkspaceDeleteReplay(p)
    <2>1. CASE ~ReplayClaimable(o, local[p].key)
      BY <1>2, <1>4, <2>1, ReturnStep DEF claimWorkspaceDeleteReplay, IInv, TypeOK
    <2>2. CASE ReplayClaimable(o, local[p].key)
      <3>1. PICK k \in Keys : k = local[p].key
        BY <1>1, CopyHolds
      <3> DEFINE n == [o EXCEPT !.auth = k, !.replay = "claimed", !.generation = @ + 1]
      <3>2. o.generation \in Nat /\ o.generation + 1 \in 0..MaxClaims
        BY <1>2, <2>2, <3>1, Reservations, ConstantsAssumption
        DEF ReplayClaimable, IInv, TypeOK, Rows
      <3>3. /\ n \in Rows /\ n.phase = o.phase /\ n.replay = "claimed" /\ n.auth = k
            /\ k # None /\ n.attempted = o.attempted /\ n.reads = o.reads
            /\ n.status = o.status /\ n.code = o.code /\ n.generation = o.generation + 1
        BY <3>2, ConstantsAssumption DEF Rows
      <3>10. n.generation > 0
        BY <3>2, <3>3
      <3>8. o.attempted
        BY <1>2, <1>4 DEF claimWorkspaceDeleteReplay
      <3>4. o.replay \notin Sent
        BY <1>2, <2>2, Reservations DEF ReplayClaimable, Sent
      <3>5. Write(p, n, "key_again")
        BY <1>2, <1>4, <2>2, <3>1 DEF claimWorkspaceDeleteReplay
      <3> HIDE DEF n
      <3>6. Gone(n)
        BY <1>2, <3>3 DEF Gone
      <3>9. Fits(o, n)
        BY <1>2, <3>3, <3>8, <3>10, KeptFits
      <3>7. WriteHolds(o, n, "key_again")
        BY <1>2, <3>3, <3>4, <3>6, <3>9 DEF WriteHolds, PhaseOf, AtRuntime, AtKey
      <3> QED BY <1>1, <1>2, <1>4, <3>3, <3>5, <3>7, QuietWrite DEF claimWorkspaceDeleteReplay
    <2> QED BY <2>1, <2>2
  <1>5. CASE KeySeenAgain(p)
    <2>1. local[p].pc = "key_again"
      BY <1>1, <1>5
    <2>2. CASE o.auth = None
      <3>1. PhaseOf("key_delete", o)
        BY <1>2, <2>2 DEF PhaseOf, AtRuntime
      <3>2. "key_delete" \in Holding \ {"compute_read", "key_again"}
        BY DEF Holding, Working, AtKey
      <3>3. Goto(p, "key_delete")
        BY <1>2, <1>5, <2>2 DEF KeySeenAgain
      <3> QED BY <1>1, <1>2, <1>5, <2>1, <2>2, <3>1, <3>2, <3>3, ChainKept, GotoStep
              DEF KeySeenAgain
    <2>3. CASE o.auth # None
      <3> DEFINE n == [o EXCEPT !.replay = "dispatched"]
      <3>1. /\ n \in Rows /\ n.phase = o.phase /\ n.replay = "dispatched" /\ n.auth = o.auth
            /\ n.attempted = o.attempted /\ n.reads = o.reads
            /\ n.status = o.status /\ n.code = o.code /\ n.generation = o.generation
        BY DEF Rows
      <3>5. o.attempted /\ o.generation > 0
        BY <1>2, <2>3, ValidStateIs DEF ValidReplay
      <3>2. o.replay = "claimed" /\ Write(p, n, "key_delete")
        BY <1>2, <1>5, <2>1, <2>3 DEF KeySeenAgain, PhaseOf
      <3> HIDE DEF n
      <3>3. Gone(n)
        BY <1>2, <3>1 DEF Gone
      <3>6. Fits(o, n)
        BY <1>2, <2>3, <3>1, <3>5, KeptFits
      <3>4. WriteHolds(o, n, "key_delete")
        BY <1>2, <2>3, <3>1, <3>2, <3>3, <3>6 DEF WriteHolds, PhaseOf, AtRuntime, AtKey, Sent
      <3> QED BY <1>1, <1>2, <1>5, <3>1, <3>2, <3>4, QuietWrite DEF KeySeenAgain
    <2> QED BY <2>2, <2>3
  <1> QED BY <1>3, <1>4, <1>5

\* The call itself: it uses up the reservation of the first call, or of the replay.
LEMMA DeleteKeyPreserves ==
  ASSUME IInv, NEW p \in Processes, DeleteKey(p)
  PROVE  IInv'
  <1>1. /\ TypeOK /\ local[p] \in Locals /\ RequestHolds(local[p])
        /\ local[p].pc = "key_delete" /\ local[p].pc \in Holding
    BY MovesTo DEF IInv, DeleteKey, Holding, Working, AtKey
  <1>2. PICK o \in Rows : o = local[p].copy /\ o.phase = "compute_absent" /\ Gone(o)
    BY <1>1, CopyHolds DEF PhaseOf, AtKey
  <1>3. PICK pc \in {"key_sent", "key_unanswered"} : Goto(p, pc)
    BY DEF DeleteKey
  <1>4. [local[p] EXCEPT !.pc = pc] \in Locals
    BY <1>1, <1>3 DEF Locals, Places
  <1>5. PICK l \in Locals : l = [local[p] EXCEPT !.pc = pc]
    BY <1>4
  <1>6. l.pc = pc /\ l.key = local[p].key /\ l.copy = o
    BY <1>1, <1>2, <1>5 DEF Locals
  <1>7. local' = [local EXCEPT ![p] = l]
    BY <1>1, <1>3, <1>5 DEF Goto, TypeOK, Locals
  <1>8. Goes(p, l)
    BY <1>1, <1>7, Moves
  <1>9. PhaseOf(pc, o)
    BY <1>2 DEF PhaseOf, AtRuntime
  <1>10. RequestHolds(l)
    BY <1>1, <1>2, <1>3, <1>6, <1>9 DEF RequestHolds, Holding
  <1>11. Chain' /\ left' = left /\ flight' \subseteq Calls
    <2>1. /\ "runtime" \notin left /\ "attachment" \notin left
          /\ "storage" \notin left /\ "compute" \notin left
      BY <1>2 DEF Gone, RuntimeAbsent
    <2> QED BY <2>1, AcceptedKeeps, LostKeeps DEF DeleteKey, Calls
  <1>12. /\ left' \subseteq left /\ receipt' \in BOOLEAN /\ ReceiptIsTrue'
         /\ crashes' \in 0..MaxCrashes /\ UNCHANGED <<row, workspace, clock>>
         /\ reads' = reads
    BY <1>1, <1>11 DEF IInv, TypeOK, ReceiptIsTrue, DeleteKey
  <1>13. RequestHolds(l)'
    BY <1>10, <1>12, RequestStays
  <1>14. /\ ~MayDelete(l) /\ ~MayReplay(l) /\ l.pc # "compute_read"
         /\ MayDelete(local[p]) \/ MayReplay(local[p])
         /\ ~(MayDelete(local[p]) /\ MayReplay(local[p]))
    BY <1>1, <1>3, <1>6 DEF MayDelete, MayReplay
  <1> DEFINE a == \E q \in Processes : MayDelete(local[q])
             b == \E q \in Processes : MayReplay(local[q])
             c == row # None /\ row.attempted
             d == row # None /\ row.replay \in Sent
  <1>15. keyCalls + Bit(a) + Bit(b) <= Bit(c) + Bit(d)
    BY DEF IInv, KeyCallsCovered
  <1>24. keyCalls \in Nat
    BY <1>1 DEF TypeOK
  <1>16. /\ \A q \in Processes : MayDelete(local[q])' => MayDelete(local[q]) /\ q # p
         /\ \A q \in Processes : MayReplay(local[q])' => MayReplay(local[q]) /\ q # p
    BY <1>8, <1>14 DEF Goes, MayDelete, MayReplay
  <1>17. /\ \A q, r \in Processes : MayDelete(local[q]) /\ MayDelete(local[r]) => q = r
         /\ \A q, r \in Processes : MayReplay(local[q]) /\ MayReplay(local[r]) => q = r
    BY DEF IInv, KeyCallsCovered
  <1>18. /\ MayDelete(local[p]) => a /\ ~a' /\ (b' => b)
         /\ MayReplay(local[p]) => b /\ ~b' /\ (a' => a)
    BY <1>16, <1>17
  <1>19. (c' <=> c) /\ (d' <=> d)
    BY <1>12
  <1>20. keyCalls < 3 /\ keyCalls' = keyCalls + 1 /\ keyCalls' \in 0..3
         /\ keyCalls' + Bit(a') + Bit(b') <= Bit(c') + Bit(d')
    <2>1. keyCalls < 2
      <3> HIDE DEF a, b, c, d
      <3> QED BY <1>14, <1>15, <1>18, <1>24 DEF Bit
    <2>2. keyCalls' = keyCalls + 1 /\ keyCalls' \in 0..3
      BY <1>24, <2>1 DEF DeleteKey
    <2> HIDE DEF a, b, c, d
    <2> QED BY <1>14, <1>15, <1>18, <1>19, <1>24, <2>1, <2>2 DEF Bit
  <1>21. /\ \A q \in Processes : MayDelete(local[q])' => c'
         /\ \A q \in Processes : MayReplay(local[q])' => d'
    BY <1>16, <1>19 DEF IInv, KeyCallsCovered
  <1>22. /\ \A q, r \in Processes : MayDelete(local[q])' /\ MayDelete(local[r])' => q = r
         /\ \A q, r \in Processes : MayReplay(local[q])' /\ MayReplay(local[r])' => q = r
    BY <1>16, <1>17
  <1>23. KeyCallsCovered'
    BY <1>20, <1>21, <1>22 DEF KeyCallsCovered
  <1> QED BY <1>8, <1>11, <1>12, <1>13, <1>14, <1>20, <1>23, RequestGoes

\* From the absent key to the end.
LEMMA LastSteps ==
  ASSUME IInv, NEW p \in Processes,
         RemoveWorkspace(p) \/ recordWorkspaceDeletionReceipt(p) \/ Complete(p) \/ Completed(p)
  PROVE  IInv'
  <1>0. /\ local[p].pc \in Holding /\ local[p].copy \in Rows /\ Gone(local[p].copy)
        /\ ValidState(local[p].copy)
    BY AtHolds DEF RemoveWorkspace, recordWorkspaceDeletionReceipt, Complete, Completed
  <1>1. ASSUME local[p].copy.phase \in {"key_absent", "workspace_absent",
                                        "deletion_receipt_recorded"},
               NEW phase \in PhaseNames
        PROVE  Gone(Advanced(local[p].copy, phase))
    BY <1>0, <1>1, AdvancedIs DEF Gone
  <1>2. CASE RemoveWorkspace(p)
    <2>1. local[p].copy.phase = "key_absent" /\ "workspace_absent" \in PhaseNames
      BY <1>2, AtHolds DEF RemoveWorkspace, PhaseNames
    <2>2. Follows(local[p].copy, "workspace_absent")
      BY <2>1 DEF Follows
    <2> QED BY <1>0, <1>1, <1>2, <2>1, <2>2, AdvanceStep DEF RemoveWorkspace
  <1>3. CASE Complete(p)
    <2>1. local[p].copy.phase = "deletion_receipt_recorded" /\ "complete" \in PhaseNames
      BY <1>3, AtHolds DEF Complete, PhaseNames
    <2>2. Follows(local[p].copy, "complete")
      BY <2>1 DEF Follows
    <2> QED BY <1>0, <1>1, <1>3, <2>1, <2>2, AdvanceStep DEF Complete
  <1>4. CASE Completed(p)
    BY <1>4, ReturnStep DEF Completed, IInv, TypeOK
  <1>5. CASE recordWorkspaceDeletionReceipt(p)
    <2>1. local[p].copy.phase = "workspace_absent"
      BY <1>5, AtHolds DEF recordWorkspaceDeletionReceipt
    <2>2. left \subseteq {"residual"}
      BY <1>0, <2>1, ResourcesAre DEF Gone, RuntimeAbsent, IInv, TypeOK
    <2>3. Chain' /\ left' \subseteq left /\ flight' \subseteq Calls
      BY <1>5, ChainIsOrder DEF recordWorkspaceDeletionReceipt, IInv, TypeOK, Chain
    <2>4. receipt' \in BOOLEAN /\ ReceiptIsTrue'
      <3>1. receipt' = receipt \/ (receipt' = TRUE /\ ~workspace)
        BY <1>5 DEF recordWorkspaceDeletionReceipt
      <3>2. workspace' = workspace /\ left' = left
        BY <1>5 DEF recordWorkspaceDeletionReceipt
      <3>3. receipt \in BOOLEAN /\ (receipt => ~workspace)
        BY DEF IInv, TypeOK, ReceiptIsTrue
      <3>4. receipt' => ~workspace
        BY <3>1, <3>3
      <3>5. receipt' \in BOOLEAN
        BY <3>1, <3>3
      <3> QED BY <2>2, <3>2, <3>4, <3>5 DEF ReceiptIsTrue
    <2>5. CASE Return(p)
      <3>1. RequestHolds(Idle)'
        BY <2>3, IdleHolds, RequestStays
      <3>2. crashes' \in 0..MaxCrashes
        BY <1>5 DEF recordWorkspaceDeletionReceipt, IInv, TypeOK
      <3> QED BY <1>5, <2>3, <2>4, <2>5, <3>1, <3>2, IdleHolds, RequestStep
              DEF Return, recordWorkspaceDeletionReceipt
    <2>6. CASE Write(p, Advanced(local[p].copy, "deletion_receipt_recorded"), "run")
      <3>1. "deletion_receipt_recorded" \in PhaseNames
        BY DEF PhaseNames
      <3>2. PICK o \in Rows : o = local[p].copy
        BY <1>0
      <3>3. PICK n \in Rows : n = Advanced(o, "deletion_receipt_recorded") /\ Gone(n)
                              /\ (Gone(n)' => WriteHolds(o, n, "run")')
        <4>1. Follows(o, "deletion_receipt_recorded") /\ ValidState(o)
          BY <1>0, <2>1, <3>2 DEF Follows
        <4> QED BY <1>1, <2>1, <3>1, <3>2, <4>1, AdvanceHolds, AdvancedIs
      <3>4. Gone(n)'
        BY <2>3, <3>3, GoneStays
      <3> QED BY <1>0, <1>5, <2>3, <2>4, <2>6, <3>2, <3>3, <3>4, WriteStep
              DEF recordWorkspaceDeletionReceipt
    <2> QED BY <1>5, <2>5, <2>6 DEF recordWorkspaceDeletionReceipt
  <1> QED BY <1>2, <1>3, <1>4, <1>5

-----------------------------------------------------------------------------
(* The invariant                                                            *)

\* Steps that no request takes: none adds a resource, and none touches the row.
LEMMA WorldPreserves ==
  ASSUME IInv, UNCHANGED <<row, workspace, receipt, local, keyCalls, reads, crashes>>,
         left' \subseteq left, flight' \subseteq Calls, Chain',
         due' \in 0..MaxReads, expired' \in 0..MaxClaims, expired' < MaxClaims
  PROVE  IInv'
  <1>1. TypeOK'
    <2>1. row' \in Rows \cup {None} /\ (row' # None => ValidState(row'))
      BY DEF IInv, TypeOK
    <2> QED BY <2>1 DEF IInv, TypeOK
  <1>2. RemovedInOrder' /\ ReceiptIsTrue'
    BY ChainIsOrder DEF IInv, ReceiptIsTrue
  <1>3. row' # None => Gone(row)'
    BY GoneStays DEF IInv
  <1>4. \A q \in Processes : RequestHolds(local[q])'
    BY RequestStays DEF IInv
  <1>5. KeyCallsCovered' /\ ReadsCovered'
    BY DEF IInv, KeyCallsCovered, MayDelete, MayReplay, ReadsCovered, Readers
  <1> QED BY <1>1, <1>2, <1>3, <1>4, <1>5 DEF IInv

LEMMA WorldSteps ==
  ASSUME IInv, OwnerRemoves \/ ReadbackDue \/ LeaseExpires \/ UNCHANGED vars
  PROVE  IInv'
  <1>1. CASE OwnerRemoves
    <2>1. PICK c \in flight, x \in left :
              /\ x \in Removes(c) /\ left' = left \ {x}
              /\ flight' = IF Removes(c) \cap left' = {} THEN flight \ {c} ELSE flight
      BY <1>1 DEF OwnerRemoves
    <2>2. c \in Calls /\ flight' \subseteq flight
      BY <2>1 DEF IInv, TypeOK
    <2>3. x = c \/ (c = "runtime" /\ x \in {"runtime", "secret", "residual"})
      BY <2>1 DEF Removes
    <2>4. Chain'
      BY <2>1, <2>2, <2>3, ChainIsOrder DEF IInv, Chain, Calls
    <2> QED BY <1>1, <2>1, <2>2, <2>4, WorldPreserves DEF OwnerRemoves, IInv, TypeOK, clock
  <1>2. CASE ReadbackDue
    <2>1. due' \in 0..MaxReads
      BY <1>2 DEF ReadbackDue, IInv, TypeOK, Rows
    <2> QED BY <1>2, <2>1, ChainKept, WorldPreserves DEF ReadbackDue, IInv, TypeOK, owners
  <1>3. CASE LeaseExpires
    <2>1. expired' \in 0..MaxClaims /\ expired' < MaxClaims
      BY <1>3 DEF LeaseExpires, IInv, TypeOK, Rows
    <2> QED BY <1>3, <2>1, ChainKept, WorldPreserves DEF LeaseExpires, IInv, TypeOK, owners
  <1>4. CASE UNCHANGED vars
    BY <1>4, ChainKept, WorldPreserves DEF vars, IInv, TypeOK, owners
  <1> QED BY <1>1, <1>2, <1>3, <1>4

LEMMA CrashPreserves ==
  ASSUME IInv, NEW p \in Processes, Crash(p)
  PROVE  IInv'
  <1>1. crashes' \in 0..MaxCrashes
    BY ConstantsAssumption DEF Crash, IInv, TypeOK
  <1> QED BY <1>1, ReturnStep DEF Crash

LEMMA InitHolds == Init => IInv
  <1> SUFFICES ASSUME Init PROVE IInv
    OBVIOUS
  <1>1. TypeOK
    <2>1. local \in [Processes -> Locals]
      BY IdleHolds DEF Init
    <2>2. workspace \in BOOLEAN /\ receipt \in BOOLEAN /\ left \subseteq Resources
          /\ flight \subseteq Calls /\ row = None
      BY DEF Init
    <2>3. due \in 0..MaxReads /\ expired \in 0..MaxClaims /\ keyCalls \in 0..3 /\ reads \in Nat
          /\ crashes \in 0..MaxCrashes
      BY ConstantsAssumption DEF Init
    <2> QED BY <2>1, <2>2, <2>3 DEF TypeOK, Locals
  <1>2. Chain
    BY ResourcesAre DEF Init, Chain
  <1>3. \A p \in Processes : local[p] = Idle
    BY DEF Init
  <1>4. KeyCallsCovered
    BY <1>3, IdleHolds DEF Init, KeyCallsCovered, Bit
  <1>5. Readers = {}
    BY <1>3, IdleHolds DEF Readers
  <1>6. ReadsCovered
    BY <1>5, FS_EmptySet DEF Init, ReadsCovered
  <1>7. \A p \in Processes : RequestHolds(local[p])
    BY <1>3, IdleHolds
  <1>8. RemovedInOrder /\ ReceiptIsTrue /\ row = None /\ workspace = TRUE
    BY <1>2, ChainIsOrder DEF Init, ReceiptIsTrue
  <1>9. expired < MaxClaims
    BY ConstantsAssumption DEF Init
  <1> QED BY <1>1, <1>4, <1>6, <1>7, <1>8, <1>9 DEF IInv

LEMMA NextPreserves == IInv /\ [Next]_vars => IInv'
  <1> SUFFICES ASSUME IInv, [Next]_vars PROVE IInv'
    OBVIOUS
  <1>1. ASSUME NEW p \in Processes, Request(p) \/ Continues(p) \/ Crash(p)
        PROVE  IInv'
    <2>1. CASE Create(p) \/ Persist(p) \/ PersistRefused(p)
      <3>1. CASE PersistRefused(p)
        BY <3>1, ReturnStep DEF PersistRefused, IInv, TypeOK
      <3> QED BY <2>1, <3>1, CreatePreserves, PersistPreserves
    <2> QED BY <1>1, <2>1, RequestPreserves, RuntimeSteps, RemovalSteps, ComputeSteps,
               ComputeReadbackPreserves, KeyReads, KeyReservations, DeleteKeyPreserves,
               LastSteps, CrashPreserves DEF Continues
  <1> QED BY <1>1, WorldSteps DEF Next

-----------------------------------------------------------------------------
(* Theorems                                                                 *)

\* The inductive invariant of the deletion holds in every state the handlers, the crashes and the
\* surroundings can reach.
THEOREM Invariance == Spec => []IInv
  BY InitHolds, NextPreserves, PTL DEF Spec

\* Every variable keeps its type, and every row a request stores is one that
\* decodeWorkspaceDeleteOperation accepts when it is loaded again.
THEOREM TypeCorrect == Spec => []TypeOK
  <1>1. IInv => TypeOK
    BY DEF IInv
  <1> QED BY <1>1, Invariance, PTL

\* The store takes every row computed from a copy that is not out of date (ApplyWorkspaceDelete),
\* so no request is refused for the row it has computed.
THEOREM WritesAreTaken == Spec => []WritesFit
  <1>1. IInv => WritesFit
    <2> SUFFICES ASSUME IInv, NEW p \in Processes, local[p].pc = "write", row = local[p].copy
                 PROVE  Holds(p)
      BY DEF WritesFit
    <2>1. PICK o \in Rows, n \in Rows : /\ o = local[p].copy /\ n = local[p].want
                                        /\ Fits(o, n) /\ row = o
      BY DEF IInv, RequestHolds, WriteHolds, Working
    <2>2. row # None /\ workspace = (o.phase \notin {"workspace_absent",
                                          "deletion_receipt_recorded", "complete"})
      BY <2>1, NoRowAssumption DEF IInv
    <2>3. /\ RankOf(n.phase) \in RankOf(o.phase)..(RankOf(o.phase) + 1)
          /\ Rank(n) = RankOf(n.phase)
          /\ o.phase \in PhaseNames /\ n.phase \in PhaseNames
      BY <2>1, RankOfPhase, RowsAre DEF Fits, ValidTransition
    <2>4. (o.phase \notin {"workspace_absent", "deletion_receipt_recorded", "complete"})
          = (Rank(n) <= RankOf("key_absent") \/ o.phase = "key_absent")
      BY <2>3, Ranks DEF PhaseNames
    <2> QED BY <2>1, <2>2, <2>4 DEF Holds, Fits
  <1> QED BY <1>1, Invariance, PTL

\* What the row calls absent is gone at its owner (runWorkspaceDelete), for any number of
\* overlapping processes working from copies of the row that may be out of date.
THEOREM AbsenceHolds == Spec => []AbsenceIsReal
  <1>1. IInv => AbsenceIsReal
    <2> SUFFICES ASSUME IInv PROVE AbsenceIsReal
      OBVIOUS
    <2>1. CASE row = None
      BY <2>1 DEF IInv, AbsenceIsReal, Reached
    <2>2. CASE row # None
      <3>1. /\ row.phase \in PhaseNames /\ Gone(row) /\ Rank(row) = RankOf(row.phase)
            /\ workspace = (row.phase \notin {"workspace_absent", "deletion_receipt_recorded",
                                              "complete"})
        BY <2>2, RowsAre, RankOfPhase DEF IInv, TypeOK
      <3>2. /\ Reached("runtime_secret_absent") => row.phase # "claimed"
            /\ Reached("attachment_absent") =>
                   row.phase \notin {"claimed", "runtime_secret_absent"}
            /\ Reached("storage_absent") =>
                   row.phase \notin {"claimed", "runtime_secret_absent", "attachment_absent"}
            /\ Reached("compute_absent") =>
                   row.phase \notin {"claimed", "runtime_secret_absent", "attachment_absent",
                                     "storage_absent"}
            /\ Reached("key_absent") =>
                   row.phase \notin {"claimed", "runtime_secret_absent", "attachment_absent",
                                     "storage_absent", "compute_absent"}
            /\ Reached("workspace_absent") <=>
                   row.phase \in {"workspace_absent", "deletion_receipt_recorded", "complete"}
        BY <2>2, <3>1, Ranks DEF Reached, PhaseNames
      <3> QED BY <3>1, <3>2 DEF AbsenceIsReal, Gone
    <2> QED BY <2>1, <2>2
  <1> QED BY <1>1, Invariance, PTL

\* No owner is asked to remove a resource, and none disappears, before those that come
\* before it in the chain of runWorkspaceDelete.
THEOREM OrderHolds == Spec => []RemovedInOrder
  <1>1. IInv => RemovedInOrder
    BY DEF IInv
  <1> QED BY <1>1, Invariance, PTL

\* No key DELETE and no compute readback that the row has not reserved, over all requests,
\* processes and crashes (markWorkspaceDeleteReplayDispatch, workspaceDeleteComputeReadbackBudget).
THEOREM CallsAreReserved == Spec => []CallsReserved
  <1>1. IInv => CallsReserved
    <2> SUFFICES ASSUME IInv PROVE CallsReserved
      OBVIOUS
    <2> DEFINE a == \E q \in Processes : MayDelete(local[q])
               b == \E q \in Processes : MayReplay(local[q])
               c == row # None /\ row.attempted
               d == row # None /\ row.replay \in Sent
    <2>0. keyCalls \in Nat
      BY DEF IInv, TypeOK
    <2>1. keyCalls + Bit(a) + Bit(b) <= Bit(c) + Bit(d)
      BY DEF IInv, KeyCallsCovered
    <2>2. d => c
      BY Reservations DEF IInv, TypeOK, Sent
    <2>3. /\ keyCalls > 0 => c
          /\ keyCalls > 1 => d
          /\ keyCalls < 3
      <3> HIDE DEF a, b, c, d
      <3> QED BY <2>0, <2>1, <2>2 DEF Bit
    <2>4. reads \in Nat /\ Cardinality(Readers) \in Nat
          /\ reads + Cardinality(Readers) <= IF row = None THEN 0 ELSE row.reads
      BY FS_CardinalityType DEF IInv, ReadsCovered, TypeOK
    <2>5. row # None => row.reads \in 0..MaxReads
      BY DEF IInv, TypeOK, Rows
    <2>6. reads > 0 => reads <= row.reads /\ row.reads <= MaxReads
      BY <2>4, <2>5, ConstantsAssumption
    <2> QED BY <2>3, <2>6 DEF CallsReserved, Sent
  <1> QED BY <1>1, Invariance, PTL

\* The receipt workspace.deleted.v1 exists only when all it calls absent is absent.
THEOREM ReceiptHolds == Spec => []ReceiptIsTrue
  <1>1. IInv => ReceiptIsTrue
    BY DEF IInv
  <1> QED BY <1>1, Invariance, PTL
=============================================================================
