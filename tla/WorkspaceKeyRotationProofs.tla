----------------------- MODULE WorkspaceKeyRotationProofs -----------------------
(***************************************************************************)
(* The safety of a key rotation, for any number of rotations, budget        *)
(* updates, Gateway requests and late calls.                                *)
(*                                                                         *)
(* The invariant comes in two parts.  SInv says which keys exist and who    *)
(* uses them at every stage of the open rotation, and holds whatever calls  *)
(* arrive late.  BInv says what the old key may still spend as long as no   *)
(* late budget call has changed it.                                         *)
(***************************************************************************)
EXTENDS WorkspaceKeyRotation, FiniteSetTheorems, TLAPS

-----------------------------------------------------------------------------
(* The inductive invariant                                                  *)

\* The phases in order.
RankOf(phase) == CHOOSE i \in 1..15 : Phases[i] = phase

PhaseRank(o) == RankOf(row[o].phase)

\* A pass about to write the next phase has done what that phase needs.
Stage(o) == IF pass[o].pc = "advance" THEN PhaseRank(o) + 1 ELSE PhaseRank(o)

RotationCalls == {"disable", "create", "retire", "promote", "delete"}

Places == {"idle", "enter", "claim", "run", "advance", "park", "capture", "mark", "create",
           "created", "read_disabled", "read_bound", "read_retired", "read_promoted", "read_deleted"}

Passes == [pc : Places, old : Keys \cup {None}, quota : Nat \cup {None}]

Types ==
    /\ TypeOK
    /\ pass \in [Rotations -> Passes]
    /\ update \in [Budgets -> {"idle", "patch", "answered", "unanswered"}]
    /\ uses \in Nat /\ late \in Nat

\* Where a pass may be, given the phase of its row.
PlaceHolds(o, pc) ==
    /\ pc \notin {"idle", "enter", "claim"} => OpenRotation(o)
    /\ pc = "claim" => row[o].status = "none"
    /\ pc = "advance" => row[o].phase \notin {"old_key_drain", "complete"}
    /\ pc = "read_disabled" => row[o].phase = "old_key_disable"
    /\ pc = "capture" => row[o].phase = "old_key_drain"
    /\ pc \in {"mark", "create", "created"} => row[o].phase = "replacement_create"
    /\ pc = "read_bound" => row[o].phase = "runtime_bind"
    /\ pc = "read_retired" => row[o].phase = "retire_old"
    /\ pc = "read_promoted" => row[o].phase = "promote_new"
    /\ pc = "read_deleted" => row[o].phase = "delete_old"

PassHolds(o) ==
    PlaceHolds(o, pass[o].pc) /\ (pass[o].pc = "capture" => pass[o].quota \in Nat)

\* What a rotation at stage s has put in place.
InPlace(o, s) ==
    /\ s >= 5 => Live(o)
    /\ s >= 7 => secret = o
    /\ s >= 8 => bound = o
    /\ s >= 10 => wsKey = o
    /\ s >= 13 => ~Live(Old(o))
    /\ s >= 14 => o \in receipts

\* The keys of an open rotation, and who uses them.
OpenHolds(o) ==
    /\ Old(o) \in Keys \ {o} /\ key[Old(o)].life # "absent" /\ key[o].life # "deleted"
    /\ \A k \in Keys : Live(k) => k \in {Old(o), o}
    /\ {wsKey, secret, bound} \subseteq {Old(o), o}
    /\ o \in {wsKey, secret, bound} => Live(o)
    /\ PhaseRank(o) < 12 => Live(Old(o))
    /\ IF PhaseRank(o) < 4 THEN ~Live(o) /\ row[o].quota = None ELSE row[o].quota \in Nat
    /\ InPlace(o, Stage(o))

RowHolds(o) ==
    /\ row[o].status = "none" => row[o] = NoRotation /\ key[o].life = "absent"
    /\ row[o].status = "succeeded" =>
           Old(o) \in Keys \ {o} /\ key[Old(o)].life = "deleted" /\ key[o].life # "absent"
    /\ OpenRotation(o) => OpenHolds(o)

\* A call that may still take effect belongs to a rotation, which was far enough to make it,
\* or to a budget update.
FlightHolds(f) ==
    \/ \E call \in RotationCalls, o \in Rotations :
           /\ f = <<call, o>> /\ row[o].status # "none"
           /\ OpenRotation(o) /\ call = "create" => PhaseRank(o) >= 4
           /\ OpenRotation(o) /\ call = "delete" => PhaseRank(o) >= 12
    \/ \E call \in AllRequests, b \in Budgets : f = <<call, b>> /\ budget[b].status # "none"

\* A budget update that is served has a row, which names a key.
UpdateHolds(b) ==
    /\ budget[b].status # "none" => budget[b].key \in Keys
    /\ update[b] # "idle" => OpenBudget(b)

SInv ==
    /\ Types /\ SucceededConverged
    /\ \A o, other \in Rotations : OpenRotation(o) /\ OpenRotation(other) => o = other
    /\ \A o \in Rotations : PassHolds(o) /\ RowHolds(o)
    /\ \A f \in flight : FlightHolds(f)
    /\ \A b \in Budgets : UpdateHolds(b)

\* No late budget call has turned the old key of a rotation on, or changed what it has left.
StaysOff(o) == <<"enable", Old(o)>> \notin disturbed

StaysSpent(o) == ({"enable", "reset", "quota"} \X {Old(o)}) \cap disturbed = {}

\* The old key of an open rotation is off before it is drained, and nothing is spent on it
\* once its budget was read.
OldKeyHolds(o) ==
    /\ Stage(o) >= 3 /\ StaysOff(o) => ~key[Old(o)].enabled
    /\ (pass[o].pc = "capture" \/ PhaseRank(o) >= 4) /\ StaysOff(o) => key[Old(o)].busy = 0
    /\ pass[o].pc = "capture" /\ StaysSpent(o) => Remaining(Old(o)) = pass[o].quota
    /\ PhaseRank(o) >= 4 /\ StaysSpent(o) => Remaining(Old(o)) = row[o].quota
    /\ Live(o) => key[o].quota = row[o].quota

\* Budget updates and rotations exclude each other; a replacement that has a budget update
\* belongs to a rotation that has ended.
BudgetHolds(b) ==
    /\ OpenBudget(b) => \A o \in Rotations : ~OpenRotation(o) /\ pass[o].pc # "claim"
    /\ budget[b].key \in Rotations => row[budget[b].key].status = "succeeded"

BInv ==
    /\ \A o \in Rotations : OpenRotation(o) => OldKeyHolds(o)
    /\ \A b \in Budgets : BudgetHolds(b)

-----------------------------------------------------------------------------
(* Lemmas about phases                                                      *)

\* The phases by number.
LEMMA PhaseNumbers ==
    /\ Len(Phases) = 15
    /\ Phases[1] = "replacement_check" /\ Phases[2] = "old_key_disable"
    /\ Phases[3] = "old_key_drain" /\ Phases[4] = "replacement_create"
    /\ Phases[5] = "replacement_policy_readback" /\ Phases[6] = "secret_write"
    /\ Phases[7] = "runtime_bind" /\ Phases[8] = "runtime_readback"
    /\ Phases[9] = "workspace_commit" /\ Phases[10] = "retire_old"
    /\ Phases[11] = "promote_new" /\ Phases[12] = "delete_old" /\ Phases[13] = "receipt"
    /\ Phases[14] = "complete" /\ Phases[15] = "succeeded"
  BY DEF Phases

LEMMA UpToFifteen == \A i \in 1..15 : i \in {1, 2, 3, 4, 5, 6, 7, 8, 9, 10, 11, 12, 13, 14, 15}
  OBVIOUS

\* A phase has one number.
LEMMA PhasesDiffer == \A i, j \in 1..15 : Phases[i] = Phases[j] => i = j
  BY PhaseNumbers, UpToFifteen, SMTT(60)

LEMMA RankOfNumber == \A i \in 1..15 : RankOf(Phases[i]) = i
  BY PhasesDiffer DEF RankOf

\* The number of every phase.
LEMMA Ranks ==
    /\ RankOf("replacement_check") = 1 /\ RankOf("old_key_disable") = 2
    /\ RankOf("old_key_drain") = 3 /\ RankOf("replacement_create") = 4
    /\ RankOf("replacement_policy_readback") = 5 /\ RankOf("secret_write") = 6
    /\ RankOf("runtime_bind") = 7 /\ RankOf("runtime_readback") = 8
    /\ RankOf("workspace_commit") = 9 /\ RankOf("retire_old") = 10
    /\ RankOf("promote_new") = 11 /\ RankOf("delete_old") = 12 /\ RankOf("receipt") = 13
    /\ RankOf("complete") = 14 /\ RankOf("succeeded") = 15
  <1>1. \A i \in 1..15 : RankOf(Phases[i]) = i
    BY RankOfNumber
  <1> QED BY <1>1, PhaseNumbers

PhaseNames == {"replacement_check", "old_key_disable", "old_key_drain", "replacement_create",
               "replacement_policy_readback", "secret_write", "runtime_bind",
               "runtime_readback", "workspace_commit", "retire_old", "promote_new",
               "delete_old", "receipt", "complete", "succeeded"}

LEMMA PhaseSetIs == PhaseSet = PhaseNames
  <1>1. \A x \in PhaseSet : x \in PhaseNames
    BY PhaseNumbers, UpToFifteen DEF PhaseSet, PhaseNames
  <1>2. \A x \in PhaseNames : \E i \in 1..15 : Phases[i] = x
    BY PhaseNumbers DEF PhaseNames
  <1> QED BY <1>1, <1>2, PhaseNumbers DEF PhaseSet

\* The next phase has the next number.
LEMMA NextPhase ==
  ASSUME NEW phase \in PhaseSet, phase # "succeeded"
  PROVE  /\ Next_(phase) \in PhaseSet /\ RankOf(Next_(phase)) = RankOf(phase) + 1
         /\ RankOf(phase) \in 1..14
  <1>1. PICK i \in 1..15 : phase = Phases[i]
    BY PhaseNumbers DEF PhaseSet
  <1>2. i # 15
    BY <1>1, PhaseNumbers
  <1>3. i \in 1..14 /\ RankOf(phase) = i /\ Len(Phases) - 1 = 14
    BY <1>1, <1>2, RankOfNumber, PhaseNumbers
  <1>4. (CHOOSE j \in 1..14 : Phases[j] = phase) = i
    BY <1>1, <1>3, PhasesDiffer
  <1>5. Next_(phase) = Phases[1 + i]
    BY <1>3, <1>4 DEF Next_
  <1> QED BY <1>3, <1>5, RankOfNumber, PhaseNumbers DEF PhaseSet

-----------------------------------------------------------------------------
(* Lemmas about keys                                                        *)

KeyRecords == [life : {"absent", "live", "deleted"}, enabled : BOOLEAN,
               name : {"canonical", "replacement", "retired"},
               quota : Nat, used : Nat, busy : 0..1]

\* A key only comes to life as the replacement of the open rotation, and only the old key of
\* the open rotation is deleted.
LifeStep ==
    \A k \in Keys :
        \/ key'[k].life = key[k].life
        \/ /\ key[k].life = "absent" /\ key'[k].life = "live"
           /\ k \in Rotations /\ OpenRotation(k) /\ PhaseRank(k) >= 4
        \/ /\ key'[k].life = "deleted"
           /\ \E o \in Rotations : OpenRotation(o) /\ k = Old(o) /\ PhaseRank(o) >= 12

\* Without an open rotation the Workspace key keeps its name.
NameStep == (\A o \in Rotations : ~OpenRotation(o)) => key'[wsKey].name = "canonical"

KeysGo == key' \in [Keys -> KeyRecords] /\ LifeStep /\ NameStep

LEMMA KeysStay ==
  ASSUME SInv, key' \in [Keys -> KeyRecords],
         \A k \in Keys : key'[k].life = key[k].life /\ key'[k].name = key[k].name
  PROVE  KeysGo
  BY DEF SInv, Types, TypeOK, KeysGo, LifeStep, NameStep, SucceededConverged

\* A change of one key.
LEMMA KeyChange ==
  ASSUME key \in [Keys -> KeyRecords], NEW k \in Keys, NEW r \in KeyRecords
  PROVE  /\ [key EXCEPT ![k] = r] \in [Keys -> KeyRecords]
         /\ [key EXCEPT ![k] = r][k] = r
         /\ \A other \in Keys \ {k} : [key EXCEPT ![k] = r][other] = key[other]
  OBVIOUS

\* What a budget request changes of a key.
LEMMA PatchEffect ==
  ASSUME key \in [Keys -> KeyRecords], NEW b \in Budgets, NEW k \in Keys, k = budget[b].key,
         NEW request \in AllRequests
  PROVE  /\ Patched(b, request) \in [Keys -> KeyRecords]
         /\ \A other \in Keys :
                /\ Patched(b, request)[other].life = key[other].life
                /\ Patched(b, request)[other].name = key[other].name
                /\ other # k => Patched(b, request)[other] = key[other]
         /\ Patched(b, request)[k].busy = key[k].busy
         /\ request # "enable" => (Patched(b, request)[k].enabled => key[k].enabled)
         /\ request \in {"enable", "disable"} =>
                /\ Patched(b, request)[k].quota = key[k].quota
                /\ Patched(b, request)[k].used = key[k].used
  <1> DEFINE n == NewQuota[b]
             r == CASE request = "quota" -> [key[k] EXCEPT !.quota = n]
                    [] request = "enable" -> [key[k] EXCEPT !.enabled = TRUE]
                    [] request = "disable" -> [key[k] EXCEPT !.enabled = FALSE]
                    [] request = "reset" -> [key[k] EXCEPT !.used = 0]
  <1>1. Patched(b, request) = [key EXCEPT ![k] = r]
    BY DEF Patched
  <1>2. /\ request = "quota" => r = [key[k] EXCEPT !.quota = n]
        /\ request = "enable" => r = [key[k] EXCEPT !.enabled = TRUE]
        /\ request = "disable" => r = [key[k] EXCEPT !.enabled = FALSE]
        /\ request = "reset" => r = [key[k] EXCEPT !.used = 0]
    OBVIOUS
  <1>3. n \in Nat
    BY ConstantsAssumption
  <1>5. PICK x \in KeyRecords : x = key[k]
    OBVIOUS
  <1> HIDE DEF r, n
  <1>4. /\ r \in KeyRecords /\ r.life = key[k].life /\ r.name = key[k].name
        /\ r.busy = key[k].busy /\ (request # "enable" => (r.enabled => key[k].enabled))
        /\ request \in {"enable", "disable"} => r.quota = key[k].quota /\ r.used = key[k].used
    <2>1. CASE request = "quota"
      BY <1>2, <1>3, <1>5, <2>1 DEF KeyRecords
    <2>2. CASE request = "enable"
      BY <1>2, <1>3, <1>5, <2>2 DEF KeyRecords
    <2>3. CASE request = "disable"
      BY <1>2, <1>3, <1>5, <2>3 DEF KeyRecords
    <2>4. CASE request = "reset"
      BY <1>2, <1>3, <1>5, <2>4 DEF KeyRecords
    <2> QED BY <2>1, <2>2, <2>3, <2>4 DEF AllRequests
  <1> QED BY <1>1, <1>4, KeyChange

\* What the calls of a rotation change.
LEMMA CallForms ==
  ASSUME NEW o \in Rotations
  PROVE  /\ KeyEffect("disable", o) =
                [key EXCEPT ![Old(o)] = [key[Old(o)] EXCEPT !.enabled = FALSE]]
         /\ key[o].life # "absent" => KeyEffect("create", o) = key
         /\ key[o].life = "absent" =>
                KeyEffect("create", o) =
                    [key EXCEPT ![o] = [key[o] EXCEPT !.life = "live", !.name = "replacement",
                                            !.enabled = TRUE, !.quota = row[o].quota]]
         /\ KeyEffect("promote", o) = [key EXCEPT ![o] = [key[o] EXCEPT !.name = "canonical"]]
         /\ KeyEffect("delete", o) =
                [key EXCEPT ![Old(o)] = [key[Old(o)] EXCEPT !.life = "deleted"]]
  BY DEF KeyEffect

LEMMA RetireForm ==
  ASSUME NEW o \in Rotations, key \in [Keys -> KeyRecords], Old(o) \in Keys
  PROVE  KeyEffect("retire", o) =
             [key EXCEPT ![Old(o)] = [key[Old(o)] EXCEPT !.name = "retired", !.enabled = FALSE]]
  <1>1. KeyEffect("retire", o) =
            [key EXCEPT ![Old(o)].name = "retired", ![Old(o)].enabled = FALSE]
    BY DEF KeyEffect
  <1> QED BY <1>1

\* A call a rotation may make, whenever it takes effect.
MayCall(call, o) ==
    /\ call \in RotationCalls /\ o \in Rotations /\ row[o].status # "none"
    /\ OpenRotation(o) /\ call = "create" => PhaseRank(o) >= 4
    /\ OpenRotation(o) /\ call = "delete" => PhaseRank(o) >= 12

LEMMA CallEffect ==
  ASSUME SInv, NEW call, NEW o \in Rotations, MayCall(call, o), key' = KeyEffect(call, o)
  PROVE  KeysGo
  <1>1. /\ key \in [Keys -> KeyRecords] /\ wsKey \in Keys /\ o \in Keys
        /\ Old(o) \in Keys \ {o}
        /\ OpenRotation(o) \/ row[o].status = "succeeded"
    BY DEF SInv, Types, TypeOK, KeyRecords, Keys, MayCall, RowHolds, OpenHolds, OpenRotation
  <1>9. PICK old \in KeyRecords, new \in KeyRecords : old = key[Old(o)] /\ new = key[o]
    BY <1>1
  <1>2. /\ OpenRotation(o) => key[Old(o)].life # "absent" /\ key[o].life # "deleted"
        /\ row[o].status = "succeeded" =>
               key[Old(o)].life = "deleted" /\ key[o].life # "absent"
    BY DEF SInv, RowHolds, OpenHolds
  <1>3. (\A q \in Rotations : ~OpenRotation(q)) =>
            /\ key[wsKey].name = "canonical" /\ key[wsKey].life = "live"
            /\ Old(o) # wsKey
    BY <1>1, <1>2 DEF SInv, SucceededConverged, Live
  <1>4. CASE call = "disable"
    <2> DEFINE r == [old EXCEPT !.enabled = FALSE]
    <2>1. r \in KeyRecords /\ r.life = old.life /\ r.name = old.name
      BY DEF KeyRecords
    <2>2. key' = [key EXCEPT ![Old(o)] = r]
      BY <1>4, <1>9, CallForms
    <2> HIDE DEF r
    <2>3. /\ key' \in [Keys -> KeyRecords]
          /\ \A k \in Keys : key'[k].life = key[k].life /\ key'[k].name = key[k].name
      BY <1>1, <1>9, <2>1, <2>2, KeyChange
    <2> QED BY <2>3, KeysStay
  <1>5. CASE call = "create"
    <2>1. CASE key[o].life # "absent"
      <3>1. key' = key
        BY <1>5, <2>1, CallForms
      <3> QED BY <1>1, <3>1, KeysStay
    <2>2. CASE key[o].life = "absent"
      <3>1. OpenRotation(o) /\ PhaseRank(o) >= 4
        BY <1>1, <1>2, <1>5, <2>2 DEF MayCall
      <3>2. PICK n \in Nat : n = row[o].quota
        <4>1. OpenHolds(o)
          BY <3>1 DEF SInv, RowHolds
        <4>2. PhaseRank(o) \in Int
          BY PhaseSetIs, Ranks DEF PhaseRank, PhaseNames, SInv, Types, TypeOK
        <4>3. ~(PhaseRank(o) < 4)
          BY <3>1, <4>2
        <4> QED BY <4>1, <4>3 DEF OpenHolds
      <3> DEFINE r == [new EXCEPT !.life = "live", !.name = "replacement",
                                  !.enabled = TRUE, !.quota = n]
      <3>3. r \in KeyRecords /\ r.life = "live"
        BY DEF KeyRecords
      <3>4. key' = [key EXCEPT ![o] = r]
        BY <1>5, <1>9, <2>2, <3>2, CallForms
      <3> HIDE DEF r
      <3>5. /\ key' \in [Keys -> KeyRecords] /\ key'[o].life = "live"
            /\ \A k \in Keys \ {o} : key'[k] = key[k]
        BY <1>1, <3>3, <3>4, KeyChange
      <3> QED BY <2>2, <3>1, <3>5 DEF KeysGo, LifeStep, NameStep
    <2> QED BY <2>1, <2>2
  <1>6. CASE call = "retire"
    <2> DEFINE r == [old EXCEPT !.name = "retired", !.enabled = FALSE]
    <2>1. r \in KeyRecords /\ r.life = old.life
      BY DEF KeyRecords
    <2>2. key' = [key EXCEPT ![Old(o)] = r]
      BY <1>1, <1>6, <1>9, RetireForm
    <2> HIDE DEF r
    <2>3. /\ key' \in [Keys -> KeyRecords]
          /\ \A k \in Keys : key'[k].life = key[k].life
          /\ \A k \in Keys \ {Old(o)} : key'[k] = key[k]
      BY <1>1, <1>9, <2>1, <2>2, KeyChange
    <2> QED BY <1>1, <1>3, <2>3 DEF KeysGo, LifeStep, NameStep
  <1>7. CASE call = "promote"
    <2> DEFINE r == [new EXCEPT !.name = "canonical"]
    <2>1. r \in KeyRecords /\ r.life = new.life /\ r.name = "canonical"
      BY DEF KeyRecords
    <2>2. key' = [key EXCEPT ![o] = r]
      BY <1>7, <1>9, CallForms
    <2> HIDE DEF r
    <2>3. /\ key' \in [Keys -> KeyRecords]
          /\ \A k \in Keys : key'[k].life = key[k].life
          /\ \A k \in Keys : key'[k].name = key[k].name \/ key'[k].name = "canonical"
      BY <1>1, <1>9, <2>1, <2>2, KeyChange
    <2> QED BY <1>1, <1>3, <2>3 DEF KeysGo, LifeStep, NameStep
  <1>8. CASE call = "delete"
    <2> DEFINE r == [old EXCEPT !.life = "deleted"]
    <2>1. r \in KeyRecords /\ r.life = "deleted" /\ r.name = old.name
      BY DEF KeyRecords
    <2>2. key' = [key EXCEPT ![Old(o)] = r]
      BY <1>8, <1>9, CallForms
    <2> HIDE DEF r
    <2>3. /\ key' \in [Keys -> KeyRecords] /\ key'[Old(o)].life = "deleted"
          /\ \A k \in Keys : key'[k].name = key[k].name
          /\ \A k \in Keys \ {Old(o)} : key'[k].life = key[k].life
      BY <1>1, <1>9, <2>1, <2>2, KeyChange
    <2>4. OpenRotation(o) => PhaseRank(o) >= 12
      BY <1>8 DEF MayCall
    <2>5. LifeStep
      BY <1>1, <1>2, <2>3, <2>4 DEF LifeStep
    <2> QED BY <1>1, <1>3, <2>3, <2>5 DEF KeysGo, NameStep
  <1> QED BY <1>4, <1>5, <1>6, <1>7, <1>8 DEF MayCall, RotationCalls

-----------------------------------------------------------------------------
(* Steps that leave the rotations as they are                               *)

LEMMA PhaseRanked ==
  ASSUME Types, NEW o \in Rotations
  PROVE  /\ PhaseRank(o) \in 1..15 /\ Stage(o) \in Int
         /\ PhaseRank(o) <= Stage(o) /\ Stage(o) <= PhaseRank(o) + 1
         /\ row[o].phase = "succeeded" <=> PhaseRank(o) = 15
  <1>1. row[o].phase \in PhaseNames
    BY PhaseSetIs DEF Types, TypeOK
  <1>2. PhaseRank(o) \in 1..15 /\ (row[o].phase = "succeeded" <=> PhaseRank(o) = 15)
    BY <1>1, Ranks DEF PhaseRank, PhaseNames
  <1> QED BY <1>2 DEF Stage

\* What is in place at a stage is in place at an earlier one.
LEMMA InPlaceBefore ==
  ASSUME NEW o, NEW s \in Int, NEW t \in Int, t <= s, InPlace(o, s)
  PROVE  InPlace(o, t)
  BY DEF InPlace

\* What the open rotation has put in place stays there when keys change.
LEMMA InPlaceStays ==
  ASSUME SInv, LifeStep, key' \in [Keys -> KeyRecords],
         UNCHANGED <<row, wsKey, runtime, receipts>>,
         NEW o \in Rotations, OpenRotation(o)
  PROVE  /\ Live(o) => Live(o)'
         /\ ~Live(Old(o)) => ~Live(Old(o))'
         /\ key'[Old(o)].life # "absent" /\ key'[o].life # "deleted"
         /\ \A s \in Int : InPlace(o, s) => InPlace(o, s)'
  <1>1. OpenHolds(o) /\ o \in Keys
    BY DEF SInv, RowHolds, Keys
  <1>2. /\ Old(o) \in Keys \ {o} /\ key[Old(o)].life # "absent" /\ key[o].life # "deleted"
    BY <1>1 DEF OpenHolds
  <1>3. \A q \in Rotations : OpenRotation(q) => q = o
    BY DEF SInv
  <1>4. Old(o)' = Old(o)
    BY DEF Old
  <1>5. (Live(o) => Live(o)') /\ key'[o].life # "deleted"
    BY <1>1, <1>2, <1>3 DEF LifeStep, Live
  <1>6. (~Live(Old(o)) => ~Live(Old(o))') /\ key'[Old(o)].life # "absent"
    BY <1>2, <1>3, <1>4 DEF LifeStep, Live
  <1>7. ASSUME NEW s \in Int, InPlace(o, s) PROVE InPlace(o, s)'
    BY <1>5, <1>6, <1>7 DEF InPlace, runtime
  <1> QED BY <1>5, <1>6, <1>7

LEMMA KeyStep ==
  ASSUME SInv, Types', KeysGo,
         UNCHANGED <<row, wsKey, runtime, receipts>>,
         \A o \in Rotations : pass'[o] = pass[o] \/ PassHolds(o)',
         \A o \in Rotations : OpenRotation(o) /\ pass'[o].pc = "advance" =>
             pass'[o] = pass[o] \/ InPlace(o, PhaseRank(o) + 1)',
         \A f \in flight' : f \in flight \/ FlightHolds(f),
         \A b \in Budgets : budget[b].status # "none" => budget'[b].status # "none",
         \A b \in Budgets : UpdateHolds(b)'
  PROVE  SInv'
  <1>1. /\ \A o \in Rotations : OpenRotation(o)' <=> OpenRotation(o)
        /\ \A o \in Rotations : Old(o)' = Old(o) /\ PhaseRank(o)' = PhaseRank(o)
    BY DEF OpenRotation, Old, PhaseRank
  <1>2. key' \in [Keys -> KeyRecords] /\ LifeStep /\ NameStep /\ Types
    BY DEF KeysGo, SInv
  <1>3. SucceededConverged'
    <2> SUFFICES ASSUME \A o \in Rotations : ~OpenRotation(o)
                 PROVE  /\ {k \in Keys : Live(k)}' = {wsKey} /\ key'[wsKey].name = "canonical"
                        /\ secret' = wsKey /\ bound' = wsKey
                        /\ wsKey \in receipts \cup {LaunchKey}
      BY <1>1 DEF SucceededConverged
    <2>1. /\ {k \in Keys : Live(k)} = {wsKey}
          /\ secret = wsKey /\ bound = wsKey
          /\ wsKey \in receipts \cup {LaunchKey}
      BY DEF SInv, SucceededConverged
    <2>2. \A k \in Keys : key'[k].life = key[k].life
      BY <1>2 DEF LifeStep
    <2>3. \A k \in Keys : Live(k)' <=> Live(k)
      BY <2>2 DEF Live
    <2> QED BY <1>2, <2>1, <2>3 DEF NameStep, runtime
  <1>4. \A o, other \in Rotations : OpenRotation(o)' /\ OpenRotation(other)' => o = other
    BY <1>1 DEF SInv
  <1>5. \A o \in Rotations : PassHolds(o)'
    BY <1>1 DEF SInv, PassHolds, PlaceHolds
  <1>6. ASSUME NEW o \in Rotations PROVE RowHolds(o)'
    <2>0. o \in Keys /\ RowHolds(o)
      BY DEF Keys, SInv
    <2>1. ASSUME row[o].status = "none"
          PROVE  row'[o] = NoRotation /\ key'[o].life = "absent"
      <3>1. row[o] = NoRotation /\ key[o].life = "absent" /\ ~OpenRotation(o)
        BY <2>0, <2>1 DEF RowHolds, OpenRotation
      <3>2. \A q \in Rotations : OpenRotation(q) => Old(q) # o
        BY <3>1 DEF SInv, RowHolds, OpenHolds
      <3>3. key'[o].life = "absent"
        BY <1>2, <2>0, <3>1, <3>2 DEF LifeStep
      <3> QED BY <3>1, <3>3
    <2>2. ASSUME row[o].status = "succeeded"
          PROVE  Old(o) \in Keys \ {o} /\ key'[Old(o)].life = "deleted" /\ key'[o].life # "absent"
      <3>1. Old(o) \in Keys \ {o} /\ key[Old(o)].life = "deleted" /\ key[o].life # "absent"
        BY <2>0, <2>2 DEF RowHolds
      <3> QED BY <1>2, <2>0, <3>1 DEF LifeStep
    <2>3. ASSUME OpenRotation(o) PROVE OpenHolds(o)'
      <3>1. OpenHolds(o)
        BY <2>0, <2>3 DEF RowHolds
      <3>2. /\ Live(o) => Live(o)'
            /\ key'[Old(o)].life # "absent" /\ key'[o].life # "deleted"
            /\ \A s \in Int : InPlace(o, s) => InPlace(o, s)'
        BY <1>2, <2>3, InPlaceStays
      <3>3. \A q \in Rotations : OpenRotation(q) => q = o
        BY <2>3 DEF SInv
      <3>4. \A k \in Keys : Live(k)' => k \in {Old(o), o}
        <4> TAKE k \in Keys
        <4> HAVE Live(k)'
        <4>1. Live(k) \/ (k \in Rotations /\ OpenRotation(k))
          BY <1>2 DEF LifeStep, Live
        <4> QED BY <3>1, <3>3, <4>1 DEF OpenHolds
      <3>5. PhaseRank(o) < 12 => Live(Old(o))'
        <4> HAVE PhaseRank(o) < 12
        <4>1. Live(Old(o)) /\ Old(o) \in Keys
          BY <3>1 DEF OpenHolds
        <4>2. PhaseRank(o) \in Int
          BY <1>2, PhaseRanked
        <4>3. key'[Old(o)].life = "live"
          BY <1>2, <3>3, <4>1, <4>2 DEF LifeStep, Live
        <4> QED BY <1>1, <4>1, <4>3 DEF Live
      <3>6. IF PhaseRank(o) < 4 THEN ~Live(o)' /\ row'[o].quota = None ELSE row'[o].quota \in Nat
        <4>1. CASE PhaseRank(o) < 4
          <5>1. PhaseRank(o) \in Int /\ ~Live(o) /\ row[o].quota = None /\ ~(PhaseRank(o) >= 12)
                /\ ~(PhaseRank(o) >= 4)
            BY <1>2, <3>1, <4>1, PhaseRanked DEF OpenHolds
          <5>2. key[o].life # "live" /\ key'[o].life # "live"
            BY <1>2, <2>0, <3>3, <5>1 DEF LifeStep, Live
          <5> QED BY <4>1, <5>1, <5>2 DEF Live
        <4>2. CASE ~(PhaseRank(o) < 4)
          BY <3>1, <4>2 DEF OpenHolds
        <4> QED BY <4>1, <4>2
      <3>7. InPlace(o, Stage(o))'
        <4>1. PhaseRank(o) \in Int /\ Stage(o) \in Int /\ PhaseRank(o) <= Stage(o)
              /\ PhaseRank(o) + 1 \in Int
          BY <1>2, PhaseRanked
        <4>2. InPlace(o, Stage(o)) /\ InPlace(o, PhaseRank(o))
          BY <3>1, <4>1, InPlaceBefore DEF OpenHolds
        <4>4. CASE pass'[o] = pass[o]
          <5>1. Stage(o)' = Stage(o)
            BY <1>1, <4>4 DEF Stage
          <5>2. PICK s \in Int : s = Stage(o)
            BY <4>1
          <5>3. InPlace(o, s)' /\ Stage(o)' = s
            BY <3>2, <4>2, <5>1, <5>2
          <5> QED BY <5>3 DEF InPlace
        <4>5. CASE pass'[o].pc = "advance" /\ pass'[o] # pass[o]
          <5>1. InPlace(o, PhaseRank(o) + 1)'
            BY <2>3, <4>5
          <5>2. Stage(o)' = PhaseRank(o)' + 1
            BY <4>5 DEF Stage
          <5> QED BY <5>1, <5>2 DEF InPlace
        <4>6. CASE pass'[o].pc # "advance"
          <5>1. Stage(o)' = PhaseRank(o)
            BY <1>1, <4>6 DEF Stage
          <5>2. PICK s \in Int : s = PhaseRank(o)
            BY <4>1
          <5>3. InPlace(o, s)' /\ Stage(o)' = s
            BY <3>2, <4>2, <5>1, <5>2
          <5> QED BY <5>3 DEF InPlace
        <4> QED BY <4>4, <4>5, <4>6
      <3> QED BY <1>1, <3>1, <3>2, <3>4, <3>5, <3>6, <3>7 DEF OpenHolds, runtime
    <2> QED BY <1>1, <2>1, <2>2, <2>3 DEF RowHolds
  <1>7. \A f \in flight' : FlightHolds(f)'
    <2>1. \A f : FlightHolds(f) => FlightHolds(f)'
      BY <1>1 DEF FlightHolds
    <2> QED BY <2>1 DEF SInv
  <1> QED BY <1>3, <1>4, <1>5, <1>6, <1>7 DEF SInv

\* The forms of pass' in the actions.
LEMMA PassForms ==
  ASSUME SInv, NEW o \in Rotations
  PROVE  /\ pass[o] \in Passes
         /\ End(o) => pass' = [pass EXCEPT ![o] = NoPass]
         /\ \A pc : Goto(o, pc) => pass' = [pass EXCEPT ![o] = [pass[o] EXCEPT !.pc = pc]]
  BY DEF SInv, Types, End, Goto

LEMMA NoPassType == NoPass \in Passes /\ NoPass.pc = "idle"
  BY DEF NoPass, Passes, Places

\* A step of one pass, which may call Sub2API.
LEMMA PassKeyStep ==
  ASSUME SInv, NEW o \in Rotations, NEW w \in Passes, pass' = [pass EXCEPT ![o] = w],
         PlaceHolds(o, w.pc), w.pc = "capture" => w.quota \in Nat,
         OpenRotation(o) /\ w.pc = "advance" => InPlace(o, PhaseRank(o) + 1)',
         UNCHANGED <<row, budget, wsKey, runtime, receipts, update, uses, disturbed>>,
         KeysGo, late' \in Nat, \A f \in flight' : f \in flight \/ FlightHolds(f)
  PROVE  SInv'
  <1>1. /\ pass' \in [Rotations -> Passes] /\ pass'[o] = w
        /\ \A q \in Rotations \ {o} : pass'[q] = pass[q]
    BY DEF SInv, Types
  <1>2. Types'
    BY <1>1 DEF SInv, Types, TypeOK, KeysGo, KeyRecords, runtime
  <1>3. \A q \in Rotations : pass'[q] = pass[q] \/ PassHolds(q)'
    <2>1. PassHolds(o)'
      BY <1>1 DEF PassHolds, PlaceHolds, OpenRotation
    <2> QED BY <1>1, <2>1
  <1>4. \A q \in Rotations : OpenRotation(q) /\ pass'[q].pc = "advance" =>
            pass'[q] = pass[q] \/ InPlace(q, PhaseRank(q) + 1)'
    BY <1>1
  <1>5. /\ \A b \in Budgets : budget[b].status # "none" => budget'[b].status # "none"
        /\ \A b \in Budgets : UpdateHolds(b)'
    BY DEF SInv, UpdateHolds, OpenBudget
  <1> QED BY <1>2, <1>3, <1>4, <1>5, KeyStep

\* A step of one pass that calls nobody.
LEMMA PassStep ==
  ASSUME SInv, NEW o \in Rotations, NEW w \in Passes, pass' = [pass EXCEPT ![o] = w],
         PlaceHolds(o, w.pc), w.pc = "capture" => w.quota \in Nat,
         OpenRotation(o) /\ w.pc = "advance" => InPlace(o, PhaseRank(o) + 1),
         UNCHANGED <<row, budget, key, wsKey, runtime, receipts, update, flight, history>>
  PROVE  SInv'
  <1>1. KeysGo
    BY KeysStay DEF SInv, Types, TypeOK, KeyRecords
  <1>2. late' \in Nat /\ \A f \in flight' : f \in flight \/ FlightHolds(f)
    BY DEF SInv, Types, history
  <1>3. InPlace(o, PhaseRank(o) + 1) => InPlace(o, PhaseRank(o) + 1)'
    BY DEF InPlace, PhaseRank, Live, Old, runtime
  <1> QED BY <1>1, <1>2, <1>3, PassKeyStep DEF history

LEMMA GotoStep ==
  ASSUME SInv, NEW o \in Rotations, NEW pc \in Places \ {"capture"}, Goto(o, pc),
         PlaceHolds(o, pc),
         OpenRotation(o) /\ pc = "advance" => InPlace(o, PhaseRank(o) + 1),
         UNCHANGED <<row, budget, key, wsKey, runtime, receipts, update, flight, history>>
  PROVE  SInv'
  <1>1. pass[o] \in Passes /\ pass' = [pass EXCEPT ![o] = [pass[o] EXCEPT !.pc = pc]]
    BY PassForms
  <1> DEFINE w == [pass[o] EXCEPT !.pc = pc]
  <1>2. w \in Passes /\ w.pc = pc
    BY <1>1 DEF Passes
  <1> HIDE DEF w
  <1>3. pass' = [pass EXCEPT ![o] = w]
    BY <1>1 DEF w
  <1>4. PICK v \in Passes : v = w
    BY <1>2
  <1> QED BY <1>2, <1>3, <1>4, PassStep

LEMMA EndStep ==
  ASSUME SInv, NEW o \in Rotations, End(o),
         UNCHANGED <<row, budget, key, wsKey, runtime, receipts, update, flight, history>>
  PROVE  SInv'
  <1>1. PlaceHolds(o, "idle")
    BY DEF PlaceHolds
  <1> QED BY <1>1, NoPassType, PassStep DEF End

\* What the next phase needs, given what this one has.
LEMMA NextInPlace ==
  ASSUME SInv, NEW o \in Rotations, OpenRotation(o),
         PhaseRank(o) = 4 => Live(o), PhaseRank(o) = 6 => secret = o,
         PhaseRank(o) = 7 => bound = o, PhaseRank(o) = 9 => wsKey = o,
         PhaseRank(o) = 12 => ~Live(Old(o)), PhaseRank(o) = 13 => o \in receipts
  PROVE  InPlace(o, PhaseRank(o) + 1)
  <1>1. OpenHolds(o) /\ Types
    BY DEF SInv, RowHolds
  <1>2. PhaseRank(o) \in Int /\ Stage(o) \in Int /\ PhaseRank(o) <= Stage(o)
    BY <1>1, PhaseRanked
  <1>3. InPlace(o, PhaseRank(o))
    BY <1>1, <1>2, InPlaceBefore DEF OpenHolds
  <1> QED BY <1>2, <1>3 DEF InPlace

\* A read of the owners by the pass of an open rotation: its answer lets it go on ...
LEMMA ReadGood ==
  ASSUME SInv, NEW o \in Rotations, pass[o].pc \notin {"idle", "enter", "claim"},
         Goto(o, "advance"), row[o].phase \notin {"old_key_drain", "complete"},
         PhaseRank(o) = 4 => Live(o), PhaseRank(o) = 7 => bound = o, PhaseRank(o) \notin {6, 9, 13},
         PhaseRank(o) = 12 => ~Live(Old(o)),
         UNCHANGED <<row, budget, key, wsKey, runtime, receipts, update, flight, history>>
  PROVE  SInv'
  <1>1. OpenRotation(o)
    BY DEF SInv, PassHolds, PlaceHolds
  <1>2. "advance" \in Places \ {"capture"}
    BY DEF Places
  <1>3. PlaceHolds(o, "advance")
    BY <1>1 DEF PlaceHolds
  <1>4. InPlace(o, PhaseRank(o) + 1)
    BY <1>1, NextInPlace
  <1> QED BY <1>2, <1>3, <1>4, GotoStep

\* ... or is a conflict.
LEMMA ReadBad ==
  ASSUME SInv, NEW o \in Rotations, pass[o].pc \notin {"idle", "enter", "claim"},
         Goto(o, "park"),
         UNCHANGED <<row, budget, key, wsKey, runtime, receipts, update, flight, history>>
  PROVE  SInv'
  <1>1. OpenRotation(o)
    BY DEF SInv, PassHolds, PlaceHolds
  <1>2. "park" \in Places \ {"capture"}
    BY DEF Places
  <1>3. PlaceHolds(o, "park")
    BY <1>1 DEF PlaceHolds
  <1> QED BY <1>2, <1>3, GotoStep

\* A pass at a phase belongs to the open rotation.
LEMMA AtPhase ==
  ASSUME SInv, NEW o \in Rotations, NEW phase, At(o, phase)
  PROVE  /\ pass[o].pc = "run" /\ pass[o].pc \notin {"idle", "enter", "claim"}
         /\ OpenRotation(o) /\ row[o].phase = phase /\ PhaseRank(o) = RankOf(phase)
  BY DEF SInv, PassHolds, PlaceHolds, At, PhaseRank

-----------------------------------------------------------------------------
(* The steps of a pass                                                      *)

LEMMA EntrySteps ==
  ASSUME SInv, NEW o \in Rotations, Request(o) \/ Resume(o) \/ Admit(o) \/ Abort(o)
  PROVE  SInv'
  <1>1. CASE Request(o)
    <2> DEFINE w == [pc |-> "enter", old |-> wsKey, quota |-> None]
    <2>1. w \in Passes /\ w.pc = "enter"
      BY DEF Passes, Places, SInv, Types, TypeOK
    <2>2. PICK v \in Passes : v = w
      BY <2>1
    <2>3. v.pc = "enter" /\ pass' = [pass EXCEPT ![o] = v]
      BY <1>1, <2>2 DEF Request
    <2>4. PlaceHolds(o, v.pc)
      BY <2>3 DEF PlaceHolds
    <2> QED BY <1>1, <2>3, <2>4, PassStep DEF Request
  <1>2. CASE Resume(o)
    <2>1. PlaceHolds(o, "run") /\ "run" \in Places \ {"capture"}
      BY <1>2 DEF Resume, PlaceHolds, Places
    <2> QED BY <1>2, <2>1, GotoStep DEF Resume
  <1>3. CASE Admit(o)
    <2>1. PlaceHolds(o, "claim") /\ "claim" \in Places \ {"capture"}
      BY <1>3 DEF Admit, PlaceHolds, Places
    <2>2. CASE ClaimAdmitted(o)
      <3>1. Goto(o, "claim")
        BY <1>3, <2>2 DEF Admit
      <3> QED BY <1>3, <2>1, <3>1, GotoStep DEF Admit
    <2>3. CASE ~ClaimAdmitted(o)
      BY <1>3, <2>3, EndStep DEF Admit
    <2> QED BY <2>2, <2>3
  <1>4. CASE Abort(o)
    BY <1>4, EndStep DEF Abort
  <1> QED BY <1>1, <1>2, <1>3, <1>4

\* The reads before the replacement is in use.
LEMMA EarlyReads ==
  ASSUME SInv, NEW o \in Rotations,
         ReplacementCheck(o) \/ OldKeyDisabled(o) \/ ReplacementLookup(o)
         \/ ReplacementCreated(o) \/ ReplacementPolicyReadback(o) \/ RuntimeBound(o)
         \/ RuntimeReadback(o)
  PROVE  SInv'
  <1>1. CASE ReplacementCheck(o)
    <2>1. /\ pass[o].pc \notin {"idle", "enter", "claim"} /\ row[o].phase = "replacement_check"
          /\ PhaseRank(o) = 1
      BY <1>1, AtPhase, Ranks DEF ReplacementCheck
    <2>2. Goto(o, "advance") \/ Goto(o, "park")
      BY <1>1 DEF ReplacementCheck, Read
    <2> QED BY <1>1, <2>1, <2>2, ReadGood, ReadBad DEF ReplacementCheck, Read
  <1>2. CASE OldKeyDisabled(o)
    <2>1. /\ pass[o].pc \notin {"idle", "enter", "claim"} /\ row[o].phase = "old_key_disable"
          /\ PhaseRank(o) = 2
      BY <1>2, Ranks DEF OldKeyDisabled, SInv, PassHolds, PlaceHolds, PhaseRank
    <2>2. Goto(o, "advance") \/ Goto(o, "park")
      BY <1>2 DEF OldKeyDisabled, Read
    <2> QED BY <1>2, <2>1, <2>2, ReadGood, ReadBad DEF OldKeyDisabled, Read
  <1>3. CASE ReplacementLookup(o)
    <2>1. /\ pass[o].pc \notin {"idle", "enter", "claim"} /\ row[o].phase = "replacement_create"
          /\ PhaseRank(o) = 4 /\ OpenRotation(o)
      BY <1>3, AtPhase, Ranks DEF ReplacementLookup
    <2>2. CASE ReplacementFound(o)
      <3>1. Live(o)
        BY <2>2 DEF ReplacementFound
      <3>2. Goto(o, "advance") \/ Goto(o, "park")
        BY <1>3, <2>2 DEF ReplacementLookup
      <3> QED BY <1>3, <2>1, <3>1, <3>2, ReadGood, ReadBad DEF ReplacementLookup
    <2>3. CASE ~ReplacementFound(o)
      <3>1. Goto(o, "create") \/ Goto(o, "mark")
        BY <1>3, <2>3 DEF ReplacementLookup
      <3>2. /\ PlaceHolds(o, "create") /\ "create" \in Places \ {"capture"}
            /\ PlaceHolds(o, "mark") /\ "mark" \in Places \ {"capture"}
        BY <2>1 DEF PlaceHolds, Places
      <3> QED BY <1>3, <3>1, <3>2, GotoStep DEF ReplacementLookup
    <2> QED BY <2>2, <2>3
  <1>4. CASE ReplacementCreated(o) \/ ReplacementPolicyReadback(o)
    <2>1. /\ pass[o].pc \notin {"idle", "enter", "claim"}
          /\ row[o].phase \in {"replacement_create", "replacement_policy_readback"}
          /\ PhaseRank(o) \in {4, 5}
      BY <1>4, AtPhase, Ranks DEF ReplacementCreated, ReplacementPolicyReadback, SInv,
         PassHolds, PlaceHolds, PhaseRank
    <2>2. Read(o, workspaceRotationReplacementPolicyMatches(o))
      BY <1>4 DEF ReplacementCreated, ReplacementPolicyReadback
    <2>3. CASE workspaceRotationReplacementPolicyMatches(o)
      <3>1. Live(o) /\ Goto(o, "advance")
        BY <2>2, <2>3 DEF Read, workspaceRotationReplacementPolicyMatches,
           workspaceRotationReplacementStaticPolicyMatches
      <3> QED BY <2>1, <2>2, <3>1, ReadGood DEF Read
    <2>4. CASE ~workspaceRotationReplacementPolicyMatches(o)
      <3>1. Goto(o, "park")
        BY <2>2, <2>4 DEF Read
      <3> QED BY <2>1, <2>2, <3>1, ReadBad DEF Read
    <2> QED BY <2>3, <2>4
  <1>5. CASE RuntimeReadback(o)
    <2>1. /\ pass[o].pc \notin {"idle", "enter", "claim"} /\ row[o].phase = "runtime_readback"
          /\ PhaseRank(o) = 8
      BY <1>5, AtPhase, Ranks DEF RuntimeReadback
    <2>2. Goto(o, "advance") \/ Goto(o, "park")
      BY <1>5 DEF RuntimeReadback, Read
    <2> QED BY <1>5, <2>1, <2>2, ReadGood, ReadBad DEF RuntimeReadback, Read
  <1>6. CASE RuntimeBound(o)
    <2>1. /\ pass[o].pc \notin {"idle", "enter", "claim"} /\ row[o].phase = "runtime_bind"
          /\ PhaseRank(o) = 7
      BY <1>6, Ranks DEF RuntimeBound, SInv, PassHolds, PlaceHolds, PhaseRank
    <2>2. (bound = o /\ Goto(o, "advance")) \/ Goto(o, "park")
      BY <1>6 DEF RuntimeBound, Read
    <2> QED BY <1>6, <2>1, <2>2, ReadGood, ReadBad DEF RuntimeBound, Read
  <1> QED BY <1>1, <1>2, <1>3, <1>4, <1>5, <1>6

\* The old key is drained, and its budget read.
LEMMA DrainSteps ==
  ASSUME SInv, NEW o \in Rotations, OldKeyDrain(o)
  PROVE  SInv'
  <1>1. /\ pass[o].pc \notin {"idle", "enter", "claim"} /\ row[o].phase = "old_key_drain"
        /\ OpenRotation(o)
    BY AtPhase DEF OldKeyDrain
  <1>2. CASE Goto(o, "park")
    BY <1>1, <1>2, ReadBad DEF OldKeyDrain
  <1>3. CASE End(o)
    BY <1>3, EndStep DEF OldKeyDrain
  <1>4. CASE /\ workspaceRotationBudgetTransferable(Old(o))
             /\ pass' = [pass EXCEPT ![o].pc = "capture", ![o].quota = Remaining(Old(o))]
    <2>1. Remaining(Old(o)) \in Nat
      <3>1. Old(o) \in Keys
        BY <1>1 DEF SInv, RowHolds, OpenHolds
      <3>2. key[Old(o)].quota \in Nat /\ key[Old(o)].used \in Nat
        BY <3>1 DEF SInv, Types, TypeOK
      <3> QED BY <1>4, <3>2 DEF workspaceRotationBudgetTransferable, Exhausted, Remaining
    <2>2. PICK n \in Nat : n = Remaining(Old(o))
      BY <2>1
    <2> DEFINE w == [pass[o] EXCEPT !.pc = "capture", !.quota = n]
    <2>3. pass[o] \in Passes
      BY PassForms
    <2>4. w \in Passes /\ w.pc = "capture" /\ w.quota \in Nat
      BY <2>3 DEF Passes, Places
    <2>5. pass' = [pass EXCEPT ![o] = w]
      BY <1>4, <2>2, <2>3 DEF SInv, Types, Passes
    <2> HIDE DEF w
    <2>6. PlaceHolds(o, w.pc)
      BY <1>1, <2>4 DEF PlaceHolds
    <2>7. PICK v \in Passes : v = w
      BY <2>4
    <2> QED BY <2>4, <2>5, <2>6, <2>7, PassStep DEF OldKeyDrain
  <1> QED BY <1>2, <1>3, <1>4 DEF OldKeyDrain

\* A call of a pass: answered, unanswered, lost or late.
LEMMA CallStep ==
  ASSUME SInv, NEW o \in Rotations, NEW call, NEW then \in Places \ {"capture", "advance"},
         Call(o, call, then), MayCall(call, o), PlaceHolds(o, then)
  PROVE  SInv'
  <1>1. late \in Nat /\ key \in [Keys -> KeyRecords]
    BY DEF SInv, Types, TypeOK, KeyRecords
  <1>2. KeysGo
    <2>1. CASE key' = KeyEffect(call, o)
      BY <2>1, CallEffect
    <2>2. CASE key' = key
      BY <1>1, <2>2, KeysStay
    <2> QED BY <2>1, <2>2 DEF Call, Giveup
  <1>3. FlightHolds(<<call, o>>)
    BY DEF MayCall, FlightHolds
  <1>4. late' \in Nat /\ \A f \in flight' : f \in flight \/ FlightHolds(f)
    BY <1>1, <1>3 DEF Call, Giveup
  <1>5. PICK w \in Passes : pass' = [pass EXCEPT ![o] = w] /\ w.pc \in {then, "idle"}
    <2>1. CASE End(o)
      BY <2>1, NoPassType DEF End
    <2>2. CASE Goto(o, then)
      <3>1. pass[o] \in Passes /\ pass' = [pass EXCEPT ![o] = [pass[o] EXCEPT !.pc = then]]
        BY <2>2, PassForms
      <3> DEFINE w == [pass[o] EXCEPT !.pc = then]
      <3>2. w \in Passes /\ w.pc = then
        BY <3>1 DEF Passes
      <3> QED BY <3>1, <3>2
    <2> QED BY <2>1, <2>2 DEF Call, Giveup
  <1>6. PlaceHolds(o, w.pc) /\ w.pc \notin {"capture", "advance"}
    BY <1>5 DEF PlaceHolds
  <1> QED BY <1>2, <1>4, <1>5, <1>6, PassKeyStep DEF Call

LEMMA OldKeyDisableStep ==
  ASSUME SInv, NEW o \in Rotations, OldKeyDisable(o)
  PROVE  SInv'
  <1>1. /\ pass[o].pc \notin {"idle", "enter", "claim"} /\ row[o].phase = "old_key_disable"
        /\ PhaseRank(o) = 2 /\ OpenRotation(o)
    BY AtPhase, Ranks DEF OldKeyDisable
  <1>2. CASE Call(o, "disable", "read_disabled")
    <2>1. /\ MayCall("disable", o) /\ PlaceHolds(o, "read_disabled")
          /\ "read_disabled" \in Places \ {"capture", "advance"}
      BY <1>1 DEF MayCall, RotationCalls, PlaceHolds, Places, OpenRotation
    <2> QED BY <1>2, <2>1, CallStep
  <1>3. CASE Read(o, workspaceRotationOldKeyMatches(Old(o), "disabled"))
    <2>1. Goto(o, "advance") \/ Goto(o, "park")
      BY <1>3 DEF Read
    <2> QED BY <1>1, <1>3, <2>1, ReadGood, ReadBad DEF Read
  <1> QED BY <1>2, <1>3 DEF OldKeyDisable

LEMMA CreateStep ==
  ASSUME SInv, NEW o \in Rotations, CreateReplacement(o)
  PROVE  SInv'
  <1>1. row[o].phase = "replacement_create" /\ PhaseRank(o) = 4 /\ OpenRotation(o)
    BY Ranks DEF CreateReplacement, SInv, PassHolds, PlaceHolds, PhaseRank
  <1>2. /\ MayCall("create", o) /\ PlaceHolds(o, "created")
        /\ "created" \in Places \ {"capture", "advance"}
    BY <1>1 DEF MayCall, RotationCalls, PlaceHolds, Places, OpenRotation
  <1> QED BY <1>2, CallStep DEF CreateReplacement

\* The old key is retired and the replacement promoted.
LEMMA RetireSteps ==
  ASSUME SInv, NEW o \in Rotations,
         RetireOld(o) \/ OldRetired(o) \/ PromoteNew(o) \/ NewPromoted(o)
  PROVE  SInv'
  <1>1. /\ pass[o].pc \notin {"idle", "enter", "claim"} /\ OpenRotation(o)
        /\ row[o].phase \in {"retire_old", "promote_new"} /\ PhaseRank(o) \in {10, 11}
    <2>1. CASE RetireOld(o)
      BY <2>1, AtPhase, Ranks DEF RetireOld
    <2>2. CASE PromoteNew(o)
      BY <2>2, AtPhase, Ranks DEF PromoteNew
    <2>3. CASE OldRetired(o) \/ NewPromoted(o)
      BY <2>3, Ranks DEF OldRetired, NewPromoted, SInv, PassHolds, PlaceHolds, PhaseRank
    <2> QED BY <2>1, <2>2, <2>3
  <1>2. CASE RetireOld(o) /\ Call(o, "retire", "read_retired")
    <2>1. row[o].phase = "retire_old"
      BY <1>2, AtPhase DEF RetireOld
    <2>2. /\ MayCall("retire", o) /\ PlaceHolds(o, "read_retired")
          /\ "read_retired" \in Places \ {"capture", "advance"}
      BY <1>1, <2>1 DEF MayCall, RotationCalls, PlaceHolds, Places, OpenRotation
    <2> QED BY <1>2, <2>2, CallStep
  <1>3. CASE PromoteNew(o) /\ Call(o, "promote", "read_promoted")
    <2>1. row[o].phase = "promote_new"
      BY <1>3, AtPhase DEF PromoteNew
    <2>2. /\ MayCall("promote", o) /\ PlaceHolds(o, "read_promoted")
          /\ "read_promoted" \in Places \ {"capture", "advance"}
      BY <1>1, <2>1 DEF MayCall, RotationCalls, PlaceHolds, Places, OpenRotation
    <2> QED BY <1>3, <2>2, CallStep
  <1>4. CASE \E good \in BOOLEAN : Read(o, good)
    <2>1. Goto(o, "advance") \/ Goto(o, "park")
      BY <1>4 DEF Read
    <2> QED BY <1>1, <1>4, <2>1, ReadGood, ReadBad DEF Read
  <1>5. Retired(o) \in BOOLEAN /\ Promoted(o) \in BOOLEAN
    BY DEF Retired, Promoted
  <1> QED BY <1>2, <1>3, <1>4, <1>5 DEF RetireOld, OldRetired, PromoteNew, NewPromoted

\* The old key is deleted once nobody uses it.
LEMMA DeleteSteps ==
  ASSUME SInv, NEW o \in Rotations, DeleteOld(o) \/ OldDeleted(o)
  PROVE  SInv'
  <1>1. /\ pass[o].pc \notin {"idle", "enter", "claim"} /\ OpenRotation(o)
        /\ row[o].phase = "delete_old" /\ PhaseRank(o) = 12
    <2>1. CASE DeleteOld(o)
      BY <2>1, AtPhase, Ranks DEF DeleteOld
    <2>2. CASE OldDeleted(o)
      BY <2>2, Ranks DEF OldDeleted, SInv, PassHolds, PlaceHolds, PhaseRank
    <2> QED BY <2>1, <2>2
  <1>2. CASE DeleteOld(o) /\ ~Live(Old(o))
    BY <1>1, <1>2, ReadGood DEF DeleteOld, Read
  <1>3. CASE DeleteOld(o) /\ Call(o, "delete", "read_deleted")
    <2>2. /\ MayCall("delete", o) /\ PlaceHolds(o, "read_deleted")
          /\ "read_deleted" \in Places \ {"capture", "advance"}
      BY <1>1 DEF MayCall, RotationCalls, PlaceHolds, Places, OpenRotation
    <2> QED BY <1>3, <2>2, CallStep
  <1>4. CASE DeleteOld(o) /\ Read(o, FALSE)
    BY <1>1, <1>4, ReadBad DEF Read
  <1>5. CASE OldDeleted(o)
    <2>1. CASE Live(Old(o))
      BY <1>5, <2>1, EndStep DEF OldDeleted
    <2>2. CASE ~Live(Old(o))
      BY <1>1, <1>5, <2>2, ReadGood DEF OldDeleted
    <2> QED BY <2>1, <2>2
  <1> QED BY <1>2, <1>3, <1>4, <1>5 DEF DeleteOld

-----------------------------------------------------------------------------
(* The owners and the budget updates                                        *)

\* A step that leaves every pass as it is.
LEMMA OwnerStep ==
  ASSUME SInv, UNCHANGED <<row, wsKey, runtime, receipts, pass>>, KeysGo,
         update' \in [Budgets -> {"idle", "patch", "answered", "unanswered"}],
         uses' \in Nat, late' \in Nat, disturbed' \subseteq AllRequests \X Keys,
         \A f \in flight' : f \in flight \/ FlightHolds(f),
         budget' \in [Budgets -> [status : {"none", "started", "manual_review", "succeeded"},
                                  key : Keys \cup {None}, request : AllRequests]],
         \A b \in Budgets : budget[b].status # "none" => budget'[b].status # "none",
         \A b \in Budgets : UpdateHolds(b)'
  PROVE  SInv'
  <1>1. Types'
    BY DEF SInv, Types, TypeOK, KeysGo, KeyRecords, runtime
  <1> QED BY <1>1, KeyStep

\* What a call does that arrives after its caller gave up.
LEMMA DeliverKeys ==
  ASSUME SInv, NEW call, NEW o \in Rotations \cup Budgets, Deliver(call, o)
  PROVE  KeysGo
  <1>1. FlightHolds(<<call, o>>) /\ key \in [Keys -> KeyRecords]
    BY DEF SInv, Types, TypeOK, KeyRecords, Deliver
  <1>2. CASE o \in Budgets
    <2>1. call \in AllRequests /\ budget[o].status # "none"
      BY <1>1, <1>2, ConstantsAssumption DEF FlightHolds
    <2>2. budget[o].key \in Keys
      BY <1>2, <2>1 DEF SInv, UpdateHolds
    <2>3. PICK k \in Keys, request \in AllRequests : k = budget[o].key /\ request = call
      BY <2>1, <2>2
    <2>4. key' = Patched(o, request)
      BY <1>2, <2>3 DEF Deliver
    <2> QED BY <1>1, <1>2, <2>3, <2>4, PatchEffect, KeysStay
  <1>3. CASE o \in Rotations
    <2>1. o \notin Budgets
      BY <1>3, ConstantsAssumption
    <2>2. MayCall(call, o)
      BY <1>1, <1>3, <2>1 DEF FlightHolds, MayCall
    <2>3. key' = KeyEffect(call, o)
      BY <2>1 DEF Deliver
    <2> QED BY <1>3, <2>2, <2>3, CallEffect
  <1> QED BY <1>2, <1>3

LEMMA DeliverStep ==
  ASSUME SInv, NEW call, NEW o \in Rotations \cup Budgets, Deliver(call, o)
  PROVE  SInv'
  <1>1. KeysGo
    BY DeliverKeys
  <1>2. /\ UNCHANGED <<row, budget, wsKey, runtime, receipts, pass, update, uses, late>>
        /\ flight' \subseteq flight
    BY DEF Deliver
  <1>3. \A b \in Budgets : UpdateHolds(b)'
    BY <1>2 DEF SInv, UpdateHolds, OpenBudget
  <1>4. disturbed' \subseteq AllRequests \X Keys
    <2>1. disturbed \subseteq AllRequests \X Keys /\ FlightHolds(<<call, o>>)
      BY DEF SInv, Types, TypeOK, Deliver
    <2>2. CASE o \in Budgets
      <3>1. call \in AllRequests /\ budget[o].status # "none"
        BY <2>1, <2>2, ConstantsAssumption DEF FlightHolds
      <3>2. budget[o].key \in Keys
        BY <2>2, <3>1 DEF SInv, UpdateHolds
      <3>3. Disturbed(call, o) \subseteq AllRequests \X Keys
        BY <3>1, <3>2 DEF Disturbed
      <3> QED BY <2>1, <2>2, <3>3 DEF Deliver
    <2>3. CASE o \notin Budgets
      BY <2>1, <2>3 DEF Deliver
    <2> QED BY <2>2, <2>3
  <1> QED BY <1>1, <1>2, <1>3, <1>4, OwnerStep DEF SInv, Types, TypeOK

\* Gateway requests neither make nor remove a key.
LEMMA UseKeys ==
  ASSUME SInv, Use \/ \E k \in Keys : Used(k)
  PROVE  /\ key' \in [Keys -> KeyRecords]
         /\ \A k \in Keys : /\ key'[k].life = key[k].life /\ key'[k].name = key[k].name
                            /\ key'[k].enabled = key[k].enabled
                            /\ key'[k].quota = key[k].quota
                            /\ key[k].busy = 0 /\ ~(key[k].enabled /\ Live(k)) =>
                                   key'[k] = key[k]
  <1>1. key \in [Keys -> KeyRecords] /\ mounted \in Keys
    BY DEF SInv, Types, TypeOK, KeyRecords
  <1>2. CASE Use
    <2>1. PICK x \in KeyRecords : x = key[mounted]
      BY <1>1
    <2> DEFINE r == [x EXCEPT !.busy = 1]
    <2>2. /\ r \in KeyRecords /\ r.life = x.life /\ r.name = x.name /\ r.enabled = x.enabled
          /\ r.quota = x.quota
      BY DEF KeyRecords
    <2>3. key' = [key EXCEPT ![mounted] = r]
      BY <1>2, <2>1 DEF Use
    <2>4. key[mounted].enabled /\ Live(mounted)
      BY <1>2 DEF Use, Status
    <2> HIDE DEF r
    <2>5. /\ key' \in [Keys -> KeyRecords] /\ key'[mounted] = r
          /\ \A k \in Keys \ {mounted} : key'[k] = key[k]
      BY <1>1, <2>2, <2>3, KeyChange
    <2> QED BY <2>1, <2>2, <2>4, <2>5
  <1>3. CASE \E k \in Keys : Used(k)
    <2>1. PICK k \in Keys : Used(k)
      BY <1>3
    <2>2. PICK x \in KeyRecords : x = key[k]
      BY <1>1
    <2>7. PICK n \in Nat : n = x.used + 1
      BY DEF KeyRecords
    <2> DEFINE y == [x EXCEPT !.busy = 0]
    <2>9. /\ y \in KeyRecords
          /\ y.life = x.life /\ y.name = x.name /\ y.enabled = x.enabled /\ y.quota = x.quota
      BY DEF KeyRecords
    <2> HIDE DEF y
    <2> DEFINE r == [y EXCEPT !.used = n]
    <2>10. /\ r \in KeyRecords /\ r.life = y.life /\ r.name = y.name /\ r.enabled = y.enabled
           /\ r.quota = y.quota
      BY <2>9 DEF KeyRecords
    <2>3. /\ r \in KeyRecords /\ r.life = x.life /\ r.name = x.name /\ r.enabled = x.enabled
          /\ r.quota = x.quota
      BY <2>9, <2>10
    <2>4. key' = [key EXCEPT ![k] = r]
      <3>1. key' = [key EXCEPT ![k].busy = 0, ![k].used = @ + 1]
        BY <2>1 DEF Used
      <3> QED BY <1>1, <2>2, <2>7, <3>1 DEF KeyRecords, y
    <2>5. key[k].busy # 0
      BY <2>1 DEF Used
    <2> HIDE DEF r
    <2>6. /\ key' \in [Keys -> KeyRecords] /\ key'[k] = r
          /\ \A other \in Keys \ {k} : key'[other] = key[other]
      BY <1>1, <2>3, <2>4, KeyChange
    <2> QED BY <2>2, <2>3, <2>5, <2>6
  <1> QED BY <1>2, <1>3

LEMMA UseStep ==
  ASSUME SInv, Use \/ \E k \in Keys : Used(k)
  PROVE  SInv'
  <1>1. KeysGo
    BY UseKeys, KeysStay
  <1>2. UNCHANGED <<row, budget, wsKey, runtime, receipts, pass, update, flight, late, disturbed>>
    BY DEF Use, Used, history
  <1>3. uses' \in Nat
    <2>1. uses' = uses \/ uses' = uses + 1
      BY DEF Use, Used, history
    <2> QED BY <2>1 DEF SInv, Types
  <1>4. \A b \in Budgets : UpdateHolds(b)'
    BY <1>2 DEF SInv, UpdateHolds, OpenBudget
  <1> QED BY <1>1, <1>2, <1>3, <1>4, OwnerStep DEF SInv, Types, TypeOK

\* The budget updates.
LEMMA BudgetSteps ==
  ASSUME SInv, NEW b \in Budgets, BudgetStep(b)
  PROVE  SInv'
  <1> DEFINE Updates == {"idle", "patch", "answered", "unanswered"}
             Rows == [status : {"none", "started", "manual_review", "succeeded"},
                      key : Keys \cup {None}, request : AllRequests]
  <1>1. /\ key \in [Keys -> KeyRecords] /\ wsKey \in Keys
        /\ update \in [Budgets -> Updates] /\ budget \in [Budgets -> Rows]
        /\ late \in Nat /\ uses \in Nat /\ disturbed \subseteq AllRequests \X Keys
    BY DEF SInv, Types, TypeOK, KeyRecords
  <1>2. key' = key => KeysGo
    BY <1>1, KeysStay
  <1>3. CASE \E request \in Requests : BudgetAdmit(b, request)
    <2>1. PICK request \in Requests : BudgetAdmit(b, request)
      BY <1>3
    <2>2. request \in AllRequests
      BY ConstantsAssumption
    <2>3. /\ budget' \in [Budgets -> Rows] /\ update' \in [Budgets -> Updates]
          /\ \A c \in Budgets : budget[c].status # "none" => budget'[c].status # "none"
      BY <1>1, <2>1, <2>2 DEF BudgetAdmit
    <2>4. \A c \in Budgets : UpdateHolds(c)'
      BY <1>1, <2>1, <2>2 DEF BudgetAdmit, SInv, UpdateHolds, OpenBudget
    <2> QED BY <1>1, <1>2, <2>1, <2>3, <2>4, OwnerStep DEF BudgetAdmit, history
  <1>4. CASE BudgetPatch(b)
    <2>1. budget[b].status # "none" /\ budget[b].request \in AllRequests
      BY <1>1, <1>4 DEF BudgetPatch, SInv, UpdateHolds, OpenBudget
    <2>2. PICK k \in Keys, request \in AllRequests :
              k = budget[b].key /\ request = budget[b].request
      BY <2>1 DEF SInv, UpdateHolds
    <2>3. KeysGo
      <3>1. CASE key' = Patched(b, request)
        <4>1. /\ key' \in [Keys -> KeyRecords]
              /\ \A c \in Keys : key'[c].life = key[c].life /\ key'[c].name = key[c].name
          <5>1. key \in [Keys -> KeyRecords]
            BY <1>1
          <5> HIDE DEF Rows, Updates
          <5> QED BY <2>2, <3>1, <5>1, PatchEffect
        <4> QED BY <4>1, KeysStay
      <3> QED BY <1>2, <1>4, <2>2, <3>1 DEF BudgetPatch
    <2>4. FlightHolds(<<request, b>>)
      BY <2>1 DEF FlightHolds
    <2>5. late' \in Nat /\ \A f \in flight' : f \in flight \/ FlightHolds(f)
      BY <1>1, <1>4, <2>2, <2>4 DEF BudgetPatch
    <2>6. /\ update' \in [Budgets -> Updates]
          /\ \A c \in Budgets : update'[c] # "idle" => update[c] # "idle"
      BY <1>1, <1>4 DEF BudgetPatch
    <2>7. \A c \in Budgets : UpdateHolds(c)'
      BY <1>4, <2>6 DEF BudgetPatch, SInv, UpdateHolds, OpenBudget
    <2> QED BY <1>1, <1>4, <2>3, <2>5, <2>6, <2>7, OwnerStep DEF BudgetPatch
  <1>5. CASE BudgetRead(b) \/ BudgetUnread(b) \/ BudgetReplay(b)
    <2>1. PICK status \in {"succeeded", "manual_review"} :
              budget' = [budget EXCEPT ![b].status = status]
      BY <1>5 DEF BudgetRead, BudgetUnread, BudgetReplay
    <2>2. budget[b].status # "none"
      BY <1>5 DEF BudgetRead, BudgetUnread, BudgetReplay, SInv, UpdateHolds, OpenBudget
    <2>3. /\ budget' \in [Budgets -> Rows]
          /\ \A c \in Budgets : /\ budget[c].status # "none" => budget'[c].status # "none"
                                /\ budget'[c].key = budget[c].key
                                /\ c # b => budget'[c] = budget[c]
      BY <1>1, <2>1
    <2>4. /\ update' \in [Budgets -> Updates]
          /\ \A c \in Budgets : update'[c] # "idle" => update[c] # "idle" /\ c # b
      <3>1. CASE BudgetReplay(b)
        BY <1>1, <3>1 DEF BudgetReplay, MutationLockFree
      <3>2. CASE BudgetRead(b) \/ BudgetUnread(b)
        BY <1>1, <3>2 DEF BudgetRead, BudgetUnread
      <3> QED BY <1>5, <3>1, <3>2
    <2>5. \A c \in Budgets : UpdateHolds(c)'
      BY <2>2, <2>3, <2>4 DEF SInv, UpdateHolds, OpenBudget
    <2>6. UNCHANGED <<row, key, wsKey, runtime, receipts, pass, flight, history>>
      BY <1>5 DEF BudgetRead, BudgetUnread, BudgetReplay
    <2> QED BY <1>1, <1>2, <2>3, <2>4, <2>5, <2>6, OwnerStep DEF history
  <1>6. CASE BudgetAbort(b)
    <2>1. /\ update' \in [Budgets -> Updates]
          /\ \A c \in Budgets : update'[c] # "idle" => update[c] # "idle"
      BY <1>1, <1>6 DEF BudgetAbort
    <2>2. \A c \in Budgets : UpdateHolds(c)'
      BY <1>6, <2>1 DEF BudgetAbort, SInv, UpdateHolds, OpenBudget
    <2> QED BY <1>1, <1>2, <1>6, <2>1, <2>2, OwnerStep DEF BudgetAbort, history
  <1> QED BY <1>3, <1>4, <1>5, <1>6 DEF BudgetStep

-----------------------------------------------------------------------------
(* Writes of a rotation's row                                               *)

RotationRows == [status : {"none", "started", "manual_review", "succeeded"},
                 phase : PhaseSet, old : Keys \cup {None},
                 createStarted : BOOLEAN, quota : Nat \cup {None}]

\* The forms of row' when one field or two are written.
LEMMA RowWritten ==
  ASSUME row \in [Rotations -> RotationRows], NEW o \in Rotations, NEW r \in RotationRows
  PROVE  /\ [row EXCEPT ![o] = r] \in [Rotations -> RotationRows]
         /\ [row EXCEPT ![o] = r][o] = r
         /\ \A q \in Rotations \ {o} : [row EXCEPT ![o] = r][q] = row[q]
  OBVIOUS

\* The row of the open rotation is written by its pass, which stays open.
LEMMA RowStep ==
  ASSUME SInv, NEW o \in Rotations, OpenRotation(o), NEW r \in RotationRows,
         row' = [row EXCEPT ![o] = r], r.status \in {"started", "manual_review"},
         r.phase # "succeeded", r.old = Old(o), RankOf(r.phase) >= PhaseRank(o),
         IF RankOf(r.phase) < 4 THEN r.quota = None ELSE r.quota \in Nat,
         InPlace(o, RankOf(r.phase)),
         NEW w \in Passes, pass' = [pass EXCEPT ![o] = w],
         w.pc \in {"idle", "run"} \/ (w.pc = "create" /\ r.phase = "replacement_create"),
         UNCHANGED <<budget, key, wsKey, runtime, receipts, update, flight, history>>
  PROVE  SInv'
  <1>1. /\ row \in [Rotations -> RotationRows] /\ pass \in [Rotations -> Passes]
        /\ Types /\ OpenHolds(o)
    BY DEF SInv, Types, TypeOK, RotationRows, RowHolds
  <1>2. /\ row' \in [Rotations -> RotationRows] /\ row'[o] = r
        /\ \A q \in Rotations \ {o} : row'[q] = row[q]
    BY <1>1, RowWritten
  <1>3. /\ pass' \in [Rotations -> Passes] /\ pass'[o] = w
        /\ \A q \in Rotations \ {o} : pass'[q] = pass[q]
    BY <1>1
  <1>4. Types'
    <2>1. \A q \in Rotations : (row'[q].status = "succeeded") <=> (row'[q].phase = "succeeded")
      BY <1>1, <1>2 DEF Types, TypeOK
    <2> QED BY <1>1, <1>2, <1>3, <2>1 DEF Types, TypeOK, RotationRows, runtime, history
  <1>5. /\ OpenRotation(o)' /\ Old(o)' = Old(o) /\ PhaseRank(o)' = RankOf(r.phase)
        /\ Stage(o)' = RankOf(r.phase) /\ row'[o].quota = r.quota
        /\ \A q \in Rotations \ {o} :
               /\ OpenRotation(q)' <=> OpenRotation(q)
               /\ Old(q)' = Old(q) /\ PhaseRank(q)' = PhaseRank(q)
    BY <1>2, <1>3 DEF OpenRotation, Old, PhaseRank, Stage
  <1>6. \A k : Live(k)' <=> Live(k)
    BY DEF Live
  <1>7. \A q \in Rotations : PassHolds(q)'
    <2>1. PassHolds(o)'
      BY <1>2, <1>3, <1>5 DEF PassHolds, PlaceHolds
    <2>2. ASSUME NEW q \in Rotations \ {o} PROVE PassHolds(q)'
      BY <1>2, <1>3, <1>5 DEF SInv, PassHolds, PlaceHolds
    <2> QED BY <2>1, <2>2
  <1>8. \A q \in Rotations : OpenRotation(q)' => q = o
    BY <1>5 DEF SInv
  <1>9. RowHolds(o)'
    <2>1. PhaseRank(o) \in Int /\ RankOf(r.phase) \in Int
      <3>1. r.phase \in PhaseNames
        BY PhaseSetIs DEF RotationRows
      <3>2. RankOf(r.phase) \in Int
        BY <3>1, Ranks DEF PhaseNames
      <3> QED BY <1>1, <3>2, PhaseRanked
    <2>2. InPlace(o, Stage(o))'
      BY <1>5, <1>6 DEF InPlace, runtime
    <2>3. /\ Old(o) \in Keys \ {o} /\ key[Old(o)].life # "absent" /\ key[o].life # "deleted"
          /\ \A k \in Keys : Live(k) => k \in {Old(o), o}
          /\ {wsKey, secret, bound} \subseteq {Old(o), o}
          /\ o \in {wsKey, secret, bound} => Live(o)
      BY <1>1 DEF OpenHolds
    <2>4. /\ RankOf(r.phase) < 12 => Live(Old(o))
          /\ RankOf(r.phase) < 4 => ~Live(o)
      <3>1. PhaseRank(o) < 12 => Live(Old(o))
        BY <1>1 DEF OpenHolds
      <3>2. PhaseRank(o) < 4 => ~Live(o)
        BY <1>1 DEF OpenHolds
      <3> QED BY <2>1, <3>1, <3>2
    <2>5. OpenHolds(o)'
      BY <1>5, <1>6, <2>2, <2>3, <2>4 DEF OpenHolds, runtime
    <2> QED BY <1>2, <2>5 DEF RowHolds
  <1>10. ASSUME NEW q \in Rotations \ {o} PROVE RowHolds(q)'
    <2>1. ~OpenRotation(q)' /\ RowHolds(q)
      BY <1>8 DEF SInv
    <2> QED BY <1>2, <1>5, <2>1 DEF RowHolds
  <1>11. \A f \in flight' : FlightHolds(f)'
    <2>1. ASSUME NEW f, FlightHolds(f) PROVE FlightHolds(f)'
      <3>1. /\ \A call \in AllRequests, b \in Budgets :
                 f = <<call, b>> /\ budget[b].status # "none" => FlightHolds(f)'
        BY DEF FlightHolds
      <3>2. ASSUME NEW call \in RotationCalls, NEW q \in Rotations, f = <<call, q>>,
                   row[q].status # "none",
                   OpenRotation(q) /\ call = "create" => PhaseRank(q) >= 4,
                   OpenRotation(q) /\ call = "delete" => PhaseRank(q) >= 12
            PROVE  FlightHolds(f)'
        <4>1. PhaseRank(o) \in Int /\ RankOf(r.phase) \in Int
          <5>1. r.phase \in PhaseNames
            BY PhaseSetIs DEF RotationRows
          <5>2. RankOf(r.phase) \in Int
            BY <5>1, Ranks DEF PhaseNames
          <5> QED BY <1>1, <5>2, PhaseRanked
        <4>2. CASE q = o
          <5>1. /\ row'[o].status # "none"
                /\ OpenRotation(o)' /\ call = "create" => PhaseRank(o)' >= 4
                /\ OpenRotation(o)' /\ call = "delete" => PhaseRank(o)' >= 12
            BY <1>2, <1>5, <3>2, <4>1, <4>2
          <5> QED BY <3>2, <4>2, <5>1 DEF FlightHolds
        <4>3. CASE q # o
          BY <1>2, <1>5, <3>2, <4>3 DEF FlightHolds
        <4> QED BY <4>2, <4>3
      <3> QED BY <2>1, <3>1, <3>2 DEF FlightHolds
    <2> QED BY <2>1 DEF SInv
  <1>12. SucceededConverged'
    BY <1>5 DEF SucceededConverged
  <1>13. \A b \in Budgets : UpdateHolds(b)'
    BY DEF SInv, UpdateHolds, OpenBudget
  <1> QED BY <1>4, <1>7, <1>8, <1>9, <1>10, <1>11, <1>12, <1>13 DEF SInv

\* The rows of a pass that writes.
LEMMA WritingPass ==
  ASSUME SInv, NEW o \in Rotations,
         pass[o].pc \in {"advance", "park", "capture", "mark"} \/ At(o, "complete")
  PROVE  /\ OpenRotation(o) /\ OpenHolds(o) /\ Types
         /\ row \in [Rotations -> RotationRows] /\ row[o] \in RotationRows
         /\ row[o].phase \in PhaseSet /\ row[o].phase # "succeeded" /\ Old(o) = row[o].old
         /\ PhaseRank(o) \in 1..14 /\ PhaseRank(o) = RankOf(row[o].phase)
         /\ InPlace(o, PhaseRank(o)) /\ InPlace(o, Stage(o))
  <1>1. OpenRotation(o)
    BY DEF SInv, PassHolds, PlaceHolds, At
  <1>2. OpenHolds(o) /\ Types /\ row \in [Rotations -> RotationRows]
    BY <1>1 DEF SInv, RowHolds, Types, TypeOK, RotationRows
  <1>3. row[o].status # "succeeded" /\ row[o].phase # "succeeded" /\ row[o].phase \in PhaseSet
    BY <1>1, <1>2 DEF OpenRotation, Types, TypeOK
  <1>4. PhaseRank(o) \in 1..14
    BY <1>2, <1>3, PhaseRanked
  <1>5. PICK s \in Int, t \in Int : s = Stage(o) /\ t = PhaseRank(o) /\ t <= s
    BY <1>2, PhaseRanked
  <1>6. InPlace(o, s)
    BY <1>2, <1>5 DEF OpenHolds
  <1>7. InPlace(o, t)
    BY <1>5, <1>6, InPlaceBefore
  <1> QED BY <1>1, <1>2, <1>3, <1>4, <1>5, <1>6, <1>7 DEF Old, PhaseRank

\* The pass' that follows a write.
LEMMA PassAfter ==
  ASSUME SInv, NEW o \in Rotations, NEW pc \in Places, Goto(o, pc) \/ End(o)
  PROVE  \E w \in Passes : /\ pass' = [pass EXCEPT ![o] = w]
                           /\ (Goto(o, pc) /\ w.pc = pc) \/ (End(o) /\ w.pc = "idle")
  <1>1. CASE End(o)
    BY <1>1, NoPassType DEF End
  <1>2. CASE Goto(o, pc)
    <2>1. pass[o] \in Passes /\ pass' = [pass EXCEPT ![o] = [pass[o] EXCEPT !.pc = pc]]
      BY <1>2, PassForms
    <2> DEFINE w == [pass[o] EXCEPT !.pc = pc]
    <2>2. w \in Passes /\ w.pc = pc
      BY <2>1 DEF Passes
    <2> QED BY <1>2, <2>1, <2>2
  <1> QED BY <1>1, <1>2

LEMMA AdvanceStep ==
  ASSUME SInv, NEW o \in Rotations, Advance(o)
  PROVE  SInv'
  <1>0. pass[o].pc = "advance"
    BY DEF Advance
  <1>1. /\ OpenRotation(o) /\ OpenHolds(o) /\ Types
        /\ row \in [Rotations -> RotationRows] /\ row[o] \in RotationRows
        /\ row[o].phase \in PhaseSet /\ row[o].phase # "succeeded" /\ Old(o) = row[o].old
        /\ PhaseRank(o) \in 1..14 /\ PhaseRank(o) = RankOf(row[o].phase)
        /\ InPlace(o, PhaseRank(o)) /\ InPlace(o, Stage(o))
    BY <1>0, WritingPass
  <1>2. Stage(o) = PhaseRank(o) + 1
    BY <1>0 DEF Stage
  <1>3. PhaseRank(o) \notin {3, 14}
    <2>1. row[o].phase \notin {"old_key_drain", "complete"} /\ row[o].phase \in PhaseNames
      BY <1>0, <1>1, PhaseSetIs DEF SInv, PassHolds, PlaceHolds
    <2> QED BY <1>1, <2>1, Ranks DEF PhaseNames
  <1>4. PICK next \in PhaseSet : /\ next = Next_(row[o].phase) /\ RankOf(next) = PhaseRank(o) + 1
    BY <1>1, NextPhase
  <1>5. next # "succeeded"
    BY <1>1, <1>3, <1>4, Ranks
  <1>6. PICK x \in RotationRows : x = row[o]
    BY <1>1
  <1> DEFINE r == [x EXCEPT !.phase = next, !.status = "started"]
  <1>7. /\ r \in RotationRows /\ r.status = "started" /\ r.phase = next /\ r.old = x.old
        /\ r.quota = x.quota
    BY DEF RotationRows
  <1>8. row' = [row EXCEPT ![o] = r]
    <2>1. row' = [row EXCEPT ![o].phase = Next_(@), ![o].status = "started"]
      BY DEF Advance
    <2> QED BY <1>1, <1>4, <1>6, <2>1 DEF RotationRows
  <1> HIDE DEF r
  <1>9. PICK w \in Passes : pass' = [pass EXCEPT ![o] = w] /\ w.pc \in {"idle", "run"}
    <2>1. "run" \in Places /\ Goto(o, "run")
      BY DEF Places, Advance
    <2> QED BY <2>1, PassAfter
  <1>10. IF RankOf(r.phase) < 4 THEN r.quota = None ELSE r.quota \in Nat
    <2>1. IF PhaseRank(o) < 4 THEN row[o].quota = None ELSE row[o].quota \in Nat
      BY <1>1 DEF OpenHolds
    <2>2. RankOf(r.phase) = PhaseRank(o) + 1 /\ r.quota = row[o].quota
      BY <1>4, <1>6, <1>7
    <2>3. CASE PhaseRank(o) < 4
      BY <1>1, <1>3, <2>1, <2>2, <2>3
    <2>4. CASE ~(PhaseRank(o) < 4)
      BY <1>1, <2>1, <2>2, <2>4
    <2> QED BY <2>3, <2>4
  <1>11. RankOf(r.phase) >= PhaseRank(o) /\ InPlace(o, RankOf(r.phase))
    BY <1>1, <1>2, <1>4, <1>7
  <1>12. PICK v \in RotationRows : v = r
    BY <1>7
  <1>13. r.old = Old(o) /\ r.phase # "succeeded"
    BY <1>1, <1>5, <1>6, <1>7
  <1> QED BY <1>1, <1>7, <1>8, <1>9, <1>10, <1>11, <1>12, <1>13, RowStep DEF Advance

\* A pass writes its row without a change of phase.
LEMMA SamePhaseStep ==
  ASSUME SInv, NEW o \in Rotations, Park(o) \/ MarkCreate(o)
  PROVE  SInv'
  <1>0. pass[o].pc \in {"park", "mark"}
    BY DEF Park, MarkCreate
  <1>1. /\ OpenRotation(o) /\ OpenHolds(o) /\ Types
        /\ row \in [Rotations -> RotationRows] /\ row[o] \in RotationRows
        /\ row[o].phase \in PhaseSet /\ row[o].phase # "succeeded" /\ Old(o) = row[o].old
        /\ PhaseRank(o) \in 1..14 /\ PhaseRank(o) = RankOf(row[o].phase)
        /\ InPlace(o, PhaseRank(o))
    BY <1>0, WritingPass
  <1>2. IF PhaseRank(o) < 4 THEN row[o].quota = None ELSE row[o].quota \in Nat
    BY <1>1 DEF OpenHolds
  <1>3. PICK x \in RotationRows : x = row[o]
    BY <1>1
  <1>4. CASE Park(o)
    <2> DEFINE r == [x EXCEPT !.status = "manual_review"]
    <2>1. /\ r \in RotationRows /\ r.status = "manual_review" /\ r.phase = x.phase
          /\ r.old = x.old /\ r.quota = x.quota
      BY DEF RotationRows
    <2>2. row' = [row EXCEPT ![o] = r]
      BY <1>3, <1>4 DEF Park
    <2> HIDE DEF r
    <2>3. PICK w \in Passes : pass' = [pass EXCEPT ![o] = w] /\ w.pc \in {"idle", "run"}
      BY <1>4, NoPassType DEF Park, End
    <2>4. PICK v \in RotationRows : v = r
      BY <2>1
    <2>5. RankOf(r.phase) >= PhaseRank(o) /\ InPlace(o, RankOf(r.phase))
      BY <1>1, <1>3, <2>1
    <2>6. IF RankOf(r.phase) < 4 THEN r.quota = None ELSE r.quota \in Nat
      BY <1>1, <1>2, <1>3, <2>1
    <2>7. r.old = Old(o) /\ r.phase # "succeeded"
      BY <1>1, <1>3, <2>1
    <2>8. UNCHANGED <<budget, key, wsKey, runtime, receipts, update, flight, history>>
      BY <1>4 DEF Park
    <2> QED BY <1>1, <2>1, <2>2, <2>3, <2>4, <2>5, <2>6, <2>7, <2>8, RowStep
  <1>5. CASE MarkCreate(o)
    <2>0. row[o].phase = "replacement_create"
      BY <1>5 DEF MarkCreate, SInv, PassHolds, PlaceHolds
    <2> DEFINE r == [x EXCEPT !.createStarted = TRUE, !.status = "started"]
    <2>1. /\ r \in RotationRows /\ r.status = "started" /\ r.phase = x.phase
          /\ r.old = x.old /\ r.quota = x.quota
      BY DEF RotationRows
    <2>2. row' = [row EXCEPT ![o] = r]
      <3>1. row' = [row EXCEPT ![o].createStarted = TRUE, ![o].status = "started"]
        BY <1>5 DEF MarkCreate
      <3> QED BY <1>1, <1>3, <3>1 DEF RotationRows
    <2> HIDE DEF r
    <2>3. PICK w \in Passes : pass' = [pass EXCEPT ![o] = w] /\ w.pc \in {"idle", "create"}
      <3>1. "create" \in Places /\ Goto(o, "create")
        BY <1>5 DEF Places, MarkCreate
      <3> QED BY <3>1, PassAfter
    <2>4. PICK v \in RotationRows : v = r
      BY <2>1
    <2>5. RankOf(r.phase) >= PhaseRank(o) /\ InPlace(o, RankOf(r.phase))
      BY <1>1, <1>3, <2>1
    <2>6. r.phase = "replacement_create"
      BY <1>3, <2>0, <2>1
    <2>7. IF RankOf(r.phase) < 4 THEN r.quota = None ELSE r.quota \in Nat
      BY <1>1, <1>2, <1>3, <2>1
    <2>8. r.old = Old(o)
      BY <1>1, <1>3, <2>1
    <2>9. UNCHANGED <<budget, key, wsKey, runtime, receipts, update, flight, history>>
      BY <1>5 DEF MarkCreate
    <2> QED BY <1>1, <2>1, <2>2, <2>3, <2>4, <2>5, <2>6, <2>7, <2>8, <2>9, RowStep
  <1> QED BY <1>4, <1>5

\* The budget that was read is stored.
LEMMA CaptureStep ==
  ASSUME SInv, NEW o \in Rotations, Capture(o)
  PROVE  SInv'
  <1>0. pass[o].pc = "capture" /\ pass[o].quota \in Nat /\ row[o].phase = "old_key_drain"
    BY DEF Capture, SInv, PassHolds, PlaceHolds
  <1>1. /\ OpenRotation(o) /\ OpenHolds(o) /\ Types
        /\ row \in [Rotations -> RotationRows] /\ row[o] \in RotationRows
        /\ Old(o) = row[o].old /\ PhaseRank(o) = 3 /\ InPlace(o, PhaseRank(o))
    BY <1>0, Ranks, WritingPass
  <1>2. PICK x \in RotationRows, n \in Nat : x = row[o] /\ n = pass[o].quota
    BY <1>0, <1>1
  <1>3. "replacement_create" \in PhaseSet
    BY PhaseSetIs DEF PhaseNames
  <1> DEFINE r == [x EXCEPT !.phase = "replacement_create", !.status = "started", !.quota = n]
  <1>4. /\ r \in RotationRows /\ r.status = "started" /\ r.phase = "replacement_create"
        /\ r.old = x.old /\ r.quota = n
    BY <1>3 DEF RotationRows
  <1>5. row' = [row EXCEPT ![o] = r]
    BY <1>2 DEF Capture
  <1> HIDE DEF r
  <1>6. PICK w \in Passes : pass' = [pass EXCEPT ![o] = w] /\ w.pc \in {"idle", "run"}
    <2>1. "run" \in Places /\ Goto(o, "run")
      BY DEF Places, Capture
    <2> QED BY <2>1, PassAfter
  <1>7. RankOf(r.phase) = 4 /\ InPlace(o, 4)
    BY <1>1, <1>4, Ranks DEF InPlace
  <1>8. PICK v \in RotationRows : v = r
    BY <1>4
  <1>9. /\ IF RankOf(r.phase) < 4 THEN r.quota = None ELSE r.quota \in Nat
        /\ RankOf(r.phase) >= PhaseRank(o) /\ InPlace(o, RankOf(r.phase))
        /\ r.old = Old(o) /\ r.phase # "succeeded"
    BY <1>1, <1>2, <1>4, <1>7
  <1>10. UNCHANGED <<budget, key, wsKey, runtime, receipts, update, flight, history>>
    BY DEF Capture
  <1> QED BY <1>1, <1>4, <1>5, <1>6, <1>8, <1>9, <1>10, RowStep

\* A rotation is claimed when there is no other.
LEMMA ClaimStep ==
  ASSUME SInv, NEW o \in Rotations, Claim(o)
  PROVE  SInv'
  <1>1. CASE End(o) /\ UNCHANGED row
    BY <1>1, EndStep DEF Claim
  <1>2. CASE /\ \A other \in Rotations : ~OpenRotation(other)
             /\ row' = [row EXCEPT ![o] = [NoRotation EXCEPT !.status = "started", !.old = wsKey]]
             /\ Goto(o, "run")
    <2>1. /\ row \in [Rotations -> RotationRows] /\ pass \in [Rotations -> Passes] /\ Types
          /\ wsKey \in Keys
      BY DEF SInv, Types, TypeOK, RotationRows
    <2>2. row[o].status = "none" /\ key[o].life = "absent" /\ o \in Keys
      BY DEF Claim, SInv, PassHolds, PlaceHolds, RowHolds, Keys
    <2>3. /\ {k \in Keys : Live(k)} = {wsKey}
          /\ secret = wsKey /\ bound = wsKey
      BY <1>2 DEF SInv, SucceededConverged
    <2>4. /\ Live(wsKey) /\ wsKey # o /\ ~Live(o) /\ key[wsKey].life = "live"
          /\ \A k \in Keys : Live(k) => k = wsKey
      BY <2>1, <2>2, <2>3 DEF Live
    <2> DEFINE r == [NoRotation EXCEPT !.status = "started", !.old = wsKey]
    <2>5. /\ r \in RotationRows /\ r.status = "started" /\ r.phase = "replacement_check"
          /\ r.old = wsKey /\ r.quota = None
      BY <2>1, PhaseSetIs DEF RotationRows, NoRotation, PhaseNames
    <2>6. PICK v \in RotationRows : v = r
      BY <2>5
    <2> HIDE DEF r
    <2>7. row' = [row EXCEPT ![o] = v]
      BY <1>2, <2>6 DEF r
    <2>8. /\ row' \in [Rotations -> RotationRows] /\ row'[o] = v
          /\ \A q \in Rotations \ {o} : row'[q] = row[q]
      BY <2>1, <2>7, RowWritten
    <2>9. PICK w \in Passes : pass' = [pass EXCEPT ![o] = w] /\ w.pc \in {"idle", "run"}
      <3>1. "run" \in Places
        BY DEF Places
      <3> QED BY <1>2, <3>1, PassAfter
    <2>10. /\ pass' \in [Rotations -> Passes] /\ pass'[o] = w
           /\ \A q \in Rotations \ {o} : pass'[q] = pass[q]
      BY <2>1, <2>9
    <2>11. UNCHANGED <<budget, key, wsKey, runtime, receipts, update, flight, history>>
      BY DEF Claim
    <2>12. Types'
      <3>1. \A q \in Rotations :
                (row'[q].status = "succeeded") <=> (row'[q].phase = "succeeded")
        BY <2>1, <2>5, <2>6, <2>8 DEF Types, TypeOK
      <3> QED BY <2>1, <2>8, <2>10, <2>11, <3>1 DEF Types, TypeOK, RotationRows, runtime, history
    <2>13. /\ OpenRotation(o)' /\ Old(o)' = wsKey /\ PhaseRank(o)' = 1 /\ Stage(o)' = 1
           /\ row'[o].quota = None
           /\ \A q \in Rotations \ {o} : ~OpenRotation(q)' /\ Old(q)' = Old(q)
      BY <1>2, <2>5, <2>6, <2>8, <2>9, <2>10, Ranks DEF OpenRotation, Old, PhaseRank, Stage
    <2>14. \A k : Live(k)' <=> Live(k)
      BY <2>11 DEF Live
    <2>15. \A q \in Rotations : PassHolds(q)'
      <3>1. PassHolds(o)'
        BY <2>9, <2>10, <2>13 DEF PassHolds, PlaceHolds
      <3>2. ASSUME NEW q \in Rotations \ {o} PROVE PassHolds(q)'
        BY <1>2, <2>8, <2>10, <2>13 DEF SInv, PassHolds, PlaceHolds
      <3> QED BY <3>1, <3>2
    <2>16. RowHolds(o)'
      <3>1. InPlace(o, Stage(o))'
        BY <2>13 DEF InPlace
      <3>2. OpenHolds(o)'
        BY <2>1, <2>2, <2>3, <2>4, <2>11, <2>13, <2>14, <3>1 DEF OpenHolds, runtime
      <3> QED BY <2>5, <2>6, <2>8, <3>2 DEF RowHolds
    <2>17. ASSUME NEW q \in Rotations \ {o} PROVE RowHolds(q)'
      BY <2>8, <2>11, <2>13 DEF SInv, RowHolds
    <2>18. \A f \in flight' : FlightHolds(f)'
      <3>1. ASSUME NEW f, FlightHolds(f) PROVE FlightHolds(f)'
        BY <2>2, <2>8, <2>11, <2>13, <3>1 DEF FlightHolds
      <3> QED BY <2>11, <3>1 DEF SInv
    <2>19. SucceededConverged'
      BY <2>13 DEF SucceededConverged
    <2>20. \A b \in Budgets : UpdateHolds(b)'
      BY <2>11 DEF SInv, UpdateHolds, OpenBudget
    <2> QED BY <2>12, <2>13, <2>15, <2>16, <2>17, <2>18, <2>19, <2>20 DEF SInv
  <1> QED BY <1>1, <1>2 DEF Claim

\* A rotation that succeeded leaves one key.
LEMMA CompleteStep ==
  ASSUME SInv, NEW o \in Rotations, Complete(o)
  PROVE  SInv'
  <1>0. /\ At(o, "complete") /\ pass[o].pc = "run"
        /\ row[o].phase = "complete" /\ RankOf("complete") = 14
    BY Ranks DEF Complete, At
  <1>1. /\ OpenRotation(o) /\ OpenHolds(o) /\ Types
        /\ row \in [Rotations -> RotationRows] /\ row[o] \in RotationRows
        /\ Old(o) = row[o].old /\ PhaseRank(o) = 14 /\ InPlace(o, 14)
    BY <1>0, WritingPass
  <1>2. CASE ~workspaceKeyRotationConverged(o)
    BY <1>0, <1>2, ReadBad DEF Complete
  <1>3. CASE workspaceKeyRotationConverged(o)
    <2>1. PICK x \in RotationRows : x = row[o]
      BY <1>1
    <2>2. "succeeded" \in PhaseSet
      BY PhaseSetIs DEF PhaseNames
    <2> DEFINE r == [x EXCEPT !.phase = "succeeded", !.status = "succeeded"]
    <2>3. /\ r \in RotationRows /\ r.status = "succeeded" /\ r.phase = "succeeded"
          /\ r.old = x.old
      BY <2>2 DEF RotationRows
    <2>4. row' = [row EXCEPT ![o] = r]
      <3>1. row' = [row EXCEPT ![o].phase = "succeeded", ![o].status = "succeeded"]
        BY <1>3 DEF Complete
      <3> QED BY <1>1, <2>1, <3>1 DEF RotationRows
    <2> HIDE DEF r
    <2>5. PICK v \in RotationRows : v = r
      BY <2>3
    <2>6. /\ row' \in [Rotations -> RotationRows] /\ row'[o] = v
          /\ \A q \in Rotations \ {o} : row'[q] = row[q]
      BY <1>1, <2>4, <2>5, RowWritten
    <2>7. /\ pass' \in [Rotations -> Passes] /\ pass'[o].pc = "idle"
          /\ \A q \in Rotations \ {o} : pass'[q] = pass[q]
      BY <1>3, NoPassType DEF Complete, End, SInv, Types
    <2>8. UNCHANGED <<budget, key, wsKey, runtime, receipts, update, flight, history>>
      BY DEF Complete
    <2>9. Types'
      <3>1. \A q \in Rotations :
                (row'[q].status = "succeeded") <=> (row'[q].phase = "succeeded")
        BY <1>1, <2>3, <2>5, <2>6 DEF Types, TypeOK
      <3> QED BY <1>1, <2>6, <2>7, <2>8, <3>1 DEF Types, TypeOK, RotationRows, runtime, history
    <2>10. /\ \A q \in Rotations : ~OpenRotation(q)' /\ Old(q)' = Old(q)
           /\ \A q \in Rotations \ {o} : ~OpenRotation(q)
      BY <1>1, <2>1, <2>3, <2>5, <2>6 DEF OpenRotation, Old, SInv
    <2>11. \A k : Live(k)' <=> Live(k)
      BY <2>8 DEF Live
    <2>12. /\ ~Live(Old(o)) /\ Live(o) /\ key[o].name = "canonical" /\ wsKey = o /\ bound = o
      BY <1>3 DEF workspaceKeyRotationConverged, Promoted,
         workspaceRotationReplacementStaticPolicyMatches
    <2>13. /\ secret = o /\ o \in receipts
      BY <1>1 DEF InPlace
    <2>14. /\ Old(o) \in Keys \ {o} /\ key[Old(o)].life # "absent"
           /\ \A k \in Keys : Live(k) => k \in {Old(o), o}
      BY <1>1 DEF OpenHolds
    <2>15. SucceededConverged'
      <3>1. {k \in Keys : Live(k)}' = {o}
        BY <2>11, <2>12, <2>14 DEF Live
      <3> QED BY <2>8, <2>12, <2>13, <3>1 DEF SucceededConverged, runtime
    <2>16. \A q \in Rotations : PassHolds(q)'
      <3>1. PassHolds(o)'
        BY <2>7 DEF PassHolds, PlaceHolds
      <3>2. ASSUME NEW q \in Rotations \ {o} PROVE PassHolds(q)'
        BY <2>6, <2>7, <2>10 DEF SInv, PassHolds, PlaceHolds
      <3> QED BY <3>1, <3>2
    <2>17. RowHolds(o)'
      <3>1. key[Old(o)].life = "deleted" /\ key[o].life # "absent"
        BY <1>1, <2>12, <2>14 DEF Live, Types, TypeOK
      <3> QED BY <2>3, <2>5, <2>6, <2>8, <2>10, <2>14, <3>1 DEF RowHolds
    <2>18. ASSUME NEW q \in Rotations \ {o} PROVE RowHolds(q)'
      BY <2>6, <2>8, <2>10 DEF SInv, RowHolds
    <2>19. \A f \in flight' : FlightHolds(f)'
      <3>1. ASSUME NEW f, FlightHolds(f) PROVE FlightHolds(f)'
        BY <2>3, <2>5, <2>6, <2>8, <2>10, <3>1 DEF FlightHolds
      <3> QED BY <2>8, <3>1 DEF SInv
    <2>20. \A b \in Budgets : UpdateHolds(b)'
      BY <2>8 DEF SInv, UpdateHolds, OpenBudget
    <2> QED BY <2>9, <2>10, <2>15, <2>16, <2>17, <2>18, <2>19, <2>20 DEF SInv
  <1> QED BY <1>2, <1>3

-----------------------------------------------------------------------------
(* Writes of what the Workspace and the Runtime use                         *)

LEMMA PlaceStep ==
  ASSUME SInv, NEW o \in Rotations, OpenRotation(o),
         {wsKey', secret', bound'} \subseteq {Old(o), o},
         o \in {wsKey', secret', bound'} => Live(o), mounted' \in Keys, receipts' \subseteq Rotations,
         pass' \in [Rotations -> Passes],
         \A q \in Rotations \ {o} : pass'[q] = pass[q],
         PlaceHolds(o, pass'[o].pc), pass'[o].pc = "capture" => pass'[o] = pass[o],
         InPlace(o, Stage(o))',
         UNCHANGED <<row, budget, key, update, flight, history>>
  PROVE  SInv'
  <1>1. OpenHolds(o) /\ Types /\ o \in Keys /\ Old(o) \in Keys
    BY DEF SInv, RowHolds, OpenHolds, Keys
  <1>2. Types'
    BY <1>1 DEF Types, TypeOK, history
  <1>3. /\ \A q \in Rotations : /\ OpenRotation(q)' <=> OpenRotation(q)
                                /\ Old(q)' = Old(q) /\ PhaseRank(q)' = PhaseRank(q)
        /\ \A k : Live(k)' <=> Live(k)
    BY DEF OpenRotation, Old, PhaseRank, Live
  <1>4. \A q \in Rotations : PassHolds(q)'
    <2>1. PassHolds(o)'
      BY <1>3 DEF SInv, PassHolds, PlaceHolds
    <2>2. ASSUME NEW q \in Rotations \ {o} PROVE PassHolds(q)'
      BY <1>3 DEF SInv, PassHolds, PlaceHolds
    <2> QED BY <2>1, <2>2
  <1>5. \A q \in Rotations : OpenRotation(q) => q = o
    BY DEF SInv
  <1>6. RowHolds(o)'
    <2>1. OpenHolds(o)'
      BY <1>1, <1>3 DEF OpenHolds
    <2> QED BY <1>3, <2>1 DEF RowHolds, OpenRotation
  <1>7. ASSUME NEW q \in Rotations \ {o} PROVE RowHolds(q)'
    BY <1>3, <1>5 DEF SInv, RowHolds
  <1>8. \A f \in flight' : FlightHolds(f)'
    <2>1. ASSUME NEW f, FlightHolds(f) PROVE FlightHolds(f)'
      BY <1>3, <2>1 DEF FlightHolds
    <2> QED BY <2>1 DEF SInv
  <1>9. SucceededConverged'
    BY <1>3 DEF SucceededConverged
  <1>10. \A b \in Budgets : UpdateHolds(b)'
    BY DEF SInv, UpdateHolds, OpenBudget
  <1> QED BY <1>2, <1>3, <1>4, <1>5, <1>6, <1>7, <1>8, <1>9, <1>10 DEF SInv

\* The replacement is handed to the secret, the deployment and the Workspace, and the
\* receipt is recorded.
LEMMA HandoverSteps ==
  ASSUME SInv, NEW o \in Rotations,
         SecretWrite(o) \/ RuntimeBind(o) \/ WorkspaceCommit(o) \/ Receipt(o)
  PROVE  SInv'
  <1>1. /\ pass[o].pc = "run" /\ pass[o].pc \notin {"idle", "enter", "claim"}
        /\ OpenRotation(o) /\ PhaseRank(o) \in {6, 7, 9, 13}
        /\ row[o].phase \in {"secret_write", "runtime_bind", "workspace_commit", "receipt"}
    <2>1. CASE SecretWrite(o)
      BY <2>1, AtPhase, Ranks DEF SecretWrite
    <2>2. CASE RuntimeBind(o)
      BY <2>2, AtPhase, Ranks DEF RuntimeBind
    <2>3. CASE WorkspaceCommit(o)
      BY <2>3, AtPhase, Ranks DEF WorkspaceCommit
    <2>4. CASE Receipt(o)
      BY <2>4, AtPhase, Ranks DEF Receipt
    <2> QED BY <2>1, <2>2, <2>3, <2>4
  <1>2. /\ OpenHolds(o) /\ Types /\ receipts \subseteq Rotations /\ Stage(o) = PhaseRank(o) /\ mounted \in Keys
    BY <1>1 DEF SInv, RowHolds, Types, TypeOK, Stage
  <1>3. /\ {wsKey, secret, bound} \subseteq {Old(o), o}
        /\ o \in {wsKey, secret, bound} => Live(o)
        /\ InPlace(o, PhaseRank(o))
    BY <1>2 DEF OpenHolds
  <1>4. CASE /\ End(o)
             /\ UNCHANGED <<row, budget, key, wsKey, runtime, receipts, update, flight, history>>
    BY <1>4, EndStep
  <1>5. CASE /\ Goto(o, "park")
             /\ UNCHANGED <<row, budget, key, wsKey, runtime, receipts, update, flight, history>>
    BY <1>1, <1>5, ReadBad
  <1>6. ASSUME NEW pc \in {"advance", "read_bound"}, Goto(o, pc) \/ End(o),
               pc = "read_bound" => row[o].phase = "runtime_bind"
        PROVE  /\ pass' \in [Rotations -> Passes]
               /\ \A q \in Rotations \ {o} : pass'[q] = pass[q]
               /\ PlaceHolds(o, pass'[o].pc) /\ pass'[o].pc # "capture"
               /\ pass'[o].pc \in {pc, "idle"}
    <2>1. pc \in Places
      BY DEF Places
    <2>2. PICK w \in Passes : /\ pass' = [pass EXCEPT ![o] = w]
                              /\ (Goto(o, pc) /\ w.pc = pc) \/ (End(o) /\ w.pc = "idle")
      BY <1>6, <2>1, PassAfter
    <2>3. /\ pass' \in [Rotations -> Passes] /\ pass'[o] = w
          /\ \A q \in Rotations \ {o} : pass'[q] = pass[q]
      BY <1>2, <2>2 DEF Types
    <2> QED BY <1>1, <1>6, <2>2, <2>3 DEF PlaceHolds
  <1>7. ASSUME UNCHANGED row
        PROVE  /\ Stage(o)' \in {PhaseRank(o), PhaseRank(o) + 1}
               /\ pass'[o].pc # "advance" => Stage(o)' = PhaseRank(o)
    BY <1>7 DEF Stage, PhaseRank
  <1>8. CASE SecretWrite(o) /\ secret' = o /\ Live(o)
    <2>1. PhaseRank(o) = 6
      BY <1>8, AtPhase, Ranks DEF SecretWrite
    <2>2. /\ UNCHANGED <<row, budget, key, wsKey, bound, mounted, receipts, update, flight, history>>
          /\ Goto(o, "advance") \/ End(o)
      BY <1>8 DEF SecretWrite
    <2>3. InPlace(o, Stage(o))'
      <3>1. Stage(o)' \in {6, 7} /\ Live(o)'
        BY <1>6, <1>7, <1>8, <2>1, <2>2 DEF Live
      <3> QED BY <1>8, <3>1 DEF InPlace
    <2> QED BY <1>1, <1>2, <1>3, <1>6, <1>8, <2>2, <2>3, PlaceStep
  <1>9. CASE RuntimeBind(o) /\ bound' = o
    <2>1. PhaseRank(o) = 7 /\ row[o].phase = "runtime_bind"
      BY <1>9, AtPhase, Ranks DEF RuntimeBind, At
    <2>2. /\ UNCHANGED <<row, budget, key, wsKey, secret, mounted, receipts, update, flight, history>>
          /\ Goto(o, "read_bound") \/ End(o)
      BY <1>9 DEF RuntimeBind
    <2>3. secret = o /\ Live(o)
      BY <1>3, <2>1 DEF InPlace
    <2>4. InPlace(o, Stage(o))'
      <3>1. Stage(o)' = 7 /\ Live(o)'
        BY <1>6, <1>7, <2>1, <2>2, <2>3 DEF Live
      <3> QED BY <2>2, <2>3, <3>1 DEF InPlace
    <2> QED BY <1>1, <1>2, <1>3, <1>6, <1>9, <2>1, <2>2, <2>3, <2>4, PlaceStep
  <1>10. CASE WorkspaceCommit(o) /\ wsKey' = o /\ (Goto(o, "advance") \/ End(o))
    <2>1. PhaseRank(o) = 9
      BY <1>10, AtPhase, Ranks DEF WorkspaceCommit
    <2>2. UNCHANGED <<row, budget, key, runtime, receipts, update, flight, history>>
      BY <1>10 DEF WorkspaceCommit
    <2>3. secret = o /\ bound = o /\ Live(o)
      BY <1>3, <2>1 DEF InPlace
    <2>4. InPlace(o, Stage(o))'
      <3>1. Stage(o)' \in {9, 10} /\ Live(o)'
        BY <1>6, <1>7, <1>10, <2>1, <2>2, <2>3 DEF Live
      <3> QED BY <1>10, <2>2, <2>3, <3>1 DEF InPlace, runtime
    <2> QED BY <1>1, <1>2, <1>3, <1>6, <1>10, <2>2, <2>3, <2>4, PlaceStep DEF runtime
  <1>11. CASE Receipt(o)
    <2>1. PhaseRank(o) = 13
      BY <1>11, AtPhase, Ranks DEF Receipt
    <2>2. /\ UNCHANGED <<row, budget, key, wsKey, runtime, update, flight, history>>
          /\ Goto(o, "advance") \/ End(o)
          /\ receipts' = receipts \cup {o}
      BY <1>11 DEF Receipt
    <2>3. secret = o /\ bound = o /\ wsKey = o /\ Live(o) /\ ~Live(Old(o))
      BY <1>3, <2>1 DEF InPlace
    <2>4. InPlace(o, Stage(o))'
      <3>1. Stage(o)' \in {13, 14} /\ Live(o)' /\ ~Live(Old(o))'
        BY <1>6, <1>7, <2>1, <2>2, <2>3 DEF Live, Old
      <3> QED BY <2>2, <2>3, <3>1 DEF InPlace, runtime
    <2> QED BY <1>1, <1>2, <1>3, <1>6, <2>2, <2>3, <2>4, PlaceStep DEF runtime
  <1>12. CASE SecretWrite(o)
    <2>1. \/ secret' = o /\ Live(o)
          \/ /\ End(o)
             /\ UNCHANGED <<row, budget, key, wsKey, runtime, receipts, update, flight, history>>
      BY <1>12 DEF SecretWrite, ReplacementFound, runtime
    <2> QED BY <1>4, <1>8, <1>12, <2>1
  <1>13. CASE WorkspaceCommit(o)
    <2>1. \/ wsKey' = o /\ (Goto(o, "advance") \/ End(o))
          \/ /\ Goto(o, "park")
             /\ UNCHANGED <<row, budget, key, wsKey, runtime, receipts, update, flight, history>>
      BY <1>13 DEF WorkspaceCommit
    <2> QED BY <1>5, <1>10, <1>13, <2>1
  <1>14. CASE RuntimeBind(o)
    <2>1. \/ bound' = o
          \/ /\ End(o)
             /\ UNCHANGED <<row, budget, key, wsKey, runtime, receipts, update, flight, history>>
      BY <1>14 DEF RuntimeBind, runtime
    <2> QED BY <1>4, <1>9, <1>14, <2>1
  <1> QED BY <1>11, <1>12, <1>13, <1>14

\* The Runtime's volume follows the secret.
LEMMA RefreshStep ==
  ASSUME SInv, Refresh
  PROVE  SInv'
  <1>1. /\ UNCHANGED <<row, budget, key, wsKey, secret, bound, receipts, pass, update, flight>>
        /\ UNCHANGED <<uses, late, disturbed>> /\ mounted' = secret
    BY DEF Refresh, history
  <1>2. Types'
    BY <1>1 DEF SInv, Types, TypeOK
  <1>3. /\ \A q \in Rotations : /\ OpenRotation(q)' <=> OpenRotation(q)
                                /\ Old(q)' = Old(q) /\ PhaseRank(q)' = PhaseRank(q)
                                /\ Stage(q)' = Stage(q)
        /\ \A k : Live(k)' <=> Live(k)
    BY <1>1 DEF OpenRotation, Old, PhaseRank, Stage, Live
  <1>4. SucceededConverged'
    BY <1>1, <1>3 DEF SInv, SucceededConverged
  <1>5. ASSUME NEW o \in Rotations PROVE PassHolds(o)' /\ RowHolds(o)'
    <2>1. PassHolds(o)'
      BY <1>1, <1>3 DEF SInv, PassHolds, PlaceHolds
    <2>2. ASSUME OpenRotation(o) PROVE OpenHolds(o)'
      <3>1. OpenHolds(o)
        BY <2>2 DEF SInv, RowHolds
      <3>2. InPlace(o, Stage(o))'
        BY <1>1, <1>3, <3>1 DEF OpenHolds, InPlace
      <3> QED BY <1>1, <1>3, <3>1, <3>2 DEF OpenHolds
    <2>3. RowHolds(o)
      BY DEF SInv
    <2> QED BY <1>1, <1>3, <2>1, <2>2, <2>3 DEF RowHolds
  <1>6. \A f \in flight' : FlightHolds(f)'
    <2>1. ASSUME NEW f, FlightHolds(f) PROVE FlightHolds(f)'
      BY <1>1, <1>3, <2>1 DEF FlightHolds
    <2> QED BY <1>1, <2>1 DEF SInv
  <1>7. \A b \in Budgets : UpdateHolds(b)'
    BY <1>1 DEF SInv, UpdateHolds, OpenBudget
  <1>8. \A o, other \in Rotations : OpenRotation(o)' /\ OpenRotation(other)' => o = other
    BY <1>3 DEF SInv
  <1> QED BY <1>2, <1>4, <1>5, <1>6, <1>7, <1>8 DEF SInv

-----------------------------------------------------------------------------
(* Theorems about which keys exist                                          *)

LEMMA InitHolds == Init => SInv
  <1> SUFFICES ASSUME Init PROVE SInv
    OBVIOUS
  <1>1. LaunchKey \in Keys /\ LaunchKey \notin Rotations /\ Quota \in Nat
    BY ConstantsAssumption DEF Keys
  <1>2. NoKey \in KeyRecords /\ NoKey.life = "absent"
    BY DEF NoKey, KeyRecords
  <1>11. PICK none \in KeyRecords, n \in Nat : none = NoKey /\ n = Quota
    BY <1>1, <1>2
  <1> DEFINE first == [none EXCEPT !.life = "live", !.name = "canonical",
                                   !.enabled = TRUE, !.quota = n]
  <1>3. first \in KeyRecords /\ first.life = "live" /\ first.name = "canonical"
    BY DEF KeyRecords
  <1> HIDE DEF first
  <1>4. /\ key \in [Keys -> KeyRecords] /\ key[LaunchKey] = first
        /\ \A k \in Keys \ {LaunchKey} : key[k] = NoKey
    BY <1>1, <1>2, <1>3, <1>11 DEF Init, first
  <1>5. /\ NoRotation \in RotationRows /\ NoRotation.status = "none"
        /\ NoRotation.phase = "replacement_check"
    BY PhaseSetIs DEF NoRotation, RotationRows, PhaseNames
  <1>6. \A o \in Rotations : row[o] = NoRotation /\ ~OpenRotation(o) /\ pass[o] = NoPass
    BY <1>5 DEF Init, OpenRotation
  <1>7. Types
    <2>1. row \in [Rotations -> RotationRows]
      BY <1>5 DEF Init
    <2>2. budget \in [Budgets -> [status : {"none", "started", "manual_review", "succeeded"},
                                  key : Keys \cup {None}, request : AllRequests]]
      BY DEF Init, NoBudget, AllRequests
    <2>3. TypeOK
      BY <1>1, <1>4, <1>5, <1>6, <2>1, <2>2 DEF TypeOK, RotationRows, KeyRecords, Init
    <2>4. pass \in [Rotations -> Passes]
      BY NoPassType DEF Init
    <2> QED BY <2>3, <2>4 DEF Types, Init
  <1>8. SucceededConverged
    <2>1. \A k \in Keys : Live(k) <=> k = LaunchKey
      BY <1>1, <1>2, <1>3, <1>4 DEF Live
    <2> QED BY <1>1, <1>3, <1>4, <2>1 DEF SucceededConverged, Init
  <1>9. \A o \in Rotations : PassHolds(o) /\ RowHolds(o)
    <2> TAKE o \in Rotations
    <2>1. PassHolds(o)
      BY <1>6, NoPassType DEF PassHolds, PlaceHolds
    <2>2. key[o] = NoKey
      BY <1>1, <1>4 DEF Keys
    <2>3. RowHolds(o)
      BY <1>2, <1>5, <1>6, <2>2 DEF RowHolds
    <2> QED BY <2>1, <2>3
  <1>10. \A b \in Budgets : UpdateHolds(b)
    BY DEF Init, UpdateHolds, NoBudget
  <1> QED BY <1>6, <1>7, <1>8, <1>9, <1>10 DEF SInv, Init

LEMMA StutterHolds ==
  ASSUME SInv, UNCHANGED vars
  PROVE  SInv'
  <1>1. KeysGo
    BY KeysStay DEF SInv, Types, TypeOK, KeyRecords, vars
  <1>2. \A b \in Budgets : UpdateHolds(b)'
    BY DEF SInv, UpdateHolds, OpenBudget, vars
  <1> QED BY <1>1, <1>2, OwnerStep DEF SInv, Types, TypeOK, vars, runtime

LEMMA RotationHolds ==
  ASSUME SInv, NEW o \in Rotations, RotationStep(o)
  PROVE  SInv'
  BY EntrySteps, EarlyReads, DrainSteps, OldKeyDisableStep, CreateStep, RetireSteps,
     DeleteSteps, AdvanceStep, SamePhaseStep, CaptureStep, ClaimStep, CompleteStep,
     HandoverSteps DEF RotationStep

LEMMA NextHolds ==
  ASSUME SInv, [Next]_vars
  PROVE  SInv'
  <1>1. CASE \E o \in Rotations : RotationStep(o)
    BY <1>1, RotationHolds
  <1>2. CASE \E b \in Budgets : BudgetStep(b)
    BY <1>2, BudgetSteps
  <1>3. CASE \E call \in LateCalls, o \in Rotations \cup Budgets : Deliver(call, o)
    BY <1>3, DeliverStep
  <1>4. CASE Use \/ \E k \in Keys : Used(k)
    BY <1>4, UseStep
  <1>5. CASE Refresh
    BY <1>5, RefreshStep
  <1>6. CASE UNCHANGED vars
    BY <1>6, StutterHolds
  <1> QED BY <1>1, <1>2, <1>3, <1>4, <1>5, <1>6 DEF Next

\* Whatever calls arrive late, the stage of the open rotation says which keys exist and who
\* uses them: at most one rotation is open, and each part of it is in place before the phase
\* that relies on it is written.
THEOREM StagesHold == Spec => []SInv
  <1>1. SInv /\ [Next]_vars => SInv'
    BY NextHolds
  <1> QED BY <1>1, InitHolds, PTL DEF Spec

\* The variables keep their types.
THEOREM TypeCorrect == Spec => []TypeOK
  <1>1. SInv => TypeOK
    BY DEF SInv, Types
  <1> QED BY <1>1, StagesHold, PTL

\* The key the Workspace names, the key in its secret and the key its deployment names exist,
\* wherever a rotation was interrupted and whatever call arrives late: delete_old runs when
\* none of them names the old key.
THEOREM KeysOutliveUse == Spec => []KeyOutlivesUse
  <1>1. SInv => KeyOutlivesUse
    <2> SUFFICES ASSUME SInv PROVE KeyOutlivesUse
      OBVIOUS
    <2>1. CASE \A o \in Rotations : ~OpenRotation(o)
      BY <2>1 DEF SInv, SucceededConverged, KeyOutlivesUse
    <2>2. ASSUME NEW o \in Rotations, OpenRotation(o) PROVE KeyOutlivesUse
      <3>1. OpenHolds(o) /\ Types
        BY <2>2 DEF SInv, RowHolds
      <3>2. /\ wsKey \in {Old(o), o} /\ secret \in {Old(o), o} /\ bound \in {Old(o), o}
            /\ o \in {wsKey, secret, bound} => Live(o)
            /\ PhaseRank(o) < 12 => Live(Old(o))
        BY <3>1 DEF OpenHolds
      <3>3. PhaseRank(o) >= 12 => wsKey = o /\ secret = o /\ bound = o
        <4>1. /\ PhaseRank(o) \in Int /\ Stage(o) \in Int /\ PhaseRank(o) <= Stage(o)
          BY <3>1, PhaseRanked
        <4> QED BY <3>1, <4>1 DEF OpenHolds, InPlace
      <3>4. PhaseRank(o) \in Int
        BY <3>1, PhaseRanked
      <3>5. CASE PhaseRank(o) < 12
        BY <3>2, <3>5 DEF KeyOutlivesUse
      <3>6. CASE ~(PhaseRank(o) < 12)
        BY <3>2, <3>3, <3>4, <3>6 DEF KeyOutlivesUse
      <3> QED BY <3>5, <3>6
    <2> QED BY <2>1, <2>2
  <1> QED BY <1>1, StagesHold, PTL

\* Without an open rotation there is one key, of the canonical name, and the Workspace, the
\* deployment, the secret and the Ledger agree on it.
THEOREM RotationConverges == Spec => []SucceededConverged
  <1>1. SInv => SucceededConverged
    BY DEF SInv
  <1> QED BY <1>1, StagesHold, PTL

-----------------------------------------------------------------------------
(* What a step leaves of the budgets at Sub2API                             *)

\* A key is neither created nor turned on, keeps its quota, and keeps its usage while it is off and idle.
KeepsBudget(k) ==
    /\ key'[k].life = "live" => key[k].life = "live"
    /\ key'[k].enabled => key[k].enabled
    /\ key'[k].quota = key[k].quota
    /\ key[k].busy = 0 /\ ~key[k].enabled => key'[k].busy = 0 /\ key'[k].used = key[k].used

\* The replacement gets the quota of its row when it is created.
KeepsBudgets ==
    \A k \in Keys :
        \/ KeepsBudget(k)
        \/ k \in Rotations /\ key[k].life = "absent" /\ key'[k].quota = row[k].quota

LEMMA UnchangedKeeps ==
  ASSUME key' = key
  PROVE  KeepsBudgets
  BY DEF KeepsBudgets, KeepsBudget

LEMMA OneKeyKeeps ==
  ASSUME key \in [Keys -> KeyRecords], NEW k \in Keys, NEW r \in KeyRecords,
         key' = [key EXCEPT ![k] = r], r.quota = key[k].quota, r.used = key[k].used,
         r.busy = key[k].busy, r.enabled => key[k].enabled,
         r.life = "live" => key[k].life = "live"
  PROVE  KeepsBudgets
  <1>1. key'[k] = r /\ \A other \in Keys \ {k} : key'[other] = key[other]
    BY KeyChange
  <1>2. KeepsBudget(k)
    BY <1>1 DEF KeepsBudget
  <1>3. \A other \in Keys \ {k} : KeepsBudget(other)
    BY <1>1 DEF KeepsBudget
  <1> QED BY <1>2, <1>3 DEF KeepsBudgets

\* The calls of a rotation keep the budget of every key but the one they create.
LEMMA CallKeeps ==
  ASSUME SInv, NEW call, NEW o \in Rotations, MayCall(call, o), key' = KeyEffect(call, o)
  PROVE  KeepsBudgets
  <1>1. key \in [Keys -> KeyRecords] /\ o \in Keys /\ Old(o) \in Keys
    BY DEF SInv, Types, TypeOK, KeyRecords, Keys, MayCall, RowHolds, OpenHolds, OpenRotation
  <1>2. PICK k \in Keys : k = Old(o)
    BY <1>1
  <1>3. PICK old \in KeyRecords, new \in KeyRecords : old = key[k] /\ new = key[o]
    BY <1>1
  <1>4. CASE call = "disable"
    <2> DEFINE r == [old EXCEPT !.enabled = FALSE]
    <2>1. /\ r \in KeyRecords /\ r.quota = old.quota /\ r.used = old.used /\ r.busy = old.busy
          /\ ~r.enabled /\ r.life = old.life
      BY DEF KeyRecords
    <2>2. key' = [key EXCEPT ![k] = r]
      BY <1>2, <1>3, <1>4, CallForms
    <2> HIDE DEF r
    <2>3. PICK v \in KeyRecords : v = r
      BY <2>1
    <2> QED BY <1>1, <1>3, <2>1, <2>2, <2>3, OneKeyKeeps
  <1>5. CASE call = "create"
    <2>1. CASE key[o].life # "absent"
      BY <1>5, <2>1, CallForms, UnchangedKeeps
    <2>2. CASE key[o].life = "absent"
      <3>1. /\ key' = [key EXCEPT ![o] = key'[o]]
            /\ key'[o].quota = row[o].quota
        <4>1. key' = [key EXCEPT ![o] = [key[o] EXCEPT !.life = "live", !.name = "replacement",
                                             !.enabled = TRUE, !.quota = row[o].quota]]
          BY <1>5, <2>2, CallForms
        <4>2. key'[o] = [new EXCEPT !.life = "live", !.name = "replacement",
                                    !.enabled = TRUE, !.quota = row[o].quota]
          BY <1>1, <1>3, <4>1
        <4>3. key'[o].quota = row[o].quota
          BY <4>2 DEF KeyRecords
        <4> QED BY <1>1, <4>1, <4>3
      <3>2. \A c \in Keys \ {o} : KeepsBudget(c)
        BY <1>1, <3>1 DEF KeepsBudget
      <3> QED BY <2>2, <3>1, <3>2 DEF KeepsBudgets
    <2> QED BY <2>1, <2>2
  <1>6. CASE call = "retire"
    <2> DEFINE r == [old EXCEPT !.name = "retired", !.enabled = FALSE]
    <2>1. /\ r \in KeyRecords /\ r.quota = old.quota /\ r.used = old.used /\ r.busy = old.busy
          /\ ~r.enabled /\ r.life = old.life
      BY DEF KeyRecords
    <2>2. key' = [key EXCEPT ![k] = r]
      BY <1>1, <1>2, <1>3, <1>6, RetireForm
    <2> HIDE DEF r
    <2>3. PICK v \in KeyRecords : v = r
      BY <2>1
    <2> QED BY <1>1, <1>3, <2>1, <2>2, <2>3, OneKeyKeeps
  <1>7. CASE call = "promote"
    <2> DEFINE r == [new EXCEPT !.name = "canonical"]
    <2>1. /\ r \in KeyRecords /\ r.quota = new.quota /\ r.used = new.used /\ r.busy = new.busy
          /\ r.enabled = new.enabled /\ r.life = new.life
      BY DEF KeyRecords
    <2>2. key' = [key EXCEPT ![o] = r]
      BY <1>3, <1>7, CallForms
    <2> HIDE DEF r
    <2>3. PICK v \in KeyRecords : v = r
      BY <2>1
    <2> QED BY <1>1, <1>3, <2>1, <2>2, <2>3, OneKeyKeeps
  <1>8. CASE call = "delete"
    <2> DEFINE r == [old EXCEPT !.life = "deleted"]
    <2>1. /\ r \in KeyRecords /\ r.quota = old.quota /\ r.used = old.used /\ r.busy = old.busy
          /\ r.enabled = old.enabled /\ r.life = "deleted"
      BY DEF KeyRecords
    <2>2. key' = [key EXCEPT ![k] = r]
      BY <1>2, <1>3, <1>8, CallForms
    <2> HIDE DEF r
    <2>3. PICK v \in KeyRecords : v = r
      BY <2>1
    <2> QED BY <1>1, <1>3, <2>1, <2>2, <2>3, OneKeyKeeps
  <1> QED BY <1>4, <1>5, <1>6, <1>7, <1>8 DEF MayCall, RotationCalls

\* Gateway requests keep the budget of a key that is off and idle.
LEMMA UseKeeps ==
  ASSUME SInv, Use \/ \E k \in Keys : Used(k)
  PROVE  KeepsBudgets
  <1>1. \A k \in Keys : /\ key'[k].enabled = key[k].enabled /\ key'[k].life = key[k].life
                        /\ key'[k].quota = key[k].quota
                        /\ key[k].busy = 0 /\ ~(key[k].enabled /\ Live(k)) =>
                               key'[k] = key[k]
    BY UseKeys
  <1>2. \A k \in Keys : KeepsBudget(k)
    BY <1>1 DEF KeepsBudget
  <1> QED BY <1>2 DEF KeepsBudgets

-----------------------------------------------------------------------------
(* The old key of the open rotation                                         *)

\* A step that does not write the row.
LEMMA OldKeyStep ==
  ASSUME SInv, BInv, KeepsBudgets, UNCHANGED <<row, disturbed>>,
         NEW o \in Rotations, OpenRotation(o),
         \/ pass'[o] = pass[o]
         \/ pass'[o].pc \notin {"advance", "capture"}
         \/ pass'[o].pc = "advance" /\ (PhaseRank(o) = 2 => ~key'[Old(o)].enabled)
         \/ /\ pass'[o].pc = "capture" /\ key'[Old(o)].busy = 0
            /\ Remaining(Old(o))' = pass'[o].quota
  PROVE  OldKeyHolds(o)'
  <1>1. /\ OpenHolds(o) /\ OldKeyHolds(o) /\ Types /\ o \in Keys
        /\ Old(o) \in Keys \ {o} /\ key[Old(o)].life # "absent" /\ PassHolds(o)
    BY DEF SInv, BInv, RowHolds, OpenHolds, Keys
  <1>2. /\ PhaseRank(o) \in Int /\ Stage(o) \in Int
        /\ PhaseRank(o) <= Stage(o) /\ Stage(o) <= PhaseRank(o) + 1
    BY <1>1, PhaseRanked
  <1>3. Old(o)' = Old(o) /\ PhaseRank(o)' = PhaseRank(o)
    BY DEF Old, PhaseRank
  <1>4. KeepsBudget(Old(o))
    BY <1>1 DEF KeepsBudgets
  <1>10. /\ StaysOff(o)' <=> StaysOff(o)
         /\ StaysSpent(o)' <=> StaysSpent(o)
         /\ StaysSpent(o) => StaysOff(o)
    BY <1>3 DEF StaysOff, StaysSpent
  <1>5. Stage(o)' >= 3 /\ StaysOff(o) => ~key'[Old(o)].enabled
    <2>1. Stage(o) >= 3 /\ StaysOff(o) => ~key'[Old(o)].enabled
      BY <1>1, <1>4 DEF OldKeyHolds, KeepsBudget
    <2>2. CASE pass'[o] = pass[o]
      BY <1>3, <2>1, <2>2 DEF Stage
    <2>3. CASE pass'[o].pc # "advance"
      <3>1. Stage(o)' = PhaseRank(o)
        BY <1>3, <2>3 DEF Stage
      <3> QED BY <1>2, <2>1, <3>1
    <2>4. CASE pass'[o].pc = "advance" /\ (PhaseRank(o) = 2 => ~key'[Old(o)].enabled)
      <3>1. Stage(o)' = PhaseRank(o) + 1
        BY <1>3, <2>4 DEF Stage
      <3> QED BY <1>2, <2>1, <2>4, <3>1
    <2> QED BY <2>2, <2>3, <2>4
  <1>6. Stage(o) >= 3 /\ StaysOff(o) /\ key[Old(o)].busy = 0 =>
            key'[Old(o)].busy = 0 /\ Remaining(Old(o))' = Remaining(Old(o))
    BY <1>1, <1>3, <1>4 DEF OldKeyHolds, KeepsBudget, Remaining
  <1>7. pass'[o].pc = "capture" => /\ StaysOff(o) => key'[Old(o)].busy = 0
                                   /\ StaysSpent(o) => Remaining(Old(o))' = pass'[o].quota
    <2>1. CASE pass'[o] = pass[o] /\ pass[o].pc = "capture"
      <3>1. PhaseRank(o) = 3
        BY <1>1, <2>1, Ranks DEF PassHolds, PlaceHolds, PhaseRank
      <3>2. Stage(o) >= 3
        BY <1>2, <3>1
      <3>3. /\ StaysOff(o) => key[Old(o)].busy = 0
            /\ StaysSpent(o) => Remaining(Old(o)) = pass[o].quota
        BY <1>1, <2>1 DEF OldKeyHolds
      <3> QED BY <1>6, <1>10, <2>1, <3>2, <3>3
    <2> QED BY <2>1
  <1>8. PhaseRank(o) >= 4 => /\ StaysOff(o) => key'[Old(o)].busy = 0
                             /\ StaysSpent(o) => Remaining(Old(o))' = row[o].quota
    <2> HAVE PhaseRank(o) >= 4
    <2>1. Stage(o) >= 3
      BY <1>2
    <2>2. /\ StaysOff(o) => key[Old(o)].busy = 0
          /\ StaysSpent(o) => Remaining(Old(o)) = row[o].quota
      BY <1>1 DEF OldKeyHolds
    <2> QED BY <1>6, <1>10, <2>1, <2>2
  <1>9. Live(o)' => key'[o].quota = row[o].quota
    <2>1. KeepsBudget(o) \/ key'[o].quota = row[o].quota
      BY <1>1 DEF KeepsBudgets
    <2>2. CASE KeepsBudget(o)
      BY <1>1, <2>2 DEF OldKeyHolds, KeepsBudget, Live
    <2> QED BY <2>1, <2>2
  <1> QED BY <1>3, <1>5, <1>7, <1>8, <1>9, <1>10 DEF OldKeyHolds

-----------------------------------------------------------------------------
(* Budget updates beside rotations                                          *)

\* A step that writes no budget row.
LEMMA BudgetBeside ==
  ASSUME SInv, BInv, UNCHANGED budget, NEW b \in Budgets,
         OpenBudget(b) => \A o \in Rotations : ~OpenRotation(o)' /\ pass'[o].pc # "claim",
         \A o \in Rotations : row[o].status = "succeeded" => row'[o].status = "succeeded"
  PROVE  BudgetHolds(b)'
  <1>1. BudgetHolds(b) /\ (OpenBudget(b)' <=> OpenBudget(b))
    BY DEF BInv, OpenBudget
  <1> QED BY <1>1 DEF BudgetHolds

\* A step of the open rotation's pass that writes no row.
LEMMA BesidePass ==
  ASSUME SInv, BInv, KeepsBudgets, UNCHANGED <<row, budget, disturbed>>, NEW o \in Rotations,
         pass \in [Rotations -> Passes], \A q \in Rotations \ {o} : pass'[q] = pass[q],
         pass'[o].pc = "claim" => \A b \in Budgets : ~OpenBudget(b),
         OpenRotation(o) =>
             \/ pass'[o].pc \notin {"advance", "capture"}
             \/ pass'[o].pc = "advance" /\ (PhaseRank(o) = 2 => ~key'[Old(o)].enabled)
             \/ /\ pass'[o].pc = "capture" /\ key'[Old(o)].busy = 0
                /\ Remaining(Old(o))' = pass'[o].quota
  PROVE  BInv'
  <1>1. \A q \in Rotations : OpenRotation(q)' <=> OpenRotation(q)
    BY DEF OpenRotation
  <1>2. \A q \in Rotations : OpenRotation(q)' => OldKeyHolds(q)'
    BY <1>1, OldKeyStep
  <1>3. ASSUME NEW b \in Budgets PROVE BudgetHolds(b)'
    <2>1. OpenBudget(b) => \A q \in Rotations : ~OpenRotation(q)' /\ pass'[q].pc # "claim"
      BY <1>1 DEF BInv, BudgetHolds
    <2> QED BY <2>1, BudgetBeside
  <1> QED BY <1>2, <1>3 DEF BInv

\* A step of the owners.
LEMMA BesideOwner ==
  ASSUME SInv, BInv, KeepsBudgets, UNCHANGED <<row, budget, pass, disturbed>>
  PROVE  BInv'
  <1>1. \A q \in Rotations : OpenRotation(q)' <=> OpenRotation(q)
    BY DEF OpenRotation
  <1>2. \A q \in Rotations : OpenRotation(q)' => OldKeyHolds(q)'
    BY <1>1, OldKeyStep
  <1>3. ASSUME NEW b \in Budgets PROVE BudgetHolds(b)'
    <2>1. OpenBudget(b) => \A q \in Rotations : ~OpenRotation(q)' /\ pass'[q].pc # "claim"
      BY <1>1 DEF BInv, BudgetHolds
    <2> QED BY <2>1, BudgetBeside
  <1> QED BY <1>2, <1>3 DEF BInv

\* A write of the open rotation's row.
LEMMA BesideRow ==
  ASSUME SInv, BInv, SInv', UNCHANGED <<key, budget, disturbed>>, NEW o \in Rotations,
         OpenRotation(o), \A q \in Rotations \ {o} : row'[q] = row[q] /\ pass'[q] = pass[q],
         pass'[o].pc \notin {"claim", "capture", "advance"},
         OpenRotation(o)' =>
             /\ Old(o)' = Old(o) /\ PhaseRank(o)' <= Stage(o)
             /\ PhaseRank(o)' >= 4 =>
                    /\ StaysOff(o) => key[Old(o)].busy = 0
                    /\ StaysSpent(o) => Remaining(Old(o)) = row'[o].quota
             /\ Live(o) => key[o].quota = row'[o].quota
  PROVE  BInv'
  <1>1. \A q \in Rotations : OpenRotation(q) => q = o
    BY DEF SInv
  <1>2. \A q \in Rotations \ {o} : ~OpenRotation(q)'
    BY <1>1 DEF OpenRotation
  <1>3. OpenRotation(o)' => OldKeyHolds(o)'
    <2> HAVE OpenRotation(o)'
    <2>1. /\ PhaseRank(o)' \in Int /\ Stage(o)' = PhaseRank(o)'
      <3>1. PhaseRank(o)' \in 1..15
        <4>1. row'[o].phase \in PhaseNames
          BY PhaseSetIs DEF SInv, Types, TypeOK
        <4> QED BY <4>1, Ranks DEF PhaseRank, PhaseNames
      <3> QED BY <3>1 DEF Stage
    <2>2. Stage(o) \in Int
      BY PhaseRanked DEF SInv
    <2>3. OldKeyHolds(o)
      BY DEF BInv
    <2>4. Remaining(Old(o))' = Remaining(Old(o)) /\ (Live(o)' <=> Live(o)) /\ Old(o)' = Old(o)
      BY DEF Remaining, Live
    <2>6. (StaysOff(o)' <=> StaysOff(o)) /\ (StaysSpent(o)' <=> StaysSpent(o))
      BY <2>4 DEF StaysOff, StaysSpent
    <2>5. Stage(o)' >= 3 /\ StaysOff(o) => ~key[Old(o)].enabled
      BY <2>1, <2>2, <2>3 DEF OldKeyHolds
    <2> QED BY <2>4, <2>5, <2>6 DEF OldKeyHolds
  <1>4. ASSUME NEW b \in Budgets PROVE BudgetHolds(b)'
    <2>1. ~OpenBudget(b)
      BY DEF BInv, BudgetHolds
    <2>2. \A q \in Rotations : row[q].status = "succeeded" => row'[q].status = "succeeded"
      <3>1. row[o].status # "succeeded"
        BY DEF OpenRotation
      <3> QED BY <3>1
    <2> QED BY <2>1, <2>2, BudgetBeside
  <1> QED BY <1>2, <1>3, <1>4 DEF BInv

-----------------------------------------------------------------------------
(* The steps of a pass                                                      *)

\* The forms of a step of one pass.
LEMMA PassIs ==
  ASSUME SInv, NEW o \in Rotations
  PROVE  /\ pass \in [Rotations -> Passes]
         /\ \A pc : Goto(o, pc) => /\ pass'[o].pc = pc
                                   /\ \A q \in Rotations \ {o} : pass'[q] = pass[q]
         /\ End(o) => /\ pass'[o].pc = "idle"
                      /\ \A q \in Rotations \ {o} : pass'[q] = pass[q]
  <1>1. pass \in [Rotations -> Passes] /\ pass[o] \in Passes
    BY DEF SInv, Types
  <1>2. ASSUME NEW pc, Goto(o, pc)
        PROVE  pass'[o].pc = pc /\ \A q \in Rotations \ {o} : pass'[q] = pass[q]
    BY <1>1, <1>2 DEF Goto, Passes
  <1>3. ASSUME End(o)
        PROVE  pass'[o].pc = "idle" /\ \A q \in Rotations \ {o} : pass'[q] = pass[q]
    BY <1>1, <1>3, NoPassType DEF End
  <1> QED BY <1>1, <1>2, <1>3

\* A pass ends, or goes on without a claim to a new phase of the old key.
LEMMA BesideGoto ==
  ASSUME SInv, BInv, KeepsBudgets, UNCHANGED <<row, budget, disturbed>>, NEW o \in Rotations,
         NEW pc, Goto(o, pc) \/ End(o), pc # "capture",
         Goto(o, pc) /\ pc = "claim" => \A b \in Budgets : ~OpenBudget(b),
         Goto(o, pc) /\ OpenRotation(o) /\ pc = "advance" /\ PhaseRank(o) = 2 =>
             ~key'[Old(o)].enabled
  PROVE  BInv'
  <1>1. CASE Goto(o, pc)
    <2>1. /\ pass \in [Rotations -> Passes] /\ pass'[o].pc = pc
          /\ \A q \in Rotations \ {o} : pass'[q] = pass[q]
      BY <1>1, PassIs
    <2> QED BY <1>1, <2>1, BesidePass
  <1>2. CASE End(o)
    <2>1. /\ pass \in [Rotations -> Passes] /\ pass'[o].pc = "idle"
          /\ \A q \in Rotations \ {o} : pass'[q] = pass[q]
      BY <1>2, PassIs
    <2> QED BY <2>1, BesidePass
  <1> QED BY <1>1, <1>2

\* A step that only moves the pass.
LEMMA BesideMove ==
  ASSUME SInv, BInv, UNCHANGED <<row, budget, key, disturbed>>, NEW o \in Rotations,
         NEW pc, Goto(o, pc) \/ End(o), pc \notin {"capture", "claim"},
         pc = "advance" /\ PhaseRank(o) = 2 => ~key[Old(o)].enabled
  PROVE  BInv'
  BY UnchangedKeeps, BesideGoto

LEMMA BesideRead ==
  ASSUME SInv, BInv, NEW o \in Rotations, NEW good, Read(o, good),
         PhaseRank(o) = 2 /\ good => ~key[Old(o)].enabled
  PROVE  BInv'
  <1>1. UNCHANGED <<row, budget, key, disturbed>>
    BY DEF Read, history
  <1>2. CASE good
    BY <1>1, <1>2, BesideMove DEF Read
  <1>3. CASE ~good
    BY <1>1, <1>3, BesideMove DEF Read
  <1> QED BY <1>2, <1>3

\* A call of a pass keeps the budgets whatever becomes of it.
LEMMA BesideCall ==
  ASSUME SInv, BInv, NEW o \in Rotations, NEW call,
         NEW then \in Places \ {"capture", "advance", "claim"},
         Call(o, call, then), MayCall(call, o)
  PROVE  BInv'
  <1>1. KeepsBudgets
    <2>1. CASE key' = KeyEffect(call, o)
      BY <2>1, CallKeeps
    <2>2. CASE key' = key
      BY <2>2, UnchangedKeeps
    <2> QED BY <2>1, <2>2 DEF Call, Giveup
  <1>2. Goto(o, then) \/ End(o)
    BY DEF Call, Giveup
  <1> QED BY <1>1, <1>2, BesideGoto DEF Call

LEMMA EntryBeside ==
  ASSUME SInv, BInv, NEW o \in Rotations, Request(o) \/ Resume(o) \/ Admit(o) \/ Abort(o)
  PROVE  BInv'
  <1>1. /\ UNCHANGED <<row, budget, key, disturbed>> /\ KeepsBudgets
        /\ pass \in [Rotations -> Passes]
    BY UnchangedKeeps DEF Request, Resume, Admit, Abort, SInv, Types, history
  <1>2. CASE Request(o)
    <2>1. pass'[o].pc = "enter" /\ \A q \in Rotations \ {o} : pass'[q] = pass[q]
      BY <1>1, <1>2 DEF Request
    <2> QED BY <1>1, <2>1, BesidePass
  <1>3. CASE Resume(o)
    BY <1>1, <1>3, BesideMove DEF Resume
  <1>4. CASE Admit(o)
    <2>1. CASE ClaimAdmitted(o)
      BY <1>1, <1>4, <2>1, BesideGoto DEF Admit, ClaimAdmitted
    <2>2. CASE ~ClaimAdmitted(o)
      <3>1. Goto(o, "run") \/ End(o)
        BY <1>4, <2>2 DEF Admit
      <3> QED BY <1>1, <3>1, BesideMove
    <2> QED BY <2>1, <2>2
  <1>5. CASE Abort(o)
    <2>1. Goto(o, "run") \/ End(o)
      BY <1>5 DEF Abort
    <2> QED BY <1>1, <2>1, BesideMove
  <1> QED BY <1>2, <1>3, <1>4, <1>5

\* The old key is read as disabled before its rotation goes on.
LEMMA DisableBeside ==
  ASSUME SInv, BInv, NEW o \in Rotations, OldKeyDisable(o) \/ OldKeyDisabled(o)
  PROVE  BInv'
  <1>1. ASSUME Read(o, workspaceRotationOldKeyMatches(Old(o), "disabled"))
        PROVE  BInv'
    <2>1. workspaceRotationOldKeyMatches(Old(o), "disabled") => ~key[Old(o)].enabled
      BY DEF workspaceRotationOldKeyMatches, Status
    <2> QED BY <1>1, <2>1, BesideRead
  <1>2. CASE OldKeyDisable(o) /\ Call(o, "disable", "read_disabled")
    <2>1. OpenRotation(o)
      BY <1>2, AtPhase DEF OldKeyDisable
    <2>2. /\ MayCall("disable", o)
          /\ "read_disabled" \in Places \ {"capture", "advance", "claim"}
      BY <2>1 DEF MayCall, RotationCalls, Places, OpenRotation
    <2> QED BY <1>2, <2>2, BesideCall
  <1> QED BY <1>1, <1>2 DEF OldKeyDisable, OldKeyDisabled

\* Once the budget is read nothing runs on the old key.
LEMMA DrainBeside ==
  ASSUME SInv, BInv, NEW o \in Rotations, OldKeyDrain(o)
  PROVE  BInv'
  <1>1. UNCHANGED <<row, budget, key, disturbed>> /\ KeepsBudgets
    BY UnchangedKeeps DEF OldKeyDrain, history
  <1>2. CASE Goto(o, "park") \/ End(o)
    BY <1>1, <1>2, BesideMove
  <1>3. CASE /\ Drained(o)
             /\ pass' = [pass EXCEPT ![o].pc = "capture", ![o].quota = Remaining(Old(o))]
    <2>1. pass \in [Rotations -> Passes] /\ pass[o] \in Passes
      BY DEF SInv, Types
    <2>2. PICK n : n = Remaining(Old(o))
      OBVIOUS
    <2>3. /\ pass'[o].pc = "capture" /\ pass'[o].quota = n
          /\ \A q \in Rotations \ {o} : pass'[q] = pass[q]
      BY <1>3, <2>1, <2>2 DEF Passes
    <2>4. Remaining(Old(o))' = n
      BY <1>1, <2>2 DEF Remaining, Old
    <2>5. key'[Old(o)].busy = 0
      BY <1>1, <1>3 DEF Drained
    <2> QED BY <1>1, <2>1, <2>3, <2>4, <2>5, BesidePass
  <1> QED BY <1>2, <1>3 DEF OldKeyDrain

\* The other reads and calls.
LEMMA LateBeside ==
  ASSUME SInv, BInv, NEW o \in Rotations,
         \/ ReplacementCheck(o) \/ ReplacementLookup(o) \/ CreateReplacement(o)
         \/ ReplacementCreated(o) \/ ReplacementPolicyReadback(o) \/ RuntimeReadback(o)
         \/ RetireOld(o) \/ OldRetired(o) \/ PromoteNew(o) \/ NewPromoted(o)
         \/ DeleteOld(o) \/ OldDeleted(o) \/ RuntimeBound(o)
  PROVE  BInv'
  <1>1. OpenRotation(o) /\ PhaseRank(o) \in {1, 4, 5, 7, 8, 10, 11, 12}
        /\ (DeleteOld(o) => PhaseRank(o) = 12) /\ (CreateReplacement(o) => PhaseRank(o) = 4)
    <2>1. CASE CreateReplacement(o) \/ ReplacementCreated(o) \/ OldRetired(o)
               \/ NewPromoted(o) \/ OldDeleted(o) \/ RuntimeBound(o)
      <3>1. /\ OpenRotation(o) /\ ~DeleteOld(o)
            /\ row[o].phase \in {"replacement_create", "runtime_bind", "retire_old",
                                 "promote_new", "delete_old"}
            /\ CreateReplacement(o) => row[o].phase = "replacement_create"
        BY <2>1 DEF CreateReplacement, ReplacementCreated, OldRetired, NewPromoted, OldDeleted,
           RuntimeBound, DeleteOld, At, SInv, PassHolds, PlaceHolds
      <3> QED BY <3>1, Ranks DEF PhaseRank
    <2>2. CASE \/ ReplacementCheck(o) \/ ReplacementLookup(o) \/ ReplacementPolicyReadback(o)
               \/ RuntimeReadback(o) \/ RetireOld(o) \/ PromoteNew(o) \/ DeleteOld(o)
      <3>1. PICK phase \in {"replacement_check", "replacement_create",
                            "replacement_policy_readback", "runtime_readback", "retire_old",
                            "promote_new", "delete_old"} : At(o, phase)
        BY <2>2 DEF ReplacementCheck, ReplacementLookup, ReplacementPolicyReadback,
           RuntimeReadback, RetireOld, PromoteNew, DeleteOld
      <3>2. /\ OpenRotation(o) /\ PhaseRank(o) = RankOf(phase) /\ ~CreateReplacement(o)
        BY <3>1, AtPhase DEF CreateReplacement
      <3>3. DeleteOld(o) => phase = "delete_old"
        BY <3>1 DEF DeleteOld, At
      <3> QED BY <3>1, <3>2, <3>3, Ranks
    <2> QED BY <2>1, <2>2
  <1>2. ASSUME \E good \in BOOLEAN : Read(o, good) PROVE BInv'
    BY <1>1, <1>2, BesideRead
  <1>3. ASSUME UNCHANGED <<row, budget, key, disturbed>>,
               \E pc \in {"advance", "park", "create", "mark"} : Goto(o, pc) \/ End(o)
        PROVE  BInv'
    BY <1>1, <1>3, BesideMove
  <1>4. ASSUME NEW call \in {"create", "retire", "promote", "delete"},
               NEW then \in {"created", "read_retired", "read_promoted", "read_deleted"},
               Call(o, call, then), call = "create" => PhaseRank(o) = 4,
               call = "delete" => PhaseRank(o) = 12
        PROVE  BInv'
    <2>1. MayCall(call, o) /\ then \in Places \ {"capture", "advance", "claim"}
      BY <1>1, <1>4 DEF MayCall, RotationCalls, Places, OpenRotation
    <2> QED BY <1>4, <2>1, BesideCall
  <1>5. CASE ReplacementLookup(o)
    <2>1. /\ UNCHANGED <<row, budget, key, disturbed>>
          /\ \E pc \in {"advance", "park", "create", "mark"} : Goto(o, pc)
      BY <1>5 DEF ReplacementLookup, history
    <2> QED BY <1>3, <2>1
  <1>6. CASE OldDeleted(o)
    <2>1. /\ UNCHANGED <<row, budget, key, disturbed>>
          /\ \E pc \in {"advance", "park", "create", "mark"} : Goto(o, pc) \/ End(o)
      BY <1>6 DEF OldDeleted, history
    <2> QED BY <1>3, <2>1
  <1>7. CASE ReplacementCheck(o)
    BY <1>2, <1>7 DEF ReplacementCheck, workspaceRotationInitialKeysValid,
       workspaceRotationOldKeyAdmissible, workspaceRotationOldKeyMatches
  <1>8. CASE ReplacementCreated(o) \/ ReplacementPolicyReadback(o)
    <2>1. Read(o, workspaceRotationReplacementPolicyMatches(o))
      BY <1>8 DEF ReplacementCreated, ReplacementPolicyReadback
    <2>2. workspaceRotationReplacementPolicyMatches(o) \in BOOLEAN
      BY DEF workspaceRotationReplacementPolicyMatches
    <2> QED BY <1>2, <2>1, <2>2
  <1>9. CASE RuntimeReadback(o)
    BY <1>2, <1>9 DEF RuntimeReadback
  <1>15. CASE RuntimeBound(o)
    BY <1>2, <1>15 DEF RuntimeBound
  <1>10. Retired(o) \in BOOLEAN /\ Promoted(o) \in BOOLEAN
    BY DEF Retired, Promoted
  <1>11. CASE RetireOld(o) \/ OldRetired(o)
    BY <1>2, <1>4, <1>10, <1>11 DEF RetireOld, OldRetired
  <1>12. CASE PromoteNew(o) \/ NewPromoted(o)
    BY <1>2, <1>4, <1>10, <1>12 DEF PromoteNew, NewPromoted
  <1>13. CASE DeleteOld(o)
    BY <1>1, <1>2, <1>4, <1>13 DEF DeleteOld
  <1>14. CASE CreateReplacement(o)
    BY <1>1, <1>4, <1>14 DEF CreateReplacement
  <1> QED BY <1>5, <1>6, <1>7, <1>8, <1>9, <1>11, <1>12, <1>13, <1>14, <1>15

LEMMA HandoverBeside ==
  ASSUME SInv, BInv, NEW o \in Rotations,
         SecretWrite(o) \/ RuntimeBind(o) \/ WorkspaceCommit(o) \/ Receipt(o)
  PROVE  BInv'
  <1>1. PhaseRank(o) # 2
    <2>1. PICK phase \in {"secret_write", "runtime_bind", "workspace_commit", "receipt"} :
              At(o, phase)
      BY DEF SecretWrite, RuntimeBind, WorkspaceCommit, Receipt
    <2> QED BY <2>1, AtPhase, Ranks
  <1>2. UNCHANGED <<row, budget, key, disturbed>>
    BY DEF SecretWrite, RuntimeBind, WorkspaceCommit, Receipt, history
  <1>3. \E pc \in {"advance", "park", "read_bound"} : Goto(o, pc) \/ End(o)
    BY DEF SecretWrite, RuntimeBind, WorkspaceCommit, Receipt
  <1> QED BY <1>1, <1>2, <1>3, BesideMove

\* The writes of an open rotation's row.
LEMMA RowBeside ==
  ASSUME SInv, BInv, SInv', NEW o \in Rotations,
         Advance(o) \/ Park(o) \/ MarkCreate(o) \/ Capture(o)
  PROVE  BInv'
  <1>0. pass[o].pc \in {"advance", "park", "capture", "mark"}
    BY DEF Advance, Park, MarkCreate, Capture
  <1>1. /\ OpenRotation(o) /\ OpenHolds(o) /\ Types
        /\ row \in [Rotations -> RotationRows] /\ row[o] \in RotationRows
        /\ row[o].phase \in PhaseSet /\ row[o].phase # "succeeded" /\ Old(o) = row[o].old
        /\ PhaseRank(o) \in 1..14 /\ PhaseRank(o) = RankOf(row[o].phase)
    BY <1>0, WritingPass
  <1>2. OldKeyHolds(o) /\ PassHolds(o) /\ PhaseRank(o) <= Stage(o) /\ Stage(o) \in Int
    BY <1>1, PhaseRanked DEF SInv, BInv
  <1>3. UNCHANGED <<key, budget, disturbed>>
    BY DEF Advance, Park, MarkCreate, Capture, history
  <1>4. /\ pass'[o].pc \notin {"claim", "capture", "advance"}
        /\ \A q \in Rotations \ {o} : pass'[q] = pass[q]
    BY PassIs DEF Advance, Park, MarkCreate, Capture
  <1>5. \A q \in Rotations \ {o} : row'[q] = row[q]
    BY <1>1 DEF Advance, Park, MarkCreate, Capture
  <1>6. CASE Park(o) \/ MarkCreate(o)
    <2>1. row'[o].old = row[o].old /\ row'[o].quota = row[o].quota /\ row'[o].phase = row[o].phase
      <3>1. CASE Park(o)
        BY <1>1, <3>1 DEF Park, RotationRows
      <3>2. CASE MarkCreate(o)
        BY <1>1, <3>2 DEF MarkCreate, RotationRows
      <3> QED BY <1>6, <3>1, <3>2
    <2>2. Old(o)' = Old(o) /\ PhaseRank(o)' = PhaseRank(o)
      BY <2>1 DEF Old, PhaseRank
    <2> QED BY <1>1, <1>2, <1>3, <1>4, <1>5, <2>1, <2>2, BesideRow DEF OldKeyHolds
  <1>7. CASE Advance(o)
    <2>1. /\ row'[o].old = row[o].old /\ row'[o].quota = row[o].quota
          /\ row'[o].phase = Next_(row[o].phase)
      BY <1>1, <1>7 DEF Advance, RotationRows
    <2>2. Old(o)' = Old(o) /\ PhaseRank(o)' = PhaseRank(o) + 1
      BY <1>1, <2>1, NextPhase DEF Old, PhaseRank
    <2>3. Stage(o) = PhaseRank(o) + 1
      BY <1>7 DEF Advance, Stage
    <2>4. PhaseRank(o) # 3
      <3>1. row[o].phase # "old_key_drain" /\ row[o].phase \in PhaseNames
        BY <1>1, <1>2, <1>7, PhaseSetIs DEF Advance, PassHolds, PlaceHolds
      <3> QED BY <1>1, <3>1, Ranks DEF PhaseNames
    <2>5. PhaseRank(o)' >= 4 => PhaseRank(o) >= 4
      BY <1>1, <2>2, <2>4
    <2> QED BY <1>1, <1>2, <1>3, <1>4, <1>5, <2>1, <2>2, <2>3, <2>5, BesideRow DEF OldKeyHolds
  <1>8. CASE Capture(o)
    <2>1. /\ row'[o].old = row[o].old /\ row'[o].quota = pass[o].quota
          /\ row'[o].phase = "replacement_create"
      BY <1>1, <1>8 DEF Capture, RotationRows
    <2>2. Old(o)' = Old(o) /\ PhaseRank(o)' = 4
      BY <2>1, Ranks DEF Old, PhaseRank
    <2>3. PhaseRank(o) = 3 /\ pass[o].pc = "capture"
      BY <1>1, <1>2, <1>8, Ranks DEF Capture, PassHolds, PlaceHolds
    <2>4. /\ ~Live(o)
          /\ StaysOff(o) => key[Old(o)].busy = 0 /\ ~key[Old(o)].enabled
          /\ StaysSpent(o) => Remaining(Old(o)) = row'[o].quota
      BY <1>1, <1>2, <2>1, <2>3 DEF OpenHolds, OldKeyHolds
    <2>5. \A q \in Rotations : OpenRotation(q) => q = o
      BY <1>1 DEF SInv
    <2>6. \A q \in Rotations \ {o} : ~OpenRotation(q)'
      BY <1>5, <2>5 DEF OpenRotation
    <2>7. OldKeyHolds(o)'
      <3>1. /\ Stage(o)' = 4 /\ Remaining(Old(o))' = Remaining(Old(o)) /\ ~Live(o)'
            /\ StaysOff(o)' <=> StaysOff(o)
            /\ StaysSpent(o)' <=> StaysSpent(o)
        BY <1>3, <1>4, <2>2, <2>4 DEF Stage, Remaining, Live, StaysOff, StaysSpent
      <3> QED BY <1>3, <1>4, <2>2, <2>4, <3>1 DEF OldKeyHolds
    <2>8. ASSUME NEW b \in Budgets PROVE BudgetHolds(b)'
      <3>1. ~OpenBudget(b)
        BY <1>1 DEF BInv, BudgetHolds
      <3>2. \A q \in Rotations : row[q].status = "succeeded" => row'[q].status = "succeeded"
        BY <1>1, <1>5 DEF OpenRotation
      <3> QED BY <1>3, <3>1, <3>2, BudgetBeside
    <2> QED BY <2>6, <2>7, <2>8 DEF BInv
  <1> QED BY <1>6, <1>7, <1>8

\* The claim and the end of a rotation.
LEMMA ClaimBeside ==
  ASSUME SInv, BInv, NEW o \in Rotations, Claim(o)
  PROVE  BInv'
  <1>1. UNCHANGED <<key, budget, disturbed>>
    BY DEF Claim, history
  <1>2. CASE End(o) /\ UNCHANGED row
    <2>1. Goto(o, "run") \/ End(o)
      BY <1>2
    <2> QED BY <1>1, <1>2, <2>1, BesideMove
  <1>3. CASE /\ \A other \in Rotations : ~OpenRotation(other)
             /\ row' = [row EXCEPT ![o] = [NoRotation EXCEPT !.status = "started", !.old = wsKey]]
             /\ Goto(o, "run")
    <2>1. /\ row \in [Rotations -> RotationRows] /\ row[o].status = "none"
          /\ key[o].life = "absent"
      BY DEF Claim, SInv, Types, TypeOK, RotationRows, PassHolds, PlaceHolds, RowHolds
    <2>2. /\ row'[o].phase = "replacement_check"
          /\ \A q \in Rotations \ {o} : row'[q] = row[q]
      BY <1>3, <2>1 DEF NoRotation
    <2>3. pass'[o].pc = "run"
      BY <1>3, PassIs
    <2>4. PhaseRank(o)' = 1 /\ Stage(o)' = 1 /\ ~Live(o)'
      BY <1>1, <2>1, <2>2, <2>3, Ranks DEF PhaseRank, Stage, Live
    <2>5. OldKeyHolds(o)'
      BY <2>3, <2>4 DEF OldKeyHolds
    <2>6. \A q \in Rotations \ {o} : ~OpenRotation(q)'
      BY <1>3, <2>2 DEF OpenRotation
    <2>7. ASSUME NEW b \in Budgets PROVE BudgetHolds(b)'
      <3>1. ~OpenBudget(b)
        BY DEF BInv, BudgetHolds, Claim
      <3>2. \A q \in Rotations : row[q].status = "succeeded" => row'[q].status = "succeeded"
        BY <2>1, <2>2
      <3> QED BY <1>1, <3>1, <3>2, BudgetBeside
    <2> QED BY <2>5, <2>6, <2>7 DEF BInv
  <1> QED BY <1>2, <1>3 DEF Claim

LEMMA CompleteBeside ==
  ASSUME SInv, BInv, SInv', NEW o \in Rotations, Complete(o)
  PROVE  BInv'
  <1>1. UNCHANGED <<key, budget, disturbed>> /\ OpenRotation(o) /\ PhaseRank(o) # 2
        /\ row \in [Rotations -> RotationRows]
    BY AtPhase, Ranks DEF Complete, SInv, Types, TypeOK, RotationRows, history
  <1>2. CASE Goto(o, "park") /\ UNCHANGED row
    BY <1>1, <1>2, BesideMove
  <1>3. CASE /\ row' = [row EXCEPT ![o].phase = "succeeded", ![o].status = "succeeded"]
             /\ End(o)
    <2>1. ~OpenRotation(o)' /\ \A q \in Rotations \ {o} : row'[q] = row[q]
      BY <1>1, <1>3 DEF OpenRotation, RotationRows
    <2>2. pass'[o].pc = "idle" /\ \A q \in Rotations \ {o} : pass'[q] = pass[q]
      BY <1>3, PassIs
    <2> QED BY <1>1, <2>1, <2>2, BesideRow
  <1> QED BY <1>2, <1>3 DEF Complete

-----------------------------------------------------------------------------
(* Late calls and budget updates                                            *)

\* A late budget call that changes the old key of the open rotation is recorded.
LEMMA DisturbedHolds ==
  ASSUME SInv, BInv, NEW call \in AllRequests, NEW b \in Budgets, Deliver(call, b),
         budget[b].key \in Keys, NEW o \in Rotations, OpenRotation(o)
  PROVE  OldKeyHolds(o)'
  <1>1. /\ OpenHolds(o) /\ OldKeyHolds(o) /\ o \in Keys /\ Old(o) \in Keys \ {o}
        /\ key \in [Keys -> KeyRecords] /\ BudgetHolds(b)
    BY DEF SInv, BInv, RowHolds, OpenHolds, Keys, Types, TypeOK, KeyRecords
  <1>2. /\ UNCHANGED <<row, budget, pass>> /\ key' = Patched(b, call)
        /\ disturbed' = disturbed \cup Disturbed(call, b)
    BY DEF Deliver
  <1>3. /\ Old(o)' = Old(o) /\ PhaseRank(o)' = PhaseRank(o) /\ Stage(o)' = Stage(o)
    BY <1>2 DEF Old, PhaseRank, Stage
  <1>4. PICK k \in Keys : k = budget[b].key
    OBVIOUS
  <1>5. k # o
    BY <1>1, <1>4 DEF BudgetHolds, OpenRotation
  <1>6. /\ \A other \in Keys : /\ key'[other].life = key[other].life
                               /\ other # k => key'[other] = key[other]
        /\ key'[k].busy = key[k].busy
        /\ call # "enable" => (key'[k].enabled => key[k].enabled)
        /\ call \in {"enable", "disable"} =>
               key'[k].quota = key[k].quota /\ key'[k].used = key[k].used
    BY <1>1, <1>2, <1>4, PatchEffect
  <1>7. Live(o)' => key'[o].quota = row[o].quota
    BY <1>1, <1>5, <1>6 DEF OldKeyHolds, Live
  <1>8. (StaysOff(o)' => StaysOff(o)) /\ (StaysSpent(o)' => StaysSpent(o))
    BY <1>2, <1>3 DEF StaysOff, StaysSpent
  <1>9. key'[Old(o)].busy = key[Old(o)].busy
    BY <1>1, <1>6
  <1>10. CASE k # Old(o) \/ key' = key
    <2>1. key'[Old(o)] = key[Old(o)]
      BY <1>1, <1>6, <1>10
    <2>2. Remaining(Old(o))' = Remaining(Old(o))
      BY <1>3, <2>1 DEF Remaining
    <2> QED BY <1>1, <1>2, <1>3, <1>7, <1>8, <2>1, <2>2 DEF OldKeyHolds
  <1>11. CASE k = Old(o) /\ key' # key
    <2>1. <<call, Old(o)>> \in disturbed'
      BY <1>2, <1>4, <1>11 DEF Disturbed
    <2>2. StaysOff(o)' => call # "enable"
      BY <1>3, <2>1 DEF StaysOff
    <2>3. StaysSpent(o)' => call = "disable"
      BY <1>3, <2>1 DEF StaysSpent, AllRequests
    <2>4. StaysOff(o)' => (key'[Old(o)].enabled => key[Old(o)].enabled)
      BY <1>6, <1>11, <2>2
    <2>5. StaysSpent(o)' => Remaining(Old(o))' = Remaining(Old(o))
      BY <1>3, <1>6, <1>11, <2>3 DEF Remaining
    <2> QED BY <1>1, <1>2, <1>3, <1>7, <1>8, <1>9, <2>4, <2>5 DEF OldKeyHolds
  <1> QED BY <1>10, <1>11

LEMMA DeliverBeside ==
  ASSUME SInv, BInv, NEW call \in LateCalls, NEW o \in Rotations \cup Budgets,
         Deliver(call, o)
  PROVE  BInv'
  <1>1. /\ FlightHolds(<<call, o>>) /\ UNCHANGED <<row, budget, pass>>
    BY DEF SInv, Deliver
  <1>2. CASE o \in Rotations
    <2>1. o \notin Budgets
      BY <1>2, ConstantsAssumption
    <2>2. MayCall(call, o) /\ key' = KeyEffect(call, o) /\ disturbed' = disturbed
      BY <1>1, <1>2, <2>1 DEF FlightHolds, MayCall, Deliver
    <2>3. KeepsBudgets
      BY <1>2, <2>2, CallKeeps
    <2> QED BY <1>1, <2>2, <2>3, BesideOwner
  <1>3. CASE o \in Budgets
    <2>1. call \in AllRequests /\ budget[o].status # "none"
      BY <1>1, <1>3, ConstantsAssumption DEF FlightHolds
    <2>2. budget[o].key \in Keys
      BY <1>3, <2>1 DEF SInv, UpdateHolds
    <2>3. \A q \in Rotations : OpenRotation(q)' <=> OpenRotation(q)
      BY <1>1 DEF OpenRotation
    <2>4. \A q \in Rotations : OpenRotation(q)' => OldKeyHolds(q)'
      BY <1>3, <2>1, <2>2, <2>3, DisturbedHolds
    <2>5. ASSUME NEW b \in Budgets PROVE BudgetHolds(b)'
      <3>1. OpenBudget(b) => \A q \in Rotations : ~OpenRotation(q)' /\ pass'[q].pc # "claim"
        BY <1>1, <2>3 DEF BInv, BudgetHolds
      <3> QED BY <1>1, <3>1, BudgetBeside
    <2> QED BY <2>4, <2>5 DEF BInv
  <1> QED BY <1>2, <1>3

LEMMA BudgetBesides ==
  ASSUME SInv, BInv, NEW b \in Budgets, BudgetStep(b)
  PROVE  BInv'
  <1>1. /\ UNCHANGED <<row, wsKey, pass>> /\ \A q \in Rotations : OpenRotation(q)' <=> OpenRotation(q)
    BY DEF BudgetStep, BudgetAdmit, BudgetPatch, BudgetRead, BudgetUnread, BudgetAbort,
       BudgetReplay, OpenRotation
  <1>10. UNCHANGED disturbed
    BY DEF BudgetStep, BudgetAdmit, BudgetPatch, BudgetRead, BudgetUnread, BudgetAbort,
       BudgetReplay, history
  <1>2. key \in [Keys -> KeyRecords] /\ BudgetHolds(b) /\ UpdateHolds(b)
    BY DEF SInv, BInv, Types, TypeOK, KeyRecords
  <1>3. ASSUME key' = key PROVE \A q \in Rotations : OpenRotation(q)' => OldKeyHolds(q)'
    BY <1>1, <1>3, <1>10, UnchangedKeeps, OldKeyStep
  <1>4. budget \in [Budgets -> [status : {"none", "started", "manual_review", "succeeded"},
                                key : Keys \cup {None}, request : AllRequests]]
    BY DEF SInv, Types, TypeOK
  <1>5. ASSUME NEW c \in Budgets, budget'[c] = budget[c]
        PROVE  BudgetHolds(c)'
    <2>1. BudgetHolds(c)
      BY DEF BInv
    <2> QED BY <1>1, <1>5, <2>1 DEF BudgetHolds, OpenBudget
  <1>6. CASE \E request \in Requests : BudgetAdmit(b, request)
    <2>1. PICK request \in Requests : BudgetAdmit(b, request)
      BY <1>6
    <2>2. /\ key' = key
          /\ \A c \in Budgets \ {b} : budget'[c] = budget[c]
          /\ budget'[b].key = wsKey
      BY <1>4, <2>1 DEF BudgetAdmit
    <2>3. \A q \in Rotations : ~OpenRotation(q) /\ pass[q].pc # "claim"
      BY <2>1 DEF BudgetAdmit, MutationAdmitted, MutationLockFree
    <2>4. ASSUME wsKey \in Rotations PROVE row[wsKey].status = "succeeded"
      <3>1. PICK o \in Rotations : o = wsKey
        BY <2>4
      <3>2. key[o].life = "live" /\ RowHolds(o) /\ ~OpenRotation(o)
        BY <2>1, <2>3, <3>1 DEF BudgetAdmit, Live, SInv
      <3>3. row[o].status \in {"none", "started", "manual_review", "succeeded"}
        BY DEF SInv, Types, TypeOK
      <3> QED BY <3>1, <3>2, <3>3 DEF RowHolds, OpenRotation
    <2>5. BudgetHolds(b)'
      BY <1>1, <2>2, <2>3, <2>4 DEF BudgetHolds
    <2> QED BY <1>3, <1>5, <2>2, <2>5 DEF BInv
  <1>7. CASE BudgetPatch(b)
    <2>1. OpenBudget(b) /\ budget' = budget /\ budget[b].status # "none"
      BY <1>2, <1>7 DEF BudgetPatch, UpdateHolds, OpenBudget
    <2>2. \A q \in Rotations : ~OpenRotation(q)' /\ pass'[q].pc # "claim"
      BY <1>1, <1>2, <2>1 DEF BudgetHolds
    <2>3. \A c \in Budgets : BudgetHolds(c)'
      BY <1>1, <2>1, <2>2, BudgetBeside
    <2> QED BY <2>2, <2>3 DEF BInv
  <1>8. CASE BudgetRead(b) \/ BudgetUnread(b) \/ BudgetReplay(b)
    <2>1. PICK status \in {"succeeded", "manual_review"} :
              budget' = [budget EXCEPT ![b].status = status]
      BY <1>8 DEF BudgetRead, BudgetUnread, BudgetReplay
    <2>2. key' = key /\ OpenBudget(b)
      BY <1>2, <1>8 DEF BudgetRead, BudgetUnread, BudgetReplay, UpdateHolds
    <2>3. /\ budget'[b].key = budget[b].key
          /\ \A c \in Budgets \ {b} : budget'[c] = budget[c]
      BY <1>4, <2>1
    <2>4. BudgetHolds(b)'
      BY <1>1, <1>2, <2>2, <2>3 DEF BudgetHolds, OpenBudget
    <2> QED BY <1>3, <1>5, <2>2, <2>3, <2>4 DEF BInv
  <1>9. CASE BudgetAbort(b)
    BY <1>3, <1>5, <1>9 DEF BInv, BudgetAbort
  <1> QED BY <1>6, <1>7, <1>8, <1>9 DEF BudgetStep

-----------------------------------------------------------------------------
(* Theorems about what may be spent                                         *)

LEMMA BudgetsFirst == Init => BInv
  <1> SUFFICES ASSUME Init PROVE BInv
    OBVIOUS
  <1>1. \A o \in Rotations : ~OpenRotation(o)
    BY DEF Init, OpenRotation, NoRotation
  <1>2. ASSUME NEW b \in Budgets PROVE BudgetHolds(b)
    <2>1. ~OpenBudget(b) /\ budget[b].key = None
      BY DEF Init, OpenBudget, NoBudget
    <2> QED BY <2>1, ConstantsAssumption DEF BudgetHolds
  <1> QED BY <1>1, <1>2 DEF BInv

LEMMA BudgetsNext ==
  ASSUME SInv, BInv, [Next]_vars
  PROVE  BInv'
  <1>1. CASE \E o \in Rotations : RotationStep(o)
    <2>1. PICK o \in Rotations : RotationStep(o)
      BY <1>1
    <2>2. SInv'
      BY <2>1, RotationHolds
    <2> QED BY <2>1, <2>2, EntryBeside, DisableBeside, DrainBeside, LateBeside,
               HandoverBeside, RowBeside, ClaimBeside, CompleteBeside DEF RotationStep
  <1>2. CASE \E b \in Budgets : BudgetStep(b)
    BY <1>2, BudgetBesides
  <1>3. CASE \E call \in LateCalls, o \in Rotations \cup Budgets : Deliver(call, o)
    BY <1>3, DeliverBeside
  <1>4. CASE Use \/ \E k \in Keys : Used(k)
    <2>1. UNCHANGED <<row, budget, pass, disturbed>>
      BY <1>4 DEF Use, Used, history
    <2> QED BY <1>4, <2>1, UseKeeps, BesideOwner
  <1>5. CASE Refresh \/ UNCHANGED vars
    <2>1. UNCHANGED <<row, budget, pass, disturbed, key>>
      BY <1>5 DEF Refresh, vars, history
    <2> QED BY <2>1, UnchangedKeeps, BesideOwner
  <1> QED BY <1>1, <1>2, <1>3, <1>4, <1>5 DEF Next

\* The old key of the open rotation is off and idle from the moment its budget was read
\* until a late budget call changes it, and no budget update runs beside a rotation.
THEOREM BudgetsHold == Spec => [](SInv /\ BInv)
  <1>1. Init => SInv /\ BInv
    BY InitHolds, BudgetsFirst
  <1>2. SInv /\ BInv /\ [Next]_vars => (SInv /\ BInv)'
    BY NextHolds, BudgetsNext
  <1> QED BY <1>1, <1>2, PTL DEF Spec

\* Never do two keys of the Workspace take requests, however a rotation is cut and resumed,
\* unless a late call of an enabling budget update turns the old key on again.
THEOREM SpendableKeyIsOne == Spec => []OneSpendableKey
  <1>1. SInv /\ BInv => OneSpendableKey
    <2> SUFFICES ASSUME SInv, BInv PROVE OneSpendableKey
      OBVIOUS
    <2> DEFINE S == {k \in Keys : Live(k) /\ key[k].enabled /\ <<"enable", k>> \notin disturbed}
    <2>1. \E k : S \subseteq {k}
      <3>1. CASE \A o \in Rotations : ~OpenRotation(o)
        <4>1. {k \in Keys : Live(k)} = {wsKey}
          BY <3>1 DEF SInv, SucceededConverged
        <4> QED BY <4>1
      <3>2. ASSUME NEW o \in Rotations, OpenRotation(o) PROVE \E k : S \subseteq {k}
        <4>1. OpenHolds(o) /\ OldKeyHolds(o) /\ Types
          BY <3>2 DEF SInv, BInv, RowHolds
        <4>2. \A k \in Keys : Live(k) => k \in {Old(o), o}
          BY <4>1 DEF OpenHolds
        <4>3. /\ PhaseRank(o) \in Int /\ Stage(o) \in Int /\ PhaseRank(o) <= Stage(o)
          BY <4>1, PhaseRanked
        <4>4. CASE Live(o)
          <5>1. ~(PhaseRank(o) < 4)
            BY <4>1, <4>4 DEF OpenHolds
          <5>2. <<"enable", Old(o)>> \notin disturbed => ~key[Old(o)].enabled
            BY <4>1, <4>3, <5>1 DEF OldKeyHolds, StaysOff
          <5> QED BY <4>2, <5>2
        <4>5. CASE ~Live(o)
          BY <4>2, <4>5
        <4> QED BY <4>4, <4>5
      <3> QED BY <3>1, <3>2
    <2>2. PICK k : S \subseteq {k}
      BY <2>1
    <2>3. IsFiniteSet({k}) /\ Cardinality({k}) = 1
      BY FS_Singleton
    <2>4. Cardinality(S) <= 1
      BY <2>2, <2>3, FS_Subset
    <2> QED BY <2>4 DEF OneSpendableKey
  <1> QED BY <1>1, BudgetsHold, PTL

\* The replacement gets what the old key had left and nothing is spent at the old key once
\* that was read, unless a late budget call changes the old key.
THEOREM BudgetIsCarriedOver == Spec => []BudgetCarriedOver
  <1>1. SInv /\ BInv => BudgetCarriedOver
    <2> SUFFICES ASSUME SInv, BInv, NEW o \in Rotations, row[o].quota # None
                 PROVE  /\ Live(Old(o)) /\ StaysOff(o) => key[Old(o)].busy = 0
                        /\ Live(Old(o)) /\ StaysSpent(o) => Remaining(Old(o)) = row[o].quota
                        /\ OpenRotation(o) /\ Live(o) => key[o].quota = row[o].quota
      BY DEF BudgetCarriedOver, StaysOff, StaysSpent
    <2>1. /\ RowHolds(o) /\ Types
          /\ row[o].status \in {"none", "started", "manual_review", "succeeded"}
      BY DEF SInv, Types, TypeOK
    <2>2. row[o].status # "none"
      BY <2>1 DEF RowHolds, NoRotation
    <2>3. CASE row[o].status = "succeeded"
      BY <2>1, <2>3 DEF RowHolds, Live, OpenRotation
    <2>4. CASE OpenRotation(o)
      <3>1. OpenHolds(o) /\ OldKeyHolds(o)
        BY <2>1, <2>4 DEF BInv, RowHolds
      <3>2. PhaseRank(o) \in Int /\ ~(PhaseRank(o) < 4)
        BY <2>1, <3>1, PhaseRanked DEF OpenHolds
      <3> QED BY <3>1, <3>2 DEF OldKeyHolds
    <2> QED BY <2>1, <2>2, <2>3, <2>4 DEF OpenRotation
  <1> QED BY <1>1, BudgetsHold, PTL
=============================================================================
