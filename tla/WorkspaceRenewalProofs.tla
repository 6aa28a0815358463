------------------------- MODULE WorkspaceRenewalProofs -------------------------
(***************************************************************************)
(* The safety of a renewal's money, of its expiry and of its receipts, for *)
(* any number of workers, reviewers, periods, faults and foreign wallet    *)
(* movements.                                                              *)
(*                                                                         *)
(* Passes write rows that were computed from older rows, and the store     *)
(* compares everything but the status column.  The invariant therefore     *)
(* says of every copy of a row, stored, loaded or about to be stored, what *)
(* it alone promises (Good) and which facts of the owners it rests on      *)
(* (Backed), and of what a pass is about to write how it follows from what *)
(* it compares with (Follows).  The row in memory may be ahead of the row  *)
(* it was stored as, but only in its expiry (Near).  A second invariant    *)
(* (XInv) says the same of the expiry: which one a copy may carry (Dated), *)
(* what a write does to it (Ages), and what the stored ones say of the     *)
(* Workspace row.                                                          *)
(***************************************************************************)
EXTENDS WorkspaceRenewal, FiniteSetTheorems, TLAPS

-----------------------------------------------------------------------------
(* The inductive invariant                                                 *)

\* Closed or under review without a debit: nothing will be debited.
Quiet(o) == o.expiryStatus # "" /\ ~o.attempted

\* How the fields of a row go together.
Good(o) ==
  /\ o.status = "none" => o = NoOperation
  /\ o.confirmed => o.attempted
  /\ o.status \in {"debited", "provider_renewing", "verifying", "active",
                   "refund_pending", "refunded"} => o.confirmed
  /\ o.status = "verifying" => o.phase \in {"entitlement", "receipt"}
  /\ o.phase = "receipt" => o.entitled
  /\ o.status = "active" => o.entitled
  /\ o.entitled => /\ o.confirmed /\ o.phase \in {"receipt", "complete"}
                   /\ o.status \in {"verifying", "active"}
  /\ o.status \in {"refund_pending", "refunded"} => o.refundAttempted
  /\ o.refundAttempted =>
       /\ o.confirmed /\ o.review \in {"", "verify_compute"}
       /\ o.status \in {"refund_pending", "refunded", "manual_review"}
  /\ o.refundConfirmed <=> o.status = "refunded"
  /\ o.review # "" => o.status \in {"manual_review", "verifying", "active"}
  /\ o.status = "expired_unpaid" => Quiet(o)
  /\ Quiet(o) => o.status \in {"expired_unpaid", "manual_review"}
  /\ o.expiryStatus # "" => o.expiryPaid >= 1
  /\ o.expiryStatus = "" => o.expiryPhase = ""

\* What a copy of the row of period p, wherever it is kept, says of the owners.
Backed(o, p) ==
  /\ o.confirmed => charge[p] = "used"
  /\ o.refundAttempted => provider["compute"].gone
  /\ o.refundConfirmed => refund[p] = "used"
  /\ o.entitled => \A res \in Resources : provider[res].through > p

\* What the row of a pass must be where the pass is.
PcHolds(pc, o) ==
  /\ pc = "charge" => o.status = "debit_pending" /\ o.attempted
  /\ pc = "post" => o.status = "debit_pending" /\ o.confirmed
  /\ pc = "receipt" => o.status = "verifying" /\ o.phase = "receipt"
  /\ pc = "refund" => o.status \in {"refund_pending", "provider_renewing"}
  /\ pc = "refundCall" => o.status = "refund_pending"
  /\ pc = "refundReceipt" => o.status = "refunded"
  /\ pc = "resolve" => o.confirmed
  /\ pc \notin {"idle", "load", "claim"} => o.status # "none"

\* A row computed from o keeps what o says of the money.
Follows(o, n) ==
  /\ n.status # "none"
  /\ o.attempted => n.attempted
  /\ o.refundAttempted => n.refundAttempted
  /\ o.refundConfirmed => n.refundConfirmed
  /\ o.entitled => n.entitled
  /\ Quiet(o) => Quiet(n)

SameMoney(o, n) ==
  /\ n.attempted = o.attempted /\ n.confirmed = o.confirmed
  /\ n.refundAttempted = o.refundAttempted
  /\ n.refundConfirmed = o.refundConfirmed /\ n.entitled = o.entitled

\* The row in memory and the one it was stored as: ahead in its expiry only.
Near(b, o) ==
  /\ SameMoney(b, o)
  /\ b.expiryStatus = "" <=> o.expiryStatus = ""
  /\ b = o \/ o.expiryStatus # ""

Entitling == {"entitle", "recover"}
Expiring == {"expiry", "late"}

PersistGood(r) ==
  /\ Good(r.want) /\ Backed(r.want, r.p) /\ Follows(r.row, r.want)
  /\ PcHolds(r.then, r.want)
  /\ r.then \notin {"persist", "claim", "idle", "load", "refund", ""}
  /\ r.patch \in Entitling => r.want.entitled
  /\ r.patch \notin Entitling => (r.want.entitled => r.row.entitled)
  /\ r.stage \in Expiring => r.then = "expiry" /\ Near(r.row, r.want)

ClaimGood(r) ==
  LET o == r.seen.ops[r.p] IN
  /\ Good(r.want) /\ Backed(r.want, r.p) /\ Follows(o, r.want)
  /\ r.want.entitled => o.entitled
  /\ o.status = "none" => /\ r.p = r.seen.paid
                          /\ Quiet(r.want) \/ r.seen.auto

\* What the stored row keeps of a row that was once loaded or stored.
Known(o, p) ==
  /\ o.status # "none" => ops[p].status # "none"
  /\ o.attempted => ops[p].attempted
  /\ o.refundAttempted => ops[p].refundAttempted

\* A row in memory, with the row it was stored as.
Held(o, b, p) == Good(o) /\ Backed(o, p) /\ Known(o, p) /\ Near(b, o)

\* Where progressWorkspaceRenewalExpiry may be, and that the caller of
\* runWorkspaceRenewal has a row to fall back on.
StageGood(r) ==
  /\ r.stage \in Expiring => r.pc \in {"expiry", "reload", "persist"}
  /\ r.stage = "run" /\ r.expired /\ r.pc # "reload" => r.caller.row.status # "none"
  /\ r.pc \in {"load", "claim"} => r.stage = "" /\ r.caller = NoCaller

PassGood(r) ==
  /\ Held(r.row, r.base, r.p) /\ Held(r.caller.row, r.caller.base, r.p)
  /\ PcHolds(r.pc, r.row) /\ StageGood(r)
  /\ r.pc = "refund" => provider["compute"].gone
  /\ r.pc = "persist" => PersistGood(r)
  /\ r.pc # "persist" => r.patch = ""
  /\ r.pc = "claim" => ClaimGood(r)

\* What the stored row of period p says of the owners and of the Workspace.
PeriodGood(p) ==
  LET o == ops[p] IN
  /\ Good(o) /\ Backed(o, p)
  /\ charge[p] # "none" => o.attempted
  /\ refund[p] # "none" => o.refundAttempted
  /\ o.status # "none" => p <= ws.paid
  /\ ws.paid > p <=> o.entitled

\* The provider has only been asked for months that were paid for.
ProviderPaid ==
  \A p \in Periods, res \in Resources :
    provider[res].through > p \/ provider[res].inflight >= p
      => charge[p] = "used"

\* A customer who was told the renewal is cancelled: it is closed, refunded or
\* will not begin.
ToldGood ==
  told \in Periods =>
    \/ ops[told].refundConfirmed \/ Quiet(ops[told])
    \/ ops[told].status = "none" /\ ~ws.auto

RInv ==
  /\ TypeOK /\ ProviderPaid /\ ToldGood
  /\ \A p \in Periods : PeriodGood(p)
  /\ \A a \in Actors : PassGood(pass[a])

-----------------------------------------------------------------------------
(* Types of rows and passes                                                *)

Kinds == {"renewed", "refunded", "expired"} \X (1 .. LastPeriod + 1)
Stages == {"", "expiry", "run", "late", "receipt", "resolve", "review"}
PatchNames == {"", "suspend", "expire", "close", "entitle", "recover"}

LEMMA Constants ==
  /\ LastPeriod \in Nat \ {0} /\ Periods \subseteq Nat /\ 1 \in Periods
  /\ \A p \in Periods : p >= 1 /\ p <= LastPeriod
  /\ \A p \in Periods : p \in 1 .. LastPeriod + 1 /\ p + 1 \in 1 .. LastPeriod + 1
  /\ 0 \notin Periods
  BY RenewalAssumption DEF Periods

LEMMA NewRows ==
  /\ newWorkspaceRenewalOperation \in Operation
  /\ NoOperation \in Operation
  /\ Good(newWorkspaceRenewalOperation) /\ Good(NoOperation)
  <1>1. newWorkspaceRenewalOperation \in Operation
    BY Constants DEF newWorkspaceRenewalOperation, Operation, Statuses, Phases
  <1>2. NoOperation \in Operation
    BY <1>1 DEF NoOperation, Operation, Statuses
  <1>3. /\ NoOperation.status = "none" /\ ~NoOperation.attempted
        /\ ~NoOperation.confirmed /\ ~NoOperation.refundAttempted
        /\ ~NoOperation.refundConfirmed /\ ~NoOperation.entitled
        /\ NoOperation.expiryStatus = "" /\ NoOperation.expiryPhase = ""
        /\ NoOperation.review = "" /\ NoOperation.phase = "preflight_compute"
    BY DEF NoOperation, newWorkspaceRenewalOperation
  <1>4. Good(newWorkspaceRenewalOperation)
    BY DEF Good, Quiet, newWorkspaceRenewalOperation
  <1> QED BY <1>1, <1>2, <1>3, <1>4 DEF Good, Quiet

LEMMA NearItself == \A o : Near(o, o)
  BY DEF Near, SameMoney

\* Rows stored as one another in turn.
LEMMA NearTwice ==
  ASSUME NEW b, NEW o, NEW n, Near(b, o), Near(o, n)
  PROVE  Near(b, n)
  BY DEF Near, SameMoney

Caller == [row : Operation, base : Operation]

LEMMA NoCallerFields ==
  NoCaller \in Caller /\ NoCaller.row = NoOperation /\ NoCaller.base = NoOperation
  BY NewRows DEF NoCaller, Caller

LEMMA IdleType == Idle \in Pass /\ NothingSeen \in Seen
  <1>1. NothingSeen \in Seen
    BY NewRows, Constants DEF NothingSeen, Seen
  <1> QED BY <1>1, NewRows, NoCallerFields, Constants DEF Idle, Pass, Points, Caller

LEMMA IdleFields ==
  /\ Idle.pc = "idle" /\ Idle.stage = "" /\ Idle.p = 1 /\ Idle.row = NoOperation
  /\ Idle.base = NoOperation /\ Idle.caller = NoCaller
  /\ Idle.want = NoOperation /\ Idle.patch = "" /\ Idle.now = 0 /\ ~Idle.expired
  BY DEF Idle

LEMMA PassFields ==
  ASSUME NEW r \in Pass
  PROVE  /\ r.pc \in Points /\ r.stage \in Stages /\ r.now \in Nat
         /\ r.p \in Periods /\ r.row \in Operation /\ r.want \in Operation
         /\ r.base \in Operation /\ r.caller \in Caller
         /\ r.caller.row \in Operation /\ r.caller.base \in Operation
         /\ r.patch \in PatchNames /\ r.then \in Points \cup {"", "ok", "err"}
         /\ r.expired \in BOOLEAN /\ r.pastDue \in BOOLEAN /\ r.seen \in Seen
  BY DEF Pass, Stages, PatchNames, Caller

\* Passes that differ in where they are only.
Keeps(r, s) ==
  /\ s.p = r.p /\ s.row = r.row /\ s.base = r.base /\ s.caller = r.caller
  /\ s.patch = r.patch /\ s.expired = r.expired

\* A pass that goes on elsewhere with the row it has.
LEMMA Moved ==
  ASSUME NEW r \in Pass, NEW pc \in Points
  PROVE  LET s == [r EXCEPT !.pc = pc] IN
         s \in Pass /\ s.pc = pc /\ Keeps(r, s) /\ s.stage = r.stage /\ s.seen = r.seen
  BY DEF Pass, Keeps

LEMMA StoredRecord ==
  ASSUME NEW r \in Pass
  PROVE  LET s == Stored(r) IN
         /\ s \in Pass /\ s.p = r.p /\ s.row = r.want /\ s.base = r.want
         /\ s.caller = r.caller /\ s.patch = "" /\ s.stage = r.stage
         /\ s.expired = r.expired
  BY NewRows DEF Pass, Stored

LEMMA UnstoredRecord ==
  ASSUME NEW r \in Pass
  PROVE  LET s == Unstored(r) IN
         /\ s \in Pass /\ s.p = r.p /\ s.base = r.base /\ s.caller = r.caller
         /\ s.patch = "" /\ s.stage = r.stage /\ s.expired = r.expired
         /\ s.row = IF r.stage \in Expiring THEN r.want ELSE r.row
  BY NewRows DEF Pass, Unstored, Expiring

\* Where a pass goes between two parts; it needs no more than a row there.
Between == {"reload", "run", "expiry", "expiryReceipt", "reviewFailed", "complete"}

\* It goes on with its row, or falls back on its caller's.
GoesOn(r, s) ==
  /\ s.row = r.row /\ s.base = r.base
  /\ s.caller \in {r.caller, NoCaller, [row |-> r.row, base |-> r.base]}
  /\ s.stage = "run" /\ s.expired => s.caller = [row |-> r.row, base |-> r.base]
  /\ s.stage \in Expiring => s.pc \in {"expiry", "reload"}
FallsBack(r, s) ==
  /\ r.stage = "run" /\ s.stage = "run" /\ r.expired /\ s.pc = "reload"
  /\ s.row = r.caller.row /\ s.base = r.caller.base /\ s.caller = NoCaller

Onward(r, s) ==
  /\ s \in Pass
  /\ \/ s = Idle
     \/ /\ s.p = r.p /\ s.patch = r.patch /\ s.expired = r.expired
        /\ s.pc \in Between
        /\ GoesOn(r, s) \/ FallsBack(r, s)

LEMMA OnwardIdle == \A r : Onward(r, Idle)
  BY IdleType DEF Onward

LEMMA OnwardMoved ==
  ASSUME NEW r \in Pass, NEW pc \in Between, r.stage # "run",
         r.stage \in Expiring => pc = "reload"
  PROVE  Onward(r, [r EXCEPT !.pc = pc])
  <1> DEFINE s == [r EXCEPT !.pc = pc]
  <1>1. pc \in Points
    BY DEF Between, Points
  <1>2. s \in Pass /\ s.pc = pc /\ Keeps(r, s) /\ s.stage = r.stage
    BY <1>1, Moved
  <1> HIDE DEF s
  <1>3. Onward(r, s)
    BY <1>2 DEF Onward, GoesOn, Keeps
  <1> QED BY <1>3 DEF s

LEMMA BackOnward ==
  ASSUME NEW r \in Pass, r.stage = "run"
  PROVE  Onward(r, BackInCaller(r))
  <1>1. CASE ~r.expired
    BY <1>1, OnwardIdle DEF BackInCaller
  <1>2. CASE r.expired
    <2> DEFINE s == [r EXCEPT !.pc = "reload", !.row = r.caller.row,
                              !.base = r.caller.base, !.caller = NoCaller]
    <2>1. "reload" \in Points /\ "reload" \in Between
      BY DEF Points, Between
    <2>2. /\ r.caller.row \in Operation /\ r.caller.base \in Operation
          /\ NoCaller \in [row : Operation, base : Operation]
      BY PassFields, NoCallerFields DEF Caller
    <2>3. /\ s \in Pass /\ s.pc = "reload" /\ s.p = r.p /\ s.row = r.caller.row
          /\ s.base = r.caller.base /\ s.caller = NoCaller /\ s.stage = r.stage
          /\ s.patch = r.patch /\ s.expired = r.expired
      BY <2>1, <2>2 DEF Pass
    <2>4. BackInCaller(r) = s
      BY <1>2 DEF BackInCaller
    <2> HIDE DEF s
    <2>5. FallsBack(r, s)
      BY <1>2, <2>3 DEF FallsBack
    <2> QED BY <2>1, <2>3, <2>4, <2>5 DEF Onward
  <1> QED BY <1>1, <1>2, PassFields

LEMMA ReturnedOnward ==
  ASSUME NEW r \in Pass, NEW err \in BOOLEAN
  PROVE  Onward(r, Returned(r, err))
  <1>0. {"reload", "reviewFailed", "complete"} \subseteq Between
    BY DEF Between
  <1>1. CASE r.stage \in Expiring
    <2>1. Returned(r, err) = [r EXCEPT !.pc = "reload"]
      BY <1>1 DEF Returned, Expiring
    <2> QED BY <1>0, <1>1, <2>1, OnwardMoved DEF Expiring
  <1>2. CASE r.stage = "run"
    <2>1. Returned(r, err) = BackInCaller(r)
      BY <1>2 DEF Returned
    <2> QED BY <1>2, <2>1, BackOnward
  <1>3. CASE r.stage = "review"
    <2>1. \/ Returned(r, err) = [r EXCEPT !.pc = "reviewFailed"]
          \/ Returned(r, err) = [r EXCEPT !.pc = "complete"]
      BY <1>3 DEF Returned
    <2> QED BY <1>0, <1>3, <2>1, OnwardMoved DEF Expiring
  <1>4. CASE r.stage \notin Expiring \cup {"run", "review"}
    BY <1>4, OnwardIdle DEF Returned, Expiring
  <1> QED BY <1>1, <1>2, <1>3, <1>4

LEMMA AfterRunOnward ==
  ASSUME NEW r \in Pass
  PROVE  Onward(r, AfterRun(r)) /\ AfterRun(r).pc # "reload"
  <1>1. LET s == [r EXCEPT !.pc = "expiry", !.stage = "late"]
        IN  Onward(r, s) /\ s.pc # "reload"
    <2> DEFINE s == [r EXCEPT !.pc = "expiry", !.stage = "late"]
    <2>1. "expiry" \in Points /\ "expiry" \in Between /\ "late" \in Stages
      BY DEF Points, Between, Stages
    <2>2. s \in Pass /\ s.pc = "expiry" /\ Keeps(r, s) /\ s.stage = "late"
      BY <2>1 DEF Pass, Stages, Keeps
    <2> HIDE DEF s
    <2>3. Onward(r, s)
      BY <2>1, <2>2 DEF Onward, GoesOn, Keeps
    <2> QED BY <2>2, <2>3 DEF s
  <1>2. LET s == [r EXCEPT !.pc = "expiryReceipt", !.stage = "receipt"]
        IN  Onward(r, s) /\ s.pc # "reload"
    <2> DEFINE s == [r EXCEPT !.pc = "expiryReceipt", !.stage = "receipt"]
    <2>1. "expiryReceipt" \in Points /\ "expiryReceipt" \in Between /\ "receipt" \in Stages
      BY DEF Points, Between, Stages
    <2>2. s \in Pass /\ s.pc = "expiryReceipt" /\ Keeps(r, s) /\ s.stage = "receipt"
      BY <2>1 DEF Pass, Stages, Keeps
    <2> HIDE DEF s
    <2>3. Onward(r, s)
      BY <2>1, <2>2 DEF Onward, GoesOn, Keeps, Expiring
    <2> QED BY <2>2, <2>3 DEF s
  <1>4. \/ AfterRun(r) = [r EXCEPT !.pc = "expiry", !.stage = "late"]
        \/ AfterRun(r) = [r EXCEPT !.pc = "expiryReceipt", !.stage = "receipt"]
        \/ AfterRun(r) = Idle
    BY DEF AfterRun
  <1> QED BY <1>1, <1>2, <1>4, OnwardIdle, IdleFields

LEMMA AfterExpiryOnward ==
  ASSUME NEW r \in Pass
  PROVE  Onward(r, AfterExpiry(r)) /\ AfterExpiry(r).pc # "reload"
  <1> DEFINE c == IF r.expired THEN [row |-> r.row, base |-> r.base] ELSE NoCaller
             s == [r EXCEPT !.pc = "run", !.stage = "run", !.caller = c]
  <1>1. "run" \in Points /\ "run" \in Between /\ "run" \in Stages
    BY DEF Points, Between, Stages
  <1>2. c \in [row : Operation, base : Operation]
    BY PassFields, NoCallerFields DEF Caller
  <1>3. /\ c \in {NoCaller, [row |-> r.row, base |-> r.base]}
        /\ r.expired => c = [row |-> r.row, base |-> r.base]
    OBVIOUS
  <1>4. AfterExpiry(r) = s \/ AfterExpiry(r) = AfterRun(r)
    BY DEF AfterExpiry
  <1> HIDE DEF c
  <1>5. /\ s \in Pass /\ s.pc = "run" /\ s.p = r.p /\ s.row = r.row /\ s.base = r.base
        /\ s.caller = c /\ s.patch = r.patch /\ s.expired = r.expired /\ s.stage = "run"
    BY <1>1, <1>2 DEF Pass, Stages
  <1> HIDE DEF s
  <1>6. Onward(r, s)
    BY <1>1, <1>3, <1>5 DEF Onward, GoesOn, Expiring
  <1> QED BY <1>4, <1>5, <1>6, AfterRunOnward

-----------------------------------------------------------------------------
(* Steps of a pass                                                         *)

Codes == [Periods -> {"none", "inflight", "used"}]
Provider == [Resources -> [through : 1 .. LastPeriod + 1,
                           inflight : 0 .. LastPeriod, gone : BOOLEAN]]
Spent == [faults : 0 .. MaxFaults, moves : 0 .. MaxMoves, losses : 0 .. MaxLosses,
          unsaved : SUBSET (1 .. LastPeriod + 1)]
WsType == [paid : 1 .. LastPeriod + 1, auto : BOOLEAN, suspended : BOOLEAN,
           closed : BOOLEAN]

OwnersType ==
  /\ wallet \in Int /\ charge \in Codes /\ refund \in Codes
  /\ provider \in Provider /\ receipts \subseteq Kinds /\ spent \in Spent
StoreType ==
  /\ now \in 0 .. LastNow /\ ws \in WsType /\ ops \in [Periods -> Operation]
  /\ live \in [Periods -> BOOLEAN] /\ commands \in 0 .. MaxRequests
  /\ told \in 0 .. LastPeriod + 1
PassType == pass \in [Actors -> Pass]

LEMMA TypeParts == TypeOK <=> OwnersType /\ StoreType /\ PassType
  BY DEF TypeOK, OwnersType, StoreType, PassType, Codes, Provider, Spent, WsType, Kinds

\* What the owners did in a step: they forget nothing, and money only moves
\* for an attempt that is stored.
OwnersStep ==
  /\ OwnersType' /\ ProviderPaid'
  /\ \A p \in Periods :
       /\ charge[p] = "used" => charge'[p] = "used"
       /\ refund[p] = "used" => refund'[p] = "used"
       /\ charge'[p] # "none" => ops[p].attempted
       /\ refund'[p] # "none" => ops[p].refundAttempted
       /\ \A res \in Resources :
            provider[res].through > p => provider'[res].through > p
  /\ provider["compute"].gone => provider'["compute"].gone

LEMMA OwnersRest ==
  ASSUME RInv, UNCHANGED <<charge, refund, provider>>, wallet' \in Int,
         receipts' \subseteq Kinds, spent' \in Spent
  PROVE  OwnersStep
  <1>1. OwnersType'
    BY TypeParts DEF RInv, OwnersType
  <1>2. ProviderPaid'
    BY DEF RInv, ProviderPaid
  <1>3. \A p \in Periods : /\ charge[p] # "none" => ops[p].attempted
                           /\ refund[p] # "none" => ops[p].refundAttempted
    BY DEF RInv, PeriodGood
  <1> QED BY <1>1, <1>2, <1>3 DEF OwnersStep

LEMMA OwnersStill ==
  ASSUME RInv, UNCHANGED external, spent' \in Spent
  PROVE  OwnersStep
  <1>1. /\ UNCHANGED <<charge, refund, provider>> /\ wallet' \in Int
        /\ receipts' \subseteq Kinds
    BY TypeParts DEF RInv, OwnersType, external
  <1> QED BY <1>1, OwnersRest

LEMMA SpentType ==
  ASSUME RInv
  PROVE  /\ Fault => spent' \in Spent
         /\ NoFault => spent' \in Spent
  <1>1. spent \in Spent
    BY TypeParts DEF RInv, OwnersType
  <1>2. MaxFaults \in Nat
    BY RenewalAssumption
  <1>3. ASSUME Fault PROVE spent' \in Spent
    BY <1>1, <1>2, <1>3 DEF Fault, Spent
  <1> QED BY <1>1, <1>3 DEF NoFault

LEMMA BackedKept ==
  ASSUME OwnersStep, NEW o, NEW p \in Periods, Backed(o, p)
  PROVE  Backed(o, p)'
  BY DEF OwnersStep, Backed

LEMMA HeldKept ==
  ASSUME OwnersStep, UNCHANGED ops, NEW o, NEW b, NEW p \in Periods, Held(o, b, p)
  PROVE  Held(o, b, p)'
  <1>1. Backed(o, p)'
    BY BackedKept DEF Held
  <1>2. Known(o, p)'
    BY DEF Held, Known
  <1> QED BY <1>1, <1>2 DEF Held

LEMMA RecordKept ==
  ASSUME OwnersStep, UNCHANGED ops, NEW r \in Pass, PassGood(r)
  PROVE  PassGood(r)'
  <1>1. r.p \in Periods
    BY PassFields
  <1> PICK o, b, q, c : o = r.row /\ b = r.base /\ q = r.caller.row /\ c = r.caller.base
    OBVIOUS
  <1>2. Held(o, b, r.p)' /\ Held(q, c, r.p)'
    BY <1>1, HeldKept DEF PassGood
  <1>3. Backed(r.want, r.p) => Backed(r.want, r.p)'
    BY <1>1, BackedKept
  <1>4. PersistGood(r) => PersistGood(r)'
    BY <1>3 DEF PersistGood
  <1>5. ClaimGood(r) => ClaimGood(r)'
    BY <1>3 DEF ClaimGood
  <1>6. provider["compute"].gone => provider'["compute"].gone
    BY DEF OwnersStep
  <1> QED BY <1>2, <1>4, <1>5, <1>6 DEF PassGood

\* A pass that is good after a step is good under its name too.
LEMMA PassNamed ==
  ASSUME NEW a, NEW r, pass'[a] = r, PassGood(r)'
  PROVE  PassGood(pass[a])'
  <1>1. /\ Held(r.row, r.base, r.p)' /\ Held(r.caller.row, r.caller.base, r.p)'
        /\ PcHolds(r.pc, r.row) /\ StageGood(r)
        /\ r.pc = "refund" => provider'["compute"].gone
        /\ r.pc = "persist" => PersistGood(r)'
        /\ r.pc # "persist" => r.patch = ""
        /\ r.pc = "claim" => ClaimGood(r)'
    BY DEF PassGood
  <1>2. Held(pass[a].row, pass[a].base, pass[a].p)'
    BY <1>1 DEF Held, Backed, Known
  <1>3. Held(pass[a].caller.row, pass[a].caller.base, pass[a].p)'
    BY <1>1 DEF Held, Backed, Known
  <1>4. PcHolds(pass[a].pc, pass[a].row)' /\ StageGood(pass[a])'
    BY <1>1 DEF PcHolds, StageGood
  <1>5. PersistGood(r)' => PersistGood(pass[a])'
    BY DEF PersistGood, Backed
  <1>6. ClaimGood(r)' => ClaimGood(pass[a])'
    BY DEF ClaimGood, Backed
  <1> QED BY <1>1, <1>2, <1>3, <1>4, <1>5, <1>6 DEF PassGood

\* One pass moves, the Control Plane's rows stay, the owners only add.
LEMMA PassStep ==
  ASSUME RInv, NEW a \in Actors, NEW r \in Pass, Goto(a, r), PassGood(r)',
         OwnersStep, UNCHANGED <<Rest, Store>>
  PROVE  RInv'
  <1>0. UNCHANGED <<now, commands, told, ws, ops, live>>
    BY DEF Rest, Store
  <1>1. pass \in [Actors -> Pass]
    BY TypeParts DEF RInv, PassType
  <1>2. pass' = [pass EXCEPT ![a] = r]
    BY DEF Goto
  <1>3. TypeOK'
    <2>1. StoreType'
      BY <1>0, TypeParts DEF RInv, StoreType
    <2>2. PassType'
      BY <1>1, <1>2 DEF PassType
    <2>3. OwnersType'
      BY DEF OwnersStep
    <2> QED BY <2>1, <2>2, <2>3 DEF TypeOK, OwnersType, StoreType, PassType, Codes,
                                    Provider, Spent, WsType, Kinds
  <1>4. ASSUME NEW p \in Periods
        PROVE  PeriodGood(p)'
    <2>1. PeriodGood(p)
      BY DEF RInv
    <2>2. Backed(ops[p], p)'
      <3>1. Backed(ops[p], p)
        BY <2>1 DEF PeriodGood
      <3> QED BY <1>0, <3>1 DEF OwnersStep, Backed
    <2>3. /\ charge'[p] # "none" => ops[p].attempted
          /\ refund'[p] # "none" => ops[p].refundAttempted
      BY DEF OwnersStep
    <2> QED BY <1>0, <2>1, <2>2, <2>3 DEF PeriodGood
  <1>5. ASSUME NEW b \in Actors
        PROVE  PassGood(pass[b])'
    <2>1. CASE b = a
      <3>1. pass'[b] = r
        BY <1>1, <1>2, <2>1
      <3> QED BY <3>1, PassNamed
    <2>2. CASE b # a
      <3>1. pass'[b] = pass[b]
        BY <1>1, <1>2, <2>2
      <3> PICK x \in Pass : x = pass[b]
        BY <1>1
      <3>2. PassGood(x)
        BY DEF RInv
      <3>3. PassGood(x)'
        BY <3>2, <1>0, RecordKept
      <3>4. pass'[b] = x
        BY <3>1
      <3> QED BY <3>4, <3>3, PassNamed
    <2> QED BY <2>1, <2>2
  <1>6. ToldGood'
    BY <1>0 DEF RInv, ToldGood
  <1> QED BY <1>3, <1>4, <1>5, <1>6 DEF RInv, OwnersStep

LEMMA UnopenedHeld == \A p : Held(NoOperation, NoOperation, p)
  <1>1. ~NoOperation.confirmed /\ ~NoOperation.refundConfirmed /\ ~NoOperation.entitled
        /\ ~NoOperation.attempted /\ ~NoOperation.refundAttempted
        /\ NoOperation.status = "none"
    BY DEF NoOperation, newWorkspaceRenewalOperation
  <1> QED BY <1>1, NewRows, NearItself DEF Held, Backed, Known

LEMMA IdleGood == PassGood(Idle)
  <1>1. PcHolds(Idle.pc, Idle.row) /\ StageGood(Idle)
    BY IdleFields DEF PcHolds, StageGood, Expiring
  <1> QED BY <1>1, IdleFields, NoCallerFields, UnopenedHeld DEF PassGood

LEMMA PassOf ==
  ASSUME RInv, NEW a \in Actors
  PROVE  pass[a] \in Pass /\ PassGood(pass[a])
  BY TypeParts DEF RInv, PassType

\* Where a pass is on its own: neither in the expiry nor between two parts.
Acting == Points \ {"expiry", "reload", "persist"}

\* A pass that keeps its row and goes where that row may be.
LEMMA WalkGood ==
  ASSUME NEW r \in Pass, NEW s \in Pass, PassGood(r), Keeps(r, s), s.stage = r.stage,
         r.pc \in Acting, s.patch = "", s.pc \notin {"persist", "claim", "load"},
         PcHolds(s.pc, r.row), s.pc = "refund" => provider["compute"].gone
  PROVE  PassGood(s)
  <1>1. /\ Held(s.row, s.base, s.p) /\ Held(s.caller.row, s.caller.base, s.p)
        /\ PcHolds(s.pc, s.row)
    BY DEF PassGood, Keeps
  <1>2. StageGood(s)
    BY DEF PassGood, StageGood, Keeps, Acting
  <1> QED BY <1>1, <1>2 DEF PassGood

\* A pass whose row is open, between two parts.
Ready(r) ==
  /\ Held(r.row, r.base, r.p) /\ Held(r.caller.row, r.caller.base, r.p)
  /\ r.row.status # "none" /\ r.patch = ""

LEMMA OnwardGood ==
  ASSUME NEW r \in Pass, NEW s, Onward(r, s), Ready(r),
         r.stage = "run" /\ r.expired /\ s.pc = "reload" => r.caller.row.status # "none"
  PROVE  s \in Pass /\ PassGood(s)
  <1>1. CASE s = Idle
    BY <1>1, IdleGood, IdleType
  <1>2. CASE s # Idle
    <2>1. /\ s \in Pass /\ s.p = r.p /\ s.patch = "" /\ s.expired = r.expired
          /\ s.pc \in Between /\ (GoesOn(r, s) \/ FallsBack(r, s))
      BY <1>2 DEF Onward, Ready
    <2>2. s.row.status # "none" /\ Held(s.row, s.base, s.p)
      BY <2>1 DEF GoesOn, FallsBack, Ready
    <2>3. PcHolds(s.pc, s.row)
      BY <2>1, <2>2 DEF PcHolds, Between
    <2>4. s.pc # "persist" /\ s.pc # "claim" /\ s.pc # "refund"
      BY <2>1 DEF Between
    <2>5. Held(s.caller.row, s.caller.base, s.p) /\ StageGood(s)
      <3>1. CASE FallsBack(r, s)
        BY <2>1, <3>1, UnopenedHeld, NoCallerFields
           DEF FallsBack, StageGood, Expiring, Between
      <3>2. CASE GoesOn(r, s)
        <4> DEFINE c == [row |-> r.row, base |-> r.base]
        <4>1. c.row = r.row /\ c.base = r.base
          OBVIOUS
        <4>2. /\ s.caller \in {r.caller, NoCaller, c}
              /\ s.stage = "run" /\ s.expired => s.caller = c
              /\ s.stage \in Expiring => s.pc \in {"expiry", "reload"}
          BY <3>2 DEF GoesOn
        <4> HIDE DEF c
        <4>3. Held(s.caller.row, s.caller.base, r.p)
          BY <4>1, <4>2, UnopenedHeld, NoCallerFields DEF Ready
        <4>4. StageGood(s)
          BY <2>1, <4>1, <4>2 DEF Ready, StageGood, Between
        <4> QED BY <2>1, <4>3, <4>4
      <3> QED BY <2>1, <3>1, <3>2
    <2> QED BY <2>1, <2>2, <2>3, <2>4, <2>5 DEF PassGood
  <1> QED BY <1>1, <1>2

\* The pass goes on without a write.
LEMMA WalkStep ==
  ASSUME RInv, NEW a \in Actors, NEW s \in Pass, Goto(a, s), PassGood(s),
         UNCHANGED <<Rest, Store>>, UNCHANGED external, spent' \in Spent
  PROVE  RInv'
  <1>1. OwnersStep
    BY OwnersStill
  <1>2. UNCHANGED ops
    BY DEF Store
  <1>3. PassGood(s)'
    BY <1>1, <1>2, RecordKept
  <1> QED BY <1>1, <1>3, PassStep

LEMMA LeaveStep ==
  ASSUME RInv, NEW a \in Actors, Goto(a, Idle),
         UNCHANGED <<Rest, Store>>, UNCHANGED external, spent' \in Spent
  PROVE  RInv'
  BY IdleGood, IdleType, WalkStep

LEMMA ReturnStep ==
  ASSUME RInv, NEW a \in Actors, NEW err \in BOOLEAN, Return(a, err),
         pass[a].row.status # "none", pass[a].pc \notin {"persist", "reload"},
         UNCHANGED <<Rest, Store>>, UNCHANGED external, spent' \in Spent
  PROVE  RInv'
  <1> PICK r \in Pass : r = pass[a]
    BY PassOf
  <1>1. PassGood(r)
    BY PassOf
  <1> DEFINE s == Returned(r, err)
  <1>2. Onward(r, s)
    BY ReturnedOnward
  <1>3. Goto(a, s)
    BY DEF Return
  <1> HIDE DEF s
  <1>4. Ready(r) /\ (r.stage = "run" /\ r.expired => r.caller.row.status # "none")
    BY <1>1 DEF PassGood, StageGood, Ready
  <1>5. s \in Pass /\ PassGood(s)
    BY <1>2, <1>4, OnwardGood
  <1> QED BY <1>3, <1>5, WalkStep

\* The pass goes to another point with the row it has.
LEMMA PointStep ==
  ASSUME RInv, NEW a \in Actors, NEW pc \in Points,
         Goto(a, [pass[a] EXCEPT !.pc = pc]), pass[a].pc \in Acting,
         pc \notin {"persist", "claim", "load"}, PcHolds(pc, pass[a].row),
         pc = "refund" => provider["compute"].gone,
         UNCHANGED <<Rest, Store>>, UNCHANGED external, spent' \in Spent
  PROVE  RInv'
  <1> PICK r \in Pass : r = pass[a]
    BY PassOf
  <1>1. PassGood(r)
    BY PassOf
  <1> DEFINE s == [r EXCEPT !.pc = pc]
  <1>2. s \in Pass /\ s.pc = pc /\ Keeps(r, s) /\ s.stage = r.stage
    BY Moved
  <1>3. Goto(a, s)
    OBVIOUS
  <1> HIDE DEF s
  <1>4. s.patch = ""
    BY <1>1, <1>2 DEF PassGood, Keeps, Acting
  <1>5. PassGood(s)
    BY <1>1, <1>2, <1>4, WalkGood
  <1> QED BY <1>2, <1>3, <1>5, WalkStep

Thens == (Points \cup {"", "ok", "err"})
           \ {"persist", "claim", "idle", "load", "refund", ""}

LEMMA ThenNames ==
  {"ok", "err", "run", "expiry", "charge", "post", "refundCall", "refundReceipt",
   "resolve"} \subseteq Thens
  BY DEF Thens, Points

\* The expiry only writes what is near the row it has.
SaveFits(a, n, then) ==
  \/ pass[a].pc \in Acting
  \/ pass[a].pc = "expiry" /\ then = "expiry" /\ Near(pass[a].row, n)

\* persistWorkspaceRenewal is called: what is to be stored follows from the row.
LEMMA SaveStep ==
  ASSUME RInv, OwnersStep, NEW a \in Actors, NEW n \in Operation,
         NEW patch \in PatchNames,
         NEW then \in Thens, SaveFits(a, n, then),
         Save(a, n, patch, then), UNCHANGED <<Rest, Store>>,
         NEW p \in Periods, p = pass[a].p, pass[a].row.status # "none",
         Good(n), Backed(n, p)', Follows(pass[a].row, n), PcHolds(then, n),
         patch \in Entitling => n.entitled,
         patch \notin Entitling => (n.entitled => pass[a].row.entitled)
  PROVE  RInv'
  <1> PICK r \in Pass : r = pass[a]
    BY PassOf
  <1>1. PassGood(r) /\ r.p \in Periods
    BY PassOf, PassFields
  <1> DEFINE s == [r EXCEPT !.pc = "persist", !.want = n, !.patch = patch,
                            !.then = then]
  <1>2. /\ s \in Pass /\ s.pc = "persist" /\ s.p = r.p /\ s.row = r.row
        /\ s.want = n /\ s.patch = patch /\ s.then = then /\ s.base = r.base
        /\ s.caller = r.caller /\ s.stage = r.stage /\ s.expired = r.expired
    <2>1. "persist" \in Points
      BY DEF Points
    <2> QED BY ONLY <2>1, r \in Pass, n \in Operation, patch \in PatchNames,
              then \in Thens DEF Pass, PatchNames, Thens
  <1>3. Goto(a, s)
    <2>1. Goto(a, [pass[a] EXCEPT !.pc = "persist", !.want = n, !.patch = patch,
                                  !.then = then])
      BY DEF Save
    <2> QED BY <2>1
  <1> HIDE DEF s
  <1>4. UNCHANGED ops
    BY DEF Store
  <1> PICK o, b, q, c : o = r.row /\ b = r.base /\ q = r.caller.row /\ c = r.caller.base
    OBVIOUS
  <1>5. Held(o, b, r.p)' /\ Held(q, c, r.p)'
    BY <1>1, <1>4, HeldKept DEF PassGood
  <1>6. p = r.p
    OBVIOUS
  <1>7. s.stage \in Expiring => s.then = "expiry" /\ Near(s.row, s.want)
    BY <1>1, <1>2 DEF SaveFits, Acting, PassGood, StageGood
  <1>8. PersistGood(s)'
    BY <1>2, <1>6, <1>7 DEF PersistGood, Backed, Thens
  <1>9. /\ Held(s.row, s.base, s.p)' /\ Held(s.caller.row, s.caller.base, s.p)'
    BY <1>2, <1>5 DEF Held, Backed, Known
  <1>10. PcHolds(s.pc, s.row) /\ StageGood(s)
    BY <1>1, <1>2 DEF PcHolds, PassGood, StageGood, SaveFits, Acting
  <1>11. PassGood(s)'
    BY <1>2, <1>8, <1>9, <1>10 DEF PassGood
  <1> QED BY <1>2, <1>3, <1>11, PassStep

-----------------------------------------------------------------------------
(* The rows a pass computes                                                *)

\* n may be stored in the place of o whatever the owners did meanwhile.
Rewrites(o, n) ==
  /\ n \in Operation /\ Good(n) /\ Follows(o, n)
  /\ n.confirmed => o.confirmed
  /\ n.refundAttempted => o.refundAttempted
  /\ n.refundConfirmed => o.refundConfirmed
  /\ n.entitled => o.entitled

SameExpiry(o, n) ==
  n.expiryStatus = o.expiryStatus /\ n.expiryPhase = o.expiryPhase
    /\ n.expiryPaid = o.expiryPaid

LEMMA RowRetried ==
  ASSUME NEW o \in Operation, Good(o), o.status # "none"
  PROVE  Rewrites(o, [o EXCEPT !.lease = NoLease])
  <1> DEFINE n == [o EXCEPT !.lease = NoLease]
  <1>1. /\ n \in Operation /\ n.status = o.status /\ n.phase = o.phase
        /\ SameMoney(o, n) /\ SameExpiry(o, n) /\ n.review = o.review
    BY DEF Operation, SameMoney, SameExpiry
  <1> HIDE DEF n
  <1>2. Rewrites(o, n)
    BY <1>1 DEF SameMoney, SameExpiry, Rewrites, Good, Follows, Quiet
  <1> QED BY <1>2 DEF n

\* Any row whose month is neither entitled nor refunded yet may go to an operator.
LEMMA RowReviewed ==
  ASSUME NEW o \in Operation, Good(o), o.status # "none", ~o.entitled,
         ~o.refundConfirmed
  PROVE  Rewrites(o, [o EXCEPT !.status = "manual_review", !.lease = NoLease])
  <1> DEFINE n == [o EXCEPT !.status = "manual_review", !.lease = NoLease]
  <1>1. /\ n \in Operation /\ n.status = "manual_review" /\ n.phase = o.phase
        /\ SameMoney(o, n) /\ SameExpiry(o, n) /\ n.review = o.review
    BY DEF Operation, SameMoney, SameExpiry, Statuses
  <1> HIDE DEF n
  <1>2. Rewrites(o, n)
    BY <1>1 DEF SameMoney, SameExpiry, Rewrites, Good, Follows, Quiet
  <1> QED BY <1>2 DEF n

\* The steps of a renewal that is not yet entitled: the debit, the provider.
Early == {"claimed", "insufficient", "debit_pending"}
Paying == {"debited", "provider_renewing"}

LEMMA RowAdvanced ==
  ASSUME NEW o \in Operation, Good(o), NEW status, NEW phase \in Phases \ {"receipt"},
         \/ o.status \in Early /\ status \in Early
         \/ /\ o.status \in Early \cup Paying /\ o.confirmed
            /\ status \in Paying
         \/ /\ o.status \in Paying \cup {"manual_review"} /\ o.confirmed
            /\ ~o.refundAttempted
            /\ status = "verifying" /\ phase = "entitlement"
  PROVE  Rewrites(o, [o EXCEPT !.status = status, !.phase = phase])
  <1> DEFINE n == [o EXCEPT !.status = status, !.phase = phase]
  <1>0. status \in Statuses
    BY DEF Early, Paying, Statuses
  <1>1. /\ n \in Operation /\ n.status = status /\ n.phase = phase
        /\ SameMoney(o, n) /\ SameExpiry(o, n) /\ n.review = o.review
    BY <1>0 DEF Operation, SameMoney, SameExpiry
  <1> HIDE DEF n
  <1>2. Rewrites(o, n)
    BY <1>1 DEF SameMoney, SameExpiry, Rewrites, Good, Follows, Quiet, Early, Paying
  <1> QED BY <1>2 DEF n

\* Only the phase moves, and not that of an entitled month.
LEMMA RowPhased ==
  ASSUME NEW o \in Operation, Good(o), NEW phase \in Phases \ {"receipt"},
         \/ o.status \in Early \cup Paying
         \/ o.status = "refunded"
  PROVE  Rewrites(o, [o EXCEPT !.phase = phase])
  <1> DEFINE n == [o EXCEPT !.phase = phase]
  <1>1. /\ n \in Operation /\ n.status = o.status /\ n.phase = phase
        /\ SameMoney(o, n) /\ SameExpiry(o, n) /\ n.review = o.review
    BY DEF Operation, SameMoney, SameExpiry
  <1> HIDE DEF n
  <1>2. Rewrites(o, n)
    BY <1>1 DEF SameMoney, SameExpiry, Rewrites, Good, Follows, Quiet, Early, Paying
  <1> QED BY <1>2 DEF n

\* The balance after the debit is noted.
LEMMA RowNoted ==
  ASSUME NEW o \in Operation, Good(o), o.status # "none"
  PROVE  Rewrites(o, [o EXCEPT !.post = TRUE])
  <1> DEFINE n == [o EXCEPT !.post = TRUE]
  <1>1. /\ n \in Operation /\ n.status = o.status /\ n.phase = o.phase
        /\ SameMoney(o, n) /\ SameExpiry(o, n) /\ n.review = o.review
    BY DEF Operation, SameMoney, SameExpiry
  <1> HIDE DEF n
  <1>2. Rewrites(o, n)
    BY <1>1 DEF SameMoney, SameExpiry, Rewrites, Good, Follows, Quiet
  <1> QED BY <1>2 DEF n

\* How far the review has come, in a row an operator may look at.
ReviewMarks == {"verify_compute", "verify_storage", "entitlement", "receipt", "completed"}

LEMMA RowMarked ==
  ASSUME NEW o \in Operation, Good(o), NEW x \in ReviewMarks,
         o.status \in {"manual_review", "verifying", "active"},
         o.refundAttempted => x = "verify_compute"
  PROVE  Rewrites(o, [o EXCEPT !.review = x])
  <1> DEFINE n == [o EXCEPT !.review = x]
  <1>1. /\ n \in Operation /\ n.status = o.status /\ n.phase = o.phase
        /\ SameMoney(o, n) /\ SameExpiry(o, n) /\ n.review = x
    BY DEF Operation, SameMoney, SameExpiry, ReviewMarks
  <1> HIDE DEF n
  <1>2. Rewrites(o, n)
    BY <1>1 DEF SameMoney, SameExpiry, Rewrites, Good, Follows, Quiet
  <1> QED BY <1>2 DEF n

LEMMA Composed ==
  ASSUME NEW o, NEW n, NEW m, Rewrites(o, n), Rewrites(n, m)
  PROVE  Rewrites(o, m)
  BY DEF Rewrites, Follows

\* The first attempt is stored before the debit.
LEMMA RowAttempted ==
  ASSUME NEW o \in Operation, Good(o), o.status = "debit_pending", NEW x \in Int
  PROVE  LET n == [o EXCEPT !.attempted = TRUE, !.pre = x] IN
         /\ Rewrites(o, n) /\ n.status = "debit_pending" /\ n.attempted
  <1> DEFINE m == [o EXCEPT !.attempted = TRUE]
  <1>1. /\ m \in Operation /\ m.status = o.status /\ m.phase = o.phase /\ m.attempted
        /\ m.confirmed = o.confirmed /\ m.refundAttempted = o.refundAttempted
        /\ m.refundConfirmed = o.refundConfirmed /\ m.entitled = o.entitled
        /\ SameExpiry(o, m) /\ m.review = o.review
    BY DEF Operation, SameExpiry
  <1>x. [o EXCEPT !.attempted = TRUE, !.pre = x] = [m EXCEPT !.pre = x]
    BY DEF Operation
  <1> HIDE DEF m
  <1> DEFINE n == [m EXCEPT !.pre = x]
  <1>2. /\ n \in Operation /\ n.status = m.status /\ n.phase = m.phase
        /\ SameMoney(m, n) /\ SameExpiry(m, n) /\ n.review = m.review
    BY <1>1 DEF Operation, SameMoney, SameExpiry
  <1> HIDE DEF n
  <1>3. Rewrites(o, n) /\ n.status = "debit_pending" /\ n.attempted
    BY <1>1, <1>2 DEF SameMoney, SameExpiry, Rewrites, Good, Follows, Quiet
  <1> QED BY <1>x, <1>3 DEF n

\* Sub2API confirmed the debit.
LEMMA RowConfirmed ==
  ASSUME NEW o \in Operation, Good(o), o.status = "debit_pending", o.attempted
  PROVE  LET n == [o EXCEPT !.confirmed = TRUE] IN
         /\ n \in Operation /\ Good(n) /\ Follows(o, n)
         /\ n.status = "debit_pending" /\ n.confirmed
         /\ ~n.refundAttempted /\ ~n.refundConfirmed /\ ~n.entitled
  <1> DEFINE n == [o EXCEPT !.confirmed = TRUE]
  <1>1. /\ n \in Operation /\ n.status = o.status /\ n.phase = o.phase /\ n.confirmed
        /\ n.attempted = o.attempted /\ n.refundAttempted = o.refundAttempted
        /\ n.refundConfirmed = o.refundConfirmed /\ n.entitled = o.entitled
        /\ SameExpiry(o, n) /\ n.review = o.review
    BY DEF Operation, SameExpiry
  <1> HIDE DEF n
  <1>2. /\ Good(n) /\ Follows(o, n) /\ n.status = "debit_pending" /\ n.confirmed
        /\ ~n.refundAttempted /\ ~n.refundConfirmed /\ ~n.entitled
    BY <1>1 DEF SameExpiry, Good, Follows, Quiet
  <1> QED BY <1>1, <1>2 DEF n

LEMMA RowShort ==
  ASSUME NEW o \in Operation, Good(o), o.status = "debit_pending"
  PROVE  Rewrites(o, [o EXCEPT !.status = "insufficient", !.lease = NoLease])
  <1> DEFINE n == [o EXCEPT !.status = "insufficient", !.lease = NoLease]
  <1>1. /\ n \in Operation /\ n.status = "insufficient" /\ n.phase = o.phase
        /\ SameMoney(o, n) /\ SameExpiry(o, n) /\ n.review = o.review
    BY DEF Operation, SameMoney, SameExpiry, Statuses
  <1> HIDE DEF n
  <1>2. Rewrites(o, n)
    BY <1>1 DEF SameMoney, SameExpiry, Rewrites, Good, Follows, Quiet
  <1> QED BY <1>2 DEF n

\* The receipt of a renewed month closes the operation.
LEMMA RowActive ==
  ASSUME NEW o \in Operation, Good(o), o.status = "verifying", o.phase = "receipt"
  PROVE  Rewrites(o, [o EXCEPT !.status = "active", !.phase = "complete",
                               !.lease = NoLease])
  <1> DEFINE n == [o EXCEPT !.status = "active", !.phase = "complete",
                            !.lease = NoLease]
  <1>1. /\ n \in Operation /\ n.status = "active" /\ n.phase = "complete"
        /\ SameMoney(o, n) /\ SameExpiry(o, n) /\ n.review = o.review
    BY DEF Operation, SameMoney, SameExpiry, Statuses, Phases
  <1> HIDE DEF n
  <1>2. Rewrites(o, n)
    BY <1>1 DEF SameMoney, SameExpiry, Rewrites, Good, Follows, Quiet
  <1> QED BY <1>2 DEF n

LEMMA RowReceipted ==
  ASSUME NEW o \in Operation, Good(o), o.status = "refunded"
  PROVE  Rewrites(o, [o EXCEPT !.phase = "complete", !.lease = NoLease])
  <1> DEFINE n == [o EXCEPT !.phase = "complete", !.lease = NoLease]
  <1>1. /\ n \in Operation /\ n.status = o.status /\ n.phase = "complete"
        /\ SameMoney(o, n) /\ SameExpiry(o, n) /\ n.review = o.review
    BY DEF Operation, SameMoney, SameExpiry, Phases
  <1> HIDE DEF n
  <1>2. Rewrites(o, n)
    BY <1>1 DEF SameMoney, SameExpiry, Rewrites, Good, Follows, Quiet
  <1> QED BY <1>2 DEF n

\* The entitlement: the month is granted and a past due expiry is lifted.
LEMMA RowEntitled ==
  ASSUME NEW o \in Operation, Good(o), o.status = "verifying", NEW p \in Periods
  PROVE  LET n == Entitled(o, p) IN
         /\ n \in Operation /\ Good(n) /\ Follows(o, n) /\ n.entitled
         /\ n.confirmed => o.confirmed
         /\ ~n.refundAttempted /\ ~n.refundConfirmed
  <1> DEFINE e == [o EXCEPT !.phase = "receipt", !.entitled = TRUE]
             m == [o EXCEPT !.phase = "receipt"]
  <1>0. m \in Operation /\ m.status = o.status /\ m.phase = "receipt"
        /\ SameMoney(o, m) /\ SameExpiry(o, m) /\ m.review = o.review
    BY DEF Operation, SameMoney, SameExpiry, Phases
  <1>x. e = [m EXCEPT !.entitled = TRUE]
    BY DEF Operation
  <1> HIDE DEF m
  <1>1. /\ e \in Operation /\ e.status = o.status /\ e.phase = "receipt" /\ e.entitled
        /\ e.attempted = o.attempted /\ e.confirmed = o.confirmed
        /\ e.refundAttempted = o.refundAttempted
        /\ e.refundConfirmed = o.refundConfirmed /\ SameExpiry(o, e)
        /\ e.review = o.review
    <2> DEFINE f == [m EXCEPT !.entitled = TRUE]
    <2>1. /\ f \in Operation /\ f.status = m.status /\ f.phase = m.phase /\ f.entitled
          /\ f.attempted = m.attempted /\ f.confirmed = m.confirmed
          /\ f.refundAttempted = m.refundAttempted
          /\ f.refundConfirmed = m.refundConfirmed /\ SameExpiry(m, f)
          /\ f.review = m.review
      BY <1>0 DEF Operation, SameExpiry
    <2>2. e = f
      BY <1>x
    <2> HIDE DEF e, f
    <2> QED BY <1>0, <2>1, <2>2 DEF SameMoney, SameExpiry
  <1> HIDE DEF e
  <1> DEFINE c == [e EXCEPT !.expiryStatus = "", !.expiryPhase = "", !.expiryPaid = 0]
  <1>2. /\ c \in Operation /\ c.status = e.status /\ c.phase = e.phase
        /\ SameMoney(e, c) /\ c.review = e.review
        /\ c.expiryStatus = "" /\ c.expiryPhase = ""
    <2> PICK y \in Operation : y = e
      BY <1>1
    <2> DEFINE d == [y EXCEPT !.expiryStatus = "", !.expiryPhase = "", !.expiryPaid = 0]
    <2>1. 0 \in 0 .. LastPeriod + 1
      BY Constants
    <2>2. /\ d \in Operation /\ d.status = y.status /\ d.phase = y.phase
          /\ SameMoney(y, d) /\ d.review = y.review
          /\ d.expiryStatus = "" /\ d.expiryPhase = ""
      BY <2>1 DEF Operation, SameMoney
    <2>3. c = d
      OBVIOUS
    <2> HIDE DEF c, d
    <2> QED BY <2>2, <2>3
  <1> HIDE DEF c
  <1>3. o.confirmed /\ o.attempted /\ ~Quiet(o) /\ ~o.refundAttempted
        /\ ~o.refundConfirmed
    BY DEF Good, Quiet
  <1>4. /\ Good(e) /\ Follows(o, e)
    BY <1>1, <1>3 DEF SameExpiry, Good, Follows, Quiet
  <1>5. /\ Good(c) /\ Follows(o, c)
    BY <1>1, <1>2, <1>3 DEF SameMoney, Good, Follows, Quiet
  <1>6. Entitled(o, p) = IF Recovers(o, p) THEN c ELSE e
    BY Zenon DEF Entitled, e, c
  <1> QED BY <1>1, <1>2, <1>3, <1>4, <1>5, <1>6 DEF SameMoney

\* The refund is stored as attempted before it is sent.
LEMMA RowRefunding ==
  ASSUME NEW o \in Operation, Good(o), ~o.refundAttempted,
         o.status \in {"refund_pending", "provider_renewing"}
  PROVE  LET n == [o EXCEPT !.status = "refund_pending", !.phase = "refund",
                            !.refundAttempted = TRUE] IN
         /\ n \in Operation /\ Good(n) /\ Follows(o, n) /\ n.status = "refund_pending"
         /\ n.confirmed = o.confirmed /\ ~n.refundConfirmed /\ ~n.entitled
  <1> DEFINE m == [o EXCEPT !.status = "refund_pending", !.phase = "refund"]
  <1>1. /\ m \in Operation /\ m.status = "refund_pending" /\ m.phase = "refund"
        /\ SameMoney(o, m) /\ SameExpiry(o, m) /\ m.review = o.review
    BY DEF Operation, SameMoney, SameExpiry, Statuses, Phases
  <1>x. [o EXCEPT !.status = "refund_pending", !.phase = "refund",
                  !.refundAttempted = TRUE] = [m EXCEPT !.refundAttempted = TRUE]
    BY DEF Operation
  <1> HIDE DEF m
  <1> DEFINE n == [m EXCEPT !.refundAttempted = TRUE]
  <1>2. /\ n \in Operation /\ n.status = m.status /\ n.phase = m.phase
        /\ n.refundAttempted /\ n.attempted = m.attempted
        /\ n.confirmed = m.confirmed /\ n.refundConfirmed = m.refundConfirmed
        /\ n.entitled = m.entitled /\ SameExpiry(m, n) /\ n.review = m.review
    BY <1>1 DEF Operation, SameExpiry
  <1> HIDE DEF n
  <1>3. /\ Good(n) /\ Follows(o, n) /\ n.status = "refund_pending"
        /\ n.confirmed = o.confirmed /\ ~n.refundConfirmed /\ ~n.entitled
    BY <1>1, <1>2 DEF SameMoney, SameExpiry, Good, Follows, Quiet
  <1> QED BY <1>x, <1>2, <1>3 DEF n

\* Sub2API confirmed the refund.
LEMMA RowRefunded ==
  ASSUME NEW o \in Operation, Good(o), o.status = "refund_pending"
  PROVE  LET n == Refunded(o) IN
         /\ n \in Operation /\ Good(n) /\ Follows(o, n) /\ n.status = "refunded"
         /\ n.confirmed => o.confirmed
         /\ n.refundAttempted => o.refundAttempted
         /\ ~n.entitled
  <1> DEFINE m == [o EXCEPT !.refundConfirmed = TRUE]
  <1>1. /\ m \in Operation /\ m.refundConfirmed
        /\ m.attempted = o.attempted /\ m.confirmed = o.confirmed
        /\ m.refundAttempted = o.refundAttempted /\ m.entitled = o.entitled
        /\ SameExpiry(o, m) /\ m.review = o.review
    BY DEF Operation, SameExpiry
  <1>x. Refunded(o) = [m EXCEPT !.status = "refunded", !.phase = "refund_receipt"]
    BY DEF Operation, Refunded
  <1> HIDE DEF m
  <1> DEFINE n == [m EXCEPT !.status = "refunded", !.phase = "refund_receipt"]
  <1>2. /\ n \in Operation /\ n.status = "refunded" /\ n.phase = "refund_receipt"
        /\ SameMoney(m, n) /\ SameExpiry(m, n) /\ n.review = m.review
    BY <1>1 DEF Operation, SameMoney, SameExpiry, Statuses, Phases
  <1> HIDE DEF n
  <1>3. /\ Good(n) /\ Follows(o, n) /\ n.status = "refunded" /\ ~n.entitled
        /\ n.confirmed => o.confirmed
        /\ n.refundAttempted => o.refundAttempted
    BY <1>1, <1>2 DEF SameMoney, SameExpiry, Good, Follows, Quiet
  <1> QED BY <1>x, <1>2, <1>3 DEF n

\* The phases of an expiry.
LEMMA RowExpiring ==
  ASSUME NEW o \in Operation, Good(o), o.status # "none", o.expiryStatus # "",
         NEW x \in {"financial", "receipt", "complete"}
  PROVE  LET n == [o EXCEPT !.expiryPhase = x]
             m == [o EXCEPT !.expiryPhase = x, !.lease = NoLease]
             k == [o EXCEPT !.expiryStatus = "expired_unpaid", !.expiryPhase = x]
         IN  Rewrites(o, n) /\ Rewrites(o, m) /\ Rewrites(o, k) /\ Near(o, n) /\ Near(o, k)
  <1> DEFINE n == [o EXCEPT !.expiryPhase = x]
             m == [o EXCEPT !.expiryPhase = x, !.lease = NoLease]
             k == [o EXCEPT !.expiryStatus = "expired_unpaid", !.expiryPhase = x]
  <1>1. /\ n \in Operation /\ n.status = o.status /\ n.phase = o.phase
        /\ SameMoney(o, n) /\ n.review = o.review /\ n.expiryStatus = o.expiryStatus
        /\ n.expiryPaid = o.expiryPaid
    BY DEF Operation, SameMoney
  <1>2. /\ m \in Operation /\ m.status = o.status /\ m.phase = o.phase
        /\ SameMoney(o, m) /\ m.review = o.review /\ m.expiryStatus = o.expiryStatus
        /\ m.expiryPaid = o.expiryPaid
    BY DEF Operation, SameMoney
  <1>3. /\ k \in Operation /\ k.status = o.status /\ k.phase = o.phase
        /\ SameMoney(o, k) /\ k.review = o.review /\ k.expiryStatus = "expired_unpaid"
        /\ k.expiryPaid = o.expiryPaid
    BY DEF Operation, SameMoney
  <1> HIDE DEF n, m, k
  <1>4. Rewrites(o, n) /\ Near(o, n)
    BY <1>1 DEF SameMoney, Rewrites, Good, Follows, Quiet, Near
  <1>5. Rewrites(o, m)
    BY <1>2 DEF SameMoney, Rewrites, Good, Follows, Quiet
  <1>6. Rewrites(o, k) /\ Near(o, k)
    BY <1>3 DEF SameMoney, Rewrites, Good, Follows, Quiet, Near
  <1> QED BY <1>4, <1>5, <1>6 DEF n, m, k

-----------------------------------------------------------------------------
(* Writes a pass is about to make                                          *)

LEMMA RewriteStep ==
  ASSUME RInv, OwnersStep, NEW a \in Actors, NEW n, NEW patch \in PatchNames \ Entitling,
         NEW then \in Thens, Save(a, n, patch, then), SaveFits(a, n, then),
         UNCHANGED <<Rest, Store>>,
         pass[a].row.status # "none", Rewrites(pass[a].row, n), PcHolds(then, n)
  PROVE  RInv'
  <1> PICK p \in Periods : p = pass[a].p
    BY PassOf, PassFields
  <1>1. Backed(pass[a].row, p)
    BY PassOf DEF PassGood, Held
  <1> PICK o : o = pass[a].row
    OBVIOUS
  <1>2. Backed(o, p)'
    BY <1>1, BackedKept
  <1>3. Backed(n, p)'
    BY <1>2 DEF Backed, Rewrites
  <1>4. n \in Operation /\ Good(n) /\ Follows(pass[a].row, n)
        /\ (n.entitled => pass[a].row.entitled)
    BY DEF Rewrites
  <1> QED BY <1>3, <1>4, SaveStep

\* The common case: only rows of the Control Plane are at stake.
LEMMA PlainStep ==
  ASSUME RInv, NEW a \in Actors, NEW n, NEW patch \in PatchNames \ Entitling,
         NEW then \in {"ok", "err", "run", "expiry"},
         Save(a, n, patch, then), SaveFits(a, n, then),
         UNCHANGED <<Rest, Store>>, OwnersStep,
         pass[a].row.status # "none", Rewrites(pass[a].row, n)
  PROVE  RInv'
  <1>1. PcHolds(then, n)
    BY DEF PcHolds, Rewrites, Follows
  <1>2. then \in Thens
    BY ThenNames
  <1> QED BY <1>1, <1>2, RewriteStep

\* The row of a pass that acts on its own.
LEMMA ActingFits ==
  ASSUME NEW a, pass[a].pc \in Acting
  PROVE  \A n, then : SaveFits(a, n, then)
  BY DEF SaveFits

LEMMA ActingPoints ==
  {"run", "charge", "post", "receipt", "refund", "refundCall", "refundReceipt",
   "expiryReceipt", "resolve"} \subseteq Acting
  BY DEF Acting, Points

LEMMA RowOf ==
  ASSUME RInv, NEW a \in Actors
  PROVE  /\ pass[a].row \in Operation /\ Good(pass[a].row)
         /\ pass[a].p \in Periods
         /\ Held(pass[a].row, pass[a].base, pass[a].p)
         /\ Backed(pass[a].row, pass[a].p) /\ Known(pass[a].row, pass[a].p)
         /\ PcHolds(pass[a].pc, pass[a].row)
         /\ pass[a].pc # "persist" => pass[a].patch = ""
  BY PassOf, PassFields DEF PassGood, Held

LEMMA NoPatch == "" \in PatchNames \ Entitling
  BY DEF PatchNames, Entitling

LEMMA OwnersIdle ==
  ASSUME RInv, UNCHANGED external, Fault \/ NoFault
  PROVE  OwnersStep
  BY OwnersStill, SpentType

LEMMA RetryStep ==
  ASSUME RInv, OwnersStep, NEW a \in Actors, pass[a].row.status # "none",
         pass[a].pc \in Acting,
         retryWorkspaceRenewal(a, pass[a].row), UNCHANGED <<Rest, Store>>
  PROVE  RInv'
  <1> DEFINE n == [pass[a].row EXCEPT !.lease = NoLease]
  <1>1. Rewrites(pass[a].row, n)
    BY RowOf, RowRetried
  <1>2. Save(a, n, "", "err")
    BY DEF retryWorkspaceRenewal
  <1> HIDE DEF n
  <1> QED BY <1>1, <1>2, NoPatch, ActingFits, PlainStep

LEMMA ManualReviewStep ==
  ASSUME RInv, OwnersStep, NEW a \in Actors, pass[a].row.status # "none",
         ~pass[a].row.entitled, ~pass[a].row.refundConfirmed, pass[a].pc \in Acting,
         manualReviewWorkspaceRenewal(a, pass[a].row), UNCHANGED <<Rest, Store>>
  PROVE  RInv'
  <1> DEFINE n == [pass[a].row EXCEPT !.status = "manual_review", !.lease = NoLease]
  <1>1. Rewrites(pass[a].row, n)
    BY RowOf, RowReviewed
  <1>2. Save(a, n, "", "ok")
    BY DEF manualReviewWorkspaceRenewal
  <1> HIDE DEF n
  <1> QED BY <1>1, <1>2, NoPatch, ActingFits, PlainStep

\* Rows that are still in the hands of the debit or the provider.
LEMMA EarlyRow ==
  ASSUME NEW o \in Operation, Good(o), o.status \in Early \cup Paying
  PROVE  /\ ~o.entitled /\ ~o.refundAttempted /\ ~o.refundConfirmed
         /\ o.status # "none"
  BY DEF Good, Early, Paying

LEMMA RunInsufficientPreserves ==
  ASSUME RInv, NEW a \in Actors, RunInsufficient(a)
  PROVE  RInv'
  <1> DEFINE o == pass[a].row
             n == [o EXCEPT !.status = "debit_pending", !.phase = "debit"]
  <1>1. /\ pass[a].pc = "run" /\ o.status = "insufficient" /\ Save(a, n, "", "run")
        /\ UNCHANGED <<Rest, Store>> /\ UNCHANGED external /\ UNCHANGED spent
    BY DEF RunInsufficient, Running, At
  <1>2. OwnersStep
    BY <1>1, OwnersIdle DEF NoFault
  <1>3. o \in Operation /\ Good(o)
    BY RowOf
  <1>4. "debit" \in Phases \ {"receipt"} /\ o.status \in Early /\ "debit_pending" \in Early
    BY <1>1 DEF Phases, Early
  <1> HIDE DEF o
  <1>5. Rewrites(o, n)
    BY <1>3, <1>4, RowAdvanced
  <1> HIDE DEF n
  <1> QED BY <1>1, <1>2, <1>5, NoPatch, ActingPoints, ActingFits, PlainStep DEF o

LEMMA RunClaimedPreserves ==
  ASSUME RInv, NEW a \in Actors, RunClaimed(a)
  PROVE  RInv'
  <1> DEFINE o == pass[a].row
             n == PreflightConfirmed(o)
  <1>1. /\ pass[a].pc = "run" /\ o.status = "claimed"
        /\ UNCHANGED <<Rest, Store>> /\ UNCHANGED external /\ (Fault \/ NoFault)
        /\ \/ Save(a, n, "", "run")
           \/ retryWorkspaceRenewal(a, o)
           \/ manualReviewWorkspaceRenewal(a, o)
    BY DEF RunClaimed, Running, At
  <1>2. OwnersStep
    BY <1>1, OwnersIdle
  <1>3. o \in Operation /\ Good(o)
    BY RowOf
  <1>4. /\ {"debit", "preflight_storage"} \subseteq Phases \ {"receipt"}
        /\ o.status \in Early
        /\ "debit_pending" \in Early
    BY <1>1 DEF Phases, Early
  <1>5. Rewrites(o, n)
    <2> HIDE DEF o
    <2>1. Rewrites(o, [o EXCEPT !.status = "debit_pending", !.phase = "debit"])
      BY <1>3, <1>4, RowAdvanced
    <2>2. Rewrites(o, [o EXCEPT !.phase = "preflight_storage"])
      BY <1>3, <1>4, RowPhased
    <2> QED BY <2>1, <2>2 DEF PreflightConfirmed
  <1>6. pass[a].pc \in Acting
    BY <1>1, ActingPoints
  <1>7. ~o.entitled /\ ~o.refundConfirmed /\ o.status # "none"
    BY <1>3, <1>4, EarlyRow
  <1>8. CASE Save(a, n, "", "run")
    <2> HIDE DEF n
    <2> QED BY <1>1, <1>2, <1>5, <1>6, NoPatch, <1>8, ActingFits, PlainStep
  <1>9. CASE retryWorkspaceRenewal(a, o)
    BY <1>1, <1>2, <1>6, <1>7, <1>9, RetryStep
  <1>10. CASE manualReviewWorkspaceRenewal(a, o)
    BY <1>1, <1>2, <1>6, <1>7, <1>10, ManualReviewStep
  <1> QED BY <1>1, <1>8, <1>9, <1>10

LEMMA DebitFirstPreserves ==
  ASSUME RInv, NEW a \in Actors, DebitFirst(a)
  PROVE  RInv'
  <1> DEFINE o == pass[a].row
             n == [o EXCEPT !.attempted = TRUE, !.pre = wallet]
             m == [o EXCEPT !.status = "insufficient", !.lease = NoLease]
  <1>1. /\ pass[a].pc = "run" /\ o.status = "debit_pending"
        /\ UNCHANGED <<Rest, Store>> /\ UNCHANGED external /\ (Fault \/ NoFault)
        /\ \/ Save(a, n, "", "charge")
           \/ Save(a, m, "", "err")
           \/ retryWorkspaceRenewal(a, o)
    BY DEF DebitFirst, Running, At
  <1>2. OwnersStep
    BY <1>1, OwnersIdle
  <1>3. o \in Operation /\ Good(o) /\ wallet \in Int
    BY RowOf, TypeParts DEF RInv, OwnersType
  <1>4. /\ Rewrites(o, n) /\ n.status = "debit_pending" /\ n.attempted
        /\ Rewrites(o, m)
    <2> HIDE DEF o
    <2> QED BY <1>1, <1>3, RowAttempted, RowShort
  <1>5. o.status # "none" /\ pass[a].pc \in Acting
    BY <1>1, ActingPoints
  <1>6. CASE Save(a, n, "", "charge")
    <2> HIDE DEF n, m
    <2>1. PcHolds("charge", n)
      BY <1>4 DEF PcHolds
    <2> QED BY <1>1, <1>2, <1>4, <1>5, <1>6, <2>1, NoPatch, ThenNames, ActingFits,
               RewriteStep
  <1>7. CASE Save(a, m, "", "err")
    <2> HIDE DEF n, m
    <2> QED BY <1>1, <1>2, <1>4, <1>5, <1>7, NoPatch, ActingFits, PlainStep
  <1>8. CASE retryWorkspaceRenewal(a, o)
    BY <1>1, <1>2, <1>5, <1>8, RetryStep
  <1> QED BY <1>1, <1>6, <1>7, <1>8

\* The debit is confirmed for good: Sub2API holds the code as used.
LEMMA ConfirmStep ==
  ASSUME RInv, OwnersStep, NEW a \in Actors, NEW p \in Periods, p = pass[a].p,
         pass[a].row.status = "debit_pending", pass[a].row.attempted,
         pass[a].pc \in Acting, charge'[p] = "used", UNCHANGED <<Rest, Store>>,
         Save(a, [pass[a].row EXCEPT !.confirmed = TRUE], "", "post")
  PROVE  RInv'
  <1> PICK o \in Operation : o = pass[a].row
    BY RowOf
  <1>1. Good(o) /\ o.status = "debit_pending" /\ o.attempted
    BY RowOf
  <1> DEFINE m == [o EXCEPT !.confirmed = TRUE]
  <1>2. /\ m \in Operation /\ Good(m) /\ Follows(o, m)
        /\ m.status = "debit_pending" /\ m.confirmed
        /\ ~m.refundAttempted /\ ~m.refundConfirmed /\ ~m.entitled
    BY <1>1, RowConfirmed
  <1>3. Save(a, m, "", "post")
    OBVIOUS
  <1> HIDE DEF m
  <1> PICK n : n = m
    OBVIOUS
  <1>4. Backed(n, p)'
    BY <1>2 DEF Backed
  <1>5. PcHolds("post", n)
    BY <1>2 DEF PcHolds
  <1> QED BY <1>2, <1>3, <1>4, <1>5, NoPatch, ThenNames, ActingFits, SaveStep

LEMMA DebitRecoverPreserves ==
  ASSUME RInv, NEW a \in Actors, DebitRecover(a)
  PROVE  RInv'
  <1> DEFINE o == pass[a].row
             n == [o EXCEPT !.confirmed = TRUE]
  <1> PICK p \in Periods : p = pass[a].p
    BY RowOf
  <1>1. /\ pass[a].pc = "run" /\ o.status = "debit_pending" /\ o.attempted
        /\ UNCHANGED <<Rest, Store>> /\ UNCHANGED external /\ (Fault \/ NoFault)
        /\ \/ charge[p] = "used" /\ Save(a, n, "", "post")
           \/ Goto(a, [pass[a] EXCEPT !.pc = "charge"])
           \/ retryWorkspaceRenewal(a, o)
           \/ manualReviewWorkspaceRenewal(a, o)
    BY DEF DebitRecover, Running, At
  <1>2. OwnersStep /\ spent' \in Spent /\ pass[a].pc \in Acting
    BY <1>1, OwnersIdle, SpentType, ActingPoints
  <1>3. CASE charge[p] = "used" /\ Save(a, n, "", "post")
    BY <1>1, <1>2, <1>3, ConfirmStep DEF external
  <1>4. CASE Goto(a, [pass[a] EXCEPT !.pc = "charge"])
    <2>1. PcHolds("charge", o)
      BY <1>1 DEF PcHolds
    <2>2. "charge" \in Points
      BY DEF Points
    <2> QED BY <1>1, <1>2, <1>4, <2>1, <2>2, PointStep
  <1>5. CASE retryWorkspaceRenewal(a, o)
    BY <1>1, <1>2, <1>5, RetryStep
  <1>6. CASE manualReviewWorkspaceRenewal(a, o)
    <2>1. ~o.entitled /\ ~o.refundConfirmed
      BY <1>1, RowOf DEF Good
    <2> QED BY <1>1, <1>2, <1>6, <2>1, ManualReviewStep
  <1> QED BY <1>1, <1>3, <1>4, <1>5, <1>6

LEMMA DebitConfirmedPreserves ==
  ASSUME RInv, NEW a \in Actors, DebitConfirmed(a)
  PROVE  RInv'
  <1>1. /\ pass[a].pc = "run" /\ pass[a].row.status = "debit_pending"
        /\ pass[a].row.confirmed /\ Goto(a, [pass[a] EXCEPT !.pc = "post"])
        /\ UNCHANGED <<Rest, Store>> /\ UNCHANGED external /\ NoFault
    BY DEF DebitConfirmed, Running, At, NoFault
  <1>2. PcHolds("post", pass[a].row)
    BY <1>1 DEF PcHolds
  <1>3. "post" \in Points
    BY DEF Points
  <1> QED BY <1>1, <1>2, <1>3, SpentType, ActingPoints, PointStep

LEMMA WalletType ==
  ASSUME RInv, NEW p \in Periods
  PROVE  /\ Charged(p) => wallet' \in Int /\ charge' \in Codes
         /\ RefundPaid(p) => wallet' \in Int /\ refund' \in Codes
  <1>1. wallet \in Int /\ charge \in Codes /\ refund \in Codes
    BY TypeParts DEF RInv, OwnersType
  <1>2. Used(charge, p) \in Codes /\ Used(refund, p) \in Codes
    BY <1>1 DEF Used, Codes
  <1>3. /\ Balance(charge, p, -Price) \in Int
        /\ Balance(refund, p, Price) \in Int
    BY <1>1 DEF Balance, Price
  <1> QED BY <1>2, <1>3 DEF Charged, RefundPaid

\* A debit is sent, or takes effect, for an attempt that is stored.
LEMMA DebitOwners ==
  ASSUME RInv, NEW p \in Periods, ops[p].attempted, wallet' \in Int,
         spent' \in Spent, UNCHANGED <<refund, provider, receipts>>,
         charge' = Used(charge, p) \/ charge' = Sent(charge, p)
  PROVE  OwnersStep
  <1>1. charge \in Codes
    BY TypeParts DEF RInv, OwnersType
  <1>2. charge' \in Codes
    BY <1>1 DEF Codes, Used, Sent
  <1>3. ASSUME NEW q \in Periods
        PROVE  /\ charge[q] = "used" => charge'[q] = "used"
               /\ charge'[q] # "none" => ops[q].attempted
               /\ refund[q] # "none" => ops[q].refundAttempted
    <2>1. /\ charge[q] # "none" => ops[q].attempted
          /\ refund[q] # "none" => ops[q].refundAttempted
      BY DEF RInv, PeriodGood
    <2>2. /\ charge[q] = "used" => charge'[q] = "used"
          /\ q # p => charge'[q] = charge[q]
      BY <1>1 DEF Codes, Used, Sent
    <2> QED BY <2>1, <2>2
  <1>4. OwnersType'
    BY <1>2, TypeParts DEF RInv, OwnersType
  <1>5. ProviderPaid'
    BY <1>3 DEF RInv, ProviderPaid
  <1> QED BY <1>3, <1>4, <1>5 DEF OwnersStep

LEMMA RefundOwners ==
  ASSUME RInv, NEW p \in Periods, ops[p].refundAttempted, wallet' \in Int,
         spent' \in Spent, UNCHANGED <<charge, provider, receipts>>,
         refund' = Used(refund, p) \/ refund' = Sent(refund, p)
  PROVE  OwnersStep
  <1>1. refund \in Codes
    BY TypeParts DEF RInv, OwnersType
  <1>2. refund' \in Codes
    BY <1>1 DEF Codes, Used, Sent
  <1>3. ASSUME NEW q \in Periods
        PROVE  /\ refund[q] = "used" => refund'[q] = "used"
               /\ charge[q] # "none" => ops[q].attempted
               /\ refund'[q] # "none" => ops[q].refundAttempted
    <2>1. /\ charge[q] # "none" => ops[q].attempted
          /\ refund[q] # "none" => ops[q].refundAttempted
      BY DEF RInv, PeriodGood
    <2>2. /\ refund[q] = "used" => refund'[q] = "used"
          /\ q # p => refund'[q] = refund[q]
      BY <1>1 DEF Codes, Used, Sent
    <2> QED BY <2>1, <2>2
  <1>4. OwnersType'
    BY <1>2, TypeParts DEF RInv, OwnersType
  <1>5. ProviderPaid'
    BY DEF RInv, ProviderPaid
  <1> QED BY <1>3, <1>4, <1>5 DEF OwnersStep

LEMMA ChargePreserves ==
  ASSUME RInv, NEW a \in Actors, ChargeSub2API(a)
  PROVE  RInv'
  <1> DEFINE o == pass[a].row
             n == [o EXCEPT !.confirmed = TRUE]
  <1> PICK p \in Periods : p = pass[a].p
    BY RowOf
  <1>1. /\ pass[a].pc = "charge"
        /\ UNCHANGED <<Rest, Store>> /\ UNCHANGED <<refund, provider, receipts>>
        /\ (Fault \/ NoFault)
        /\ \/ Charged(p) /\ Save(a, n, "", "post")
           \/ /\ retryWorkspaceRenewal(a, o)
              /\ \/ Charged(p)
                 \/ charge' = Sent(charge, p) /\ UNCHANGED wallet
                 \/ UNCHANGED <<charge, wallet>>
           \/ manualReviewWorkspaceRenewal(a, o) /\ UNCHANGED <<charge, wallet>>
    BY DEF ChargeSub2API, At
  <1>2. /\ o \in Operation /\ Good(o) /\ o.status = "debit_pending" /\ o.attempted
        /\ ops[p].attempted
    BY <1>1, RowOf DEF PcHolds, Known
  <1>3. /\ o.status # "none" /\ ~o.entitled /\ ~o.refundConfirmed
        /\ pass[a].pc \in Acting
    BY <1>1, <1>2, EarlyRow, ActingPoints DEF Early
  <1>4. wallet \in Int
    BY TypeParts DEF RInv, OwnersType
  <1>5. OwnersStep
    <2>1. CASE UNCHANGED <<charge, wallet>>
      BY <1>1, <2>1, OwnersIdle DEF external
    <2>2. CASE Charged(p)
      BY <1>1, <1>2, <2>2, SpentType, WalletType, DebitOwners DEF Charged
    <2>3. CASE charge' = Sent(charge, p) /\ UNCHANGED wallet
      BY <1>1, <1>2, <1>4, <2>3, SpentType, DebitOwners
    <2> QED BY <1>1, <2>1, <2>2, <2>3
  <1>6. CASE Charged(p) /\ Save(a, n, "", "post")
    <2>1. charge'[p] = "used"
      BY <1>6, TypeParts DEF RInv, OwnersType, Codes, Charged, Used
    <2> QED BY <1>1, <1>2, <1>3, <1>5, <1>6, <2>1, ConfirmStep
  <1>7. CASE retryWorkspaceRenewal(a, o)
    BY <1>1, <1>3, <1>5, <1>7, RetryStep
  <1>8. CASE manualReviewWorkspaceRenewal(a, o)
    BY <1>1, <1>3, <1>5, <1>8, ManualReviewStep
  <1> QED BY <1>1, <1>6, <1>7, <1>8

LEMMA PostChargePreserves ==
  ASSUME RInv, NEW a \in Actors, PostChargeBalance(a)
  PROVE  RInv'
  <1> PICK o \in Operation : o = pass[a].row
    BY RowOf
  <1> DEFINE k == [o EXCEPT !.post = TRUE]
             n == [k EXCEPT !.status = "debited", !.phase = "provider_compute"]
             m == [k EXCEPT !.status = "manual_review", !.lease = NoLease]
  <1>1. /\ pass[a].pc = "post"
        /\ UNCHANGED <<Rest, Store>> /\ UNCHANGED external /\ (Fault \/ NoFault)
        /\ \/ Save(a, n, "", "run")
           \/ Save(a, m, "", "ok")
           \/ retryWorkspaceRenewal(a, pass[a].row)
    BY DEF PostChargeBalance, At, manualReviewWorkspaceRenewal
  <1>2. OwnersStep
    BY <1>1, OwnersIdle
  <1>3. Good(o) /\ o.status = "debit_pending" /\ o.confirmed
    BY <1>1, RowOf DEF PcHolds
  <1>4. /\ ~o.entitled /\ ~o.refundConfirmed /\ o.status # "none"
        /\ pass[a].pc \in Acting
    BY <1>1, <1>3, EarlyRow, ActingPoints DEF Early
  <1>5. /\ Rewrites(o, k) /\ k \in Operation /\ k.status = o.status
        /\ k.confirmed = o.confirmed /\ k.entitled = o.entitled
        /\ k.refundConfirmed = o.refundConfirmed
    <2>1. Rewrites(o, k)
      BY <1>3, <1>4, RowNoted
    <2> QED BY <2>1 DEF Operation
  <1> HIDE DEF k
  <1>6. Good(k)
    BY <1>5 DEF Rewrites
  <1>7. Rewrites(k, n)
    <2>1. "provider_compute" \in Phases \ {"receipt"} /\ k.status \in Early /\ "debited" \in Paying
      BY <1>3, <1>5 DEF Phases, Early, Paying
    <2> QED BY <2>1, <1>3, <1>5, <1>6, RowAdvanced
  <1>8. Rewrites(k, m)
    BY <1>3, <1>4, <1>5, <1>6, RowReviewed
  <1> HIDE DEF n, m
  <1>9. Rewrites(o, n) /\ Rewrites(o, m)
    BY <1>5, <1>7, <1>8, Composed
  <1>10. CASE Save(a, n, "", "run")
    BY <1>1, <1>2, <1>4, <1>9, <1>10, NoPatch, ActingFits, PlainStep
  <1>11. CASE Save(a, m, "", "ok")
    BY <1>1, <1>2, <1>4, <1>9, <1>11, NoPatch, ActingFits, PlainStep
  <1>12. CASE retryWorkspaceRenewal(a, pass[a].row)
    BY <1>1, <1>2, <1>4, <1>12, RetryStep
  <1> QED BY <1>1, <1>10, <1>11, <1>12

LEMMA RunDebitedPreserves ==
  ASSUME RInv, NEW a \in Actors, RunDebited(a)
  PROVE  RInv'
  <1> PICK o \in Operation : o = pass[a].row
    BY RowOf
  <1> DEFINE n == [o EXCEPT !.status = "provider_renewing", !.phase = "provider_compute"]
  <1>1. /\ pass[a].pc = "run" /\ o.status = "debited" /\ Save(a, n, "", "run")
        /\ UNCHANGED <<Rest, Store>> /\ UNCHANGED external /\ NoFault
    BY DEF RunDebited, Running, At, NoFault
  <1>2. OwnersStep
    BY <1>1, OwnersIdle
  <1>3. Good(o)
    BY RowOf
  <1>4. o.confirmed
    BY <1>1, <1>3 DEF Good
  <1>5. "provider_compute" \in Phases \ {"receipt"} /\ o.status \in Paying /\ "provider_renewing" \in Paying
    BY <1>1 DEF Phases, Paying
  <1>6. Rewrites(o, n)
    BY <1>3, <1>4, <1>5, RowAdvanced
  <1> HIDE DEF n
  <1> QED BY <1>1, <1>2, <1>6, NoPatch, ActingPoints, ActingFits, PlainStep

\* A month whose operation is being paid follows months that were paid for.
LEMMA PaidBefore ==
  ASSUME RInv, NEW p \in Periods, ops[p].status # "none", charge[p] = "used"
  PROVE  \A q \in Periods : q <= p => charge[q] = "used"
  <1> TAKE q \in Periods
  <1>1. CASE q = p
    BY <1>1
  <1>2. CASE q < p
    <2>1. ws.paid \in Nat /\ p \in Nat /\ q \in Nat
      BY TypeParts, Constants DEF RInv, StoreType, WsType
    <2>2. ws.paid > q
      BY <1>2, <2>1 DEF RInv, PeriodGood
    <2>3. ops[q].entitled /\ Good(ops[q]) /\ Backed(ops[q], q)
      BY <2>2 DEF RInv, PeriodGood
    <2>4. ops[q].confirmed
      BY <2>3 DEF Good
    <2> QED BY <2>3, <2>4 DEF Backed
  <1> QED BY <1>1, <1>2, Constants

\* A request to the provider, done, late or under way, for a month that is paid.
LEMMA ProviderOwners ==
  ASSUME RInv, NEW res \in Resources, NEW p \in Periods,
         \A q \in Periods : q <= p => charge[q] = "used",
         wallet' \in Int, spent' \in Spent, UNCHANGED <<charge, refund, receipts>>,
         Renew(res, p) \/ provider' = [provider EXCEPT ![res].inflight = p]
  PROVE  OwnersStep
  <1>1. provider \in Provider
    BY TypeParts DEF RInv, OwnersType
  <1> DEFINE P == [through : 1 .. LastPeriod + 1, inflight : 0 .. LastPeriod,
                   gone : BOOLEAN]
  <1> PICK x \in P : x = provider[res]
    BY <1>1 DEF Provider
  <1> PICK y : y = provider'[res]
    OBVIOUS
  <1>2. p \in Nat /\ p >= 1 /\ p <= LastPeriod /\ LastPeriod \in Nat
    BY Constants
  <1>3. /\ y \in P
        /\ \A q \in Periods : x.through > q => y.through > q
        /\ \A q \in Periods : y.through > q => x.through > q \/ q <= p
        /\ \A q \in Periods : y.inflight >= q => x.inflight >= q \/ q <= p
        /\ y.gone = x.gone
    <2>0. Periods \subseteq Nat /\ \A q \in Periods : q >= 1
      BY Constants
    <2>1. CASE Renew(res, p) /\ x.gone
      <3>1. y = x
        BY <1>1, <2>1 DEF Renew, Provider
      <3> QED BY <3>1
    <2>2. CASE Renew(res, p) /\ ~x.gone
      <3> DEFINE t == IF x.through < p + 1 THEN p + 1 ELSE x.through
      <3>1. y = [x EXCEPT !.through = t, !.inflight = 0]
        BY <1>1, <2>2 DEF Renew, Provider
      <3>2. t \in 1 .. LastPeriod + 1 /\ t >= x.through /\ (t = x.through \/ t = p + 1)
        BY <1>2
      <3> HIDE DEF t
      <3> PICK u \in 1 .. LastPeriod + 1 : u = t
        BY <3>2
      <3>3. y \in P /\ y.through = u /\ y.inflight = 0 /\ y.gone = x.gone
        <4>1. 0 \in 0 .. LastPeriod
          BY <1>2
        <4>2. y = [x EXCEPT !.through = u, !.inflight = 0]
          BY <3>1
        <4> QED BY ONLY <4>1, <4>2, x \in P, u \in 1 .. LastPeriod + 1
      <3>4. x.through \in Nat /\ u \in Nat
        BY <3>2, <1>2
      <3> HIDE DEF P
      <3>5. u >= x.through /\ (u = x.through \/ u = p + 1)
        BY <3>2
      <3> QED BY ONLY <1>2, <2>0, <3>3, <3>4, <3>5, y \in P
    <2>3. CASE provider' = [provider EXCEPT ![res].inflight = p]
      <3>1. y = [x EXCEPT !.inflight = p]
        BY <1>1, <2>3 DEF Provider
      <3>2. y \in P /\ y.through = x.through /\ y.inflight = p /\ y.gone = x.gone
        BY <1>2, <3>1
      <3> QED BY <3>2
    <2> QED BY <2>1, <2>2, <2>3
  <1>4. provider' = [provider EXCEPT ![res] = y]
    BY <1>1 DEF Renew, Provider
  <1> HIDE DEF P
  <1>5. provider' \in Provider
    BY <1>1, <1>3, <1>4 DEF Provider, P
  <1>6. \A s \in Resources : s # res => provider'[s] = provider[s]
    BY <1>1, <1>4 DEF Provider
  <1>7. OwnersType'
    BY <1>5, TypeParts DEF RInv, OwnersType
  <1>8. ASSUME NEW q \in Periods, NEW s \in Resources,
               provider'[s].through > q \/ provider'[s].inflight >= q
        PROVE  charge'[q] = "used"
    <2>1. CASE s # res
      BY <1>6, <1>8, <2>1 DEF RInv, ProviderPaid
    <2>2. CASE s = res
      <3>1. x.through > q \/ x.inflight >= q \/ q <= p
        BY <1>3, <1>8, <2>2
      <3>2. x.through > q \/ x.inflight >= q => charge[q] = "used"
        BY DEF RInv, ProviderPaid
      <3> QED BY <3>1, <3>2
    <2> QED BY <2>1, <2>2
  <1>9. ProviderPaid'
    BY <1>8 DEF ProviderPaid
  <1>10. ASSUME NEW q \in Periods
         PROVE  /\ charge[q] # "none" => ops[q].attempted
                /\ refund[q] # "none" => ops[q].refundAttempted
    BY DEF RInv, PeriodGood
  <1>11. ASSUME NEW q \in Periods, NEW s \in Resources, provider[s].through > q
         PROVE  provider'[s].through > q
    BY <1>3, <1>6, <1>11
  <1>12. provider["compute"].gone => provider'["compute"].gone
    BY <1>3, <1>6 DEF Resources
  <1> QED BY <1>7, <1>9, <1>10, <1>11, <1>12 DEF OwnersStep

LEMMA RenewProviderPreserves ==
  ASSUME RInv, NEW a \in Actors, NEW res \in Resources, RenewProvider(a, res)
  PROVE  RInv'
  <1> PICK o \in Operation : o = pass[a].row
    BY RowOf
  <1> PICK p \in Periods : p = pass[a].p
    BY RowOf
  <1> DEFINE n == [o EXCEPT !.phase = VerifyPhase(res)]
  <1>1. /\ pass[a].pc = "run" /\ o.status = "provider_renewing" /\ Save(a, n, "", "run")
        /\ UNCHANGED <<Rest, Store>> /\ UNCHANGED <<wallet, charge, refund, receipts>>
        /\ (Fault \/ NoFault)
        /\ \/ Renew(res, p)
           \/ UNCHANGED provider
           \/ provider' = [provider EXCEPT ![res].inflight = p]
    BY DEF RenewProvider, Running, At
  <1>2. /\ Good(o) /\ o.confirmed /\ charge[p] = "used" /\ ops[p].status # "none"
    BY <1>1, RowOf DEF Good, Backed, Known
  <1>3. OwnersStep
    <2>1. CASE UNCHANGED provider
      BY <1>1, <2>1, OwnersIdle DEF external
    <2>2. CASE Renew(res, p) \/ provider' = [provider EXCEPT ![res].inflight = p]
      <3>1. wallet' \in Int /\ spent' \in Spent
        BY <1>1, TypeParts, SpentType DEF RInv, OwnersType
      <3>2. \A q \in Periods : q <= p => charge[q] = "used"
        BY <1>2, PaidBefore
      <3> QED BY <1>1, <2>2, <3>1, <3>2, ProviderOwners
    <2> QED BY <1>1, <2>1, <2>2
  <1>4. VerifyPhase(res) \in Phases \ {"receipt"} /\ o.status \in Paying
    BY <1>1 DEF VerifyPhase, Phases, Paying
  <1>5. Rewrites(o, n)
    BY <1>2, <1>4, RowPhased
  <1> HIDE DEF n
  <1> QED BY <1>1, <1>3, <1>5, NoPatch, ActingPoints, ActingFits, PlainStep

LEMMA VerifyProviderPreserves ==
  ASSUME RInv, NEW a \in Actors, NEW res \in Resources, VerifyProvider(a, res)
  PROVE  RInv'
  <1> PICK o \in Operation : o = pass[a].row
    BY RowOf
  <1> DEFINE n == Verified(o, res)
  <1>1. /\ pass[a].pc = "run" /\ o.status = "provider_renewing"
        /\ UNCHANGED <<Rest, Store>> /\ UNCHANGED external /\ (Fault \/ NoFault)
        /\ \/ Save(a, n, "", "run")
           \/ Return(a, TRUE)
           \/ provider["compute"].gone /\ Goto(a, [pass[a] EXCEPT !.pc = "refund"])
           \/ manualReviewWorkspaceRenewal(a, o)
    BY DEF VerifyProvider, Running, At
  <1>2. Good(o) /\ o.confirmed /\ pass[a].patch = ""
    BY <1>1, RowOf DEF Good
  <1>3. OwnersStep /\ spent' \in Spent /\ pass[a].pc \in Acting
    BY <1>1, OwnersIdle, SpentType, ActingPoints
  <1>4. /\ {"provider_storage", "entitlement"} \subseteq Phases \ {"receipt"}
        /\ o.status \in Paying
    BY <1>1 DEF Phases, Paying
  <1>5. /\ ~o.entitled /\ ~o.refundAttempted /\ ~o.refundConfirmed
        /\ o.status # "none"
    BY <1>2, <1>4, EarlyRow
  <1>6. Rewrites(o, n)
    <2>1. Rewrites(o, [o EXCEPT !.phase = "provider_storage"])
      BY <1>2, <1>4, RowPhased
    <2>2. Rewrites(o, [o EXCEPT !.status = "verifying", !.phase = "entitlement"])
      BY <1>2, <1>4, <1>5, RowAdvanced
    <2> QED BY <2>1, <2>2 DEF Verified
  <1> HIDE DEF n
  <1>7. CASE Save(a, n, "", "run")
    BY <1>1, <1>3, <1>5, <1>6, <1>7, NoPatch, ActingFits, PlainStep
  <1>8. CASE Return(a, TRUE)
    BY <1>1, <1>2, <1>3, <1>5, <1>8, ReturnStep
  <1>9. CASE provider["compute"].gone /\ Goto(a, [pass[a] EXCEPT !.pc = "refund"])
    <2>1. PcHolds("refund", o)
      BY <1>1 DEF PcHolds
    <2>2. "refund" \in Points
      BY DEF Points
    <2> QED BY <1>1, <1>3, <1>9, <2>1, <2>2, PointStep
  <1>10. CASE manualReviewWorkspaceRenewal(a, o)
    BY <1>1, <1>3, <1>5, <1>10, ManualReviewStep
  <1> QED BY <1>1, <1>7, <1>8, <1>9, <1>10

LEMMA RunVerifyingPreserves ==
  ASSUME RInv, NEW a \in Actors, RunVerifying(a)
  PROVE  RInv'
  <1> PICK o \in Operation : o = pass[a].row
    BY RowOf
  <1> PICK p \in Periods : p = pass[a].p
    BY RowOf
  <1> DEFINE m == Entitled(o, p)
             patch == IF Recovers(o, p) THEN "recover" ELSE "entitle"
  <1>1. /\ pass[a].pc = "run" /\ o.status = "verifying" /\ o.phase # "receipt"
        /\ UNCHANGED <<Rest, Store>> /\ UNCHANGED external /\ (Fault \/ NoFault)
        /\ \/ verifyWorkspaceRenewalProviderReadback(p) /\ Save(a, m, patch, "run")
           \/ manualReviewWorkspaceRenewal(a, o)
    BY DEF RunVerifying, Running, At
  <1>2. Good(o) /\ Backed(o, p)
    BY RowOf
  <1>3. OwnersStep /\ pass[a].pc \in Acting
    BY <1>1, OwnersIdle, ActingPoints
  <1>4. ~o.entitled /\ ~o.refundConfirmed /\ o.status # "none" /\ o.confirmed
    BY <1>1, <1>2 DEF Good
  <1>5. /\ m \in Operation /\ Good(m) /\ Follows(o, m) /\ m.entitled
        /\ m.confirmed => o.confirmed
        /\ ~m.refundAttempted /\ ~m.refundConfirmed
    BY <1>1, <1>2, RowEntitled
  <1>6. patch \in PatchNames /\ patch \in Entitling
    BY DEF PatchNames, Entitling
  <1>7. CASE verifyWorkspaceRenewalProviderReadback(p) /\ Save(a, m, patch, "run")
    <2> HIDE DEF m, patch
    <2> PICK n : n = m
      OBVIOUS
    <2>1. \A res \in Resources : provider[res].through >= p + 1
      BY <1>7 DEF verifyWorkspaceRenewalProviderReadback, Covers
    <2>2. \A res \in Resources : provider[res].through > p
      <3> TAKE res \in Resources
      <3>1. provider[res].through \in Nat /\ p \in Nat
        BY TypeParts, Constants DEF RInv, OwnersType, Provider
      <3> QED BY <2>1, <3>1
    <2>3. Backed(n, p)
      BY <1>2, <1>5, <2>2 DEF Backed
    <2>4. Backed(n, p)'
      BY <1>3, <2>3, BackedKept
    <2>5. PcHolds("run", n)
      BY <1>5 DEF PcHolds, Follows
    <2> QED BY <1>1, <1>3, <1>4, <1>5, <1>6, <1>7, <2>4, <2>5, ThenNames,
               ActingFits, SaveStep
  <1>8. CASE manualReviewWorkspaceRenewal(a, o)
    BY <1>1, <1>3, <1>4, <1>8, ManualReviewStep
  <1> QED BY <1>1, <1>7, <1>8

LEMMA RunToReceiptPreserves ==
  ASSUME RInv, NEW a \in Actors, RunToReceipt(a)
  PROVE  RInv'
  <1>1. /\ pass[a].pc = "run" /\ pass[a].row.status = "verifying"
        /\ pass[a].row.phase = "receipt" /\ Goto(a, [pass[a] EXCEPT !.pc = "receipt"])
        /\ UNCHANGED <<Rest, Store>> /\ UNCHANGED external /\ NoFault
    BY DEF RunToReceipt, Running, At, NoFault
  <1>2. PcHolds("receipt", pass[a].row)
    BY <1>1 DEF PcHolds
  <1>3. "receipt" \in Points
    BY DEF Points
  <1> QED BY <1>1, <1>2, <1>3, SpentType, ActingPoints, PointStep

\* Ledger takes a receipt, or not.
LEMMA ReceiptOwners ==
  ASSUME RInv, UNCHANGED <<wallet, charge, refund, provider>>, Fault \/ NoFault,
         NEW kind \in {"renewed", "refunded", "expired"}, NEW p \in 1 .. LastPeriod + 1,
         Record(kind, p) \/ UNCHANGED receipts
  PROVE  OwnersStep
  <1>1. receipts \subseteq Kinds /\ wallet \in Int
    BY TypeParts DEF RInv, OwnersType
  <1>2. <<kind, p>> \in Kinds
    BY DEF Kinds
  <1>3. receipts' \subseteq Kinds
    BY <1>1, <1>2 DEF Record
  <1> QED BY <1>1, <1>3, SpentType, OwnersRest

LEMMA RenewalReceiptPreserves ==
  ASSUME RInv, NEW a \in Actors, RenewalReceipt(a)
  PROVE  RInv'
  <1> PICK o \in Operation : o = pass[a].row
    BY RowOf
  <1> PICK p \in Periods : p = pass[a].p
    BY RowOf
  <1> DEFINE n == [o EXCEPT !.status = "active", !.phase = "complete",
                            !.lease = NoLease]
  <1>1. /\ pass[a].pc = "receipt"
        /\ UNCHANGED <<Rest, Store>> /\ UNCHANGED <<wallet, charge, refund, provider>>
        /\ (Fault \/ NoFault)
        /\ Record("renewed", p) \/ UNCHANGED receipts
        /\ \/ Save(a, n, "", "ok")
           \/ retryWorkspaceRenewal(a, o)
    BY DEF RenewalReceipt, At
  <1>2. OwnersStep
    BY <1>1, Constants, ReceiptOwners
  <1>3. Good(o) /\ o.status = "verifying" /\ o.phase = "receipt"
    BY <1>1, RowOf DEF PcHolds
  <1>4. Rewrites(o, n)
    BY <1>3, RowActive
  <1> HIDE DEF n
  <1>5. CASE Save(a, n, "", "ok")
    BY <1>1, <1>2, <1>3, <1>4, <1>5, NoPatch, ActingPoints, ActingFits, PlainStep
  <1>6. CASE retryWorkspaceRenewal(a, o)
    BY <1>1, <1>2, <1>3, <1>6, ActingPoints, RetryStep
  <1> QED BY <1>1, <1>5, <1>6

-----------------------------------------------------------------------------
(* Refund, expiry and review                                               *)

LEMMA RunRefundPendingPreserves ==
  ASSUME RInv, NEW a \in Actors, RunRefundPending(a)
  PROVE  RInv'
  <1>1. /\ pass[a].pc = "run" /\ pass[a].row.status = "refund_pending"
        /\ Goto(a, [pass[a] EXCEPT !.pc = "refund"])
        /\ UNCHANGED <<Rest, Store>> /\ UNCHANGED external /\ NoFault
    BY DEF RunRefundPending, Running, At, NoFault
  <1>2. PcHolds("refund", pass[a].row) /\ provider["compute"].gone
    BY <1>1, RowOf DEF PcHolds, Good, Backed
  <1>3. "refund" \in Points
    BY DEF Points
  <1> QED BY <1>1, <1>2, <1>3, SpentType, ActingPoints, PointStep

LEMMA RefundFirstPreserves ==
  ASSUME RInv, NEW a \in Actors, RefundFirst(a)
  PROVE  RInv'
  <1> PICK o \in Operation : o = pass[a].row
    BY RowOf
  <1> PICK p \in Periods : p = pass[a].p
    BY RowOf
  <1> DEFINE m == [o EXCEPT !.status = "refund_pending", !.phase = "refund",
                            !.refundAttempted = TRUE]
  <1>1. /\ pass[a].pc = "refund" /\ ~o.refundAttempted
        /\ UNCHANGED <<Rest, Store>> /\ UNCHANGED external /\ (Fault \/ NoFault)
        /\ Save(a, m, "", "refundCall") \/ manualReviewWorkspaceRenewal(a, o)
    BY DEF RefundFirst, At
  <1>2. /\ Good(o) /\ o.status \in {"refund_pending", "provider_renewing"}
        /\ provider["compute"].gone /\ Backed(o, p) /\ pass[a].pc \in Acting
    BY <1>1, RowOf, PassOf, ActingPoints DEF PcHolds, PassGood
  <1>3. OwnersStep
    BY <1>1, OwnersIdle
  <1>4. CASE Save(a, m, "", "refundCall")
    <2>1. /\ m \in Operation /\ Good(m) /\ Follows(o, m) /\ m.status = "refund_pending"
          /\ m.confirmed = o.confirmed /\ ~m.refundConfirmed /\ ~m.entitled
      BY <1>1, <1>2, RowRefunding
    <2> HIDE DEF m
    <2> PICK n : n = m
      OBVIOUS
    <2>2. Backed(n, p)
      BY <1>2, <2>1 DEF Backed
    <2>3. Backed(n, p)' /\ PcHolds("refundCall", n)
      BY <1>3, <2>1, <2>2, BackedKept DEF PcHolds
    <2> QED BY <1>1, <1>2, <1>3, <1>4, <2>1, <2>3, NoPatch, ThenNames, ActingFits, SaveStep
  <1>5. CASE manualReviewWorkspaceRenewal(a, o)
    <2>1. ~o.entitled /\ ~o.refundConfirmed /\ o.status # "none"
      BY <1>2 DEF Good
    <2> QED BY <1>1, <1>2, <1>3, <1>5, <2>1, ManualReviewStep
  <1> QED BY <1>1, <1>4, <1>5

\* The refund is confirmed for good: Sub2API holds its code as used.
LEMMA RefundedStep ==
  ASSUME RInv, OwnersStep, NEW a \in Actors, NEW p \in Periods, p = pass[a].p,
         pass[a].row.status = "refund_pending", refund'[p] = "used",
         pass[a].pc \in Acting,
         UNCHANGED <<Rest, Store>>,
         Save(a, Refunded(pass[a].row), "", "refundReceipt")
  PROVE  RInv'
  <1> PICK o \in Operation : o = pass[a].row
    BY RowOf
  <1>1. Good(o) /\ o.status = "refund_pending" /\ Backed(o, p)
    BY RowOf
  <1> DEFINE m == Refunded(o)
  <1>2. /\ m \in Operation /\ Good(m) /\ Follows(o, m) /\ m.status = "refunded"
        /\ m.confirmed => o.confirmed
        /\ m.refundAttempted => o.refundAttempted
        /\ ~m.entitled
    BY <1>1, RowRefunded
  <1>3. Save(a, m, "", "refundReceipt")
    OBVIOUS
  <1> HIDE DEF m
  <1> PICK n : n = m
    OBVIOUS
  <1>4. Backed(o, p)'
    BY <1>1, BackedKept
  <1>5. Backed(n, p)'
    BY <1>2, <1>4 DEF Backed
  <1>6. PcHolds("refundReceipt", n)
    BY <1>2 DEF PcHolds
  <1> QED BY <1>1, <1>2, <1>3, <1>5, <1>6, NoPatch, ThenNames, ActingFits, SaveStep

LEMMA RefundRecoverPreserves ==
  ASSUME RInv, NEW a \in Actors, RefundRecover(a)
  PROVE  RInv'
  <1> PICK o \in Operation : o = pass[a].row
    BY RowOf
  <1> PICK p \in Periods : p = pass[a].p
    BY RowOf
  <1>1. /\ pass[a].pc = "refund" /\ o.refundAttempted
        /\ UNCHANGED <<Rest, Store>> /\ UNCHANGED external /\ (Fault \/ NoFault)
        /\ \/ refund[p] = "used" /\ Save(a, Refunded(o), "", "refundReceipt")
           \/ Goto(a, [pass[a] EXCEPT !.pc = "refundCall"])
           \/ retryWorkspaceRenewal(a, o)
           \/ manualReviewWorkspaceRenewal(a, o)
    BY DEF RefundRecover, At
  <1>2. OwnersStep /\ spent' \in Spent /\ pass[a].pc \in Acting
    BY <1>1, OwnersIdle, SpentType, ActingPoints
  <1>3. o.status = "refund_pending"
    BY <1>1, RowOf DEF PcHolds, Good
  <1>4. CASE refund[p] = "used" /\ Save(a, Refunded(o), "", "refundReceipt")
    BY <1>1, <1>2, <1>3, <1>4, RefundedStep DEF external
  <1>5. CASE Goto(a, [pass[a] EXCEPT !.pc = "refundCall"])
    <2>1. PcHolds("refundCall", o)
      BY <1>3 DEF PcHolds
    <2>2. "refundCall" \in Points
      BY DEF Points
    <2> QED BY <1>1, <1>2, <1>5, <2>1, <2>2, PointStep
  <1>6. CASE retryWorkspaceRenewal(a, o)
    BY <1>1, <1>2, <1>3, <1>6, RetryStep
  <1>7. CASE manualReviewWorkspaceRenewal(a, o)
    <2>1. ~o.entitled /\ ~o.refundConfirmed
      BY <1>3, RowOf DEF Good
    <2> QED BY <1>1, <1>2, <1>3, <1>7, <2>1, ManualReviewStep
  <1> QED BY <1>1, <1>4, <1>5, <1>6, <1>7

LEMMA RefundPreserves ==
  ASSUME RInv, NEW a \in Actors, RefundSub2API(a)
  PROVE  RInv'
  <1> PICK o \in Operation : o = pass[a].row
    BY RowOf
  <1> PICK p \in Periods : p = pass[a].p
    BY RowOf
  <1>1. /\ pass[a].pc = "refundCall"
        /\ UNCHANGED <<Rest, Store>> /\ UNCHANGED <<charge, provider, receipts>>
        /\ (Fault \/ NoFault)
        /\ \/ RefundPaid(p) /\ Save(a, Refunded(o), "", "refundReceipt")
           \/ /\ retryWorkspaceRenewal(a, o)
              /\ \/ RefundPaid(p)
                 \/ refund' = Sent(refund, p) /\ UNCHANGED wallet
                 \/ UNCHANGED <<refund, wallet>>
    BY DEF RefundSub2API, At
  <1>2. o.status = "refund_pending" /\ ops[p].refundAttempted
    BY <1>1, RowOf DEF PcHolds, Known, Good
  <1>3. wallet \in Int /\ refund \in Codes
    BY TypeParts DEF RInv, OwnersType
  <1>4. OwnersStep
    <2>1. CASE UNCHANGED <<refund, wallet>>
      BY <1>1, <2>1, OwnersIdle DEF external
    <2>2. CASE RefundPaid(p)
      BY <1>1, <1>2, <2>2, SpentType, WalletType, RefundOwners DEF RefundPaid
    <2>3. CASE refund' = Sent(refund, p) /\ UNCHANGED wallet
      BY <1>1, <1>2, <1>3, <2>3, SpentType, RefundOwners
    <2> QED BY <1>1, <2>1, <2>2, <2>3
  <1>5. CASE RefundPaid(p) /\ Save(a, Refunded(o), "", "refundReceipt")
    <2>1. refund'[p] = "used"
      BY <1>3, <1>5 DEF Codes, RefundPaid, Used
    <2> QED BY <1>1, <1>2, <1>4, <1>5, <2>1, ActingPoints, RefundedStep
  <1>6. CASE retryWorkspaceRenewal(a, o)
    BY <1>1, <1>2, <1>4, <1>6, ActingPoints, RetryStep
  <1> QED BY <1>1, <1>5, <1>6

LEMMA RefundReceiptPreserves ==
  ASSUME RInv, NEW a \in Actors, RefundReceipt(a)
  PROVE  RInv'
  <1> PICK o \in Operation : o = pass[a].row
    BY RowOf
  <1> PICK p \in Periods : p = pass[a].p
    BY RowOf
  <1> DEFINE n == [o EXCEPT !.phase = "complete", !.lease = NoLease]
  <1>1. /\ pass[a].pc = "refundReceipt"
        /\ UNCHANGED <<Rest, Store>> /\ UNCHANGED <<wallet, charge, refund, provider>>
        /\ (Fault \/ NoFault)
        /\ Record("refunded", p) \/ UNCHANGED receipts
        /\ \/ Save(a, n, "", "ok")
           \/ retryWorkspaceRenewal(a, o)
    BY DEF RefundReceipt, At
  <1>2. OwnersStep
    BY <1>1, Constants, ReceiptOwners
  <1>3. Good(o) /\ o.status = "refunded"
    BY <1>1, RowOf DEF PcHolds
  <1>4. Rewrites(o, n)
    BY <1>3, RowReceipted
  <1> HIDE DEF n
  <1>5. CASE Save(a, n, "", "ok")
    BY <1>1, <1>2, <1>3, <1>4, <1>5, NoPatch, ActingPoints, ActingFits, PlainStep
  <1>6. CASE retryWorkspaceRenewal(a, o)
    BY <1>1, <1>2, <1>3, <1>6, ActingPoints, RetryStep
  <1> QED BY <1>1, <1>5, <1>6

LEMMA RunRefundedPreserves ==
  ASSUME RInv, NEW a \in Actors, RunRefunded(a)
  PROVE  RInv'
  <1>1. /\ pass[a].pc = "run" /\ pass[a].row.status = "refunded"
        /\ \/ Goto(a, [pass[a] EXCEPT !.pc = "refundReceipt"])
           \/ Return(a, FALSE)
        /\ UNCHANGED <<Rest, Store>> /\ UNCHANGED external /\ NoFault
    BY DEF RunRefunded, Running, At, NoFault
  <1>2. PcHolds("refundReceipt", pass[a].row) /\ pass[a].patch = ""
    BY <1>1, RowOf DEF PcHolds
  <1>3. "refundReceipt" \in Points
    BY DEF Points
  <1>4. CASE Goto(a, [pass[a] EXCEPT !.pc = "refundReceipt"])
    BY <1>1, <1>2, <1>3, <1>4, SpentType, ActingPoints, PointStep
  <1>5. CASE Return(a, FALSE)
    BY <1>1, <1>2, <1>5, SpentType, ReturnStep
  <1> QED BY <1>1, <1>4, <1>5

LEMMA RunSettledPreserves ==
  ASSUME RInv, NEW a \in Actors, RunSettled(a)
  PROVE  RInv'
  <1>1. /\ pass[a].pc = "run" /\ Return(a, FALSE)
        /\ UNCHANGED <<Rest, Store>> /\ UNCHANGED external /\ NoFault
    BY DEF RunSettled, At, NoFault
  <1>2. pass[a].row.status # "none" /\ pass[a].patch = ""
    BY <1>1, RowOf DEF PcHolds
  <1> QED BY <1>1, <1>2, SpentType, ReturnStep

LEMMA ExpiryPreserves ==
  ASSUME RInv, NEW a \in Actors,
         ExpirySuspend(a) \/ ExpiryFinancial(a) \/ ExpiryReturns(a)
  PROVE  RInv'
  <1> PICK o \in Operation : o = pass[a].row
    BY RowOf
  <1> DEFINE n == [o EXCEPT !.expiryPhase = "financial"]
             m == [o EXCEPT !.expiryPhase = "receipt"]
             k == [o EXCEPT !.expiryStatus = "expired_unpaid", !.expiryPhase = "receipt"]
  <1>1. /\ pass[a].pc = "expiry"
        /\ UNCHANGED <<Rest, Store>> /\ UNCHANGED external /\ NoFault
        /\ \/ o.expiryPhase = "suspend" /\ Save(a, n, "suspend", "expiry")
           \/ o.expiryPhase = "suspend" /\ Save(a, m, "expire", "expiry")
           \/ o.expiryPhase = "financial" /\ Save(a, k, "close", "expiry")
           \/ Return(a, FALSE)
    BY DEF ExpirySuspend, ExpiryFinancial, ExpiryReturns, At, NoFault
  <1>2. Good(o) /\ o.status # "none" /\ pass[a].patch = ""
    BY <1>1, RowOf DEF PcHolds
  <1>3. OwnersStep /\ spent' \in Spent
    BY <1>1, OwnersIdle, SpentType
  <1>4. o.expiryPhase # "" => o.expiryStatus # ""
    BY <1>2 DEF Good
  <1>5. o.expiryPhase \in {"suspend", "financial"}
          => /\ Rewrites(o, n) /\ Rewrites(o, m) /\ Rewrites(o, k)
             /\ Near(o, n) /\ Near(o, m) /\ Near(o, k)
    BY <1>2, <1>4, RowExpiring
  <1>6. {"suspend", "expire", "close"} \subseteq PatchNames \ Entitling
    BY DEF PatchNames, Entitling
  <1> HIDE DEF n, m, k
  <1>7. CASE o.expiryPhase = "suspend" /\ Save(a, n, "suspend", "expiry")
    BY <1>1, <1>2, <1>3, <1>5, <1>6, <1>7, PlainStep DEF SaveFits
  <1>8. CASE o.expiryPhase = "suspend" /\ Save(a, m, "expire", "expiry")
    BY <1>1, <1>2, <1>3, <1>5, <1>6, <1>8, PlainStep DEF SaveFits
  <1>9. CASE o.expiryPhase = "financial" /\ Save(a, k, "close", "expiry")
    BY <1>1, <1>2, <1>3, <1>5, <1>6, <1>9, PlainStep DEF SaveFits
  <1>10. CASE Return(a, FALSE)
    BY <1>1, <1>2, <1>3, <1>10, ReturnStep
  <1> QED BY <1>1, <1>7, <1>8, <1>9, <1>10

LEMMA ExpiryReceiptPreserves ==
  ASSUME RInv, NEW a \in Actors, ExpiryReceipt(a)
  PROVE  RInv'
  <1> PICK o \in Operation : o = pass[a].row
    BY RowOf
  <1> DEFINE n == [o EXCEPT !.expiryPhase = "complete", !.lease = NoLease]
  <1>1. /\ pass[a].pc = "expiryReceipt" /\ o.expiryStatus = "expired_unpaid"
        /\ UNCHANGED <<Rest, Store>> /\ UNCHANGED <<wallet, charge, refund, provider>>
        /\ (Fault \/ NoFault)
        /\ Record("expired", o.expiryPaid) \/ UNCHANGED receipts
        /\ \/ Save(a, n, "", "ok")
           \/ retryWorkspaceRenewal(a, o)
    BY DEF ExpiryReceipt, ExpiryReceiptDue, At
  <1>2. Good(o) /\ o.status # "none"
    BY <1>1, RowOf DEF PcHolds
  <1>3. o.expiryPaid \in 1 .. LastPeriod + 1
    <2>1. o.expiryPaid >= 1
      BY <1>1, <1>2 DEF Good
    <2>2. o.expiryPaid \in 0 .. LastPeriod + 1
      BY DEF Operation
    <2> QED BY <2>1, <2>2, Constants
  <1>4. OwnersStep
    BY <1>1, <1>3, ReceiptOwners
  <1>5. Rewrites(o, n)
    BY <1>1, <1>2, RowExpiring
  <1> HIDE DEF n
  <1>6. CASE Save(a, n, "", "ok")
    BY <1>1, <1>2, <1>4, <1>5, <1>6, NoPatch, ActingPoints, ActingFits, PlainStep
  <1>7. CASE retryWorkspaceRenewal(a, o)
    BY <1>1, <1>2, <1>4, <1>7, ActingPoints, RetryStep
  <1> QED BY <1>1, <1>6, <1>7

LEMMA ExpiryReceiptNotDuePreserves ==
  ASSUME RInv, NEW a \in Actors, ExpiryReceiptNotDue(a)
  PROVE  RInv'
  <1>1. /\ Goto(a, Idle) /\ UNCHANGED <<Rest, Store>> /\ UNCHANGED external /\ NoFault
    BY DEF ExpiryReceiptNotDue, NoFault
  <1> QED BY <1>1, SpentType, LeaveStep

\* A row that has just been read.
Copied(o, p) == o \in Operation /\ Held(o, o, p)

LEMMA StoredCopied ==
  ASSUME RInv, NEW p \in Periods
  PROVE  Copied(ops[p], p)
  <1>1. ops[p] \in Operation
    BY TypeParts DEF RInv, StoreType
  <1> QED BY <1>1, NearItself DEF RInv, PeriodGood, Copied, Held, Known

LEMMA RowCopied ==
  ASSUME RInv, NEW a \in Actors
  PROVE  Copied(pass[a].row, pass[a].p)
  BY RowOf, NearItself DEF Held, Copied

LEMMA CallerOf ==
  ASSUME RInv, NEW a \in Actors
  PROVE  Held(pass[a].caller.row, pass[a].caller.base, pass[a].p)
  BY PassOf DEF PassGood

\* A pass is about to store a row that rewrites one it has just read.
LEMMA FreshSave ==
  ASSUME RInv, NEW a \in Actors, NEW s \in Pass, Goto(a, s), s.pc = "persist",
         s.patch = "", s.then \in Thens, Copied(s.row, s.p), s.row.status # "none",
         s.base = s.row, s.stage = "resolve",
         Held(s.caller.row, s.caller.base, s.p),
         Rewrites(s.row, s.want), PcHolds(s.then, s.want),
         UNCHANGED <<Rest, Store>>, UNCHANGED external, spent' \in Spent
  PROVE  RInv'
  <1>1. Backed(s.want, s.p) /\ Good(s.want) /\ Follows(s.row, s.want)
        /\ (s.want.entitled => s.row.entitled)
    BY DEF Copied, Held, Rewrites, Backed
  <1>2. PersistGood(s)
    BY <1>1 DEF PersistGood, Thens, Entitling, Expiring
  <1>3. PcHolds(s.pc, s.row) /\ StageGood(s) /\ Held(s.row, s.base, s.p)
    BY DEF PcHolds, Copied, StageGood, Expiring
  <1>4. PassGood(s)
    BY <1>2, <1>3 DEF PassGood
  <1> QED BY <1>4, WalkStep

LEMMA ReviewNote ==
  ASSUME RInv, NEW a \in Actors, pass[a].pc # "persist", NEW o,
         Copied(o, pass[a].p), o.status \in {"manual_review", "verifying", "active"},
         NEW x \in ReviewMarks, o.refundAttempted => x = "verify_compute",
         NEW then \in {"ok", "err"},
         Goto(a, [pass[a] EXCEPT !.pc = "persist", !.stage = "resolve", !.row = o,
                    !.base = o, !.want = [o EXCEPT !.review = x], !.then = then]),
         UNCHANGED <<Rest, Store>>, UNCHANGED external, spent' \in Spent
  PROVE  RInv'
  <1> PICK r \in Pass : r = pass[a]
    BY PassOf
  <1> PICK n : n = [o EXCEPT !.review = x]
    OBVIOUS
  <1>1. o \in Operation /\ Good(o) /\ r.patch = ""
    BY RowOf DEF Copied, Held
  <1>2. Rewrites(o, n)
    BY <1>1, RowMarked
  <1>3. n \in Operation /\ n.status # "none"
    BY <1>2 DEF Rewrites, Follows
  <1> DEFINE s == [r EXCEPT !.pc = "persist", !.stage = "resolve", !.row = o,
                            !.base = o, !.want = n, !.then = then]
  <1>4. /\ s \in Pass /\ s.pc = "persist" /\ s.p = r.p /\ s.row = o /\ s.want = n
        /\ s.base = o /\ s.stage = "resolve" /\ s.caller = r.caller
        /\ s.patch = r.patch /\ s.then = then
    <2>1. "persist" \in Points
      BY DEF Points
    <2> QED BY ONLY <1>1, <1>3, <2>1, r \in Pass, then \in {"ok", "err"} DEF Pass
  <1>5. Goto(a, s)
    OBVIOUS
  <1> HIDE DEF s
  <1>6. PcHolds(s.then, s.want)
    BY <1>3, <1>4 DEF PcHolds
  <1>7. /\ Copied(s.row, s.p) /\ Rewrites(s.row, s.want) /\ s.then \in Thens
        /\ Held(s.caller.row, s.caller.base, s.p)
    BY <1>2, <1>4, ThenNames, CallerOf
  <1> QED BY <1>1, <1>4, <1>5, <1>6, <1>7, FreshSave

LEMMA ReviewAnswerStep ==
  ASSUME RInv, NEW a \in Actors, pass[a].pc # "persist", NEW o,
         Copied(o, pass[a].p), ReviewAnswer(a, o),
         UNCHANGED <<Rest, Store>>, UNCHANGED external, spent' \in Spent
  PROVE  RInv'
  <1>1. CASE o.status = "active"
    <2>1. Goto(a, [pass[a] EXCEPT !.pc = "persist", !.stage = "resolve", !.row = o,
                     !.base = o, !.want = [o EXCEPT !.review = "completed"],
                     !.then = "ok"])
      BY <1>1 DEF ReviewAnswer
    <2>2. "completed" \in ReviewMarks /\ ~o.refundAttempted
      BY <1>1 DEF ReviewMarks, Copied, Held, Good
    <2> QED BY <1>1, <2>1, <2>2, ReviewNote
  <1>2. CASE o.status # "active"
    BY <1>2, LeaveStep DEF ReviewAnswer
  <1> QED BY <1>1, <1>2

LEMMA ReviewEndPreserves ==
  ASSUME RInv, NEW a \in Actors,
         ReviewResolved(a) \/ ReviewComplete(a) \/ ReviewFailed(a)
  PROVE  RInv'
  <1>0. /\ UNCHANGED <<Rest, Store>> /\ UNCHANGED external /\ NoFault
        /\ pass[a].pc # "persist"
    BY DEF ReviewResolved, ReviewComplete, ReviewFailed, At, NoFault
  <1>1. spent' \in Spent
    BY <1>0, SpentType
  <1> PICK p \in Periods : p = pass[a].p
    BY RowOf
  <1>2. CASE ReviewResolved(a)
    BY <1>0, <1>1, <1>2, RowCopied, ReviewAnswerStep DEF ReviewResolved
  <1>3. CASE ReviewComplete(a)
    BY <1>0, <1>1, <1>3, StoredCopied, ReviewAnswerStep DEF ReviewComplete
  <1>4. CASE ReviewFailed(a)
    <2>1. /\ pass[a].pc = "reviewFailed"
          /\ \/ Goto(a, Idle)
             \/ /\ ops[p].phase = "receipt"
                /\ Goto(a, [pass[a] EXCEPT !.pc = "persist", !.stage = "resolve",
                     !.row = ops[p], !.base = ops[p],
                     !.want = [ops[p] EXCEPT !.review = "receipt"], !.then = "err"])
      BY <1>4 DEF ReviewFailed, At
    <2>2. CASE Goto(a, Idle)
      BY <1>0, <1>1, <2>2, LeaveStep
    <2>3. CASE /\ ops[p].phase = "receipt"
               /\ Goto(a, [pass[a] EXCEPT !.pc = "persist", !.stage = "resolve",
                     !.row = ops[p], !.base = ops[p],
                     !.want = [ops[p] EXCEPT !.review = "receipt"], !.then = "err"])
      <3>1. Copied(ops[p], p) /\ "receipt" \in ReviewMarks
        BY StoredCopied DEF ReviewMarks
      <3>2. ops[p].status \in {"verifying", "active"} /\ ~ops[p].refundAttempted
        BY <2>3, <3>1 DEF Copied, Held, Good
      <3> QED BY <1>0, <1>1, <2>3, <3>1, <3>2, ReviewNote
    <2> QED BY <2>1, <2>2, <2>3
  <1> QED BY <1>2, <1>3, <1>4

LEMMA ReviewRunsPreserves ==
  ASSUME RInv, NEW a \in Actors, ReviewRuns(a)
  PROVE  RInv'
  <1> PICK r \in Pass : r = pass[a]
    BY PassOf
  <1> DEFINE s == [r EXCEPT !.pc = "run", !.stage = "review"]
  <1>1. /\ r.pc = "resolve" /\ Goto(a, s)
        /\ UNCHANGED <<Rest, Store>> /\ UNCHANGED external /\ NoFault
    BY DEF ReviewRuns, At, NoFault
  <1>2. s \in Pass /\ s.pc = "run" /\ Keeps(r, s) /\ s.stage = "review"
    <2>1. "run" \in Points
      BY DEF Points
    <2> QED BY ONLY <2>1, r \in Pass DEF Pass, Keeps
  <1> HIDE DEF s
  <1>3. PassGood(r) /\ r.patch = ""
    BY <1>1, PassOf, RowOf
  <1>4. PcHolds("run", r.row)
    BY <1>1, RowOf DEF PcHolds
  <1>5. PassGood(s)
    BY <1>2, <1>3, <1>4 DEF PassGood, Keeps, StageGood, Expiring
  <1> QED BY <1>1, <1>2, <1>5, SpentType, WalkStep

LEMMA ReviewVerifyPreserves ==
  ASSUME RInv, NEW a \in Actors, NEW res \in Resources, ReviewVerify(a, res)
  PROVE  RInv'
  <1> PICK o \in Operation : o = pass[a].row
    BY RowOf
  <1> DEFINE n == [o EXCEPT !.review = "verify_storage"]
             m == [o EXCEPT !.status = "verifying", !.phase = "entitlement",
                            !.review = "entitlement"]
             k == [o EXCEPT !.status = "verifying", !.phase = "entitlement"]
  <1>1. /\ pass[a].pc = "resolve" /\ o.status = "manual_review"
        /\ UNCHANGED <<Rest, Store>> /\ UNCHANGED external /\ (Fault \/ NoFault)
        /\ \/ ~provider["compute"].gone /\ Save(a, n, "", "resolve")
           \/ o.review = "verify_storage" /\ Save(a, m, "", "resolve")
           \/ Goto(a, Idle)
    BY DEF ReviewVerify, At, Resources, Covers, VerifyPhase
  <1>2. OwnersStep /\ spent' \in Spent /\ pass[a].pc \in Acting
    BY <1>1, OwnersIdle, SpentType, ActingPoints
  <1>3. /\ Good(o) /\ o.confirmed
        /\ ~provider["compute"].gone => ~o.refundAttempted
        /\ o.review = "verify_storage" => ~o.refundAttempted
    BY <1>1, RowOf DEF PcHolds, Backed, Good
  <1>4. ~o.refundAttempted => Rewrites(o, n) /\ n.confirmed
    <2>1. "verify_storage" \in ReviewMarks
      BY DEF ReviewMarks
    <2>2. ~o.refundAttempted => Rewrites(o, n)
      BY <1>1, <1>3, <2>1, RowMarked
    <2> QED BY <1>3, <2>2 DEF Operation
  <1>5. ASSUME ~o.refundAttempted PROVE Rewrites(o, m) /\ m.confirmed
    <2>1. Rewrites(o, k)
      <3>1. "entitlement" \in Phases \ {"receipt"}
        BY DEF Phases
      <3> QED BY <1>1, <1>3, <1>5, <3>1, RowAdvanced
    <2>2. m = [k EXCEPT !.review = "entitlement"]
      BY DEF Operation
    <2>3. /\ k.confirmed = o.confirmed /\ m.confirmed = o.confirmed
          /\ k.status = "verifying" /\ k.refundAttempted = o.refundAttempted
      BY DEF Operation
    <2> HIDE DEF k
    <2>4. k \in Operation /\ Good(k) /\ "entitlement" \in ReviewMarks
      BY <2>1 DEF Rewrites, ReviewMarks
    <2>5. Rewrites(k, [k EXCEPT !.review = "entitlement"])
      BY <1>5, <2>3, <2>4, RowMarked
    <2> HIDE DEF m
    <2> QED BY <1>3, <2>1, <2>2, <2>3, <2>5, Composed
  <1> HIDE DEF n, m
  <1>6. ~o.refundAttempted => PcHolds("resolve", n) /\ PcHolds("resolve", m)
    BY <1>4, <1>5 DEF PcHolds, Rewrites, Follows
  <1>7. CASE ~provider["compute"].gone /\ Save(a, n, "", "resolve")
    BY <1>1, <1>2, <1>3, <1>4, <1>6, <1>7, NoPatch, ThenNames, ActingFits, RewriteStep
  <1>8. CASE o.review = "verify_storage" /\ Save(a, m, "", "resolve")
    BY <1>1, <1>2, <1>3, <1>5, <1>6, <1>8, NoPatch, ThenNames, ActingFits, RewriteStep
  <1>9. CASE Goto(a, Idle)
    BY <1>1, <1>2, <1>9, LeaveStep
  <1> QED BY <1>1, <1>7, <1>8, <1>9

LEMMA ReviewRequestPreserves ==
  ASSUME RInv, NEW a \in Actors, NEW p \in Periods, ReviewRequest(a, p)
  PROVE  RInv'
  <1> PICK o \in Operation : o = ops[p]
    BY StoredCopied DEF Copied
  <1> DEFINE r == [Idle EXCEPT !.stage = "resolve", !.p = p, !.row = o, !.base = o]
             n == [o EXCEPT !.review = "verify_compute"]
             s == [r EXCEPT !.pc = "resolve"]
             t == [r EXCEPT !.pc = "persist", !.then = "resolve", !.want = n]
  <1>1. /\ ReviewAdmitted(o)
        /\ UNCHANGED <<Rest, Store>> /\ UNCHANGED external /\ NoFault
        /\ Goto(a, s) \/ Goto(a, t)
    BY DEF ReviewRequest, NoFault
  <1>2. /\ o.status \in {"manual_review", "verifying", "active"} /\ o.confirmed
        /\ Copied(o, p) /\ Good(o) /\ "verify_compute" \in ReviewMarks
    BY <1>1, StoredCopied DEF ReviewAdmitted, Copied, Held, ReviewMarks
  <1>3. Rewrites(o, n) /\ n.confirmed
    <2>1. Rewrites(o, n)
      BY <1>2, RowMarked
    <2> QED BY <1>2, <2>1 DEF Operation
  <1>4. /\ r \in Pass /\ r.p = p /\ r.row = o /\ r.base = o /\ r.patch = ""
        /\ r.caller = NoCaller /\ r.stage = "resolve"
    BY IdleType, IdleFields DEF Pass
  <1> HIDE DEF n, r
  <1>5. n \in Operation /\ PcHolds("resolve", n)
    BY <1>3 DEF Rewrites, Follows, PcHolds
  <1>6. "resolve" \in Points /\ "persist" \in Points
    BY DEF Points
  <1>7. CASE Goto(a, s)
    <2>1. /\ s \in Pass /\ s.pc = "resolve" /\ s.p = p /\ s.row = o /\ s.patch = ""
          /\ s.base = o /\ s.caller = NoCaller /\ s.stage = "resolve"
      BY <1>4, <1>6 DEF Pass
    <2> HIDE DEF s
    <2>2. PcHolds(s.pc, s.row) /\ StageGood(s)
      BY <1>2, <2>1 DEF PcHolds, StageGood, Expiring
    <2>3. PassGood(s)
      BY <1>2, <2>1, <2>2, UnopenedHeld, NoCallerFields DEF PassGood, Copied
    <2> QED BY <1>1, <1>7, <2>1, <2>3, SpentType, WalkStep
  <1>8. CASE Goto(a, t)
    <2>1. /\ t \in Pass /\ t.pc = "persist" /\ t.p = p /\ t.row = o /\ t.patch = ""
          /\ t.then = "resolve" /\ t.want = n
          /\ t.base = o /\ t.caller = NoCaller /\ t.stage = "resolve"
      BY <1>4, <1>5, <1>6 DEF Pass
    <2> HIDE DEF t
    <2> QED BY <1>1, <1>2, <1>3, <1>5, <1>8, <2>1, ThenNames, SpentType,
               UnopenedHeld, NoCallerFields, FreshSave
  <1> QED BY <1>1, <1>7, <1>8

LEMMA LoadingGood ==
  ASSUME NEW x \in Nat
  PROVE  LET s == [Idle EXCEPT !.pc = "load", !.now = x] IN s \in Pass /\ PassGood(s)
  <1> DEFINE s == [Idle EXCEPT !.pc = "load", !.now = x]
  <1>1. "load" \in Points
    BY DEF Points
  <1>2. /\ s \in Pass /\ s.pc = "load" /\ Keeps(Idle, s) /\ s.patch = ""
        /\ s.stage = Idle.stage
    BY <1>1, IdleType, IdleFields DEF Pass, Keeps
  <1> HIDE DEF s
  <1>3. PcHolds(s.pc, s.row) /\ StageGood(s)
    BY <1>2, IdleFields DEF PcHolds, StageGood, Expiring, Keeps
  <1>4. PassGood(s)
    BY <1>2, <1>3, IdleGood, IdleFields, UnopenedHeld, NoCallerFields DEF PassGood, Keeps
  <1> QED BY <1>2, <1>4 DEF s

LEMMA BeginPreserves ==
  ASSUME RInv, NEW a \in Actors, BeginPass(a) \/ LoadToReturn(a) \/ ClaimConflict(a)
  PROVE  RInv'
  <1> PICK x \in Nat : x = now
    BY TypeParts DEF RInv, StoreType
  <1> PICK y \in Nat : y = pass[a].now
    BY PassOf, PassFields
  <1>1. /\ UNCHANGED <<Rest, Store>> /\ UNCHANGED external /\ NoFault
        /\ \/ Goto(a, [Idle EXCEPT !.pc = "load", !.now = x])
           \/ Goto(a, [Idle EXCEPT !.pc = "load", !.now = y])
           \/ Goto(a, Idle)
    BY DEF BeginPass, LoadToReturn, ClaimConflict, NoFault
  <1>2. spent' \in Spent
    BY <1>1, SpentType
  <1>3. CASE Goto(a, [Idle EXCEPT !.pc = "load", !.now = x])
    BY <1>1, <1>2, <1>3, LoadingGood, WalkStep
  <1>4. CASE Goto(a, [Idle EXCEPT !.pc = "load", !.now = y])
    BY <1>1, <1>2, <1>4, LoadingGood, WalkStep
  <1>5. CASE Goto(a, Idle)
    BY <1>1, <1>2, <1>5, LeaveStep
  <1> QED BY <1>1, <1>3, <1>4, <1>5

LEMMA CrashPreserves ==
  ASSUME RInv, NEW a \in Actors, Crash(a)
  PROVE  RInv'
  <1>1. Goto(a, Idle) /\ Fault /\ UNCHANGED <<Rest, Store>> /\ UNCHANGED external
    BY DEF Crash
  <1> QED BY <1>1, SpentType, LeaveStep

LEMMA PersistFailsPreserves ==
  ASSUME RInv, NEW a \in Actors, PersistFails(a)
  PROVE  RInv'
  <1> PICK r \in Pass : r = pass[a]
    BY PassOf
  <1> DEFINE s == Unstored(r)
             t == Returned(s, TRUE)
  <1>1. /\ r.pc = "persist" /\ (Fault \/ NoFault) /\ Goto(a, t)
        /\ UNCHANGED <<Rest, Store>> /\ UNCHANGED external
    BY DEF PersistFails, At
  <1>2. /\ s \in Pass /\ s.p = r.p /\ s.base = r.base /\ s.caller = r.caller
        /\ s.patch = "" /\ s.stage = r.stage /\ s.expired = r.expired
        /\ s.row = IF r.stage \in Expiring THEN r.want ELSE r.row
    BY UnstoredRecord
  <1> HIDE DEF s
  <1>3. Onward(s, t)
    BY <1>2, ReturnedOnward
  <1> HIDE DEF t
  <1>4. PassGood(r) /\ PersistGood(r) /\ r.row.status # "none"
    BY <1>1, PassOf DEF PassGood, PcHolds
  <1>5. Held(s.row, s.base, s.p) /\ s.row.status # "none"
    <2>1. CASE r.stage \notin Expiring
      BY <1>2, <1>4, <2>1 DEF PassGood
    <2>2. CASE r.stage \in Expiring
      <3>1. /\ Good(r.want) /\ Backed(r.want, r.p) /\ Near(r.row, r.want)
            /\ r.want.status # "none"
        BY <1>4, <2>2 DEF PersistGood, Follows
      <3>2. Near(r.base, r.row) /\ Known(r.row, r.p)
        BY <1>4 DEF PassGood, Held
      <3>3. Near(r.base, r.want) /\ Known(r.want, r.p)
        BY <1>4, <3>1, <3>2, NearTwice DEF Known, Near, SameMoney
      <3> QED BY <1>2, <2>2, <3>1, <3>3 DEF Held
    <2> QED BY <2>1, <2>2
  <1>6. Ready(s) /\ (s.stage = "run" /\ s.expired => s.caller.row.status # "none")
    BY <1>1, <1>2, <1>4, <1>5 DEF Ready, PassGood, StageGood
  <1>7. t \in Pass /\ PassGood(t)
    BY <1>2, <1>3, <1>6, OnwardGood
  <1> QED BY <1>1, <1>7, SpentType, WalkStep

\* The pass goes on to its next part.
Continued(s) == CASE s.stage = "expiry" -> AfterExpiry(s)
                  [] s.stage = "run" -> AfterRun(s)
                  [] OTHER -> [s EXCEPT !.pc = "expiryReceipt", !.stage = "receipt"]

LEMMA ContinuedOnward ==
  ASSUME NEW s \in Pass
  PROVE  Onward(s, Continued(s)) /\ Continued(s).pc # "reload"
  <1> DEFINE t == [s EXCEPT !.pc = "expiryReceipt", !.stage = "receipt"]
  <1>1. "expiryReceipt" \in Points /\ "expiryReceipt" \in Between
    BY DEF Points, Between
  <1>2. t \in Pass /\ t.pc = "expiryReceipt" /\ Keeps(s, t) /\ t.stage = "receipt"
    BY ONLY <1>1, s \in Pass DEF Pass, Keeps
  <1>3. Continued(s) = AfterExpiry(s) \/ Continued(s) = AfterRun(s) \/ Continued(s) = t
    BY DEF Continued
  <1> HIDE DEF t
  <1>4. Onward(s, t)
    BY <1>1, <1>2 DEF Onward, GoesOn, Keeps, Expiring
  <1> QED BY <1>2, <1>3, <1>4, AfterExpiryOnward, AfterRunOnward

\* The expiry of a row that is ahead of the stored one has an end.
LEMMA UnsavedType ==
  ASSUME RInv, NEW r \in Pass, PassGood(r), NEW x,
         x = [spent EXCEPT !.faults = @ + 1, !.unsaved = @ \cup
                (IF r.row = r.base THEN {} ELSE {r.row.expiryPaid})],
         spent.faults < MaxFaults
  PROVE  x \in Spent
  <1>1. spent \in Spent /\ MaxFaults \in Nat
    BY TypeParts, RenewalAssumption DEF RInv, OwnersType
  <1> DEFINE u == IF r.row = r.base THEN {} ELSE {r.row.expiryPaid}
  <1>2. u \subseteq 1 .. LastPeriod + 1
    <2>1. r.row # r.base => r.row.expiryPaid >= 1
      BY DEF PassGood, Held, Near, Good
    <2>2. r.row.expiryPaid \in 0 .. LastPeriod + 1
      BY PassFields DEF Operation
    <2> QED BY <2>1, <2>2, Constants
  <1>3. x = [spent EXCEPT !.faults = @ + 1, !.unsaved = @ \cup u]
    OBVIOUS
  <1> HIDE DEF u
  <1>4. spent.faults + 1 \in 0 .. MaxFaults
    BY <1>1 DEF Spent
  <1>5. spent.unsaved \cup u \in SUBSET (1 .. LastPeriod + 1)
    BY <1>1, <1>2 DEF Spent
  <1> PICK f \in 0 .. MaxFaults : f = spent.faults + 1
    BY <1>4
  <1> PICK v \in SUBSET (1 .. LastPeriod + 1) : v = spent.unsaved \cup u
    BY <1>5
  <1>6. x = [spent EXCEPT !.faults = f, !.unsaved = v]
    BY <1>3
  <1> QED BY ONLY <1>1, <1>6, f \in 0 .. MaxFaults, v \in SUBSET (1 .. LastPeriod + 1)
      DEF Spent

LEMMA ReloadPreserves ==
  ASSUME RInv, NEW a \in Actors, Reload(a)
  PROVE  RInv'
  <1> PICK r \in Pass : r = pass[a]
    BY PassOf
  <1> DEFINE u == [r EXCEPT !.row = ops[r.p], !.base = ops[r.p]]
             x == [spent EXCEPT !.faults = @ + 1, !.unsaved = @ \cup
                     (IF r.row = r.base THEN {} ELSE {r.row.expiryPaid})]
  <1>1. /\ r.pc = "reload"
        /\ \/ NoFault /\ Goto(a, Continued(u))
           \/ spent.faults < MaxFaults /\ spent' = x /\ Goto(a, Continued(r))
        /\ UNCHANGED <<Rest, Store>> /\ UNCHANGED external
    BY DEF Reload, At, Continued
  <1>2. spent' \in Spent
    <2>1. PassGood(r)
      BY PassOf
    <2>2. CASE NoFault
      BY <2>2, SpentType
    <2>3. CASE spent.faults < MaxFaults /\ spent' = x
      BY <2>1, <2>3, UnsavedType
    <2> QED BY <1>1, <2>2, <2>3
  <1> HIDE DEF x
  <1>3. /\ Copied(ops[r.p], r.p) /\ r.p \in Periods /\ r.patch = ""
        /\ r.row.status # "none" /\ Known(r.row, r.p) /\ PassGood(r)
    BY <1>1, RowOf, PassOf, StoredCopied DEF PcHolds
  <1>4. /\ u \in Pass /\ u.p = r.p /\ u.row = ops[r.p] /\ u.base = ops[r.p]
        /\ u.patch = "" /\ u.caller = r.caller
    BY <1>3 DEF Pass, Copied
  <1> HIDE DEF u
  <1>5. Ready(u) /\ Ready(r)
    BY <1>3, <1>4 DEF Copied, Known, Ready, PassGood
  <1> DEFINE cu == Continued(u)
             cr == Continued(r)
  <1>6. /\ Onward(u, cu) /\ cu.pc # "reload" /\ Onward(r, cr) /\ cr.pc # "reload"
    BY <1>4, ContinuedOnward
  <1>7. Goto(a, cu) \/ Goto(a, cr)
    BY <1>1
  <1> HIDE DEF cu, cr
  <1>8. cu \in Pass /\ PassGood(cu)
    BY <1>4, <1>5, <1>6, OnwardGood
  <1>9. cr \in Pass /\ PassGood(cr)
    BY <1>5, <1>6, OnwardGood
  <1> QED BY <1>1, <1>2, <1>7, <1>8, <1>9, WalkStep

-----------------------------------------------------------------------------
(* The claim and the compare-and-swap                                      *)

\* The row a claim stores, from a row that exists or is new.
LEMMA OpenedRow ==
  ASSUME NEW o \in Operation, Good(o), o.status # "none",
         NEW v \in {"past_due", "expired_unpaid"}, NEW x \in 1 .. LastPeriod + 1,
         o.expiryStatus = ""
  PROVE  LET s == IF FinancialRecoveryRequired(o) THEN o.status ELSE "expired_unpaid"
             e == [o EXCEPT !.expiryPhase = "suspend", !.expiryPaid = x,
                            !.expiryStatus = v, !.status = s]
         IN  Rewrites(o, e) /\ (~FinancialRecoveryRequired(o) => Quiet(e))
  <1> PICK s : s = IF FinancialRecoveryRequired(o) THEN o.status ELSE "expired_unpaid"
    OBVIOUS
  <1> DEFINE e == [o EXCEPT !.expiryPhase = "suspend", !.expiryPaid = x,
                            !.expiryStatus = v, !.status = s]
  <1>1. s \in Statuses /\ x \in 0 .. LastPeriod + 1 /\ x >= 1
    <2>1. o.status \in Statuses
      BY DEF Operation
    <2>2. "expired_unpaid" \in Statuses
      BY DEF Statuses
    <2>3. s \in Statuses
      BY ONLY <2>1, <2>2,
              s = IF FinancialRecoveryRequired(o) THEN o.status ELSE "expired_unpaid"
    <2>4. x \in 0 .. LastPeriod + 1 /\ x >= 1
      BY ONLY RenewalAssumption, x \in 1 .. LastPeriod + 1
    <2> QED BY <2>3, <2>4
  <1>2. /\ e \in Operation /\ e.status = s /\ e.phase = o.phase /\ SameMoney(o, e)
        /\ e.expiryStatus = v /\ e.expiryPhase = "suspend" /\ e.expiryPaid = x
        /\ e.review = o.review
    BY ONLY <1>1, o \in Operation, v \in {"past_due", "expired_unpaid"}
       DEF Operation, SameMoney
  <1> HIDE DEF e
  <1>3. CASE FinancialRecoveryRequired(o)
    <2>1. s = o.status
      BY <1>3
    <2>2. ~o.attempted => o.status = "manual_review"
      BY <1>3 DEF FinancialRecoveryRequired, Good
    <2>3. Rewrites(o, e)
      BY <1>1, <1>2, <2>1, <2>2 DEF SameMoney, Rewrites, Good, Follows, Quiet
    <2> QED BY <1>3, <2>3 DEF e
  <1>4. CASE ~FinancialRecoveryRequired(o)
    <2>1. s = "expired_unpaid"
      BY <1>4
    <2>2. /\ ~o.attempted /\ ~o.confirmed /\ ~o.refundAttempted /\ ~o.refundConfirmed
          /\ ~o.entitled /\ o.status # "manual_review"
      BY <1>4 DEF FinancialRecoveryRequired
    <2>3. Rewrites(o, e) /\ Quiet(e)
      BY <1>1, <1>2, <2>1, <2>2 DEF SameMoney, Rewrites, Good, Follows, Quiet
    <2> QED BY <2>3 DEF e
  <1> QED BY <1>3, <1>4

LEMMA LeasedRow ==
  ASSUME NEW o \in Operation, Good(o), o.status # "none", NEW a \in Workers
  PROVE  LET n == [o EXCEPT !.lease = a] IN
         Rewrites(o, n) /\ (Quiet(o) => Quiet(n))
  <1> DEFINE n == [o EXCEPT !.lease = a]
  <1>1. /\ n \in Operation /\ n.status = o.status /\ n.phase = o.phase
        /\ SameMoney(o, n) /\ SameExpiry(o, n) /\ n.review = o.review
    BY DEF Operation, SameMoney, SameExpiry
  <1> HIDE DEF n
  <1>2. Rewrites(o, n) /\ (Quiet(o) => Quiet(n))
    BY <1>1 DEF SameMoney, SameExpiry, Rewrites, Good, Follows, Quiet
  <1> QED BY <1>2 DEF n

\* The row the pass claims rewrites the stored or the new one, and is closed at
\* once when the month ran out before anything was attempted.
LEMMA ClaimedRowGood ==
  ASSUME RInv, NEW a \in Workers, NEW p \in Periods, NEW expired \in BOOLEAN
  PROVE  LET n == ClaimedRow(a, p, expired)
             o == IF ops[p].status = "none" THEN newWorkspaceRenewalOperation
                                            ELSE ops[p]
         IN  /\ o \in Operation /\ Good(o) /\ o.status # "none"
             /\ Rewrites(o, n)
             /\ ops[p].status = "none" /\ expired => Quiet(n)
  <1> PICK o : o = IF ops[p].status = "none" THEN newWorkspaceRenewalOperation
                                            ELSE ops[p]
    OBVIOUS
  <1>0. newWorkspaceRenewalOperation.status # "none"
    BY DEF newWorkspaceRenewalOperation
  <1>1. o \in Operation /\ Good(o) /\ o.status # "none"
    BY <1>0, StoredCopied, NewRows DEF Copied, Held
  <1> PICK x \in 1 .. LastPeriod + 1 : x = ws.paid
    BY TypeParts DEF RInv, StoreType, WsType
  <1> PICK v \in {"past_due", "expired_unpaid"} :
             v = IF FinancialRecoveryRequired(o) /\ p = ws.paid
                   THEN "past_due" ELSE "expired_unpaid"
    OBVIOUS
  <1> DEFINE s == IF FinancialRecoveryRequired(o) THEN o.status ELSE "expired_unpaid"
             b == [o EXCEPT !.expiryPhase = "suspend", !.expiryPaid = x,
                            !.expiryStatus = v, !.status = s]
             e == IF ~expired \/ o.expiryStatus # "" THEN o ELSE b
             n == [e EXCEPT !.lease = a]
  <1>2. ClaimedRow(a, p, expired) = n
    <2>1. ClaimedRow(a, p, expired) =
            [(IF ~expired \/ o.expiryStatus # "" THEN o
              ELSE [o EXCEPT !.expiryPhase = "suspend", !.expiryPaid = ws.paid,
                     !.expiryStatus = IF FinancialRecoveryRequired(o) /\ p = ws.paid
                                        THEN "past_due" ELSE "expired_unpaid",
                     !.status = IF FinancialRecoveryRequired(o) THEN o.status
                                                         ELSE "expired_unpaid"])
              EXCEPT !.lease = a]
      BY ONLY o = IF ops[p].status = "none" THEN newWorkspaceRenewalOperation
                                            ELSE ops[p] DEF ClaimedRow
    <2> QED BY ONLY <2>1, x = ws.paid,
             v = IF FinancialRecoveryRequired(o) /\ p = ws.paid
                   THEN "past_due" ELSE "expired_unpaid"
  <1>3. o.expiryStatus = "" => Rewrites(o, b) /\ (~FinancialRecoveryRequired(o) => Quiet(b))
    BY <1>1, OpenedRow
  <1> HIDE DEF b
  <1>4. /\ e \in Operation /\ Good(e) /\ e.status # "none"
        /\ e = o \/ Rewrites(o, e)
    BY <1>1, <1>3 DEF Rewrites, Follows
  <1>5. ops[p].status = "none" /\ expired => Quiet(e)
    <2> SUFFICES ASSUME ops[p].status = "none", expired
                 PROVE  Quiet(e)
      OBVIOUS
    <2>1. o = newWorkspaceRenewalOperation
      OBVIOUS
    <2>2. o.expiryStatus = "" /\ ~FinancialRecoveryRequired(o)
      BY ONLY <2>1 DEF FinancialRecoveryRequired, newWorkspaceRenewalOperation
    <2>3. ~(~expired \/ o.expiryStatus # "")
      BY <2>2
    <2>4. e = b
      BY <2>3
    <2> QED BY <1>3, <2>2, <2>4
  <1> HIDE DEF e
  <1>6. Rewrites(e, n) /\ (Quiet(e) => Quiet(n))
    BY <1>4, LeasedRow
  <1> HIDE DEF n
  <1>7. Rewrites(o, n)
    BY <1>4, <1>6, Composed
  <1> QED BY <1>1, <1>2, <1>5, <1>6, <1>7

LEMMA LoadToClaimPreserves ==
  ASSUME RInv, NEW a \in Workers, LoadToClaim(a)
  PROVE  RInv'
  <1>0. a \in Actors
    BY DEF Actors
  <1> PICK r \in Pass : r = pass[a]
    BY <1>0, PassOf
  <1> DEFINE expired == r.now >= ws.paid
  <1>e. expired \in BOOLEAN
    OBVIOUS
  <1> DEFINE seen == [paid |-> ws.paid, auto |-> ws.auto, commands |-> commands,
                      ops |-> ops]
  <1>1. r.pc = "load" /\ UNCHANGED <<Rest, Store>> /\ UNCHANGED external /\ NoFault
    BY DEF LoadToClaim, At, NoFault
  <1>2. PICK p \in Selected :
          /\ ClaimWanted(p, expired, r.now)
          /\ Goto(a, [r EXCEPT !.pc = "claim", !.p = p, !.row = ops[p],
                !.base = ops[p], !.want = ClaimedRow(a, p, expired),
                !.expired = expired, !.seen = seen])
    BY DEF LoadToClaim
  <1> HIDE DEF expired
  <1>3. p \in Periods
    BY <1>2 DEF Selected, OpenOperations
  <1> PICK o : o = IF ops[p].status = "none" THEN newWorkspaceRenewalOperation
                                            ELSE ops[p]
    OBVIOUS
  <1> PICK n : n = ClaimedRow(a, p, expired)
    OBVIOUS
  <1>4. /\ o \in Operation /\ Good(o) /\ o.status # "none" /\ Rewrites(o, n)
        /\ ops[p].status = "none" /\ expired => Quiet(n)
    BY <1>3, <1>e, ClaimedRowGood
  <1>5. seen \in Seen /\ seen.ops = ops /\ seen.paid = ws.paid /\ seen.auto = ws.auto
    <2>1. /\ ws.paid \in 0 .. LastPeriod + 1 /\ ws.auto \in BOOLEAN
          /\ commands \in Nat /\ ops \in [Periods -> Operation]
      BY TypeParts, RenewalAssumption DEF RInv, StoreType, WsType
    <2> QED BY <2>1 DEF Seen
  <1> HIDE DEF seen
  <1>6. Copied(ops[p], p) /\ n \in Operation
    BY <1>3, <1>4, StoredCopied DEF Rewrites
  <1> DEFINE s == [r EXCEPT !.pc = "claim", !.p = p, !.row = ops[p], !.base = ops[p],
                            !.want = n, !.expired = expired, !.seen = seen]
  <1>7. /\ s \in Pass /\ s.pc = "claim" /\ s.p = p /\ s.row = ops[p] /\ s.want = n
        /\ s.base = ops[p] /\ s.caller = r.caller /\ s.stage = r.stage
        /\ s.patch = r.patch /\ s.seen = seen
    <2>1. "claim" \in Points /\ ops[p] \in Operation
      BY <1>6 DEF Points, Copied
    <2> QED BY ONLY <1>3, <1>5, <1>6, <2>1, <1>e, r \in Pass DEF Pass
  <1>8. Goto(a, s)
    BY <1>2
  <1> HIDE DEF s
  <1>9. ClaimGood(s)
    <2>1. o.confirmed => ops[p].confirmed
      BY ONLY o = IF ops[p].status = "none" THEN newWorkspaceRenewalOperation
                                            ELSE ops[p] DEF newWorkspaceRenewalOperation
    <2>2. o.refundConfirmed => ops[p].refundConfirmed
      BY ONLY o = IF ops[p].status = "none" THEN newWorkspaceRenewalOperation
                                            ELSE ops[p] DEF newWorkspaceRenewalOperation
    <2>3. o.entitled => ops[p].entitled
      BY ONLY o = IF ops[p].status = "none" THEN newWorkspaceRenewalOperation
                                            ELSE ops[p] DEF newWorkspaceRenewalOperation
    <2>r. o.refundAttempted => ops[p].refundAttempted
      BY ONLY o = IF ops[p].status = "none" THEN newWorkspaceRenewalOperation
                                            ELSE ops[p] DEF newWorkspaceRenewalOperation
    <2>4. Good(n) /\ Backed(n, p)
      BY <1>4, <1>6, <2>1, <2>2, <2>3, <2>r DEF Rewrites, Copied, Held, Backed
    <2>5. Follows(ops[p], n) /\ (n.entitled => ops[p].entitled)
      <3>1. CASE ops[p].status # "none"
        BY <3>1, <1>4 DEF Rewrites
      <3>2. CASE ops[p].status = "none"
        <4>1. ops[p] = NoOperation
          BY <3>2, <1>6 DEF Copied, Held, Good
        <4>2. /\ ~ops[p].attempted /\ ~ops[p].refundAttempted /\ ~ops[p].entitled
              /\ ~ops[p].refundConfirmed /\ ops[p].expiryStatus = ""
          BY ONLY <4>1 DEF NoOperation, newWorkspaceRenewalOperation
        <4>3. n.status # "none" /\ (n.entitled => o.entitled)
          BY <1>4 DEF Rewrites, Follows
        <4> QED BY <2>3, <4>2, <4>3 DEF Follows, Quiet
      <3> QED BY <3>1, <3>2
    <2>6. ops[p].status = "none" => p = ws.paid /\ (Quiet(n) \/ ws.auto)
      <3> SUFFICES ASSUME ops[p].status = "none"
                   PROVE  p = ws.paid /\ (Quiet(n) \/ ws.auto)
        OBVIOUS
      <3>1. p = ws.paid
        BY <1>2 DEF Selected, OpenOperations
      <3>2. expired \/ ws.auto
        BY <1>2 DEF ClaimWanted
      <3> QED BY <1>4, <3>1, <3>2
    <2> QED BY <1>5, <1>7, <2>4, <2>5, <2>6 DEF ClaimGood
  <1>10. PassGood(s)
    <2>1. s.patch = ""
      BY <1>0, <1>1, <1>7, RowOf
    <2>2. PcHolds(s.pc, s.row)
      BY <1>7 DEF PcHolds
    <2>3. s.caller = NoCaller /\ s.stage = ""
      BY <1>0, <1>1, <1>7, PassOf DEF PassGood, StageGood
    <2>4. StageGood(s)
      BY <2>3 DEF StageGood, Expiring
    <2>5. Held(s.row, s.base, s.p) /\ Held(s.caller.row, s.caller.base, s.p)
      BY <1>6, <1>7, <2>3, UnopenedHeld, NoCallerFields DEF Copied
    <2> QED BY <1>7, <1>9, <2>1, <2>2, <2>4, <2>5 DEF PassGood
  <1> QED BY <1>0, <1>1, <1>7, <1>8, <1>10, SpentType, WalkStep

\* The Workspace row that goes with a stored row: paidThrough moves with the
\* entitlement, a new operation is the current month's, the switch is not set.
StoreFits(p, n) ==
  /\ \/ ws'.paid = ws.paid /\ (n.entitled => ops[p].entitled)
     \/ ws.paid = p /\ ws'.paid = p + 1 /\ n.entitled
  /\ ops[p].status = "none" => p = ws.paid /\ (Quiet(n) \/ ws.auto)
  /\ ~ws.auto => ~ws'.auto

\* Where a pass that was r is once it has written its row: it has the row it
\* wrote, or its caller's.
Lands(r, s) ==
  \/ s = Idle
  \/ /\ s.p = r.p /\ s.patch = "" /\ s.pc \notin {"persist", "claim", "load", "refund"}
     /\ PcHolds(s.pc, s.row) /\ StageGood(s)
     /\ s.pc = "resolve" => s.row = r.row /\ s.base = r.base
     /\ \/ s.row = r.row /\ s.base = r.base
        \/ s.row = r.caller.row /\ s.base = r.caller.base
     /\ \/ s.caller.row = r.row /\ s.caller.base = r.base
        \/ s.caller = r.caller
        \/ s.caller = NoCaller

\* A row is stored in the place of one it follows from.
LEMMA StoreStep ==
  ASSUME RInv, NEW a \in Actors, NEW p \in Periods, NEW n \in Operation, NEW s \in Pass,
         Goto(a, s), NEW r, Lands(r, s), r.p = p, r.row = n, r.base = n,
         Held(r.caller.row, r.caller.base, p),
         ops' = [ops EXCEPT ![p] = n], live' \in [Periods -> BOOLEAN],
         ws' \in WsType, UNCHANGED Rest, UNCHANGED external, UNCHANGED spent,
         Good(n), Backed(n, p), Follows(ops[p], n),
         StoreFits(p, n)
  PROVE  RInv'
  <1>0. UNCHANGED <<now, commands, told, wallet, charge, refund, provider, receipts>>
    BY DEF Rest, external
  <1>1. pass \in [Actors -> Pass] /\ ops \in [Periods -> Operation] /\ ws \in WsType
    BY TypeParts DEF RInv, PassType, StoreType
  <1>2. pass' = [pass EXCEPT ![a] = s]
    BY DEF Goto
  <1>3. ops'[p] = n /\ \A q \in Periods : q # p => ops'[q] = ops[q]
    BY <1>1
  <1>4. TypeOK'
    <2>1. StoreType'
      BY <1>0, <1>1, TypeParts DEF RInv, StoreType
    <2>2. PassType'
      BY <1>1, <1>2 DEF PassType
    <2>3. OwnersType'
      BY <1>0, TypeParts DEF RInv, OwnersType
    <2> QED BY <2>1, <2>2, <2>3 DEF TypeOK, OwnersType, StoreType, PassType, Codes,
                                    Provider, Spent, WsType, Kinds
  <1>5. ASSUME NEW q \in Periods
        PROVE  PeriodGood(q)'
    <2>1. PeriodGood(q)
      BY DEF RInv
    <2>2. ws.paid \in Int /\ ws'.paid \in Int /\ q \in Int /\ p \in Int
      <3>1. ws.paid \in 1 .. LastPeriod + 1 /\ ws'.paid \in 1 .. LastPeriod + 1
        BY <1>1 DEF WsType
      <3>2. q \in Int /\ p \in Int
        BY ONLY Constants, q \in Periods, p \in Periods
      <3> QED BY ONLY <3>1, <3>2
    <2>3. CASE q = p
      <3>1. Backed(n, q)'
        BY <1>0, <2>3 DEF Backed
      <3>2. /\ charge[q] # "none" => n.attempted
            /\ refund[q] # "none" => n.refundAttempted
        BY <2>1, <2>3 DEF PeriodGood, Follows
      <3>3. q <= ws'.paid
        <4>1. q <= ws.paid
          <5>1. ops[p].status = "none" => p = ws.paid
            BY DEF StoreFits
          <5>2. ops[q].status # "none" => q <= ws.paid
            BY <2>1 DEF PeriodGood
          <5> QED BY ONLY <2>2, <2>3, <5>1, <5>2
        <4>2. ws'.paid = ws.paid \/ (ws.paid = p /\ ws'.paid = p + 1)
          BY DEF StoreFits
        <4> QED BY ONLY <2>2, <4>1, <4>2
      <3>4. ws'.paid > q <=> n.entitled
        <4>1. ws.paid > q <=> ops[q].entitled
          BY <2>1 DEF PeriodGood
        <4>2. ops[q].entitled => n.entitled
          BY <2>3 DEF Follows
        <4>3. CASE ws'.paid = ws.paid /\ (n.entitled => ops[p].entitled)
          BY <2>3, <4>1, <4>2, <4>3
        <4>4. CASE ws.paid = p /\ ws'.paid = p + 1 /\ n.entitled
          BY ONLY <2>2, <2>3, <4>4
        <4> QED BY <4>3, <4>4 DEF StoreFits
      <3>5. ops'[q] = n
        BY <1>3, <2>3
      <3> QED BY <1>0, <3>1, <3>2, <3>3, <3>4, <3>5 DEF PeriodGood, Backed
    <2>4. CASE q # p
      <3>1. ops'[q] = ops[q]
        BY <1>3, <2>4
      <3>2. ws'.paid > q <=> ws.paid > q
        <4>1. ws'.paid = ws.paid \/ (ws.paid = p /\ ws'.paid = p + 1)
          BY DEF StoreFits
        <4> QED BY ONLY <2>2, <2>4, <4>1
      <3>3. q <= ws.paid => q <= ws'.paid
        <4>1. ws'.paid = ws.paid \/ (ws.paid = p /\ ws'.paid = p + 1)
          BY DEF StoreFits
        <4> QED BY ONLY <2>2, <4>1
      <3> QED BY <1>0, <2>1, <3>1, <3>2, <3>3 DEF PeriodGood, Backed
    <2> QED BY <2>3, <2>4
  <1>6. ASSUME NEW o, NEW b, NEW q \in Periods, Held(o, b, q)
        PROVE  Held(o, b, q)'
    <2>1. Known(o, q)'
      <3>1. CASE q = p
        BY <1>3, <1>6, <3>1 DEF Held, Known, Follows
      <3>2. CASE q # p
        BY <1>3, <1>6, <3>2 DEF Held, Known
      <3> QED BY <3>1, <3>2
    <2>2. Backed(o, q)'
      BY <1>0, <1>6 DEF Held, Backed
    <2> QED BY <1>6, <2>1, <2>2 DEF Held
  <1>n. Held(n, n, p)' /\ Held(NoOperation, NoOperation, p)'
    <2>1. Known(n, p)'
      BY <1>3 DEF Known
    <2>2. Backed(n, p)'
      BY <1>0 DEF Backed
    <2>3. Held(NoOperation, NoOperation, p)
      BY UnopenedHeld
    <2>4. NoOperation \in Operation
      BY NewRows
    <2> QED BY <1>6, <2>1, <2>2, <2>3, NearItself DEF Held
  <1>7. ASSUME NEW b \in Actors
        PROVE  PassGood(pass[b])'
    <2>1. CASE b # a \/ s = Idle
      <3> PICK x \in Pass : x = IF b = a THEN Idle ELSE pass[b]
        BY <1>1, IdleType
      <3>1. pass'[b] = x
        BY <1>1, <1>2, <2>1
      <3>2. PassGood(x)
        BY IdleGood DEF RInv
      <3> PICK o, k, q, c : o = x.row /\ k = x.base /\ q = x.caller.row /\ c = x.caller.base
        OBVIOUS
      <3>3. x.p \in Periods
        BY PassFields
      <3>4. Held(o, k, x.p)' /\ Held(q, c, x.p)'
        BY <1>6, <3>2, <3>3 DEF PassGood
      <3>5. /\ PersistGood(x) => PersistGood(x)'
            /\ ClaimGood(x) => ClaimGood(x)'
        BY <1>0 DEF PersistGood, ClaimGood, Backed
      <3>6. PassGood(x)'
        BY <1>0, <3>2, <3>4, <3>5 DEF PassGood
      <3> QED BY <3>1, <3>6, PassNamed
    <2>2. CASE b = a /\ s # Idle
      <3>1. pass'[b] = s
        BY <1>1, <1>2, <2>2
      <3>2. /\ s.p = p /\ s.patch = "" /\ s.pc \notin {"persist", "claim", "load", "refund"}
            /\ PcHolds(s.pc, s.row) /\ StageGood(s)
            /\ \/ s.row = n /\ s.base = n
               \/ s.row = r.caller.row /\ s.base = r.caller.base
            /\ \/ s.caller.row = n /\ s.caller.base = n
               \/ s.caller = r.caller
               \/ s.caller = NoCaller
        BY <2>2 DEF Lands
      <3> PICK q, c : q = r.caller.row /\ c = r.caller.base
        OBVIOUS
      <3>3. Held(q, c, p)'
        BY <1>6
      <3> PICK o, k : o = s.row /\ k = s.base
        OBVIOUS
      <3> PICK d, e : d = s.caller.row /\ e = s.caller.base
        OBVIOUS
      <3>4. (o = n /\ k = n) \/ (o = q /\ k = c)
        BY <3>2
      <3>5. (d = n /\ e = n) \/ (d = q /\ e = c) \/ (d = NoOperation /\ e = NoOperation)
        BY <3>2, NoCallerFields
      <3>6. Held(o, k, p)' /\ Held(d, e, p)'
        BY <1>n, <3>3, <3>4, <3>5
      <3>7. Held(s.row, s.base, s.p)' /\ Held(s.caller.row, s.caller.base, s.p)'
        BY <3>2, <3>6
      <3>8. PassGood(s)'
        BY <3>2, <3>7 DEF PassGood
      <3> QED BY <3>1, <3>8, PassNamed
    <2> QED BY <2>1, <2>2
  <1>8. ToldGood'
    <2> SUFFICES ASSUME told \in Periods
                 PROVE  \/ ops'[told].refundConfirmed \/ Quiet(ops'[told])
                        \/ ops'[told].status = "none" /\ ~ws'.auto
      BY <1>0 DEF ToldGood, Quiet
    <2>1. \/ ops[told].refundConfirmed \/ Quiet(ops[told])
          \/ ops[told].status = "none" /\ ~ws.auto
      BY DEF RInv, ToldGood
    <2>2. CASE told # p
      BY <1>3, <2>1, <2>2 DEF StoreFits
    <2>3. CASE told = p
      BY <1>3, <2>1, <2>3 DEF Follows, StoreFits
    <2> QED BY <2>2, <2>3
  <1>9. ProviderPaid'
    BY <1>0 DEF RInv, ProviderPaid
  <1> QED BY <1>4, <1>5, <1>7, <1>8, <1>9 DEF RInv

LEMMA OnwardFacts ==
  ASSUME NEW r \in Pass, NEW t, Onward(r, t), r.patch = "", r.row.status # "none",
         r.stage = "run" /\ r.expired /\ t.pc = "reload" => r.caller.row.status # "none"
  PROVE  t \in Pass /\ Lands(r, t)
  <1>1. CASE t = Idle
    BY <1>1, IdleType DEF Lands
  <1>2. CASE t # Idle
    <2>1. /\ t \in Pass /\ t.p = r.p /\ t.patch = "" /\ t.expired = r.expired
          /\ t.pc \in Between /\ (GoesOn(r, t) \/ FallsBack(r, t))
      BY <1>2 DEF Onward
    <2>2. t.pc \notin {"persist", "claim", "load", "refund", "resolve"}
      BY <2>1 DEF Between
    <2>3. CASE FallsBack(r, t)
      <3>1. /\ t.row = r.caller.row /\ t.base = r.caller.base /\ t.caller = NoCaller
            /\ t.row.status # "none" /\ t.stage = "run" /\ t.pc = "reload"
        BY <2>3 DEF FallsBack
      <3>2. PcHolds(t.pc, t.row) /\ StageGood(t)
        BY <3>1 DEF PcHolds, StageGood, Expiring
      <3> QED BY <2>1, <2>2, <3>1, <3>2 DEF Lands
    <2>4. CASE GoesOn(r, t)
      <3> DEFINE c == [row |-> r.row, base |-> r.base]
      <3>1. c.row = r.row /\ c.base = r.base
        OBVIOUS
      <3>2. /\ t.row = r.row /\ t.base = r.base /\ t.caller \in {r.caller, NoCaller, c}
            /\ t.stage = "run" /\ t.expired => t.caller = c
            /\ t.stage \in Expiring => t.pc \in {"expiry", "reload"}
        BY <2>4 DEF GoesOn
      <3> HIDE DEF c
      <3>3. PcHolds(t.pc, t.row)
        BY <2>1, <3>2 DEF PcHolds, Between
      <3>4. StageGood(t)
        BY <2>2, <3>1, <3>2 DEF StageGood
      <3> QED BY <2>1, <2>2, <3>1, <3>2, <3>3, <3>4 DEF Lands
    <2> QED BY <2>1, <2>3, <2>4
  <1> QED BY <1>1, <1>2

\* Where a pass stands once it has claimed the operation.
LEMMA ClaimTarget ==
  ASSUME RInv, NEW a \in Actors, Claim(a)
  PROVE  \E c \in Pass, t \in Pass :
           /\ Goto(a, t) /\ Lands(c, t) /\ c.p = pass[a].p /\ c.row = pass[a].want
           /\ c.base = pass[a].want /\ c.caller = pass[a].caller
  <1> PICK r \in Pass : r = pass[a]
    BY PassOf
  <1> PICK n \in Operation : n = r.want
    BY PassFields
  <1> PICK p \in Periods : p = r.p
    BY PassFields
  <1> DEFINE c == [Unseen(r) EXCEPT !.row = n, !.base = n,
                     !.pastDue = r.expired /\ n.expiryStatus = "past_due"]
             x == [c EXCEPT !.pc = "expiry", !.stage = "expiry"]
             t == IF r.expired THEN x ELSE AfterExpiry(c)
  <1>1. r.pc = "claim" /\ Goto(a, t)
    BY DEF Claim, At
  <1>2. ClaimGood(r) /\ r.patch = "" /\ r.stage = ""
    BY <1>1, PassOf DEF PassGood, StageGood
  <1>3. n.status # "none"
    BY <1>2 DEF ClaimGood, Follows
  <1>4. /\ c \in Pass /\ c.p = p /\ c.row = n /\ c.base = n /\ c.patch = ""
        /\ c.stage = "" /\ c.caller = r.caller
    <2> PICK b \in BOOLEAN : b = (r.expired /\ n.expiryStatus = "past_due")
      BY Zenon
    <2> DEFINE u == Unseen(r)
    <2>1. u \in Pass /\ u.p = p /\ u.patch = "" /\ u.stage = "" /\ u.caller = r.caller
      BY <1>2, IdleType, NewRows DEF Unseen, Pass
    <2> HIDE DEF u
    <2> DEFINE d == [u EXCEPT !.row = n, !.base = n, !.pastDue = b]
    <2>2. /\ d \in Pass /\ d.p = p /\ d.row = n /\ d.base = n /\ d.patch = ""
          /\ d.stage = "" /\ d.caller = r.caller
      BY ONLY <2>1, n \in Operation, b \in BOOLEAN DEF Pass
    <2>3. c = d
      BY DEF u
    <2> HIDE DEF c, d
    <2> QED BY <2>2, <2>3
  <1> HIDE DEF c
  <1>5. Onward(c, t)
    <2>1. Onward(c, x)
      <3>1. "expiry" \in Points /\ "expiry" \in Between
        BY DEF Points, Between
      <3>2. x \in Pass /\ x.pc = "expiry" /\ Keeps(c, x) /\ x.stage = "expiry"
        BY ONLY <1>4, <3>1 DEF Pass, Keeps
      <3> HIDE DEF x
      <3> QED BY <3>1, <3>2 DEF Onward, GoesOn, Keeps
    <2> HIDE DEF x
    <2>2. Onward(c, AfterExpiry(c))
      BY <1>4, AfterExpiryOnward
    <2>3. t = x \/ t = AfterExpiry(c)
      OBVIOUS
    <2> HIDE DEF t
    <2> QED BY <2>1, <2>2, <2>3
  <1> HIDE DEF t
  <1>6. t \in Pass /\ Lands(c, t)
    BY <1>3, <1>4, <1>5, OnwardFacts
  <1> QED BY <1>1, <1>4, <1>6

LEMMA ClaimPreserves ==
  ASSUME RInv, NEW a \in Actors, Claim(a)
  PROVE  RInv'
  <1> PICK r \in Pass : r = pass[a]
    BY PassOf
  <1> PICK n \in Operation : n = r.want
    BY PassFields
  <1> PICK p \in Periods : p = r.p
    BY PassFields
  <1>1. /\ r.pc = "claim" /\ ClaimHolds(r.seen)
        /\ ops' = [ops EXCEPT ![p] = n] /\ live' = [live EXCEPT ![p] = TRUE]
        /\ UNCHANGED Rest /\ UNCHANGED ws /\ UNCHANGED external /\ UNCHANGED spent
    BY DEF Claim, At
  <1>2. ClaimGood(r) /\ r.patch = ""
    BY <1>1, PassOf DEF PassGood
  <1>3. /\ Good(n) /\ Backed(n, p) /\ Follows(ops[p], n) /\ n.status # "none"
        /\ n.entitled => ops[p].entitled
        /\ ops[p].status = "none" => p = ws.paid /\ (Quiet(n) \/ ws.auto)
    BY <1>1, <1>2 DEF ClaimGood, ClaimHolds, Follows
  <1>4. PICK c \in Pass, t \in Pass :
          /\ Goto(a, t) /\ Lands(c, t) /\ c.p = p /\ c.row = n /\ c.base = n
          /\ c.caller = r.caller
    BY ClaimTarget
  <1>5. StoreFits(p, n)
    BY <1>1, <1>3 DEF StoreFits
  <1>6. ws' \in WsType /\ live' \in [Periods -> BOOLEAN]
    BY <1>1, TypeParts DEF RInv, StoreType
  <1>7. Held(c.caller.row, c.caller.base, p)
    BY <1>4, CallerOf
  <1> QED BY <1>1, <1>3, <1>4, <1>5, <1>6, <1>7, StoreStep

LEMMA SameResultFields ==
  ASSUME NEW o \in Operation, NEW b \in Operation, SameResult(o, b)
  PROVE  SameMoney(o, b) /\ o.expiryStatus = b.expiryStatus
  BY DEF Operation, SameResult, SameMoney

\* What the patch of the Workspace row does to paidThrough and to the switch.
LEMMA PatchedWs ==
  ASSUME RInv, NEW r \in Pass, PatchHolds(r), ws' = Patched(r)
  PROVE  /\ ws' \in WsType
         /\ ~ws.auto => ~ws'.auto
         /\ r.patch \notin Entitling => ws'.paid = ws.paid
         /\ r.patch \in Entitling => ws.paid = r.p /\ ws'.paid = r.p + 1
  <1> PICK w \in WsType : w = ws
    BY TypeParts DEF RInv, StoreType
  <1> PICK q \in Periods : q = r.p
    BY PassFields
  <1>0. q + 1 \in 1 .. LastPeriod + 1
    BY Constants
  <1>1. CASE r.patch = ""
    BY <1>1 DEF Patched, Entitling
  <1>2. CASE r.patch = "suspend"
    BY <1>2 DEF Patched, Entitling, WsType
  <1>3. CASE r.patch = "expire"
    BY <1>3 DEF Patched, Entitling, WsType
  <1>4. CASE r.patch = "close"
    BY <1>4 DEF Patched, Entitling, WsType
  <1>5. CASE r.patch = "entitle"
    <2>1. ws' = [w EXCEPT !.paid = q + 1, !.closed = FALSE] /\ ws.paid = q
      BY <1>5 DEF Patched, PatchHolds
    <2> PICK m \in 1 .. LastPeriod + 1 : m = q + 1
      BY <1>0
    <2>2. ws' = [w EXCEPT !.paid = m, !.closed = FALSE]
      BY <2>1
    <2>3. ws' \in WsType /\ ws'.paid = m /\ ws'.auto = w.auto
      BY ONLY <2>2, w \in WsType, m \in 1 .. LastPeriod + 1 DEF WsType
    <2> QED BY <1>5, <2>1, <2>3 DEF Entitling
  <1>6. CASE r.patch = "recover"
    <2>1. /\ ws' = [w EXCEPT !.paid = q + 1, !.closed = FALSE, !.suspended = FALSE]
          /\ ws.paid = q
      BY <1>6 DEF Patched, PatchHolds
    <2> PICK m \in 1 .. LastPeriod + 1 : m = q + 1
      BY <1>0
    <2>2. ws' = [w EXCEPT !.paid = m, !.closed = FALSE, !.suspended = FALSE]
      BY <2>1
    <2>3. ws' \in WsType /\ ws'.paid = m /\ ws'.auto = w.auto
      BY ONLY <2>2, w \in WsType, m \in 1 .. LastPeriod + 1 DEF WsType
    <2> QED BY <1>6, <2>1, <2>3 DEF Entitling
  <1>7. r.patch \in PatchNames
    BY PassFields
  <1> QED BY <1>1, <1>2, <1>3, <1>4, <1>5, <1>6, <1>7 DEF PatchNames

\* Where a pass stands once it has written its row.
LEMMA PersistTarget ==
  ASSUME RInv, NEW a \in Actors, Persist(a)
  PROVE  \E s \in Pass, t \in Pass :
           /\ Goto(a, t) /\ Lands(s, t) /\ s.p = pass[a].p /\ s.row = pass[a].want
           /\ s.base = pass[a].want /\ s.caller = pass[a].caller
  <1> PICK r \in Pass : r = pass[a]
    BY PassOf
  <1> PICK n \in Operation : n = r.want
    BY PassFields
  <1> PICK p \in Periods : p = r.p
    BY PassFields
  <1> DEFINE s == Stored(r)
             x == [s EXCEPT !.pc = r.then]
             t == CASE r.then = "ok" -> Returned(s, FALSE)
                    [] r.then = "err" -> Returned(s, TRUE)
                    [] OTHER -> x
  <1>1. r.pc = "persist" /\ Goto(a, t)
    BY DEF Persist, At
  <1>2. /\ PcHolds(r.then, n) /\ n.status # "none"
        /\ r.then \notin {"persist", "claim", "idle", "load", "refund", ""}
        /\ r.stage \in Expiring => r.then = "expiry"
        /\ StageGood(r)
    <2>1. PersistGood(r) /\ StageGood(r)
      BY <1>1, PassOf DEF PassGood
    <2> QED BY <2>1 DEF PersistGood, Follows
  <1>3. /\ s \in Pass /\ s.p = p /\ s.row = n /\ s.base = n /\ s.caller = r.caller
        /\ s.patch = "" /\ s.stage = r.stage /\ s.expired = r.expired
    BY StoredRecord
  <1> HIDE DEF s
  <1>4. s.stage = "run" /\ s.expired => s.caller.row.status # "none"
    BY <1>1, <1>2, <1>3 DEF StageGood
  <1>5. t \in Pass /\ Lands(s, t)
    <2>1. CASE r.then \in {"ok", "err"}
      <3>1. Onward(s, Returned(s, FALSE)) /\ Onward(s, Returned(s, TRUE))
        BY <1>3, ReturnedOnward
      <3>2. t = Returned(s, FALSE) \/ t = Returned(s, TRUE)
        BY <2>1
      <3> HIDE DEF t
      <3>3. Onward(s, t)
        BY <3>1, <3>2
      <3> QED BY <1>2, <1>3, <1>4, <3>3, OnwardFacts
    <2>2. CASE r.then \notin {"ok", "err"}
      <3>1. r.then \in Points
        BY <1>2, <2>2, PassFields
      <3>2. x \in Pass /\ x.pc = r.then /\ Keeps(s, x) /\ x.stage = s.stage
        BY <1>3, <3>1, Moved
      <3>3. t = x
        BY <2>2
      <3> HIDE DEF t, x
      <3>4. StageGood(x) /\ PcHolds(x.pc, x.row)
        BY <1>2, <1>3, <1>4, <3>2 DEF StageGood, Keeps
      <3> QED BY <1>2, <1>3, <3>2, <3>3, <3>4 DEF Lands, Keeps
    <2> QED BY <2>1, <2>2
  <1> HIDE DEF t
  <1> QED BY <1>1, <1>3, <1>5

LEMMA PersistPreserves ==
  ASSUME RInv, NEW a \in Actors, Persist(a)
  PROVE  RInv'
  <1> PICK r \in Pass : r = pass[a]
    BY PassOf
  <1> PICK n \in Operation : n = r.want
    BY PassFields
  <1> PICK p \in Periods : p = r.p
    BY PassFields
  <1>1. /\ r.pc = "persist" /\ SameResult(ops[p], r.base) /\ PatchHolds(r)
        /\ ops' = [ops EXCEPT ![p] = n]
        /\ live' = [live EXCEPT ![p] = live[p] /\ n.lease # NoLease]
        /\ ws' = Patched(r)
        /\ UNCHANGED Rest /\ UNCHANGED external /\ UNCHANGED spent
    BY DEF Persist, PersistHolds, At
  <1>2. /\ Good(n) /\ Backed(n, p) /\ Follows(r.row, n) /\ n.status # "none"
        /\ r.patch \in Entitling => n.entitled
        /\ r.patch \notin Entitling => (n.entitled => r.row.entitled)
    <2>1. PersistGood(r)
      BY <1>1, PassOf DEF PassGood
    <2> QED BY <2>1 DEF PersistGood, Follows
  <1>3. /\ SameMoney(ops[p], r.row)
        /\ ops[p].expiryStatus = "" <=> r.row.expiryStatus = ""
        /\ ops[p].status # "none"
    <2>1. ops[p] \in Operation /\ r.base \in Operation
      BY StoredCopied, PassFields DEF Copied
    <2>2. ops[p].status # "none" /\ Near(r.base, r.row)
      BY <1>1, RowOf DEF PcHolds, Known, Held
    <2>3. SameMoney(ops[p], r.base) /\ ops[p].expiryStatus = r.base.expiryStatus
      BY <1>1, <2>1, SameResultFields
    <2> QED BY <2>2, <2>3 DEF Near, SameMoney
  <1>4. Follows(ops[p], n)
    BY <1>2, <1>3 DEF Follows, SameMoney, Quiet
  <1>5. PICK s \in Pass, t \in Pass :
          /\ Goto(a, t) /\ Lands(s, t) /\ s.p = p /\ s.row = n /\ s.base = n
          /\ s.caller = r.caller
    BY PersistTarget
  <1>6. /\ ws' \in WsType
        /\ ~ws.auto => ~ws'.auto
        /\ r.patch \notin Entitling => ws'.paid = ws.paid
        /\ r.patch \in Entitling => ws.paid = p /\ ws'.paid = p + 1
    BY <1>1, PatchedWs
  <1>7. StoreFits(p, n)
    <2>1. n.entitled /\ r.row.entitled => ops[p].entitled
      BY <1>3 DEF SameMoney
    <2> QED BY <1>2, <1>3, <1>6, <2>1 DEF StoreFits
  <1>8. live' \in [Periods -> BOOLEAN]
    <2>1. live \in [Periods -> BOOLEAN]
      BY TypeParts DEF RInv, StoreType
    <2> PICK b \in BOOLEAN : b = (live[p] /\ n.lease # NoLease)
      BY Zenon
    <2> QED BY <1>1, <2>1
  <1>9. Held(s.caller.row, s.caller.base, p)
    BY <1>5, CallerOf
  <1> QED BY <1>1, <1>2, <1>4, <1>5, <1>6, <1>7, <1>8, <1>9, StoreStep

-----------------------------------------------------------------------------
(* The surroundings                                                        *)

\* No pass moves and no operation is written.
LEMMA WorldStep ==
  ASSUME RInv, OwnersStep, UNCHANGED <<pass, ops>>, StoreType', ws'.paid = ws.paid,
         ToldGood'
  PROVE  RInv'
  <1>1. TypeOK'
    <2>1. PassType'
      BY TypeParts DEF RInv, PassType
    <2>2. OwnersType'
      BY DEF OwnersStep
    <2> QED BY <2>1, <2>2 DEF TypeOK, OwnersType, StoreType, PassType, Codes,
                              Provider, Spent, WsType, Kinds
  <1>2. ASSUME NEW p \in Periods
        PROVE  PeriodGood(p)'
    <2>1. PeriodGood(p)
      BY DEF RInv
    <2>2. Backed(ops[p], p)'
      BY <2>1 DEF PeriodGood, OwnersStep, Backed
    <2>3. /\ charge'[p] # "none" => ops[p].attempted
          /\ refund'[p] # "none" => ops[p].refundAttempted
      BY DEF OwnersStep
    <2> QED BY <2>1, <2>2, <2>3 DEF PeriodGood
  <1>3. ASSUME NEW b \in Actors
        PROVE  PassGood(pass[b])'
    <2> PICK x \in Pass : x = pass[b]
      BY PassOf
    <2>1. PassGood(x)'
      BY PassOf, RecordKept
    <2>2. pass'[b] = x
      OBVIOUS
    <2> QED BY <2>1, <2>2, PassNamed
  <1> QED BY <1>1, <1>2, <1>3 DEF RInv, OwnersStep

LEMMA OwnersOnly ==
  ASSUME RInv, OwnersStep, UNCHANGED <<now, Store, pass, commands, told>>
  PROVE  RInv'
  <1>1. UNCHANGED <<now, ws, ops, live, pass, commands, told>>
    BY DEF Store
  <1>2. StoreType' /\ ToldGood'
    BY <1>1, TypeParts DEF RInv, StoreType, ToldGood
  <1> QED BY <1>1, <1>2, WorldStep

LEMMA ClockPreserves ==
  ASSUME RInv, Tick \/ (\E p \in Periods : LeaseRunsOut(p))
  PROVE  RInv'
  <1>1. /\ UNCHANGED <<ws, ops, pass, commands, told>>
        /\ UNCHANGED external /\ UNCHANGED spent
    BY DEF Tick, LeaseRunsOut
  <1>2. OwnersStep
    BY <1>1, OwnersIdle DEF NoFault
  <1>3. now' \in 0 .. LastNow /\ live' \in [Periods -> BOOLEAN]
    <2>1. now \in 0 .. LastNow /\ live \in [Periods -> BOOLEAN] /\ LastNow \in Nat
      BY TypeParts, RenewalAssumption DEF RInv, StoreType
    <2>2. CASE Tick
      BY <2>1, <2>2 DEF Tick
    <2>3. CASE \E p \in Periods : LeaseRunsOut(p)
      BY <2>1, <2>3 DEF LeaseRunsOut
    <2> QED BY <2>2, <2>3
  <1>4. StoreType'
    BY <1>1, <1>3, TypeParts DEF RInv, StoreType
  <1>5. ToldGood'
    BY <1>1 DEF RInv, ToldGood
  <1> QED BY <1>1, <1>2, <1>4, <1>5, WorldStep

\* A code whose answer was lost takes effect after all.
LEMMA LateRedeemPreserves ==
  ASSUME RInv, NEW p \in Periods, LateRedeem(p)
  PROVE  RInv'
  <1>1. UNCHANGED <<now, Store, pass, commands, told>>
        /\ UNCHANGED <<provider, receipts>> /\ UNCHANGED spent
    BY DEF LateRedeem
  <1>2. spent' \in Spent
    BY <1>1, SpentType DEF NoFault
  <1>3. CASE charge[p] = "inflight" /\ Charged(p) /\ UNCHANGED refund
    <2>1. ops[p].attempted
      BY <1>3 DEF RInv, PeriodGood
    <2>2. OwnersStep
      BY <1>1, <1>2, <1>3, <2>1, WalletType, DebitOwners DEF Charged
    <2> QED BY <1>1, <2>2, OwnersOnly
  <1>4. CASE refund[p] = "inflight" /\ RefundPaid(p) /\ UNCHANGED charge
    <2>1. ops[p].refundAttempted
      BY <1>4 DEF RInv, PeriodGood
    <2>2. OwnersStep
      BY <1>1, <1>2, <1>4, <2>1, WalletType, RefundOwners DEF RefundPaid
    <2> QED BY <1>1, <2>2, OwnersOnly
  <1> QED BY <1>3, <1>4 DEF LateRedeem

\* A renewal whose answer was lost takes effect after all.
LEMMA LateRenewalPreserves ==
  ASSUME RInv, NEW res \in Resources, LateRenewal(res)
  PROVE  RInv'
  <1>1. /\ UNCHANGED <<now, Store, pass, commands, told>>
        /\ UNCHANGED <<wallet, charge, refund, receipts>> /\ UNCHANGED spent
        /\ provider[res].inflight # 0 /\ Renew(res, provider[res].inflight)
    BY DEF LateRenewal
  <1>2. wallet' \in Int /\ spent' \in Spent
    BY <1>1, TypeParts DEF RInv, OwnersType
  <1>3. provider[res].inflight \in Periods
    <2>1. provider[res].inflight \in 0 .. LastPeriod
      BY TypeParts DEF RInv, OwnersType, Provider
    <2> QED BY <1>1, <2>1, RenewalAssumption DEF Periods
  <1> PICK p \in Periods : p = provider[res].inflight
    BY <1>3
  <1>4. \A q \in Periods : q <= p => charge[q] = "used"
    <2>1. \A q \in Periods : provider[res].inflight >= q => charge[q] = "used"
      BY DEF RInv, ProviderPaid
    <2>2. \A q \in Periods : q <= p => p >= q
      BY Constants
    <2> QED BY <2>1, <2>2
  <1>5. OwnersStep
    BY <1>1, <1>2, <1>4, ProviderOwners
  <1> QED BY <1>1, <1>5, OwnersOnly

LEMMA OthersPreserve ==
  ASSUME RInv, \/ \E d \in {-1, 1} : WalletMoves(d)
               \/ \E res \in Resources : ResourceVanishes(res)
  PROVE  RInv'
  <1>1. CASE \E d \in {-1, 1} : WalletMoves(d)
    <2> PICK d \in {-1, 1} : WalletMoves(d)
      BY <1>1
    <2>1. /\ UNCHANGED <<now, Store, pass, commands, told>>
          /\ UNCHANGED <<charge, refund, provider>> /\ UNCHANGED receipts
      BY DEF WalletMoves
    <2>2. wallet \in Int /\ receipts \subseteq Kinds /\ spent \in Spent /\ MaxMoves \in Nat
      BY TypeParts, RenewalAssumption DEF RInv, OwnersType
    <2>3. wallet' \in Int
      BY <2>2 DEF WalletMoves
    <2>4. spent' \in Spent
      BY <2>2 DEF WalletMoves, Spent
    <2> QED BY <2>1, <2>2, <2>3, <2>4, OwnersRest, OwnersOnly
  <1>2. CASE \E res \in Resources : ResourceVanishes(res)
    <2> PICK res \in Resources : ResourceVanishes(res)
      BY <1>2
    <2>1. /\ UNCHANGED <<now, Store, pass, commands, told>>
          /\ UNCHANGED <<wallet, charge, refund, receipts>>
          /\ provider' = [provider EXCEPT ![res].gone = TRUE]
      BY DEF ResourceVanishes
    <2>2. provider \in Provider /\ spent \in Spent /\ MaxLosses \in Nat
      BY TypeParts, RenewalAssumption DEF RInv, OwnersType
    <2>3. /\ provider' \in Provider
          /\ \A s \in Resources : /\ provider'[s].through = provider[s].through
                                  /\ provider'[s].inflight = provider[s].inflight
                                  /\ provider[s].gone => provider'[s].gone
      BY <2>1, <2>2 DEF Provider
    <2>4. spent' \in Spent
      BY <2>2 DEF ResourceVanishes, Spent
    <2>5. OwnersType'
      BY <2>1, <2>3, <2>4, TypeParts DEF RInv, OwnersType
    <2>6. ProviderPaid'
      BY <2>1, <2>3 DEF RInv, ProviderPaid
    <2>7. \A p \in Periods : /\ charge[p] # "none" => ops[p].attempted
                             /\ refund[p] # "none" => ops[p].refundAttempted
      BY DEF RInv, PeriodGood
    <2>8. OwnersStep
      BY <2>1, <2>3, <2>5, <2>6, <2>7 DEF OwnersStep, Resources
    <2> QED BY <2>1, <2>8, OwnersOnly
  <1> QED BY <1>1, <1>2

\* The answer to the customer is true: the switch is off before a month begins.
LEMMA AutoRenewPreserves ==
  ASSUME RInv, NEW auto \in BOOLEAN, AutoRenewRequest(auto)
  PROVE  RInv'
  <1>1. /\ UNCHANGED <<now, ops, live, pass>> /\ UNCHANGED external /\ UNCHANGED spent
        /\ ws' = [ws EXCEPT !.auto = auto] /\ commands' = commands + 1
        /\ commands < MaxRequests /\ told' = ToldAfter(auto)
    BY DEF AutoRenewRequest, ApplyWorkspaceRenewalIntent
  <1> PICK w \in WsType : w = ws
    BY TypeParts DEF RInv, StoreType
  <1>2. ws' \in WsType /\ ws'.paid = w.paid /\ ws'.auto = auto
    BY <1>1 DEF WsType
  <1>3. OwnersStep
    BY <1>1, OwnersIdle DEF NoFault
  <1>4. ws.paid \in 0 .. LastPeriod + 1 /\ ws.paid \in Int
    BY RenewalAssumption DEF WsType
  <1>5. /\ auto => told' = 0
        /\ ~auto /\ SettlesPeriod(ws.paid) => told' = told
        /\ ~auto /\ ~SettlesPeriod(ws.paid) => told' = ws.paid
    BY <1>1 DEF ToldAfter
  <1>6. StoreType'
    <2>1. told' \in 0 .. LastPeriod + 1
      BY <1>4, <1>5, TypeParts, Constants DEF RInv, StoreType
    <2>2. commands' \in 0 .. MaxRequests
      BY <1>1, TypeParts, RenewalAssumption DEF RInv, StoreType
    <2> QED BY <1>1, <1>2, <2>1, <2>2, TypeParts DEF RInv, StoreType
  <1>7. ToldGood'
    <2> SUFFICES ASSUME told' \in Periods
                 PROVE  \/ ops[told'].refundConfirmed \/ Quiet(ops[told'])
                        \/ ops[told'].status = "none" /\ ~ws'.auto
      BY <1>1 DEF ToldGood, Quiet
    <2>1. ~auto
      BY <1>5, Constants
    <2>2. ~ws'.auto
      BY <1>2, <2>1
    <2>3. CASE SettlesPeriod(ws.paid)
      BY <1>5, <2>1, <2>2, <2>3 DEF RInv, ToldGood
    <2>4. CASE ~SettlesPeriod(ws.paid)
      <3>1. told' = ws.paid
        BY <1>5, <2>1, <2>4
      <3> PICK p \in Periods : p = told'
        OBVIOUS
      <3>2. ops[p].status \in {"none", "active", "expired_unpaid", "refunded"}
        BY <2>4, <3>1 DEF SettlesPeriod
      <3>3. PeriodGood(p)
        BY DEF RInv
      <3>4. ~ops[p].entitled
        <4>1. ~(ws.paid > p)
          BY <1>4, <3>1
        <4> QED BY <3>3, <4>1 DEF PeriodGood
      <3>5. ops[p].status = "none" \/ Quiet(ops[p]) \/ ops[p].refundConfirmed
        BY <3>2, <3>3, <3>4 DEF PeriodGood, Good
      <3> QED BY <2>2, <3>5
    <2> QED BY <2>3, <2>4
  <1> QED BY <1>1, <1>2, <1>3, <1>6, <1>7, WorldStep

-----------------------------------------------------------------------------
(* The invariant holds                                                     *)

LEMMA InitHolds == Init => RInv
  <1> SUFFICES ASSUME Init PROVE RInv
    OBVIOUS
  <1>1. ops \in [Periods -> Operation] /\ pass \in [Actors -> Pass]
    BY NewRows, IdleType DEF Init
  <1>2. TypeOK
    <2>1. now \in 0 .. LastNow /\ commands \in 0 .. MaxRequests
          /\ told \in 0 .. LastPeriod + 1 /\ wallet \in Int
      BY RenewalAssumption DEF Init
    <2>2. ws \in WsType
      BY Constants DEF Init, WsType
    <2>3. provider \in Provider
      BY Constants DEF Init, Provider
    <2>4. spent \in Spent
      BY RenewalAssumption DEF Init, Spent
    <2>5. /\ charge \in Codes /\ refund \in Codes /\ receipts \subseteq Kinds
          /\ live \in [Periods -> BOOLEAN]
      BY DEF Init, Codes
    <2> QED BY <1>1, <2>1, <2>2, <2>3, <2>4, <2>5, TypeParts
         DEF OwnersType, StoreType, PassType
  <1>3. ProviderPaid
    <2>1. \A res \in Resources : provider[res].through = 1 /\ provider[res].inflight = 0
      BY DEF Init
    <2>2. \A p \in Periods : ~(1 > p) /\ ~(0 >= p)
      BY Constants
    <2> QED BY <2>1, <2>2 DEF ProviderPaid
  <1>4. ToldGood
    BY Constants DEF Init, ToldGood
  <1>n. /\ NoOperation.status = "none" /\ ~NoOperation.attempted
        /\ ~NoOperation.confirmed /\ ~NoOperation.refundAttempted
        /\ ~NoOperation.refundConfirmed /\ ~NoOperation.entitled
    BY DEF NoOperation, newWorkspaceRenewalOperation
  <1>5. ASSUME NEW p \in Periods PROVE PeriodGood(p)
    <2>1. ops[p] = NoOperation /\ charge[p] = "none" /\ refund[p] = "none" /\ ws.paid = 1
      BY DEF Init
    <2>2. ~(1 > p)
      BY Constants
    <2> QED BY <1>n, <2>1, <2>2, NewRows DEF PeriodGood, Backed
  <1>6. ASSUME NEW a \in Actors PROVE PassGood(pass[a])
    <2>1. pass[a] = Idle
      BY DEF Init
    <2> QED BY <2>1, IdleGood
  <1> QED BY <1>2, <1>3, <1>4, <1>5, <1>6 DEF RInv

LEMMA WorkerPreserves ==
  ASSUME RInv, NEW a \in Workers, BeginPass(a) \/ WorkerStep(a)
  PROVE  RInv'
  <1>0. a \in Actors
    BY DEF Actors
  <1>1. CASE \/ BeginPass(a) \/ LoadToReturn(a) \/ ClaimConflict(a)
             \/ LoadToClaim(a) \/ Claim(a) \/ Reload(a)
    BY <1>0, <1>1, BeginPreserves, LoadToClaimPreserves, ClaimPreserves, ReloadPreserves
  <1>2. CASE \/ ExpirySuspend(a) \/ ExpiryFinancial(a) \/ ExpiryReturns(a)
             \/ ExpiryReceipt(a) \/ ExpiryReceiptNotDue(a)
    BY <1>0, <1>2, ExpiryPreserves, ExpiryReceiptPreserves, ExpiryReceiptNotDuePreserves
  <1>3. CASE \/ RunInsufficient(a) \/ RunClaimed(a) \/ DebitFirst(a) \/ DebitRecover(a)
             \/ DebitConfirmed(a) \/ ChargeSub2API(a) \/ PostChargeBalance(a)
             \/ RunDebited(a)
    BY <1>0, <1>3, RunInsufficientPreserves, RunClaimedPreserves, DebitFirstPreserves,
       DebitRecoverPreserves, DebitConfirmedPreserves, ChargePreserves,
       PostChargePreserves, RunDebitedPreserves
  <1>4. CASE \E res \in Resources : RenewProvider(a, res) \/ VerifyProvider(a, res)
    BY <1>0, <1>4, RenewProviderPreserves, VerifyProviderPreserves
  <1>5. CASE \/ RunRefundPending(a) \/ RefundFirst(a) \/ RefundRecover(a)
             \/ RefundSub2API(a) \/ RefundReceipt(a) \/ RunRefunded(a)
    BY <1>0, <1>5, RunRefundPendingPreserves, RefundFirstPreserves,
       RefundRecoverPreserves, RefundPreserves, RefundReceiptPreserves,
       RunRefundedPreserves
  <1> QED BY <1>1, <1>2, <1>3, <1>4, <1>5 DEF WorkerStep

LEMMA SharedPreserves ==
  ASSUME RInv, NEW a \in Actors, SharedStep(a) \/ Crash(a)
  PROVE  RInv'
  BY PersistPreserves, PersistFailsPreserves, RunVerifyingPreserves,
     RunToReceiptPreserves, RenewalReceiptPreserves, RunSettledPreserves, CrashPreserves
     DEF SharedStep

LEMMA ReviewerPreserves ==
  ASSUME RInv, NEW a \in Reviewers,
         ReviewStep(a) \/ \E p \in Periods : ReviewRequest(a, p)
  PROVE  RInv'
  <1>0. a \in Actors
    BY DEF Actors
  <1> QED BY <1>0, ReviewVerifyPreserves, ReviewRunsPreserves, ReviewEndPreserves,
             ReviewRequestPreserves DEF ReviewStep

LEMMA NextPreserves == RInv /\ [Next]_vars => RInv'
  <1> SUFFICES ASSUME RInv, [Next]_vars PROVE RInv'
    OBVIOUS
  <1>1. CASE UNCHANGED vars
    <2>1. /\ UNCHANGED <<now, Store, pass, commands, told>>
          /\ UNCHANGED external /\ UNCHANGED spent
      BY <1>1 DEF vars, Store, external
    <2> QED BY <2>1, OwnersIdle, OwnersOnly DEF NoFault
  <1>2. CASE Next
    BY <1>2, WorkerPreserves, SharedPreserves, ReviewerPreserves, AutoRenewPreserves,
       ClockPreserves, LateRedeemPreserves, LateRenewalPreserves, OthersPreserve DEF Next
  <1> QED BY <1>1, <1>2

-----------------------------------------------------------------------------
(* Theorems                                                                *)

\* Every copy of a renewal row keeps its promises, and the stored rows agree with
\* the Workspace row and with what Sub2API and the provider did, in every state
\* the workers, the operators and the customer can reach.
THEOREM RenewalInvariant == Spec => []RInv
  BY InitHolds, NextPreserves, PTL DEF Spec

\* The rows, passes and facts keep their types and the bounds.
THEOREM TypeCorrect == Spec => []TypeOK
  <1>1. RInv => TypeOK
    BY DEF RInv
  <1> QED BY <1>1, RenewalInvariant, PTL

\* The provider is asked only for paid months, money moves only for a stored
\* attempt, and a refund is sent only for a charge that was made.
THEOREM RenewalsArePaid == Spec => []RenewalIsPaid
  <1>1. RInv => RenewalIsPaid
    <2> SUFFICES ASSUME RInv, NEW p \in Periods
                 PROVE  /\ (\E res \in Resources :
                              provider[res].through > p \/ provider[res].inflight = p)
                             => charge[p] = "used"
                        /\ charge[p] # "none" => ops[p].attempted
                        /\ refund[p] # "none" => charge[p] = "used" /\ ops[p].refundAttempted
      BY DEF RenewalIsPaid
    <2>1. PeriodGood(p)
      BY DEF RInv
    <2>2. \A res \in Resources : provider[res].inflight = p => provider[res].inflight >= p
      BY Constants
    <2>3. (\E res \in Resources :
             provider[res].through > p \/ provider[res].inflight = p)
            => charge[p] = "used"
      BY <2>2 DEF RInv, ProviderPaid
    <2>4. ops[p].refundAttempted => charge[p] = "used"
      BY <2>1 DEF PeriodGood, Good, Backed
    <2> QED BY <2>1, <2>3, <2>4 DEF PeriodGood
  <1> QED BY <1>1, RenewalInvariant, PTL

\* A month that is granted was paid, was renewed by the provider and is not
\* refunded, whatever a worker and a review do at the same time.
THEOREM MonthsAreEntitled == Spec => []EntitledIsPaid
  <1>1. RInv => EntitledIsPaid
    <2> SUFFICES ASSUME RInv, NEW p \in Periods, ws.paid > p
                 PROVE  /\ charge[p] = "used" /\ refund[p] = "none"
                        /\ \A res \in Resources : provider[res].through > p
      BY DEF EntitledIsPaid
    <2>1. PeriodGood(p)
      BY DEF RInv
    <2>2. ops[p].entitled /\ Good(ops[p]) /\ Backed(ops[p], p)
      BY <2>1 DEF PeriodGood
    <2>3. ops[p].confirmed /\ ~ops[p].refundAttempted
      BY <2>2 DEF Good
    <2> QED BY <2>1, <2>2, <2>3 DEF PeriodGood, Backed
  <1> QED BY <1>1, RenewalInvariant, PTL

\* A month closed as unpaid was never charged, even by a pass whose lease had
\* lapsed when the month was closed.
THEOREM UnpaidMonthsAreFree == Spec => []UnpaidIsUncharged
  <1>1. RInv => UnpaidIsUncharged
    <2> SUFFICES ASSUME RInv, NEW p \in Periods, ops[p].status = "expired_unpaid"
                 PROVE  charge[p] = "none"
      BY DEF UnpaidIsUncharged
    <2>1. PeriodGood(p)
      BY DEF RInv
    <2> QED BY <2>1 DEF PeriodGood, Good, Quiet
  <1> QED BY <1>1, RenewalInvariant, PTL

\* A customer who was told that the renewal is cancelled is not charged.
THEOREM CancellationsHold == Spec => []CancelledIsHonoured
  <1>1. RInv => CancelledIsHonoured
    <2> SUFFICES ASSUME RInv, told \in Periods
                 PROVE  charge[told] = "none" \/ ops[told].refundConfirmed
      BY DEF CancelledIsHonoured
    <2>1. PeriodGood(told)
      BY DEF RInv
    <2>2. \/ ops[told].refundConfirmed \/ Quiet(ops[told])
          \/ ops[told].status = "none" /\ ~ws.auto
      BY DEF RInv, ToldGood
    <2>3. ops[told].status = "none" => ~ops[told].attempted
      <3>1. ops[told].status = "none" => ops[told] = NoOperation
        BY <2>1 DEF PeriodGood, Good
      <3>2. ~NoOperation.attempted
        BY DEF NoOperation, newWorkspaceRenewalOperation
      <3> QED BY <3>1, <3>2
    <2>4. charge[told] # "none" => ops[told].attempted
      BY <2>1 DEF PeriodGood
    <2> QED BY <2>2, <2>3, <2>4 DEF Quiet
  <1> QED BY <1>1, RenewalInvariant, PTL
-----------------------------------------------------------------------------
(* Expiry: the second inductive invariant                                  *)

\* A month that is over and closed.
Lapsed(o) ==
  o.expiryStatus = "expired_unpaid" /\ o.expiryPhase \in {"receipt", "complete"}

\* A month that is over and will not be paid for any more, or was paid before.
Closing(o) ==
  o.expiryStatus # "" /\ (o.entitled \/ o.refundConfirmed \/ ~o.attempted)

\* Which expiry a copy of the row of period p may carry.  A month that is being
\* paid for can only be past due, and of its own end.
Dated(o, p) ==
  /\ o.expiryStatus # "" => now >= o.expiryPaid
  /\ o.expiryStatus = "past_due" => o.expiryPaid = p /\ ~o.entitled
  /\ o.expiryPhase = "financial" => o.expiryStatus = "past_due"
  /\ o.expiryStatus = "expired_unpaid" => Closing(o)
  /\ o.status = "active" <=> o.entitled /\ o.phase = "complete"

\* What a write of n computed from o, with its patch of the Workspace, does to the
\* expiry.
Ages(o, n, patch) ==
  /\ o.status = "active" => n.status = "active"
  /\ o.expiryStatus = "" => n.expiryStatus = ""
  /\ o.expiryStatus # "" /\ patch # "recover" =>
       /\ n.expiryStatus # "" /\ n.expiryPaid = o.expiryPaid
       /\ o.expiryPhase = "complete" => n.expiryPhase = "complete"
  /\ patch \in {"suspend", "expire", "close"} => o.expiryStatus # ""
  /\ patch = "entitle" => o.expiryStatus = ""
  /\ patch = "recover" =>
       o.expiryStatus = "past_due" /\ ~Closing(o) /\ n.expiryStatus = ""
  /\ patch = "close" => o.expiryStatus = "past_due" /\ o.expiryPhase # "suspend"
  /\ Lapsed(o) => Lapsed(n)
  /\ Lapsed(n) /\ ~Lapsed(o) => patch \in {"expire", "close"}
  /\ n.expiryStatus = "past_due" /\ n.expiryPhase # "suspend" =>
       \/ o.expiryStatus = "past_due" /\ o.expiryPhase # "suspend"
       \/ patch = "suspend"

\* The same of the row it replaces, unless the pass went on with an expiry it could
\* neither store nor read back.
AgesStored(o, n, patch) ==
  /\ o.status = "active" => n.status = "active"
  /\ o.expiryStatus = "" => n.expiryStatus = ""
  /\ o.expiryStatus # "" /\ patch # "recover" =>
       /\ n.expiryStatus # "" /\ n.expiryPaid = o.expiryPaid
       /\ o.expiryPhase = "complete" => n.expiryPhase = "complete"
  /\ patch \in {"suspend", "expire", "close"} => o.expiryStatus # ""
  /\ patch = "entitle" => o.expiryStatus = ""
  /\ patch = "recover" =>
       o.expiryStatus = "past_due" /\ ~Closing(o) /\ n.expiryStatus = ""
  /\ Lapsed(o) => Lapsed(n)
  /\ \/ n.expiryPaid \in spent.unsaved
     \/ /\ patch = "close" => o.expiryStatus = "past_due" /\ o.expiryPhase # "suspend"
        /\ Lapsed(n) /\ ~Lapsed(o) => patch \in {"expire", "close"}
        /\ n.expiryStatus = "past_due" /\ n.expiryPhase # "suspend" =>
             \/ o.expiryStatus = "past_due" /\ o.expiryPhase # "suspend"
             \/ patch = "suspend"

\* What a claim was computed from: at an expiry it opens the expiry of the
\* Workspace as it was seen, and a new month only when no other is unsettled.
ClaimAges(r) ==
  LET o == r.seen.ops[r.p]
      n == r.want
  IN
  /\ o.expiryStatus # "" => SameExpiry(o, n) /\ n.status = o.status
  /\ o.expiryStatus = "" /\ n.expiryStatus # "" =>
       /\ n.expiryPhase = "suspend" /\ n.expiryPaid = r.seen.paid
       /\ r.p # r.seen.paid => ~terminalWorkspaceRenewal(o)
  /\ o.expiryStatus = "" /\ n.expiryStatus = "" /\ o.status # "none" =>
       n.status = o.status
  /\ o.status = "none" =>
       \A q \in Periods : r.seen.ops[q].status # "none" =>
         /\ terminalWorkspaceRenewal(r.seen.ops[q])
         /\ ~(r.seen.ops[q].expiryStatus # ""
                /\ r.seen.ops[q].expiryPaid = r.seen.paid)

\* The row in memory may be ahead of the one it was stored as, while the expiry
\* is still to be worked on.
Ahead(b, o) ==
  /\ o.status = b.status /\ o.phase = b.phase /\ o.expiryPaid = b.expiryPaid
  /\ b.expiryPhase \notin {"suspend", "financial"} => SameExpiry(b, o)
  /\ o.expiryStatus = "past_due" => b.expiryStatus = "past_due"

\* Then the end of the paid period is one whose expiry was not stored.
Marked(b, o) == SameExpiry(b, o) \/ o.expiryPaid \in spent.unsaved

\* What the stored row still says of a row that a pass has, stored as b.
Remembered(b, o, p) ==
  /\ o.entitled => ops[p].entitled
  /\ o.refundConfirmed => ops[p].refundConfirmed
  /\ Closing(o) => Closing(ops[p]) /\ ops[p].expiryPaid = o.expiryPaid
  /\ Lapsed(b) => Lapsed(ops[p])

Aged(b, o, p) == Dated(o, p) /\ Remembered(b, o, p) /\ Ahead(b, o)

PassAges(r) ==
  /\ r.pc \in {"load", "claim"} => r.now <= now
  /\ Aged(r.base, r.row, r.p)
  /\ ~(r.pc = "reload" /\ r.stage \in Expiring) => Marked(r.base, r.row)
  /\ r.pc = "resolve" => r.base = r.row
  /\ Aged(r.caller.base, r.caller.row, r.p) /\ Marked(r.caller.base, r.caller.row)
  /\ r.pc \in {"persist", "claim"} => Dated(r.want, r.p)
  /\ r.pc = "persist" => Ages(r.row, r.want, r.patch)
  /\ r.pc = "persist" /\ r.stage \in Expiring => Ahead(r.row, r.want)
  /\ r.pc = "claim" => ClaimAges(r)

\* The months before the last one that was begun are settled.
SettledBefore ==
  \A p, q \in Periods :
    p < q /\ ops[q].status # "none" => terminalWorkspaceRenewal(ops[p])

Covering(q) == ops[q].expiryStatus # "" /\ ops[q].expiryPaid = ws.paid

\* While the Workspace expires on the operation of an earlier month, none is
\* begun for the current one.
ExpiryIsAlone ==
  \A q \in Periods : Covering(q) /\ ws.paid \in Periods /\ q # ws.paid =>
    ops[ws.paid].status = "none"

\* What the stored expiries say of the Workspace row.
ExpiryShown ==
  /\ ws.suspended => \E q \in Periods : Covering(q)
  /\ \A q \in Periods :
       /\ ops[q].expiryStatus # "" => ws.paid = ops[q].expiryPaid
       /\ Lapsed(ops[q]) => \/ ws.paid \in spent.unsaved
                            \/ ws.suspended /\ ~ws.auto /\ ws.closed
       /\ ops[q].expiryStatus = "past_due" /\ ops[q].expiryPhase # "suspend" =>
            ws.suspended \/ ws.paid \in spent.unsaved

ReceiptsBacked ==
  \A p \in 1 .. LastPeriod + 1 :
    /\ <<"renewed", p>> \in receipts => p \in Periods /\ ops[p].entitled
    /\ <<"refunded", p>> \in receipts => p \in Periods /\ ops[p].refundConfirmed
    /\ <<"expired", p>> \in receipts =>
         \E q \in Periods : /\ Closing(ops[q]) /\ ops[q].expiryPaid = p
                            /\ Lapsed(ops[q]) \/ p \in spent.unsaved

XInv ==
  /\ SettledBefore /\ ExpiryIsAlone /\ ExpiryShown /\ ReceiptsBacked
  /\ \A p \in Periods : Dated(ops[p], p)
  /\ \A a \in Actors : PassAges(pass[a])

-----------------------------------------------------------------------------
(* Steps of a pass                                                         *)

\* No step forgets an expiry that was not stored.
UnsavedGrows == spent.unsaved \subseteq spent'.unsaved

LEMMA FaultForgetsNothing ==
  ASSUME RInv, Fault
  PROVE  UnsavedGrows
  <1>1. spent \in Spent
    BY TypeParts DEF RInv, OwnersType
  <1> QED BY <1>1 DEF Fault, UnsavedGrows, Spent

LEMMA ReceiptsStill ==
  ASSUME XInv, UNCHANGED <<receipts, ops>>, UnsavedGrows
  PROVE  ReceiptsBacked'
  <1> SUFFICES ASSUME NEW p \in 1 .. LastPeriod + 1
               PROVE  /\ <<"renewed", p>> \in receipts => p \in Periods /\ ops[p].entitled
                      /\ <<"refunded", p>> \in receipts =>
                           p \in Periods /\ ops[p].refundConfirmed
                      /\ <<"expired", p>> \in receipts =>
                           \E q \in Periods : /\ Closing(ops[q]) /\ ops[q].expiryPaid = p
                                              /\ Lapsed(ops[q]) \/ p \in spent'.unsaved
    BY DEF ReceiptsBacked, Closing, Lapsed
  <1> QED BY DEF XInv, ReceiptsBacked, UnsavedGrows

\* A row in memory keeps what it says when neither clock nor store move.
LEMMA RowAges ==
  ASSUME NEW b, NEW o, NEW p, UNCHANGED <<now, ops>>
  PROVE  Aged(b, o, p)' <=> Aged(b, o, p)
  <1>1. Dated(o, p)' <=> Dated(o, p)
    BY DEF Dated
  <1>2. Remembered(b, o, p)' <=> Remembered(b, o, p)
    BY DEF Remembered
  <1> QED BY <1>1, <1>2 DEF Aged

LEMMA MarkedKept ==
  ASSUME NEW b, NEW o, Marked(b, o), UnsavedGrows
  PROVE  Marked(b, o)'
  BY DEF Marked, UnsavedGrows

LEMMA AgesKept ==
  ASSUME NEW r, PassAges(r), UNCHANGED <<now, ops>>, UnsavedGrows
  PROVE  PassAges(r)'
  <1> PICK o, b, q, c : o = r.row /\ b = r.base /\ q = r.caller.row /\ c = r.caller.base
    OBVIOUS
  <1>1. Aged(b, o, r.p)' /\ Aged(c, q, r.p)' /\ Marked(c, q)'
    BY RowAges, MarkedKept DEF PassAges
  <1>2. Marked(b, o) => Marked(b, o)'
    BY MarkedKept
  <1>3. Dated(r.want, r.p)' <=> Dated(r.want, r.p)
    BY DEF Dated
  <1> QED BY <1>1, <1>2, <1>3 DEF PassAges

\* What holds of a pass after a step holds under its name too.
LEMMA AgesNamed ==
  ASSUME NEW a, NEW r, pass'[a] = r, PassAges(r)'
  PROVE  PassAges(pass[a])'
  <1>1. /\ r.pc \in {"load", "claim"} => r.now <= now'
        /\ Aged(r.base, r.row, r.p)'
        /\ ~(r.pc = "reload" /\ r.stage \in Expiring) => Marked(r.base, r.row)'
        /\ r.pc = "resolve" => r.base = r.row
        /\ Aged(r.caller.base, r.caller.row, r.p)' /\ Marked(r.caller.base, r.caller.row)'
        /\ r.pc \in {"persist", "claim"} => Dated(r.want, r.p)'
        /\ r.pc = "persist" => Ages(r.row, r.want, r.patch)
        /\ r.pc = "persist" /\ r.stage \in Expiring => Ahead(r.row, r.want)
        /\ r.pc = "claim" => ClaimAges(r)
    BY DEF PassAges
  <1>2. Aged(pass[a].base, pass[a].row, pass[a].p)'
    BY <1>1 DEF Aged, Dated, Remembered, Ahead
  <1>3. Aged(pass[a].caller.base, pass[a].caller.row, pass[a].p)'
    BY <1>1 DEF Aged, Dated, Remembered, Ahead
  <1>4. /\ Marked(pass[a].caller.base, pass[a].caller.row)'
        /\ Marked(r.base, r.row)' => Marked(pass[a].base, pass[a].row)'
    BY <1>1 DEF Marked
  <1>5. Dated(r.want, r.p)' => Dated(pass[a].want, pass[a].p)'
    BY DEF Dated
  <1>6. (pass[a].pc = "persist" => Ages(pass[a].row, pass[a].want, pass[a].patch))'
    BY ONLY <1>1, pass'[a] = r
  <1>7. (pass[a].pc = "persist" /\ pass[a].stage \in Expiring =>
           Ahead(pass[a].row, pass[a].want))'
    BY ONLY <1>1, pass'[a] = r DEF Expiring
  <1>8. (pass[a].pc = "claim" => ClaimAges(pass[a]))'
    BY ONLY <1>1, pass'[a] = r
  <1> QED BY <1>1, <1>2, <1>3, <1>4, <1>5, <1>6, <1>7, <1>8 DEF PassAges, Expiring

\* One pass moves and the Control Plane's rows stay.
LEMMA AgesStep ==
  ASSUME RInv, XInv, UnsavedGrows, NEW a \in Actors, NEW s, Goto(a, s), PassAges(s)',
         UNCHANGED <<Rest, Store>>, ReceiptsBacked'
  PROVE  XInv'
  <1>0. UNCHANGED <<now, commands, told, ws, ops, live>>
    BY DEF Rest, Store
  <1>1. pass \in [Actors -> Pass] /\ pass' = [pass EXCEPT ![a] = s]
    BY TypeParts DEF RInv, PassType, Goto
  <1>2. SettledBefore'
    BY <1>0 DEF XInv, SettledBefore
  <1>3. ExpiryIsAlone'
    BY <1>0 DEF XInv, ExpiryIsAlone, Covering
  <1>4. ExpiryShown'
    BY <1>0 DEF XInv, ExpiryShown, Covering, UnsavedGrows
  <1>5. \A p \in Periods : Dated(ops[p], p)'
    BY <1>0 DEF XInv, Dated
  <1>6. ASSUME NEW b \in Actors
        PROVE  PassAges(pass[b])'
    <2>1. CASE b = a
      BY <1>1, <2>1, AgesNamed
    <2>2. CASE b # a
      <3> PICK x : x = pass[b]
        OBVIOUS
      <3>1. PassAges(x) /\ pass'[b] = x
        BY <1>1, <2>2 DEF XInv
      <3>2. PassAges(x)'
        BY <1>0, <3>1, AgesKept
      <3> QED BY <3>1, <3>2, AgesNamed
    <2> QED BY <2>1, <2>2
  <1> QED BY <1>2, <1>3, <1>4, <1>5, <1>6 DEF XInv

LEMMA AgesWalk ==
  ASSUME RInv, XInv, UnsavedGrows, NEW a \in Actors, NEW s, Goto(a, s), PassAges(s),
         UNCHANGED <<Rest, Store>>, UNCHANGED external
  PROVE  XInv'
  <1>1. ReceiptsBacked'
    BY ReceiptsStill DEF external, Store
  <1>2. PassAges(s)'
    BY AgesKept DEF Rest, Store
  <1> QED BY <1>1, <1>2, AgesStep

LEMMA AgesOf ==
  ASSUME RInv, XInv, NEW a \in Actors
  PROVE  /\ pass[a] \in Pass /\ PassAges(pass[a]) /\ PassGood(pass[a])
         /\ pass[a].p \in Periods /\ pass[a].row \in Operation
         /\ Good(pass[a].row) /\ PcHolds(pass[a].pc, pass[a].row)
         /\ Dated(pass[a].row, pass[a].p)
         /\ Remembered(pass[a].base, pass[a].row, pass[a].p)
  BY PassOf, PassFields DEF XInv, PassAges, PassGood, Held, Aged

LEMMA NoOperationFields ==
  /\ NoOperation.status = "none" /\ NoOperation.expiryStatus = ""
  /\ NoOperation.expiryPhase = "" /\ ~NoOperation.entitled
  /\ ~NoOperation.attempted /\ ~NoOperation.refundConfirmed
  BY DEF NoOperation, newWorkspaceRenewalOperation

LEMMA SameItself == \A o : SameExpiry(o, o) /\ Ahead(o, o) /\ Marked(o, o)
  BY DEF SameExpiry, Ahead, Marked

LEMMA FreshRow ==
  \A p : /\ Dated(NoOperation, p) /\ ~Lapsed(NoOperation) /\ ~Closing(NoOperation)
         /\ Aged(NoOperation, NoOperation, p)
  <1>1. \A p : Dated(NoOperation, p) /\ ~Lapsed(NoOperation) /\ ~Closing(NoOperation)
    BY NoOperationFields DEF Dated, Lapsed, Closing
  <1> QED BY <1>1, NoOperationFields, SameItself DEF Aged, Remembered

LEMMA IdleAges == PassAges(Idle)
  BY IdleFields, NoCallerFields, FreshRow, SameItself DEF PassAges

\* What a pass takes along from one part to the next.
Carried(r) ==
  /\ Aged(r.base, r.row, r.p) /\ Marked(r.base, r.row)
  /\ Aged(r.caller.base, r.caller.row, r.p) /\ Marked(r.caller.base, r.caller.row)

LEMMA CarriedOf ==
  ASSUME NEW r, PassAges(r), r.pc # "reload"
  PROVE  Carried(r)
  BY DEF PassAges, Carried

\* A pass that keeps its row goes anywhere but to a write.
LEMMA KeepsAges ==
  ASSUME NEW r, NEW s, Carried(r), s.p = r.p, s.row = r.row, s.base = r.base,
         s.caller = r.caller, s.pc \notin {"persist", "claim", "load", "resolve"}
  PROVE  PassAges(s)
  BY DEF PassAges, Carried

LEMMA OnwardAges ==
  ASSUME NEW r, NEW s, Carried(r), Onward(r, s)
  PROVE  PassAges(s)
  <1>1. CASE s = Idle
    BY <1>1, IdleAges
  <1>2. CASE s # Idle
    <2>1. /\ s.p = r.p /\ s.pc \notin {"persist", "claim", "load", "resolve"}
          /\ GoesOn(r, s) \/ FallsBack(r, s)
      BY <1>2 DEF Onward, Between
    <2> DEFINE c == [row |-> r.row, base |-> r.base]
    <2>2. c.row = r.row /\ c.base = r.base
      OBVIOUS
    <2>3. \/ s.row = r.row /\ s.base = r.base
          \/ s.row = r.caller.row /\ s.base = r.caller.base
      BY <2>1 DEF GoesOn, FallsBack
    <2>4. s.caller \in {r.caller, NoCaller, c}
      BY <2>1 DEF GoesOn, FallsBack
    <2> HIDE DEF c
    <2>5. Aged(s.base, s.row, s.p) /\ Marked(s.base, s.row)
      BY <2>1, <2>3 DEF Carried
    <2>6. Aged(s.caller.base, s.caller.row, s.p) /\ Marked(s.caller.base, s.caller.row)
      BY <2>1, <2>2, <2>4, NoCallerFields, FreshRow, SameItself DEF Carried
    <2> QED BY <2>1, <2>5, <2>6 DEF PassAges
  <1> QED BY <1>1, <1>2

LEMMA ReturnAges ==
  ASSUME RInv, XInv, UnsavedGrows, NEW a \in Actors, NEW err \in BOOLEAN, Return(a, err),
         pass[a].pc # "reload", UNCHANGED <<Rest, Store>>, UNCHANGED external
  PROVE  XInv'
  <1>1. Onward(pass[a], Returned(pass[a], err)) /\ Goto(a, Returned(pass[a], err))
    BY AgesOf, ReturnedOnward DEF Return
  <1>2. PassAges(Returned(pass[a], err))
    BY <1>1, AgesOf, CarriedOf, OnwardAges
  <1> QED BY <1>1, <1>2, AgesWalk

LEMMA LeaveAges ==
  ASSUME RInv, XInv, UnsavedGrows, NEW a \in Actors, Goto(a, Idle),
         UNCHANGED <<Rest, Store>>, UNCHANGED external
  PROVE  XInv'
  BY IdleAges, AgesWalk

LEMMA PointAges ==
  ASSUME RInv, XInv, UnsavedGrows, NEW a \in Actors, NEW pc,
         Goto(a, [pass[a] EXCEPT !.pc = pc]), pass[a].pc # "reload",
         pc \notin {"persist", "claim", "load", "resolve"},
         UNCHANGED <<Rest, Store>>, UNCHANGED external
  PROVE  XInv'
  <1> PICK r \in Pass : r = pass[a] /\ PassAges(r)
    BY AgesOf
  <1> DEFINE s == [r EXCEPT !.pc = pc]
  <1>1. s.p = r.p /\ s.row = r.row /\ s.base = r.base /\ s.caller = r.caller /\ s.pc = pc
    BY DEF Pass
  <1>2. Goto(a, s)
    OBVIOUS
  <1> HIDE DEF s
  <1>3. PassAges(s)
    BY <1>1, CarriedOf, KeepsAges
  <1> QED BY <1>2, <1>3, AgesWalk

\* The expiry only writes what is ahead of the row it has.
AgesFit(a, n) == pass[a].pc \in Acting \/ (pass[a].pc = "expiry" /\ Ahead(pass[a].row, n))

\* A write is prepared.
LEMMA SaveAges ==
  ASSUME RInv, XInv, UnsavedGrows, NEW a \in Actors, NEW n, NEW patch, NEW then,
         Save(a, n, patch, then), AgesFit(a, n), Dated(n, pass[a].p),
         Ages(pass[a].row, n, patch), UNCHANGED <<Rest, Store>>, ReceiptsBacked'
  PROVE  XInv'
  <1> PICK r \in Pass : r = pass[a] /\ PassAges(r) /\ PassGood(r)
    BY AgesOf
  <1> DEFINE s == [r EXCEPT !.pc = "persist", !.want = n, !.patch = patch,
                            !.then = then]
  <1>1. /\ s.p = r.p /\ s.row = r.row /\ s.base = r.base /\ s.caller = r.caller
        /\ s.pc = "persist" /\ s.stage = r.stage /\ s.want = n /\ s.patch = patch
    BY DEF Pass
  <1>2. Goto(a, s)
    BY DEF Save
  <1> HIDE DEF s
  <1>3. s.stage \in Expiring => Ahead(s.row, s.want)
    BY <1>1 DEF AgesFit, Acting, PassGood, StageGood
  <1>4. r.pc # "reload"
    BY DEF AgesFit, Acting
  <1>5. PassAges(s)
    BY <1>1, <1>3, <1>4, CarriedOf DEF PassAges, Carried
  <1>6. PassAges(s)'
    BY <1>5, AgesKept DEF Rest, Store
  <1> QED BY <1>2, <1>6, AgesStep

\* Most writes leave the expiry and the entitlement alone.
Plain(o, n) ==
  /\ SameExpiry(o, n) /\ n.entitled = o.entitled
  /\ o.refundConfirmed => n.refundConfirmed
  /\ n.attempted => o.attempted \/ o.status = "debit_pending"
  /\ \/ n.status = o.status /\ n.phase = o.phase
     \/ ~o.entitled /\ n.status # "active"
     \/ n.status = "active" /\ n.entitled /\ n.phase = "complete"

LEMMA PlainAges ==
  ASSUME NEW o \in Operation, NEW n, NEW p \in Periods, Good(o), Dated(o, p), Plain(o, n)
  PROVE  Dated(n, p) /\ Ages(o, n, "")
  <1>1. SameExpiry(o, n) /\ (Lapsed(o) <=> Lapsed(n))
    BY DEF Plain, SameExpiry, Lapsed
  <1>2. o.status = "active" => o.entitled
    BY DEF Good
  <1>3. Ages(o, n, "")
    BY <1>1, <1>2 DEF Ages, Plain, SameExpiry, Closing
  <1>4. n.expiryStatus = "expired_unpaid" => Closing(n)
    BY <1>1 DEF Plain, SameExpiry, Dated, Good, Quiet, Closing
  <1>5. n.status = "active" <=> n.entitled /\ n.phase = "complete"
    BY DEF Plain, Dated
  <1>6. /\ n.expiryStatus # "" => now >= n.expiryPaid
        /\ n.expiryStatus = "past_due" => n.expiryPaid = p /\ ~n.entitled
        /\ n.expiryPhase = "financial" => n.expiryStatus = "past_due"
    BY <1>1 DEF Plain, SameExpiry, Dated
  <1> QED BY <1>3, <1>4, <1>5, <1>6 DEF Dated

LEMMA PlainSave ==
  ASSUME RInv, XInv, UnsavedGrows, NEW a \in Actors, NEW n, NEW then, Save(a, n, "", then),
         pass[a].pc \in Acting, Plain(pass[a].row, n), UNCHANGED <<Rest, Store>>, ReceiptsBacked'
  PROVE  XInv'
  <1>1. Dated(n, pass[a].p) /\ Ages(pass[a].row, n, "")
    BY AgesOf, PlainAges
  <1> QED BY <1>1, SaveAges DEF AgesFit

LEMMA RetryAges ==
  ASSUME RInv, XInv, UnsavedGrows, NEW a \in Actors, retryWorkspaceRenewal(a, pass[a].row),
         pass[a].pc \in Acting, UNCHANGED <<Rest, Store>>, ReceiptsBacked'
  PROVE  XInv'
  <1>1. Plain(pass[a].row, [pass[a].row EXCEPT !.lease = NoLease])
    BY AgesOf DEF Plain, SameExpiry, Operation
  <1> QED BY <1>1, PlainSave DEF retryWorkspaceRenewal

LEMMA ReviewedAges ==
  ASSUME RInv, XInv, UnsavedGrows, NEW a \in Actors, manualReviewWorkspaceRenewal(a, pass[a].row),
         pass[a].pc \in Acting, ~pass[a].row.entitled, UNCHANGED <<Rest, Store>>, ReceiptsBacked'
  PROVE  XInv'
  <1>1. Plain(pass[a].row, [pass[a].row EXCEPT !.status = "manual_review",
                                               !.lease = NoLease])
    BY AgesOf DEF Plain, SameExpiry, Operation
  <1> QED BY <1>1, PlainSave DEF manualReviewWorkspaceRenewal

-----------------------------------------------------------------------------
(* runWorkspaceRenewal leaves the expiry alone until the entitlement       *)

LEMMA RowSettings ==
  ASSUME NEW o \in Operation, Good(o)
  PROVE  /\ \A status, phase : status # "active" /\ ~o.entitled =>
              Plain(o, [o EXCEPT !.status = status, !.phase = phase])
         /\ \A phase : ~o.entitled => Plain(o, [o EXCEPT !.phase = phase])
         /\ ~o.entitled =>
              Plain(o, [o EXCEPT !.status = "insufficient", !.lease = NoLease])
         /\ o.status = "debit_pending" =>
              \A x : Plain(o, [o EXCEPT !.attempted = TRUE, !.pre = x])
         /\ Plain(o, [o EXCEPT !.confirmed = TRUE])
         /\ \A x : Plain(o, [o EXCEPT !.review = x])
  <1>1. ASSUME NEW status, NEW phase, status # "active", ~o.entitled
        PROVE  Plain(o, [o EXCEPT !.status = status, !.phase = phase])
    BY <1>1 DEF Plain, SameExpiry, Operation
  <1>2. ASSUME NEW phase, ~o.entitled
        PROVE  Plain(o, [o EXCEPT !.phase = phase])
    BY <1>2 DEF Plain, SameExpiry, Operation, Good
  <1>3. ASSUME ~o.entitled
        PROVE  Plain(o, [o EXCEPT !.status = "insufficient", !.lease = NoLease])
    BY <1>3 DEF Plain, SameExpiry, Operation
  <1>4. ASSUME NEW x, o.status = "debit_pending"
        PROVE  Plain(o, [o EXCEPT !.attempted = TRUE, !.pre = x])
    BY <1>4 DEF Plain, SameExpiry, Operation
  <1>5. Plain(o, [o EXCEPT !.confirmed = TRUE])
    BY DEF Plain, SameExpiry, Operation
  <1>6. ASSUME NEW x
        PROVE  Plain(o, [o EXCEPT !.review = x])
    BY DEF Plain, SameExpiry, Operation
  <1> QED BY <1>1, <1>2, <1>3, <1>4, <1>5, <1>6

LEMMA NotEntitled ==
  ASSUME NEW o, Good(o), o.status \notin {"verifying", "active"}
  PROVE  ~o.entitled
  BY DEF Good

LEMMA RunInsufficientAges ==
  ASSUME RInv, XInv, UnsavedGrows, NEW a \in Actors, RunInsufficient(a)
  PROVE  XInv'
  <1>1. /\ Save(a, [pass[a].row EXCEPT !.status = "debit_pending", !.phase = "debit"],
                "", "run")
        /\ pass[a].row.status = "insufficient" /\ pass[a].pc = "run" /\ UNCHANGED <<Rest, Store>>
        /\ UNCHANGED external
    BY DEF RunInsufficient, Running, At
  <1>2. ReceiptsBacked'
    BY <1>1, ReceiptsStill DEF external, Store
  <1>3. Plain(pass[a].row, [pass[a].row EXCEPT !.status = "debit_pending", !.phase = "debit"])
    BY <1>1, AgesOf, NotEntitled, RowSettings
  <1> QED BY <1>1, <1>2, <1>3, ActingPoints, PlainSave

LEMMA RunClaimedAges ==
  ASSUME RInv, XInv, UnsavedGrows, NEW a \in Actors, RunClaimed(a)
  PROVE  XInv'
  <1> DEFINE o == pass[a].row
  <1>1. /\ \/ Save(a, PreflightConfirmed(o), "", "run")
           \/ retryWorkspaceRenewal(a, o)
           \/ manualReviewWorkspaceRenewal(a, o)
        /\ pass[a].pc = "run" /\ o.status = "claimed" /\ UNCHANGED <<Rest, Store>> /\ UNCHANGED external
    BY DEF RunClaimed, Running, At
  <1>2. ReceiptsBacked'
    BY <1>1, ReceiptsStill DEF external, Store
  <1>3. o \in Operation /\ Good(o) /\ ~o.entitled
    BY <1>1, AgesOf, NotEntitled
  <1>4. Plain(o, PreflightConfirmed(o))
    <2>1. Plain(o, [o EXCEPT !.status = "debit_pending", !.phase = "debit"])
      BY <1>3, RowSettings
    <2>2. Plain(o, [o EXCEPT !.phase = "preflight_storage"])
      BY <1>3, RowSettings
    <2> QED BY <2>1, <2>2 DEF PreflightConfirmed
  <1> QED BY <1>1, <1>2, <1>3, <1>4, ActingPoints, PlainSave, RetryAges, ReviewedAges

LEMMA DebitFirstAges ==
  ASSUME RInv, XInv, UnsavedGrows, NEW a \in Actors, DebitFirst(a)
  PROVE  XInv'
  <1> DEFINE o == pass[a].row
  <1>1. /\ \/ Save(a, [o EXCEPT !.attempted = TRUE, !.pre = wallet], "", "charge")
           \/ Save(a, [o EXCEPT !.status = "insufficient", !.lease = NoLease], "", "err")
           \/ retryWorkspaceRenewal(a, o)
        /\ o.status = "debit_pending" /\ pass[a].pc = "run"
        /\ UNCHANGED <<Rest, Store>> /\ UNCHANGED external
    BY DEF DebitFirst, Running, At
  <1>2. ReceiptsBacked'
    BY <1>1, ReceiptsStill DEF external, Store
  <1>3. o \in Operation /\ Good(o) /\ ~o.entitled
    BY <1>1, AgesOf, NotEntitled
  <1>4. /\ Plain(o, [o EXCEPT !.attempted = TRUE, !.pre = wallet])
        /\ Plain(o, [o EXCEPT !.status = "insufficient", !.lease = NoLease])
    BY <1>1, <1>3, RowSettings
  <1> HIDE DEF o
  <1>5. o = pass[a].row
    BY DEF o
  <1> QED BY <1>1, <1>2, <1>4, <1>5, ActingPoints, PlainSave, RetryAges, ReviewedAges

LEMMA DebitRecoverAges ==
  ASSUME RInv, XInv, UnsavedGrows, NEW a \in Actors, DebitRecover(a) \/ DebitConfirmed(a)
  PROVE  XInv'
  <1> DEFINE o == pass[a].row
  <1>1. /\ \/ Save(a, [o EXCEPT !.confirmed = TRUE], "", "post")
           \/ Goto(a, [pass[a] EXCEPT !.pc = "charge"])
           \/ Goto(a, [pass[a] EXCEPT !.pc = "post"])
           \/ retryWorkspaceRenewal(a, o)
           \/ manualReviewWorkspaceRenewal(a, o)
        /\ pass[a].pc = "run" /\ o.status = "debit_pending"
        /\ UNCHANGED <<Rest, Store>> /\ UNCHANGED external
    BY DEF DebitRecover, DebitConfirmed, Running, At
  <1>2. ReceiptsBacked'
    BY <1>1, ReceiptsStill DEF external, Store
  <1>3. Plain(o, [o EXCEPT !.confirmed = TRUE]) /\ ~o.entitled
    BY <1>1, AgesOf, RowSettings, NotEntitled
  <1>4. CASE Goto(a, [pass[a] EXCEPT !.pc = "charge"])
    BY <1>1, <1>4, PointAges
  <1>5. CASE Goto(a, [pass[a] EXCEPT !.pc = "post"])
    BY <1>1, <1>5, PointAges
  <1> QED BY <1>1, <1>2, <1>3, <1>4, <1>5, ActingPoints, PlainSave, RetryAges, ReviewedAges

LEMMA ChargeAges ==
  ASSUME RInv, XInv, UnsavedGrows, NEW a \in Actors, ChargeSub2API(a)
  PROVE  XInv'
  <1> DEFINE o == pass[a].row
  <1>1. /\ \/ Save(a, [o EXCEPT !.confirmed = TRUE], "", "post")
           \/ retryWorkspaceRenewal(a, o)
           \/ manualReviewWorkspaceRenewal(a, o)
        /\ pass[a].pc = "charge" /\ UNCHANGED <<Rest, Store>> /\ UNCHANGED receipts
    BY DEF ChargeSub2API, At
  <1>2. ReceiptsBacked'
    BY <1>1, ReceiptsStill DEF Store
  <1>3. o.status = "debit_pending"
    BY <1>1, AgesOf DEF PcHolds
  <1>4. Plain(o, [o EXCEPT !.confirmed = TRUE]) /\ ~o.entitled
    BY <1>3, AgesOf, RowSettings, NotEntitled
  <1> QED BY <1>1, <1>2, <1>4, ActingPoints, PlainSave, RetryAges, ReviewedAges

LEMMA PostChargeAges ==
  ASSUME RInv, XInv, UnsavedGrows, NEW a \in Actors, PostChargeBalance(a)
  PROVE  XInv'
  <1> DEFINE o == pass[a].row
             m == [o EXCEPT !.post = TRUE]
             n == [m EXCEPT !.status = "debited", !.phase = "provider_compute"]
             k == [m EXCEPT !.status = "manual_review", !.lease = NoLease]
  <1>1. /\ \/ Save(a, n, "", "run") \/ Save(a, k, "", "ok")
           \/ retryWorkspaceRenewal(a, o)
        /\ pass[a].pc = "post" /\ UNCHANGED <<Rest, Store>> /\ UNCHANGED external
    BY DEF PostChargeBalance, At, manualReviewWorkspaceRenewal
  <1>2. ReceiptsBacked'
    BY <1>1, ReceiptsStill DEF external, Store
  <1>3. o.status = "debit_pending" /\ o \in Operation
    BY <1>1, AgesOf DEF PcHolds
  <1>4. ~o.entitled
    BY <1>3, AgesOf, NotEntitled
  <1>5. /\ m.status = o.status /\ m.phase = o.phase /\ SameMoney(o, m) /\ SameExpiry(o, m)
        /\ m \in Operation
    BY <1>3 DEF Operation, SameMoney, SameExpiry
  <1> HIDE DEF m
  <1>6. /\ n.status = "debited" /\ SameMoney(m, n) /\ SameExpiry(m, n)
        /\ k.status = "manual_review" /\ SameMoney(m, k) /\ SameExpiry(m, k)
    BY <1>5 DEF Operation, SameMoney, SameExpiry
  <1> HIDE DEF n, k
  <1>7. Plain(o, n) /\ Plain(o, k)
    BY <1>4, <1>5, <1>6 DEF Plain, SameMoney, SameExpiry
  <1> QED BY <1>1, <1>2, <1>7, ActingPoints, PlainSave, RetryAges

LEMMA RunDebitedAges ==
  ASSUME RInv, XInv, UnsavedGrows, NEW a \in Actors, RunDebited(a)
  PROVE  XInv'
  <1> DEFINE n == [pass[a].row EXCEPT !.status = "provider_renewing",
                                      !.phase = "provider_compute"]
  <1>1. /\ Save(a, n, "", "run") /\ pass[a].row.status = "debited" /\ pass[a].pc = "run"
        /\ UNCHANGED <<Rest, Store>> /\ UNCHANGED external
    BY DEF RunDebited, Running, At
  <1>2. ReceiptsBacked'
    BY <1>1, ReceiptsStill DEF external, Store
  <1>3. Plain(pass[a].row, n)
    BY <1>1, AgesOf, NotEntitled, RowSettings
  <1> QED BY <1>1, <1>2, <1>3, ActingPoints, PlainSave

LEMMA RenewProviderAges ==
  ASSUME RInv, XInv, UnsavedGrows, NEW a \in Actors, NEW res \in Resources, RenewProvider(a, res)
  PROVE  XInv'
  <1> DEFINE n == [pass[a].row EXCEPT !.phase = VerifyPhase(res)]
  <1>1. /\ Save(a, n, "", "run") /\ pass[a].row.status = "provider_renewing"
        /\ pass[a].pc = "run" /\ UNCHANGED <<Rest, Store>> /\ UNCHANGED receipts
    BY DEF RenewProvider, Running, At
  <1>2. ReceiptsBacked'
    BY <1>1, ReceiptsStill DEF Store
  <1>3. Plain(pass[a].row, n)
    BY <1>1, AgesOf, NotEntitled, RowSettings
  <1> QED BY <1>1, <1>2, <1>3, ActingPoints, PlainSave

LEMMA VerifyProviderAges ==
  ASSUME RInv, XInv, UnsavedGrows, NEW a \in Actors, NEW res \in Resources, VerifyProvider(a, res)
  PROVE  XInv'
  <1> DEFINE o == pass[a].row
  <1>1. /\ \/ Save(a, Verified(o, res), "", "run")
           \/ Return(a, TRUE)
           \/ Goto(a, [pass[a] EXCEPT !.pc = "refund"])
           \/ manualReviewWorkspaceRenewal(a, o)
        /\ o.status = "provider_renewing" /\ pass[a].pc = "run" /\ UNCHANGED <<Rest, Store>>
        /\ UNCHANGED external
    BY DEF VerifyProvider, Running, At
  <1>2. ReceiptsBacked'
    BY <1>1, ReceiptsStill DEF external, Store
  <1>3. o \in Operation /\ Good(o) /\ ~o.entitled
    BY <1>1, AgesOf, NotEntitled
  <1>4. Plain(o, Verified(o, res))
    <2>1. Plain(o, [o EXCEPT !.status = "verifying", !.phase = "entitlement"])
      BY <1>3, RowSettings
    <2>2. Plain(o, [o EXCEPT !.phase = "provider_storage"])
      BY <1>3, RowSettings
    <2> QED BY <2>1, <2>2 DEF Verified
  <1>5. CASE Goto(a, [pass[a] EXCEPT !.pc = "refund"])
    BY <1>1, <1>5, PointAges
  <1>6. CASE Return(a, TRUE)
    BY <1>1, <1>6, ReturnAges
  <1> QED BY <1>1, <1>2, <1>3, <1>4, <1>5, <1>6, ActingPoints, PlainSave, ReviewedAges

\* The entitlement is the one write of a renewal that ends an expiry, and it ends a
\* past due one only: no other stands on a month that is being paid for.
LEMMA EntitledRow ==
  ASSUME NEW o \in Operation, NEW p \in Periods, Good(o), Dated(o, p),
         o.status = "verifying", ~o.entitled
  PROVE  LET n == Entitled(o, p)
             patch == IF Recovers(o, p) THEN "recover" ELSE "entitle"
         IN  Dated(n, p) /\ Ages(o, n, patch)
  <1> DEFINE m == [o EXCEPT !.phase = "receipt", !.entitled = TRUE]
             k == [m EXCEPT !.expiryStatus = "", !.expiryPhase = "", !.expiryPaid = 0]
  <1>1. /\ m \in Operation /\ m.status = "verifying" /\ m.phase = "receipt"
        /\ m.entitled /\ SameExpiry(o, m)
    BY DEF Operation, SameExpiry, Phases
  <1>2. o.attempted /\ ~o.refundConfirmed
    BY DEF Good
  <1>3. o.expiryStatus \in {"", "past_due", "expired_unpaid"}
    BY DEF Operation
  <1>4. o.expiryStatus = "" \/ Recovers(o, p)
    BY <1>2, <1>3 DEF Dated, Recovers, Closing
  <1>5. Entitled(o, p) = IF Recovers(o, p) THEN k ELSE m
    BY DEF Entitled
  <1> HIDE DEF m
  <1>6. /\ k.status = "verifying" /\ k.phase = "receipt" /\ k.entitled
        /\ k.expiryStatus = "" /\ k.expiryPhase = ""
    BY <1>1 DEF Operation
  <1> HIDE DEF k
  <1>7. CASE Recovers(o, p)
    <2>1. Dated(k, p)
      BY <1>6 DEF Dated
    <2>2. ~Lapsed(o) /\ ~Lapsed(k)
      BY <1>6, <1>7 DEF Lapsed, Recovers
    <2>3. Ages(o, k, "recover")
      BY <1>2, <1>6, <1>7, <2>2 DEF Ages, Recovers, Closing
    <2> QED BY <1>5, <1>7, <2>1, <2>3
  <1>8. CASE ~Recovers(o, p)
    <2>1. o.expiryStatus = "" /\ m.expiryStatus = "" /\ m.expiryPhase = ""
      BY <1>1, <1>4, <1>8 DEF SameExpiry, Good
    <2>2. Dated(m, p)
      BY <1>1, <2>1 DEF Dated
    <2>3. ~Lapsed(o) /\ ~Lapsed(m)
      BY <2>1 DEF Lapsed
    <2>4. Ages(o, m, "entitle")
      BY <1>1, <2>1, <2>3 DEF Ages, SameExpiry
    <2> QED BY <1>5, <1>8, <2>2, <2>4
  <1> QED BY <1>7, <1>8

LEMMA RunVerifyingAges ==
  ASSUME RInv, XInv, UnsavedGrows, NEW a \in Actors, RunVerifying(a)
  PROVE  XInv'
  <1> DEFINE o == pass[a].row
             p == pass[a].p
             patch == IF Recovers(o, p) THEN "recover" ELSE "entitle"
  <1>1. /\ \/ Save(a, Entitled(o, p), patch, "run")
           \/ manualReviewWorkspaceRenewal(a, o)
        /\ o.status = "verifying" /\ o.phase # "receipt" /\ pass[a].pc = "run"
        /\ UNCHANGED <<Rest, Store>> /\ UNCHANGED external
    BY DEF RunVerifying, Running, At
  <1>2. ReceiptsBacked'
    BY <1>1, ReceiptsStill DEF external, Store
  <1>3. o \in Operation /\ Good(o) /\ Dated(o, p) /\ p \in Periods
    BY AgesOf
  <1>4. ~o.entitled
    BY <1>1, <1>3 DEF Good
  <1>5. Dated(Entitled(o, p), p) /\ Ages(o, Entitled(o, p), patch)
    BY <1>1, <1>3, <1>4, EntitledRow
  <1>6. CASE manualReviewWorkspaceRenewal(a, o)
    BY <1>1, <1>2, <1>4, <1>6, ActingPoints, ReviewedAges
  <1>7. CASE Save(a, Entitled(o, p), patch, "run")
    <2> HIDE DEF patch
    <2> QED BY <1>1, <1>2, <1>5, <1>7, ActingPoints, SaveAges DEF AgesFit
  <1> QED BY <1>1, <1>6, <1>7

\* A pass writes a receipt for what its row says, and the stored row says it too.
LEMMA ReceiptKept ==
  ASSUME RInv, XInv, UnsavedGrows, NEW p \in 1 .. LastPeriod + 1, NEW kind,
         Record(kind, p), UNCHANGED ops,
         \/ kind = "renewed" /\ p \in Periods /\ ops[p].entitled
         \/ kind = "refunded" /\ p \in Periods /\ ops[p].refundConfirmed
         \/ /\ kind = "expired"
            /\ \E q \in Periods : /\ Closing(ops[q]) /\ ops[q].expiryPaid = p
                                  /\ Lapsed(ops[q]) \/ p \in spent.unsaved
  PROVE  ReceiptsBacked'
  <1> SUFFICES ASSUME NEW q \in 1 .. LastPeriod + 1
               PROVE  /\ <<"renewed", q>> \in receipts' => q \in Periods /\ ops[q].entitled
                      /\ <<"refunded", q>> \in receipts' =>
                           q \in Periods /\ ops[q].refundConfirmed
                      /\ <<"expired", q>> \in receipts' =>
                           \E x \in Periods : /\ Closing(ops[x]) /\ ops[x].expiryPaid = q
                                              /\ Lapsed(ops[x]) \/ q \in spent'.unsaved
    BY DEF ReceiptsBacked, Lapsed, Closing
  <1>1. \A x : x \in receipts' => x \in receipts \/ x = <<kind, p>>
    BY DEF Record
  <1>2. /\ <<"renewed", q>> \in receipts => q \in Periods /\ ops[q].entitled
        /\ <<"refunded", q>> \in receipts => q \in Periods /\ ops[q].refundConfirmed
        /\ <<"expired", q>> \in receipts =>
             \E x \in Periods : /\ Closing(ops[x]) /\ ops[x].expiryPaid = q
                                /\ Lapsed(ops[x]) \/ q \in spent'.unsaved
    BY DEF XInv, ReceiptsBacked, UnsavedGrows
  <1>3. \A k : <<k, q>> = <<kind, p>> => k = kind /\ q = p
    OBVIOUS
  <1>4. <<"renewed", q>> \in receipts' => q \in Periods /\ ops[q].entitled
    BY <1>1, <1>2, <1>3
  <1>5. <<"refunded", q>> \in receipts' => q \in Periods /\ ops[q].refundConfirmed
    BY <1>1, <1>2, <1>3
  <1>6. <<"expired", q>> \in receipts' =>
          \E x \in Periods : /\ Closing(ops[x]) /\ ops[x].expiryPaid = q
                             /\ Lapsed(ops[x]) \/ q \in spent'.unsaved
    BY <1>1, <1>2, <1>3 DEF UnsavedGrows
  <1> QED BY <1>4, <1>5, <1>6

LEMMA RenewalReceiptAges ==
  ASSUME RInv, XInv, UnsavedGrows, NEW a \in Actors, RenewalReceipt(a)
  PROVE  XInv'
  <1> DEFINE o == pass[a].row
             p == pass[a].p
             n == [o EXCEPT !.status = "active", !.phase = "complete", !.lease = NoLease]
  <1>1. /\ Save(a, n, "", "ok") \/ retryWorkspaceRenewal(a, o)
        /\ Record("renewed", p) \/ UNCHANGED receipts
        /\ pass[a].pc = "receipt" /\ UNCHANGED <<Rest, Store>>
    BY DEF RenewalReceipt, At
  <1>2. o.status = "verifying" /\ o.phase = "receipt"
    BY <1>1, AgesOf DEF PcHolds
  <1>3. /\ o \in Operation /\ Good(o) /\ Remembered(pass[a].base, o, p)
        /\ p \in Periods /\ p \in 1 .. LastPeriod + 1
    BY AgesOf, Constants
  <1>4. o.entitled /\ ops[p].entitled
    BY <1>2, <1>3 DEF Good, Remembered
  <1>5. ReceiptsBacked'
    BY <1>1, <1>3, <1>4, ReceiptsStill, ReceiptKept DEF Store
  <1>6. Plain(o, n)
    BY <1>3, <1>4 DEF Plain, SameExpiry, Operation
  <1> QED BY <1>1, <1>5, <1>6, ActingPoints, PlainSave, RetryAges

\* The walks between the parts of a run.
LEMMA RunWalksAges ==
  ASSUME RInv, XInv, UnsavedGrows, NEW a \in Actors,
         \/ RunToReceipt(a) \/ RunRefundPending(a) \/ RunRefunded(a) \/ RunSettled(a)
  PROVE  XInv'
  <1>1. /\ \/ Goto(a, [pass[a] EXCEPT !.pc = "receipt"])
           \/ Goto(a, [pass[a] EXCEPT !.pc = "refund"])
           \/ Goto(a, [pass[a] EXCEPT !.pc = "refundReceipt"])
           \/ Return(a, FALSE)
        /\ pass[a].pc = "run" /\ UNCHANGED <<Rest, Store>> /\ UNCHANGED external
    BY DEF RunToReceipt, RunRefundPending, RunRefunded, RunSettled, Running, At
  <1>2. CASE Goto(a, [pass[a] EXCEPT !.pc = "receipt"])
    BY <1>1, <1>2, PointAges
  <1>3. CASE Goto(a, [pass[a] EXCEPT !.pc = "refund"])
    BY <1>1, <1>3, PointAges
  <1>4. CASE Goto(a, [pass[a] EXCEPT !.pc = "refundReceipt"])
    BY <1>1, <1>4, PointAges
  <1>5. CASE Return(a, FALSE)
    BY <1>1, <1>5, ReturnAges
  <1> QED BY <1>1, <1>2, <1>3, <1>4, <1>5

LEMMA RefundRows ==
  ASSUME NEW o \in Operation, Good(o), ~o.entitled
  PROVE  /\ Plain(o, Refunded(o))
         /\ Plain(o, [o EXCEPT !.status = "refund_pending", !.phase = "refund",
                               !.refundAttempted = TRUE])
         /\ o.status = "refunded" =>
              Plain(o, [o EXCEPT !.phase = "complete", !.lease = NoLease])
  <1>1. Plain(o, Refunded(o))
    BY DEF Plain, SameExpiry, Operation, Refunded
  <1>2. Plain(o, [o EXCEPT !.status = "refund_pending", !.phase = "refund",
                           !.refundAttempted = TRUE])
    BY DEF Plain, SameExpiry, Operation
  <1>3. o.status = "refunded" =>
          Plain(o, [o EXCEPT !.phase = "complete", !.lease = NoLease])
    BY DEF Plain, SameExpiry, Operation
  <1> QED BY <1>1, <1>2, <1>3

LEMMA RefundAges ==
  ASSUME RInv, XInv, UnsavedGrows, NEW a \in Actors,
         RefundFirst(a) \/ RefundRecover(a) \/ RefundSub2API(a)
  PROVE  XInv'
  <1> DEFINE o == pass[a].row
             n == [o EXCEPT !.status = "refund_pending", !.phase = "refund",
                            !.refundAttempted = TRUE]
  <1>1. /\ \/ Save(a, n, "", "refundCall")
           \/ Save(a, Refunded(o), "", "refundReceipt")
           \/ Goto(a, [pass[a] EXCEPT !.pc = "refundCall"]) /\ UNCHANGED external
           \/ retryWorkspaceRenewal(a, o)
           \/ manualReviewWorkspaceRenewal(a, o)
        /\ pass[a].pc \in {"refund", "refundCall"} /\ UNCHANGED <<Rest, Store>>
        /\ UNCHANGED receipts
    BY DEF RefundFirst, RefundRecover, RefundSub2API, At, external
  <1>2. ReceiptsBacked'
    BY <1>1, ReceiptsStill DEF Store
  <1>3. o.status \in {"refund_pending", "provider_renewing"}
    BY <1>1, AgesOf DEF PcHolds
  <1>4. Plain(o, Refunded(o)) /\ Plain(o, n) /\ ~o.entitled
    BY <1>3, AgesOf, NotEntitled, RefundRows
  <1>5. CASE Goto(a, [pass[a] EXCEPT !.pc = "refundCall"]) /\ UNCHANGED external
    BY <1>1, <1>5, PointAges
  <1> QED BY <1>1, <1>2, <1>4, <1>5, ActingPoints, PlainSave, RetryAges, ReviewedAges

LEMMA RefundReceiptAges ==
  ASSUME RInv, XInv, UnsavedGrows, NEW a \in Actors, RefundReceipt(a)
  PROVE  XInv'
  <1> DEFINE o == pass[a].row
             p == pass[a].p
             n == [o EXCEPT !.phase = "complete", !.lease = NoLease]
  <1>1. /\ Save(a, n, "", "ok") \/ retryWorkspaceRenewal(a, o)
        /\ Record("refunded", p) \/ UNCHANGED receipts
        /\ pass[a].pc = "refundReceipt" /\ UNCHANGED <<Rest, Store>>
    BY DEF RefundReceipt, At
  <1>2. o.status = "refunded"
    BY <1>1, AgesOf DEF PcHolds
  <1>3. /\ o \in Operation /\ Good(o) /\ Remembered(pass[a].base, o, p)
        /\ p \in Periods /\ p \in 1 .. LastPeriod + 1
    BY AgesOf, Constants
  <1>4. ops[p].refundConfirmed
    BY <1>2, <1>3 DEF Good, Remembered
  <1>5. ReceiptsBacked'
    BY <1>1, <1>3, <1>4, ReceiptsStill, ReceiptKept DEF Store
  <1>6. Plain(o, n)
    BY <1>2, <1>3, NotEntitled, RefundRows
  <1> QED BY <1>1, <1>5, <1>6, ActingPoints, PlainSave, RetryAges

-----------------------------------------------------------------------------
(* Expiry and review                                                       *)

LEMMA ExpiryRows ==
  ASSUME NEW o \in Operation, NEW p \in Periods, Good(o), Dated(o, p)
  PROVE  /\ o.expiryPhase = "suspend" /\ o.expiryStatus = "past_due" =>
              LET n == [o EXCEPT !.expiryPhase = "financial"]
              IN  Dated(n, p) /\ Ages(o, n, "suspend") /\ Ahead(o, n)
         /\ o.expiryPhase = "suspend" /\ o.expiryStatus # "past_due" =>
              LET n == [o EXCEPT !.expiryPhase = "receipt"]
              IN  Dated(n, p) /\ Ages(o, n, "expire") /\ Ahead(o, n)
         /\ o.expiryPhase = "financial" /\ FinanciallyClosed(o) =>
              LET n == [o EXCEPT !.expiryStatus = "expired_unpaid",
                                 !.expiryPhase = "receipt"]
              IN  Dated(n, p) /\ Ages(o, n, "close") /\ Ahead(o, n)
         /\ ExpiryReceiptDue(o) =>
              LET n == [o EXCEPT !.expiryPhase = "complete", !.lease = NoLease]
              IN  Dated(n, p) /\ Ages(o, n, "")
  <1>0. o.expiryStatus = "" => o.expiryPhase = ""
    BY DEF Good
  <1>1. ASSUME o.expiryPhase = "suspend", o.expiryStatus = "past_due"
        PROVE  LET n == [o EXCEPT !.expiryPhase = "financial"]
               IN  Dated(n, p) /\ Ages(o, n, "suspend") /\ Ahead(o, n)
    <2> DEFINE n == [o EXCEPT !.expiryPhase = "financial"]
    <2>1. /\ n.status = o.status /\ n.phase = o.phase /\ SameMoney(o, n)
          /\ n.expiryStatus = o.expiryStatus /\ n.expiryPaid = o.expiryPaid
          /\ n.expiryPhase = "financial"
      BY DEF Operation, SameMoney
    <2> HIDE DEF n
    <2>2. ~Lapsed(o) /\ ~Lapsed(n)
      BY <1>1, <2>1 DEF Lapsed
    <2>3. Dated(n, p) /\ Ages(o, n, "suspend") /\ Ahead(o, n)
      BY <1>1, <2>1, <2>2 DEF Dated, Ages, SameMoney, Ahead, Closing
    <2> QED BY <2>3 DEF n
  <1>2. ASSUME o.expiryPhase = "suspend", o.expiryStatus # "past_due"
        PROVE  LET n == [o EXCEPT !.expiryPhase = "receipt"]
               IN  Dated(n, p) /\ Ages(o, n, "expire") /\ Ahead(o, n)
    <2> DEFINE n == [o EXCEPT !.expiryPhase = "receipt"]
    <2>1. /\ n.status = o.status /\ n.phase = o.phase /\ SameMoney(o, n)
          /\ n.expiryStatus = o.expiryStatus /\ n.expiryPaid = o.expiryPaid
          /\ n.expiryPhase = "receipt"
      BY DEF Operation, SameMoney
    <2> HIDE DEF n
    <2>2. ~Lapsed(o) /\ o.expiryStatus # ""
      BY <1>0, <1>2 DEF Lapsed
    <2>3. Dated(n, p) /\ Ages(o, n, "expire") /\ Ahead(o, n)
      BY <1>2, <2>1, <2>2 DEF Dated, Ages, SameMoney, Ahead, Closing
    <2> QED BY <2>3 DEF n
  <1>3. ASSUME o.expiryPhase = "financial", FinanciallyClosed(o)
        PROVE  LET n == [o EXCEPT !.expiryStatus = "expired_unpaid",
                                  !.expiryPhase = "receipt"]
               IN  Dated(n, p) /\ Ages(o, n, "close") /\ Ahead(o, n)
    <2> DEFINE n == [o EXCEPT !.expiryStatus = "expired_unpaid",
                              !.expiryPhase = "receipt"]
    <2>1. /\ n.status = o.status /\ n.phase = o.phase /\ SameMoney(o, n)
          /\ n.expiryStatus = "expired_unpaid" /\ n.expiryPaid = o.expiryPaid
          /\ n.expiryPhase = "receipt"
      BY DEF Operation, SameMoney
    <2> HIDE DEF n
    <2>2. ~Lapsed(o) /\ o.expiryStatus = "past_due"
      BY <1>3 DEF Lapsed, Dated
    <2>3. o.refundConfirmed \/ ~o.attempted
      BY <1>3 DEF FinanciallyClosed, Good, Quiet
    <2>4. Dated(n, p) /\ Ages(o, n, "close") /\ Ahead(o, n)
      BY <1>3, <2>1, <2>2, <2>3 DEF Dated, Ages, SameMoney, Ahead, Closing
    <2> QED BY <2>4 DEF n
  <1>4. ASSUME ExpiryReceiptDue(o)
        PROVE  LET n == [o EXCEPT !.expiryPhase = "complete", !.lease = NoLease]
               IN  Dated(n, p) /\ Ages(o, n, "")
    <2> DEFINE n == [o EXCEPT !.expiryPhase = "complete", !.lease = NoLease]
    <2>1. /\ n.status = o.status /\ n.phase = o.phase /\ SameMoney(o, n)
          /\ n.expiryStatus = o.expiryStatus /\ n.expiryPaid = o.expiryPaid
          /\ n.expiryPhase = "complete"
      BY DEF Operation, SameMoney
    <2> HIDE DEF n
    <2>2. Lapsed(o) /\ Lapsed(n) /\ o.expiryStatus = "expired_unpaid"
      BY <1>4, <2>1 DEF Lapsed, ExpiryReceiptDue
    <2>3. Dated(n, p) /\ Ages(o, n, "")
      BY <2>1, <2>2 DEF Dated, Ages, SameMoney, Closing
    <2> QED BY <2>3 DEF n
  <1> QED BY <1>1, <1>2, <1>3, <1>4

LEMMA ExpiryAges ==
  ASSUME RInv, XInv, UnsavedGrows, NEW a \in Actors,
         ExpirySuspend(a) \/ ExpiryFinancial(a) \/ ExpiryReturns(a)
  PROVE  XInv'
  <1> DEFINE o == pass[a].row
             f == [o EXCEPT !.expiryPhase = "financial"]
             x == [o EXCEPT !.expiryPhase = "receipt"]
             c == [o EXCEPT !.expiryStatus = "expired_unpaid", !.expiryPhase = "receipt"]
  <1>1. UNCHANGED <<Rest, Store>> /\ UNCHANGED external /\ pass[a].pc = "expiry"
    BY DEF ExpirySuspend, ExpiryFinancial, ExpiryReturns, At
  <1>2. ReceiptsBacked'
    BY <1>1, ReceiptsStill DEF external, Store
  <1>3. o \in Operation /\ Good(o) /\ Dated(o, pass[a].p) /\ pass[a].p \in Periods
    BY AgesOf
  <1>4. CASE ExpirySuspend(a)
    <2>1. CASE o.expiryStatus = "past_due"
      <3>1. Save(a, f, "suspend", "expiry") /\ o.expiryPhase = "suspend"
        BY <1>4, <2>1 DEF ExpirySuspend
      <3>2. Dated(f, pass[a].p) /\ Ages(o, f, "suspend") /\ Ahead(o, f)
        BY <1>3, <2>1, <3>1, ExpiryRows
      <3> QED BY <1>1, <1>2, <3>1, <3>2, SaveAges DEF AgesFit
    <2>2. CASE o.expiryStatus # "past_due"
      <3>1. Save(a, x, "expire", "expiry") /\ o.expiryPhase = "suspend"
        BY <1>4, <2>2 DEF ExpirySuspend
      <3>2. Dated(x, pass[a].p) /\ Ages(o, x, "expire") /\ Ahead(o, x)
        BY <1>3, <2>2, <3>1, ExpiryRows
      <3> QED BY <1>1, <1>2, <3>1, <3>2, SaveAges DEF AgesFit
    <2> QED BY <2>1, <2>2
  <1>5. CASE ExpiryFinancial(a)
    <2>1. /\ Save(a, c, "close", "expiry") /\ o.expiryPhase = "financial"
          /\ FinanciallyClosed(o)
      BY <1>5 DEF ExpiryFinancial
    <2>2. Dated(c, pass[a].p) /\ Ages(o, c, "close") /\ Ahead(o, c)
      BY <1>3, <2>1, ExpiryRows
    <2> QED BY <1>1, <1>2, <2>1, <2>2, SaveAges DEF AgesFit
  <1>6. CASE ExpiryReturns(a)
    <2>1. Return(a, FALSE)
      BY <1>6 DEF ExpiryReturns
    <2> QED BY <1>1, <2>1, ReturnAges
  <1> QED BY <1>4, <1>5, <1>6

LEMMA ExpiryReceiptAges ==
  ASSUME RInv, XInv, UnsavedGrows, NEW a \in Actors, ExpiryReceipt(a)
  PROVE  XInv'
  <1> DEFINE o == pass[a].row
             p == pass[a].p
             n == [o EXCEPT !.expiryPhase = "complete", !.lease = NoLease]
  <1>1. /\ Save(a, n, "", "ok") \/ retryWorkspaceRenewal(a, o)
        /\ Record("expired", o.expiryPaid) \/ UNCHANGED receipts
        /\ ExpiryReceiptDue(o) /\ pass[a].pc = "expiryReceipt" /\ UNCHANGED <<Rest, Store>>
    BY DEF ExpiryReceipt, At
  <1>2. /\ o \in Operation /\ Good(o) /\ Dated(o, p) /\ Remembered(pass[a].base, o, p)
        /\ p \in Periods /\ Marked(pass[a].base, o)
    BY <1>1, AgesOf DEF PassAges
  <1>3. o.expiryPaid \in 0 .. LastPeriod + 1 /\ o.expiryPaid >= 1
    BY <1>1, <1>2 DEF Operation, Good, ExpiryReceiptDue
  <1>4. o.expiryPaid \in 1 .. LastPeriod + 1
    BY <1>3, Constants
  <1>5. /\ Closing(ops[p]) /\ ops[p].expiryPaid = o.expiryPaid
        /\ Lapsed(ops[p]) \/ o.expiryPaid \in spent.unsaved
    <2>1. Closing(o)
      BY <1>1, <1>2 DEF Dated, ExpiryReceiptDue
    <2>2. SameExpiry(pass[a].base, o) => Lapsed(pass[a].base)
      BY <1>1 DEF Lapsed, SameExpiry, ExpiryReceiptDue
    <2> QED BY <1>2, <2>1, <2>2 DEF Remembered, Marked
  <1>6. ReceiptsBacked'
    BY <1>1, <1>2, <1>4, <1>5, ReceiptsStill, ReceiptKept DEF Store
  <1>7. Dated(n, p) /\ Ages(o, n, "")
    BY <1>1, <1>2, ExpiryRows
  <1> QED BY <1>1, <1>6, <1>7, ActingPoints, SaveAges, RetryAges DEF AgesFit

LEMMA ExpiryReceiptNotDueAges ==
  ASSUME RInv, XInv, UnsavedGrows, NEW a \in Actors, ExpiryReceiptNotDue(a)
  PROVE  XInv'
  BY LeaveAges DEF ExpiryReceiptNotDue

\* A row that was read and not changed since.
LEMMA StoredAged ==
  ASSUME RInv, XInv, NEW p \in Periods
  PROVE  Aged(ops[p], ops[p], p) /\ Marked(ops[p], ops[p])
  BY SameItself DEF XInv, Aged, Remembered

\* A pass that has just read the row it has.
LEMMA FreshAges ==
  ASSUME NEW s, s.p \in Periods, s.row \in Operation, Good(s.row), s.base = s.row,
         Aged(s.row, s.row, s.p), s.pc \notin {"load", "claim"},
         Aged(s.caller.base, s.caller.row, s.p), Marked(s.caller.base, s.caller.row),
         s.pc = "persist" =>
           s.patch = "" /\ s.stage = "resolve" /\ Plain(s.row, s.want)
  PROVE  PassAges(s)
  <1>1. s.pc = "persist" => Dated(s.want, s.p) /\ Ages(s.row, s.want, s.patch)
    BY PlainAges DEF Aged
  <1> QED BY <1>1, SameItself DEF PassAges, Expiring

LEMMA StoredRow ==
  ASSUME RInv, XInv, NEW p \in Periods
  PROVE  ops[p] \in Operation /\ Good(ops[p]) /\ Dated(ops[p], p)
  BY TypeParts DEF RInv, XInv, PeriodGood, StoreType

LEMMA ReviewRequestAges ==
  ASSUME RInv, XInv, UnsavedGrows, NEW a \in Actors, NEW p \in Periods, ReviewRequest(a, p)
  PROVE  XInv'
  <1> DEFINE o == ops[p]
             r == [Idle EXCEPT !.stage = "resolve", !.p = p, !.row = o, !.base = o]
             s == [r EXCEPT !.pc = "resolve"]
             t == [r EXCEPT !.pc = "persist", !.then = "resolve",
                            !.want = [o EXCEPT !.review = "verify_compute"]]
  <1>1. /\ Goto(a, s) \/ Goto(a, t)
        /\ UNCHANGED <<Rest, Store>> /\ UNCHANGED external
    BY DEF ReviewRequest
  <1>2. r.p = p /\ r.row = o /\ r.base = o /\ r.patch = "" /\ r.caller = NoCaller
    BY DEF Idle
  <1>3. /\ s.p = p /\ s.row = o /\ s.base = o /\ s.pc = "resolve" /\ s.caller = NoCaller
        /\ t.p = p /\ t.row = o /\ t.base = o /\ t.pc = "persist" /\ t.patch = ""
        /\ t.stage = "resolve" /\ t.caller = NoCaller
        /\ t.want = [o EXCEPT !.review = "verify_compute"]
    BY <1>2 DEF Idle
  <1>4. Plain(o, [o EXCEPT !.review = "verify_compute"])
    BY StoredRow, RowSettings
  <1> HIDE DEF s, t
  <1>5. /\ o \in Operation /\ Good(o) /\ Aged(o, o, p)
        /\ Aged(NoCaller.base, NoCaller.row, p) /\ Marked(NoCaller.base, NoCaller.row)
    BY StoredRow, StoredAged, NoCallerFields, FreshRow, SameItself
  <1>6. PassAges(s)
    BY <1>3, <1>5, FreshAges
  <1>7. PassAges(t)
    BY <1>3, <1>4, <1>5, FreshAges
  <1> QED BY <1>1, <1>6, <1>7, AgesWalk

LEMMA ReviewVerifyAges ==
  ASSUME RInv, XInv, UnsavedGrows, NEW a \in Actors, NEW res \in Resources, ReviewVerify(a, res)
  PROVE  XInv'
  <1> DEFINE o == pass[a].row
             n == [o EXCEPT !.review = "verify_storage"]
             m == [o EXCEPT !.status = "verifying", !.phase = "entitlement",
                            !.review = "entitlement"]
  <1>1. /\ \/ Save(a, n, "", "resolve") \/ Save(a, m, "", "resolve")
           \/ Goto(a, Idle)
        /\ o.status = "manual_review" /\ pass[a].pc = "resolve"
        /\ UNCHANGED <<Rest, Store>> /\ UNCHANGED external
    BY DEF ReviewVerify, At
  <1>2. ReceiptsBacked'
    BY <1>1, ReceiptsStill DEF external, Store
  <1>3. o \in Operation /\ Good(o) /\ ~o.entitled
    BY <1>1, AgesOf, NotEntitled
  <1>4. Plain(o, n)
    BY <1>3, RowSettings
  <1>5. Plain(o, m)
    BY <1>3 DEF Plain, SameExpiry, Operation
  <1> QED BY <1>1, <1>2, <1>4, <1>5, ActingPoints, PlainSave, LeaveAges

LEMMA ReviewRunsAges ==
  ASSUME RInv, XInv, UnsavedGrows, NEW a \in Actors, ReviewRuns(a)
  PROVE  XInv'
  <1> PICK r \in Pass : r = pass[a] /\ PassAges(r)
    BY AgesOf
  <1> DEFINE s == [r EXCEPT !.pc = "run", !.stage = "review"]
  <1>1. Goto(a, s) /\ r.pc = "resolve" /\ UNCHANGED <<Rest, Store>> /\ UNCHANGED external
    BY DEF ReviewRuns, At
  <1>2. /\ s.p = r.p /\ s.row = r.row /\ s.base = r.base /\ s.caller = r.caller
        /\ s.pc = "run"
    BY DEF Pass
  <1> HIDE DEF s
  <1>3. PassAges(s)
    BY <1>1, <1>2, CarriedOf, KeepsAges
  <1> QED BY <1>1, <1>3, AgesWalk

\* The answer of a review: on the row it saw, or on the stored one.
LEMMA AnswerAges ==
  ASSUME RInv, XInv, UnsavedGrows, NEW a \in Actors,
         pass[a].pc \notin {"persist", "reload"},
         NEW o \in Operation, Good(o), Aged(o, o, pass[a].p),
         ReviewAnswer(a, o), UNCHANGED <<Rest, Store>>, UNCHANGED external
  PROVE  XInv'
  <1> PICK r \in Pass : r = pass[a] /\ PassAges(r) /\ PassGood(r) /\ r.p \in Periods
    BY AgesOf
  <1> DEFINE n == [o EXCEPT !.review = "completed"]
             s == [r EXCEPT !.pc = "persist", !.stage = "resolve", !.row = o,
                            !.base = o, !.want = n, !.then = "ok"]
  <1>1. Goto(a, s) \/ Goto(a, Idle)
    BY DEF ReviewAnswer
  <1>2. Plain(o, n)
    BY RowSettings
  <1> HIDE DEF n
  <1>3. /\ s.p = r.p /\ s.row = o /\ s.base = o /\ s.pc = "persist" /\ s.want = n
        /\ s.stage = "resolve" /\ s.caller = r.caller /\ s.patch = r.patch
    BY DEF Pass
  <1>4. r.patch = ""
    BY DEF PassGood
  <1> HIDE DEF s
  <1>5. Aged(r.caller.base, r.caller.row, r.p) /\ Marked(r.caller.base, r.caller.row)
    BY DEF PassAges
  <1>6. PassAges(s)
    BY <1>2, <1>3, <1>4, <1>5, FreshAges
  <1> QED BY <1>1, <1>6, AgesWalk, LeaveAges

LEMMA ReviewEndAges ==
  ASSUME RInv, XInv, UnsavedGrows, NEW a \in Actors,
         ReviewResolved(a) \/ ReviewComplete(a) \/ ReviewFailed(a)
  PROVE  XInv'
  <1>1. pass[a].p \in Periods /\ pass[a].row \in Operation
    BY AgesOf
  <1>2. /\ ops[pass[a].p] \in Operation /\ Good(ops[pass[a].p])
        /\ Aged(ops[pass[a].p], ops[pass[a].p], pass[a].p)
    BY <1>1, StoredRow, StoredAged
  <1>3. CASE ReviewResolved(a)
    <2>1. /\ ReviewAnswer(a, pass[a].row) /\ pass[a].pc = "resolve"
          /\ UNCHANGED <<Rest, Store>> /\ UNCHANGED external
      BY <1>3 DEF ReviewResolved, At
    <2>2. Good(pass[a].row) /\ Aged(pass[a].row, pass[a].row, pass[a].p)
      BY <2>1, AgesOf DEF PassAges
    <2> QED BY <1>1, <2>1, <2>2, AnswerAges
  <1>4. CASE ReviewComplete(a)
    <2>1. /\ ReviewAnswer(a, ops[pass[a].p]) /\ pass[a].pc = "complete"
          /\ UNCHANGED <<Rest, Store>> /\ UNCHANGED external
      BY <1>4 DEF ReviewComplete, At
    <2> QED BY <1>2, <2>1, AnswerAges
  <1>5. CASE ReviewFailed(a)
    <2> PICK r \in Pass : r = pass[a] /\ PassGood(r) /\ PassAges(r)
      BY AgesOf
    <2> DEFINE o == ops[r.p]
               s == [r EXCEPT !.pc = "persist", !.stage = "resolve", !.row = o,
                              !.base = o, !.want = [o EXCEPT !.review = "receipt"],
                              !.then = "err"]
    <2>1. /\ Goto(a, s) \/ Goto(a, Idle)
          /\ UNCHANGED <<Rest, Store>> /\ UNCHANGED external
      BY <1>5 DEF ReviewFailed, At
    <2>2. r.pc = "reviewFailed"
      BY <1>5 DEF ReviewFailed, At
    <2>3. /\ s.p = r.p /\ s.row = ops[r.p] /\ s.base = ops[r.p] /\ s.pc = "persist"
          /\ s.patch = r.patch /\ s.stage = "resolve" /\ s.caller = r.caller
          /\ s.want = [ops[r.p] EXCEPT !.review = "receipt"]
      BY DEF Pass
    <2>4. r.patch = ""
      BY <2>2 DEF PassGood
    <2>5. Plain(ops[r.p], [ops[r.p] EXCEPT !.review = "receipt"])
      BY <1>1, StoredRow, RowSettings
    <2> HIDE DEF s
    <2>6. Aged(r.caller.base, r.caller.row, r.p) /\ Marked(r.caller.base, r.caller.row)
      BY DEF PassAges
    <2>7. PassAges(s)
      BY <1>1, <1>2, <2>3, <2>4, <2>5, <2>6, FreshAges
    <2> QED BY <2>1, <2>7, AgesWalk, LeaveAges
  <1> QED BY <1>3, <1>4, <1>5

\* A pass that starts over keeps the time of its tick.
LEMMA LoadingAges ==
  ASSUME NEW x \in Nat, x <= now
  PROVE  PassAges([Idle EXCEPT !.pc = "load", !.now = x])
  <1> DEFINE s == [Idle EXCEPT !.pc = "load", !.now = x]
  <1>1. /\ s.pc = "load" /\ s.p = 1 /\ s.row = NoOperation /\ s.base = NoOperation
        /\ s.caller = NoCaller /\ s.now = x
    BY DEF Idle
  <1> HIDE DEF s
  <1>2. PassAges(s)
    BY <1>1, NoCallerFields, FreshRow, SameItself DEF PassAges
  <1> QED BY <1>2 DEF s

LEMMA BeginAges ==
  ASSUME RInv, XInv, UnsavedGrows, NEW a \in Actors,
         BeginPass(a) \/ LoadToReturn(a) \/ ClaimConflict(a) \/ Crash(a)
  PROVE  XInv'
  <1> PICK x \in Nat : x = now
    BY TypeParts DEF RInv, StoreType
  <1> PICK y \in Nat : y = pass[a].now
    BY PassOf, PassFields
  <1>1. /\ UNCHANGED <<Rest, Store>> /\ UNCHANGED external
        /\ \/ Goto(a, [Idle EXCEPT !.pc = "load", !.now = x])
           \/ pass[a].pc = "claim" /\ Goto(a, [Idle EXCEPT !.pc = "load", !.now = y])
           \/ Goto(a, Idle)
    BY DEF BeginPass, LoadToReturn, ClaimConflict, Crash, At
  <1>2. x <= now
    OBVIOUS
  <1>3. pass[a].pc = "claim" => y <= now
    BY AgesOf DEF PassAges
  <1>4. PassAges([Idle EXCEPT !.pc = "load", !.now = x])
    BY <1>2, LoadingAges
  <1>5. pass[a].pc = "claim" => PassAges([Idle EXCEPT !.pc = "load", !.now = y])
    BY <1>3, LoadingAges
  <1> QED BY <1>1, <1>4, <1>5, LeaveAges, AgesWalk

\* The expiry whose write failed leaves its caller with a row that is ahead.
LEMMA AheadTwice ==
  ASSUME NEW b, NEW o, NEW n, Ahead(b, o), Ahead(o, n)
  PROVE  Ahead(b, n)
  BY DEF Ahead, SameExpiry

LEMMA PersistFailsAges ==
  ASSUME RInv, XInv, UnsavedGrows, NEW a \in Actors, PersistFails(a)
  PROVE  XInv'
  <1> PICK r \in Pass : r = pass[a] /\ PassAges(r) /\ PassGood(r)
    BY AgesOf
  <1> DEFINE s == Unstored(r)
             t == Returned(s, TRUE)
  <1>1. r.pc = "persist" /\ Goto(a, t) /\ UNCHANGED <<Rest, Store>> /\ UNCHANGED external
    BY DEF PersistFails, At
  <1>2. /\ s \in Pass /\ s.p = r.p /\ s.base = r.base /\ s.caller = r.caller
        /\ s.stage = r.stage
        /\ s.row = IF r.stage \in Expiring THEN r.want ELSE r.row
    BY UnstoredRecord
  <1> HIDE DEF s
  <1>3. CASE r.stage \notin Expiring
    <2>1. Carried(s)
      BY <1>1, <1>2, <1>3 DEF PassAges, Carried
    <2>2. Onward(s, t)
      BY <1>2, ReturnedOnward
    <2> HIDE DEF t
    <2>3. PassAges(t)
      BY <2>1, <2>2, OnwardAges
    <2> QED BY <1>1, <2>3, AgesWalk
  <1>4. CASE r.stage \in Expiring
    <2>1. t = [s EXCEPT !.pc = "reload"]
      BY <1>2, <1>4 DEF Returned, Expiring
    <2>2. /\ t.p = r.p /\ t.row = r.want /\ t.base = r.base /\ t.caller = r.caller
          /\ t.stage = r.stage /\ t.pc = "reload"
      BY <1>2, <1>4, <2>1 DEF Pass
    <2> HIDE DEF t
    <2>3. /\ Aged(r.base, r.row, r.p) /\ Dated(r.want, r.p) /\ Ahead(r.row, r.want)
          /\ Near(r.row, r.want)
      BY <1>1, <1>4 DEF PassAges, PassGood, PersistGood
    <2>4. Ahead(r.base, r.want)
      BY <2>3, AheadTwice DEF Aged
    <2>5. Closing(r.want) => Closing(r.row)
      BY <2>3 DEF Closing, Near, SameMoney
    <2>6. Remembered(r.base, r.want, r.p)
      BY <2>3, <2>5 DEF Aged, Remembered, Near, SameMoney, Ahead
    <2>7. Aged(r.base, r.want, r.p)
      BY <2>3, <2>4, <2>6 DEF Aged
    <2>8. PassAges(t)
      BY <1>4, <2>2, <2>7 DEF PassAges
    <2> QED BY <1>1, <2>8, AgesWalk
  <1> QED BY <1>3, <1>4

\* A pass that could not read its row again goes on with the one it has: what is
\* ahead in it is then one whose expiry was not stored.
LEMMA UnreadAges ==
  ASSUME NEW r, NEW s, Onward(r, s), UNCHANGED <<now, ops>>, UnsavedGrows,
         Aged(r.base, r.row, r.p), Marked(r.base, r.row)',
         Aged(r.caller.base, r.caller.row, r.p), Marked(r.caller.base, r.caller.row)
  PROVE  PassAges(s)'
  <1>1. CASE s = Idle
    BY <1>1, IdleAges, AgesKept
  <1>2. CASE s # Idle
    <2>1. /\ s.p = r.p /\ s.pc \notin {"persist", "claim", "load", "resolve"}
          /\ GoesOn(r, s) \/ FallsBack(r, s)
      BY <1>2 DEF Onward, Between
    <2> PICK o, b, q, d : o = r.row /\ b = r.base /\ q = r.caller.row /\ d = r.caller.base
      OBVIOUS
    <2> DEFINE c == [row |-> o, base |-> b]
    <2>2. c.row = o /\ c.base = b
      OBVIOUS
    <2>3. (s.row = o /\ s.base = b) \/ (s.row = q /\ s.base = d)
      BY <2>1 DEF GoesOn, FallsBack
    <2>4. s.caller \in {r.caller, NoCaller, c}
      BY <2>1 DEF GoesOn, FallsBack
    <2> HIDE DEF c
    <2>5. /\ Aged(b, o, r.p)' /\ Marked(b, o)' /\ Aged(d, q, r.p)' /\ Marked(d, q)'
          /\ Aged(NoOperation, NoOperation, r.p)'
      BY RowAges, MarkedKept, FreshRow
    <2>6. Marked(NoOperation, NoOperation)'
      BY DEF Marked, SameExpiry
    <2>7. Aged(s.base, s.row, s.p)' /\ Marked(s.base, s.row)'
      BY <2>1, <2>3, <2>5
    <2>8. Aged(s.caller.base, s.caller.row, s.p)' /\ Marked(s.caller.base, s.caller.row)'
      BY <2>1, <2>2, <2>4, <2>5, <2>6, NoCallerFields
    <2> QED BY <2>1, <2>7, <2>8 DEF PassAges
  <1> QED BY <1>1, <1>2

LEMMA ReloadAges ==
  ASSUME RInv, XInv, UnsavedGrows, NEW a \in Actors, Reload(a)
  PROVE  XInv'
  <1> PICK r \in Pass : r = pass[a] /\ PassAges(r) /\ r.p \in Periods
    BY AgesOf
  <1> DEFINE u == [r EXCEPT !.row = ops[r.p], !.base = ops[r.p]]
             x == [spent EXCEPT !.faults = @ + 1, !.unsaved = @ \cup
                     (IF r.row = r.base THEN {} ELSE {r.row.expiryPaid})]
             cu == Continued(u)
             cr == Continued(r)
  <1>1. /\ Goto(a, cu) \/ (spent' = x /\ Goto(a, cr))
        /\ UNCHANGED <<Rest, Store>> /\ UNCHANGED external
    BY DEF Reload, At, Continued
  <1>2. /\ u \in Pass /\ u.p = r.p /\ u.row = ops[r.p] /\ u.base = ops[r.p]
        /\ u.caller = r.caller
    BY StoredRow DEF Pass
  <1>3. /\ Aged(r.base, r.row, r.p) /\ Aged(r.caller.base, r.caller.row, r.p)
        /\ Marked(r.caller.base, r.caller.row)
    BY DEF PassAges
  <1> HIDE DEF u
  <1>4. Carried(u)
    BY <1>2, <1>3, StoredAged DEF Carried
  <1>5. Onward(u, cu) /\ Onward(r, cr)
    BY <1>2, ContinuedOnward
  <1> HIDE DEF cu, cr
  <1>6. CASE Goto(a, cu)
    <2>1. PassAges(cu)
      BY <1>4, <1>5, OnwardAges
    <2> QED BY <1>1, <1>6, <2>1, AgesWalk
  <1>7. CASE spent' = x /\ Goto(a, cr)
    <2>1. spent \in Spent
      BY TypeParts DEF RInv, OwnersType
    <2>2. r.row # r.base => r.row.expiryPaid \in spent'.unsaved
      BY <1>7, <2>1 DEF Spent
    <2>3. Marked(r.base, r.row)'
      BY <2>2 DEF Marked, SameExpiry
    <2>4. UNCHANGED <<now, ops>>
      BY <1>1 DEF Rest, Store
    <2>5. PassAges(cr)'
      BY <1>3, <1>5, <2>3, <2>4, UnreadAges
    <2>6. ReceiptsBacked'
      BY <1>1, ReceiptsStill DEF external, Store
    <2> QED BY <1>1, <1>7, <2>5, <2>6, AgesStep
  <1> QED BY <1>1, <1>6, <1>7

-----------------------------------------------------------------------------
(* The claim and the compare-and-swap                                      *)

\* No stored row takes back what it said of the entitlement and of the expiry.
StoreGrows ==
  \A q \in Periods :
    /\ ops[q].entitled => ops'[q].entitled
    /\ ops[q].refundConfirmed => ops'[q].refundConfirmed
    /\ Closing(ops[q]) => Closing(ops'[q]) /\ ops'[q].expiryPaid = ops[q].expiryPaid
    /\ Lapsed(ops[q]) => Lapsed(ops'[q])

LEMMA AgedGrows ==
  ASSUME StoreGrows, now' = now, NEW b, NEW o, NEW p \in Periods, Aged(b, o, p)
  PROVE  Aged(b, o, p)'
  <1>1. Remembered(b, o, p)'
    <2>1. /\ o.entitled => ops'[p].entitled
          /\ o.refundConfirmed => ops'[p].refundConfirmed
          /\ Closing(o) => Closing(ops'[p]) /\ ops'[p].expiryPaid = o.expiryPaid
          /\ Lapsed(b) => Lapsed(ops'[p])
      BY DEF StoreGrows, Aged, Remembered
    <2> QED BY <2>1 DEF Remembered, Closing, Lapsed
  <1>2. Dated(o, p)'
    BY DEF Aged, Dated
  <1> QED BY <1>1, <1>2 DEF Aged

LEMMA AgesGrow ==
  ASSUME StoreGrows, now' = now, spent' = spent, NEW x, PassAges(x), x.p \in Periods
  PROVE  PassAges(x)'
  <1> PICK o, b, q, c : o = x.row /\ b = x.base /\ q = x.caller.row /\ c = x.caller.base
    OBVIOUS
  <1>1. Aged(b, o, x.p)' /\ Aged(c, q, x.p)'
    BY AgedGrows DEF PassAges
  <1>2. Marked(c, q)' /\ (Marked(b, o) => Marked(b, o)')
    BY DEF PassAges, Marked
  <1>3. Dated(x.want, x.p)' <=> Dated(x.want, x.p)
    BY DEF Dated
  <1> QED BY <1>1, <1>2, <1>3 DEF PassAges

\* A row is stored: what every copy of a row says of the expiry still holds.
LEMMA StoreAges ==
  ASSUME RInv, XInv, NEW a \in Actors, NEW p \in Periods, NEW n \in Operation,
         NEW s \in Pass, Goto(a, s), NEW r, Lands(r, s), r.p = p, r.row = n, r.base = n,
         Aged(r.caller.base, r.caller.row, p), Marked(r.caller.base, r.caller.row),
         ops' = [ops EXCEPT ![p] = n], UNCHANGED Rest, UNCHANGED external,
         UNCHANGED spent, Dated(n, p), Follows(ops[p], n),
         Closing(ops[p]) => Closing(n) /\ n.expiryPaid = ops[p].expiryPaid,
         Lapsed(ops[p]) => Lapsed(n),
         SettledBefore', ExpiryIsAlone', ExpiryShown'
  PROVE  XInv'
  <1>0. now' = now /\ receipts' = receipts /\ spent' = spent
    BY DEF Rest, external
  <1>1. /\ ops \in [Periods -> Operation]
        /\ pass \in [Actors -> Pass] /\ pass' = [pass EXCEPT ![a] = s]
    BY TypeParts DEF RInv, PassType, StoreType, Goto
  <1>2. ops'[p] = n /\ \A q \in Periods : q # p => ops'[q] = ops[q]
    BY <1>1
  <1>3. StoreGrows
    <2> SUFFICES ASSUME NEW q \in Periods
                 PROVE  /\ ops[q].entitled => ops'[q].entitled
                        /\ ops[q].refundConfirmed => ops'[q].refundConfirmed
                        /\ Closing(ops[q]) =>
                             Closing(ops'[q]) /\ ops'[q].expiryPaid = ops[q].expiryPaid
                        /\ Lapsed(ops[q]) => Lapsed(ops'[q])
      BY DEF StoreGrows
    <2>1. CASE q = p
      BY <1>2, <2>1 DEF Follows
    <2>2. CASE q # p
      BY <1>2, <2>2
    <2> QED BY <2>1, <2>2
  <1>4. ReceiptsBacked'
    <2> SUFFICES ASSUME NEW m \in 1 .. LastPeriod + 1
                 PROVE  /\ <<"renewed", m>> \in receipts => m \in Periods /\ ops'[m].entitled
                        /\ <<"refunded", m>> \in receipts =>
                             m \in Periods /\ ops'[m].refundConfirmed
                        /\ <<"expired", m>> \in receipts =>
                             \E q \in Periods :
                               /\ Closing(ops'[q]) /\ ops'[q].expiryPaid = m
                               /\ Lapsed(ops'[q]) \/ m \in spent.unsaved
      BY <1>0 DEF ReceiptsBacked, Lapsed, Closing
    <2>1. /\ <<"renewed", m>> \in receipts => m \in Periods /\ ops[m].entitled
          /\ <<"refunded", m>> \in receipts => m \in Periods /\ ops[m].refundConfirmed
          /\ <<"expired", m>> \in receipts =>
               \E q \in Periods : /\ Closing(ops[q]) /\ ops[q].expiryPaid = m
                                  /\ Lapsed(ops[q]) \/ m \in spent.unsaved
      BY DEF XInv, ReceiptsBacked
    <2> QED BY <1>3, <2>1 DEF StoreGrows
  <1>5. ASSUME NEW q \in Periods
        PROVE  Dated(ops[q], q)'
    <2>1. Dated(ops'[q], q)
      BY <1>2 DEF XInv
    <2> QED BY <1>0, <2>1 DEF Dated
  <1>6. PassAges(s)'
    <2>1. CASE s = Idle
      <3>1. Idle.p \in Periods
        BY IdleType, PassFields
      <3> QED BY <1>0, <1>3, <2>1, <3>1, IdleAges, AgesGrow
    <2>2. CASE s # Idle
      <3> PICK q, d : q = r.caller.row /\ d = r.caller.base
        OBVIOUS
      <3>1. /\ s.p = p /\ s.pc \notin {"persist", "claim", "load"}
            /\ s.pc = "resolve" => s.base = s.row
            /\ (s.row = n /\ s.base = n) \/ (s.row = q /\ s.base = d)
            /\ \/ s.caller.row = n /\ s.caller.base = n
               \/ s.caller.row = q /\ s.caller.base = d
               \/ s.caller.row = NoOperation /\ s.caller.base = NoOperation
        BY <2>2, NoCallerFields DEF Lands
      <3>2. Aged(n, n, p)'
        <4>1. Dated(n, p)'
          BY <1>0 DEF Dated
        <4>2. Remembered(n, n, p)'
          BY <1>2 DEF Remembered, Closing, Lapsed
        <4>3. Ahead(n, n)
          BY SameItself
        <4> QED BY <4>1, <4>2, <4>3 DEF Aged
      <3>3. Aged(d, q, p)' /\ Aged(NoOperation, NoOperation, p)'
        BY <1>0, <1>3, FreshRow, AgedGrows
      <3>4. Marked(n, n)' /\ Marked(d, q)' /\ Marked(NoOperation, NoOperation)'
        BY <1>0 DEF Marked, SameExpiry
      <3>5. Aged(s.base, s.row, s.p)' /\ Marked(s.base, s.row)'
        BY <3>1, <3>2, <3>3, <3>4
      <3>6. Aged(s.caller.base, s.caller.row, s.p)' /\ Marked(s.caller.base, s.caller.row)'
        BY <3>1, <3>2, <3>3, <3>4
      <3> QED BY <3>1, <3>5, <3>6 DEF PassAges
    <2> QED BY <2>1, <2>2
  <1>7. ASSUME NEW b \in Actors
        PROVE  PassAges(pass[b])'
    <2>1. CASE b = a
      BY <1>1, <1>6, <2>1, AgesNamed
    <2>2. CASE b # a
      <3> PICK x \in Pass : x = pass[b] /\ PassAges(x)
        BY AgesOf
      <3>1. PassAges(x)' /\ pass'[b] = x
        BY <1>0, <1>1, <1>3, <2>2, PassFields, AgesGrow
      <3> QED BY <3>1, AgesNamed
    <2> QED BY <2>1, <2>2
  <1> QED BY <1>4, <1>5, <1>7 DEF XInv

LEMMA Order ==
  /\ \A x, y \in Int : x < y => x # y
  /\ \A x \in Int : ~(x + 1 <= x) /\ ~(x > x) /\ x <= x
  OBVIOUS

\* A month before the current one is entitled, so it can only be settled as
\* active.
LEMMA SettledMonth ==
  ASSUME RInv, XInv, NEW p \in Periods, NEW q \in Periods, p < q,
         ops[q].status # "none"
  PROVE  /\ p < ws.paid /\ ops[p].entitled /\ ops[p].status = "active"
         /\ ops[p].expiryStatus = "" \/ ops[p].expiryPhase = "complete"
         /\ ops[p].expiryStatus # "past_due"
  <1>1. p \in Int /\ q \in Int /\ ws.paid \in Int
    <2>1. ws.paid \in 1 .. LastPeriod + 1
      BY TypeParts DEF RInv, StoreType, WsType
    <2> QED BY <2>1, Constants
  <1>2. PeriodGood(p) /\ PeriodGood(q)
    BY DEF RInv
  <1>3. q <= ws.paid
    BY <1>2 DEF PeriodGood
  <1>4. p < ws.paid
    BY <1>1, <1>3
  <1>5. ops[p].entitled /\ Good(ops[p])
    BY <1>1, <1>2, <1>4 DEF PeriodGood
  <1>6. terminalWorkspaceRenewal(ops[p])
    BY DEF XInv, SettledBefore
  <1>7. ops[p].status \in {"verifying", "active"}
    BY <1>5 DEF Good
  <1>8. ops[p].expiryStatus # "past_due"
    BY <1>5, StoredRow DEF Dated
  <1> QED BY <1>4, <1>5, <1>6, <1>7, <1>8 DEF terminalWorkspaceRenewal

\* The row of a month that was not begun carries no expiry.
LEMMA UnbegunMonth ==
  ASSUME RInv, NEW p \in Periods, ops[p].expiryStatus # ""
  PROVE  ops[p].status # "none"
  <1>1. ops[p].status = "none" => ops[p] = NoOperation
    BY DEF RInv, PeriodGood, Good
  <1> QED BY <1>1, NoOperationFields

LEMMA PaidAndPeriods ==
  ASSUME RInv
  PROVE  /\ ws.paid \in Int /\ \A q \in Periods : q \in Int
         /\ \A q \in Periods : ops[q].status # "none" => q <= ws.paid
         /\ \A q \in Periods : ws.paid > q => ops[q].entitled /\ ops[q].status # "none"
  <1>1. ws.paid \in 1 .. LastPeriod + 1
    BY TypeParts DEF RInv, StoreType, WsType
  <1>2. ws.paid \in Int /\ \A q \in Periods : q \in Int
    BY <1>1, Constants
  <1>3. ASSUME NEW q \in Periods
        PROVE  /\ ops[q].status # "none" => q <= ws.paid
               /\ ws.paid > q => ops[q].entitled /\ ops[q].status # "none"
    <2>1. PeriodGood(q)
      BY DEF RInv
    <2> QED BY <2>1 DEF PeriodGood, Good
  <1> QED BY <1>2, <1>3

LEMMA ClaimAgesPreserved ==
  ASSUME RInv, XInv, NEW a \in Actors, Claim(a)
  PROVE  XInv'
  <1> PICK r \in Pass : r = pass[a] /\ PassAges(r) /\ PassGood(r)
    BY AgesOf
  <1> PICK n \in Operation : n = r.want
    BY PassFields
  <1> PICK p \in Periods : p = r.p
    BY PassFields
  <1>1. /\ r.pc = "claim" /\ ClaimHolds(r.seen) /\ ops' = [ops EXCEPT ![p] = n]
        /\ UNCHANGED Rest /\ UNCHANGED ws /\ UNCHANGED external /\ UNCHANGED spent
    BY DEF Claim, At
  <1>2. ops = r.seen.ops /\ ws.paid = r.seen.paid
    BY <1>1 DEF ClaimHolds
  <1>3. /\ Follows(ops[p], n) /\ n.status # "none"
        /\ ops[p].status = "none" => p = ws.paid
    BY <1>1, <1>2 DEF PassGood, ClaimGood, Follows
  <1> PICK o : o = ops[p]
    OBVIOUS
  <1>4. /\ Dated(n, p)
        /\ o.expiryStatus # "" => SameExpiry(o, n) /\ n.status = o.status
        /\ o.expiryStatus = "" /\ n.expiryStatus # "" =>
             /\ n.expiryPhase = "suspend" /\ n.expiryPaid = ws.paid
             /\ p # ws.paid => ~terminalWorkspaceRenewal(o)
        /\ o.expiryStatus = "" /\ n.expiryStatus = "" /\ o.status # "none" =>
             n.status = o.status
        /\ o.status = "none" =>
             \A q \in Periods : ops[q].status # "none" =>
               /\ terminalWorkspaceRenewal(ops[q])
               /\ ~Covering(q)
    BY <1>1, <1>2 DEF PassAges, ClaimAges, Covering
  <1>5. PICK c \in Pass, t \in Pass :
          /\ Goto(a, t) /\ Lands(c, t) /\ c.p = p /\ c.row = n /\ c.base = n
          /\ Aged(c.caller.base, c.caller.row, p) /\ Marked(c.caller.base, c.caller.row)
    BY ClaimTarget DEF PassAges
  <1>6. ops'[p] = n /\ \A q \in Periods : q # p => ops'[q] = ops[q]
    BY <1>1, TypeParts DEF RInv, StoreType
  <1>7. Lapsed(n) => Lapsed(o) /\ n.expiryPaid = o.expiryPaid
    BY <1>4 DEF Lapsed, SameExpiry
  <1>8. /\ Closing(o) => Closing(n) /\ n.expiryPaid = o.expiryPaid
        /\ Lapsed(o) => Lapsed(n)
    <2>1. o.expiryStatus # "" => n.expiryStatus # "" /\ n.expiryPaid = o.expiryPaid
      BY <1>4 DEF SameExpiry
    <2>2. Closing(o) => n.entitled \/ n.refundConfirmed \/ ~n.attempted
      BY <1>3 DEF Follows, Quiet, Closing
    <2> QED BY <1>4, <2>1, <2>2 DEF Lapsed, SameExpiry, Closing
  <1>9. SettledBefore'
    <2> SUFFICES ASSUME NEW m \in Periods, NEW q \in Periods, m < q,
                        ops'[q].status # "none"
                 PROVE  terminalWorkspaceRenewal(ops'[m])
      BY DEF SettledBefore, terminalWorkspaceRenewal
    <2>1. CASE m # p
      <3>1. CASE ops[q].status # "none"
        BY <1>6, <2>1, <3>1 DEF XInv, SettledBefore
      <3>2. CASE ops[q].status = "none"
        <4>1. q = p /\ o.status = "none" /\ q = ws.paid
          BY <1>3, <1>6, <3>2
        <4>2. ops[m].status # "none"
          BY <4>1, PaidAndPeriods
        <4> QED BY <1>4, <1>6, <2>1, <4>1, <4>2
      <3> QED BY <3>1, <3>2
    <2>2. CASE m = p
      <3>1. q # p /\ ops[q].status # "none"
        BY <1>6, <2>2, PaidAndPeriods
      <3>2. /\ p < ws.paid /\ o.status = "active"
            /\ o.expiryStatus = "" \/ o.expiryPhase = "complete"
        BY <2>2, <3>1, SettledMonth
      <3>3. terminalWorkspaceRenewal(o)
        BY <3>2 DEF terminalWorkspaceRenewal
      <3>4. p # ws.paid
        <4>1. p \in Int /\ ws.paid \in Int
          BY PaidAndPeriods
        <4> QED BY <3>2, <4>1, Order
      <3>5. n.status = "active" /\ (n.expiryStatus = "" \/ n.expiryPhase = "complete")
        BY <1>4, <3>2, <3>3, <3>4 DEF SameExpiry
      <3> QED BY <1>6, <2>2, <3>5 DEF terminalWorkspaceRenewal
    <2> QED BY <2>1, <2>2
  <1>10. ExpiryIsAlone'
    <2> SUFFICES ASSUME NEW q \in Periods, ops'[q].expiryStatus # "",
                        ops'[q].expiryPaid = ws.paid, ws.paid \in Periods, q # ws.paid
                 PROVE  ops'[ws.paid].status = "none"
      BY <1>1 DEF ExpiryIsAlone, Covering
    <2>1. CASE q # p
      <3>1. Covering(q) /\ ops[q].status # "none"
        BY <1>6, <2>1, UnbegunMonth DEF Covering
      <3>2. ops[ws.paid].status = "none"
        BY <3>1 DEF XInv, ExpiryIsAlone
      <3>3. o.status # "none"
        BY <1>4, <3>1
      <3> QED BY <1>6, <3>2, <3>3
    <2>2. CASE q = p
      <3>1. CASE o.expiryStatus # ""
        <4>1. Covering(p)
          BY <1>4, <1>6, <2>2, <3>1 DEF Covering, SameExpiry
        <4> QED BY <1>6, <2>2, <4>1 DEF XInv, ExpiryIsAlone
      <3>2. CASE o.expiryStatus = ""
        <4>1. ~terminalWorkspaceRenewal(o)
          BY <1>4, <1>6, <2>2, <3>2
        <4>2. o.status # "none"
          BY <1>3, <2>2
        <4>3. p < ws.paid
          <5>1. p <= ws.paid /\ p \in Int /\ ws.paid \in Int /\ p # ws.paid
            BY <2>2, <4>2, PaidAndPeriods
          <5> QED BY ONLY <5>1
        <4>4. ops[ws.paid].status = "none"
          BY <4>1, <4>3 DEF XInv, SettledBefore
        <4> QED BY <1>6, <2>2, <4>4
      <3> QED BY <3>1, <3>2
    <2> QED BY <2>1, <2>2
  <1>11. ExpiryShown'
    <2>1. ASSUME ws.suspended
          PROVE  \E q \in Periods : ops'[q].expiryStatus # "" /\ ops'[q].expiryPaid = ws.paid
      <3> PICK q \in Periods : ops[q].expiryStatus # "" /\ ops[q].expiryPaid = ws.paid
        BY <2>1 DEF XInv, ExpiryShown, Covering
      <3>1. ops'[q].expiryStatus # "" /\ ops'[q].expiryPaid = ws.paid
        BY <1>4, <1>6 DEF SameExpiry
      <3> QED BY <3>1
    <2>2. ASSUME NEW q \in Periods
          PROVE  /\ ops'[q].expiryStatus # "" => ws.paid = ops'[q].expiryPaid
                 /\ Lapsed(ops'[q]) => \/ ws.paid \in spent.unsaved
                                       \/ ws.suspended /\ ~ws.auto /\ ws.closed
                 /\ ops'[q].expiryStatus = "past_due" /\ ops'[q].expiryPhase # "suspend" =>
                      ws.suspended \/ ws.paid \in spent.unsaved
      <3>1. /\ ops[q].expiryStatus # "" => ws.paid = ops[q].expiryPaid
            /\ Lapsed(ops[q]) => \/ ws.paid \in spent.unsaved
                                 \/ ws.suspended /\ ~ws.auto /\ ws.closed
            /\ ops[q].expiryStatus = "past_due" /\ ops[q].expiryPhase # "suspend" =>
                 ws.suspended \/ ws.paid \in spent.unsaved
        BY DEF XInv, ExpiryShown
      <3>2. CASE q = p
        BY <1>4, <1>6, <1>7, <3>1, <3>2 DEF SameExpiry
      <3>3. CASE q # p
        BY <1>6, <3>1, <3>3
      <3> QED BY <3>2, <3>3
    <2>3. (ws.suspended => \E q \in Periods : Covering(q))'
      BY <1>1, <2>1 DEF Covering
    <2>4. (\A q \in Periods :
             /\ ops[q].expiryStatus # "" => ws.paid = ops[q].expiryPaid
             /\ Lapsed(ops[q]) => \/ ws.paid \in spent.unsaved
                                  \/ ws.suspended /\ ~ws.auto /\ ws.closed
             /\ ops[q].expiryStatus = "past_due" /\ ops[q].expiryPhase # "suspend" =>
                  ws.suspended \/ ws.paid \in spent.unsaved)'
      BY <1>1, <2>2 DEF Lapsed
    <2> QED BY <2>3, <2>4 DEF ExpiryShown
  <1> QED BY <1>1, <1>3, <1>4, <1>5, <1>8, <1>9, <1>10, <1>11, StoreAges

\* The compared columns fix what a write of the row says of the expiry, as far as
\* the row in memory is the one that is compared.
LEMMA ComparedRow ==
  ASSUME NEW o \in Operation, NEW b \in Operation, NEW w \in Operation, NEW p,
         SameResult(o, b), Near(b, w), Ahead(b, w), Marked(b, w), Good(w),
         Dated(o, p), Dated(w, p), NEW n, NEW patch, Ages(w, n, patch)
  PROVE  AgesStored(o, n, patch) /\ o.expiryPaid = w.expiryPaid
  <1>1. SameExpiry(o, b) /\ SameMoney(o, b) /\ o.phase = b.phase
    BY DEF Operation, SameResult, SameExpiry, SameMoney
  <1>2. SameMoney(o, w) /\ o.phase = w.phase /\ o.expiryPaid = w.expiryPaid
    BY <1>1 DEF Near, SameMoney, Ahead, SameExpiry
  <1>3. o.status = "active" <=> w.status = "active"
    BY <1>2 DEF Dated, SameMoney
  <1>4. o.expiryStatus = "" <=> w.expiryStatus = ""
    BY <1>1 DEF Near, SameExpiry
  <1>5. o.expiryPhase \notin {"suspend", "financial"} => SameExpiry(o, w)
    BY <1>1 DEF Ahead, SameExpiry
  <1>6. w.expiryStatus = "past_due" => o.expiryStatus = "past_due"
    BY <1>1 DEF Ahead, SameExpiry
  <1>7. Lapsed(o) => Lapsed(w)
    BY <1>5 DEF Lapsed, SameExpiry
  <1>8. Closing(o) <=> Closing(w)
    BY <1>2, <1>4 DEF Closing, SameMoney
  <1>9. /\ o.status = "active" => n.status = "active"
        /\ o.expiryStatus = "" => n.expiryStatus = ""
        /\ o.expiryStatus # "" /\ patch # "recover" =>
             /\ n.expiryStatus # "" /\ n.expiryPaid = o.expiryPaid
             /\ o.expiryPhase = "complete" => n.expiryPhase = "complete"
    BY <1>2, <1>3, <1>4, <1>5 DEF Ages, SameExpiry
  <1>10. /\ patch \in {"suspend", "expire", "close"} => o.expiryStatus # ""
         /\ patch = "entitle" => o.expiryStatus = ""
         /\ patch = "recover" =>
              o.expiryStatus = "past_due" /\ ~Closing(o) /\ n.expiryStatus = ""
         /\ Lapsed(o) => Lapsed(n)
    BY <1>4, <1>6, <1>7, <1>8 DEF Ages
  <1>11. \/ n.expiryPaid \in spent.unsaved
         \/ /\ patch = "close" => o.expiryStatus = "past_due" /\ o.expiryPhase # "suspend"
            /\ Lapsed(n) /\ ~Lapsed(o) => patch \in {"expire", "close"}
            /\ n.expiryStatus = "past_due" /\ n.expiryPhase # "suspend" =>
                 \/ o.expiryStatus = "past_due" /\ o.expiryPhase # "suspend"
                 \/ patch = "suspend"
    <2>1. CASE SameExpiry(o, w)
      <3>1. Lapsed(w) <=> Lapsed(o)
        BY <2>1 DEF Lapsed, SameExpiry
      <3> QED BY <2>1, <3>1 DEF Ages, SameExpiry
    <2>2. CASE ~SameExpiry(o, w)
      <3>1. w.expiryPaid \in spent.unsaved
        BY <1>1, <2>2 DEF Marked, SameExpiry
      <3>2. w.expiryStatus # ""
        <4>1. w.expiryStatus = "" => b = w
          BY DEF Near
        <4> QED BY <1>1, <2>2, <4>1
      <3>3. CASE patch = "recover"
        <4>1. n.expiryStatus = ""
          BY <1>10, <3>3
        <4>2. ~Lapsed(n)
          BY <4>1 DEF Lapsed
        <4> QED BY <3>3, <4>1, <4>2
      <3>4. CASE patch # "recover"
        BY <3>1, <3>2, <3>4 DEF Ages
      <3> QED BY <3>3, <3>4
    <2> QED BY <2>1, <2>2
  <1> QED BY <1>2, <1>9, <1>10, <1>11 DEF AgesStored

\* What the patch does to the Workspace row: only an entitlement gives access
\* back, and only one that recovers a month that is past due.
LEMMA PatchedExpiry ==
  ASSUME RInv, NEW r \in Pass, PatchHolds(r), ws' = Patched(r)
  PROVE  /\ r.patch \in {"suspend", "expire", "close"} => ws.paid = r.row.expiryPaid
         /\ r.patch # "recover" /\ ws.suspended => ws'.suspended
         /\ r.patch = "recover" => ~ws'.suspended
         /\ r.patch \in {"suspend", "expire"} => ws'.suspended
         /\ r.patch \notin {"suspend", "expire"} /\ ws'.suspended => ws.suspended
         /\ r.patch \in {"expire", "close"} => ~ws'.auto /\ ws'.closed
         /\ r.patch \notin Entitling /\ ws.closed => ws'.closed
         /\ ~ws.auto => ~ws'.auto
  <1> PICK w \in WsType : w = ws
    BY TypeParts DEF RInv, StoreType
  <1>0. r.patch \in PatchNames
    BY PassFields
  <1>1. CASE r.patch = ""
    BY <1>1 DEF Patched, Entitling
  <1>2. CASE r.patch = "suspend"
    BY <1>2 DEF Patched, PatchHolds, Entitling, WsType
  <1>3. CASE r.patch = "expire"
    BY <1>3 DEF Patched, PatchHolds, Entitling, WsType
  <1>4. CASE r.patch = "close"
    BY <1>4 DEF Patched, PatchHolds, Entitling, WsType
  <1>5. CASE r.patch = "entitle"
    <2>1. ws' = [w EXCEPT !.paid = r.p + 1, !.closed = FALSE]
      BY <1>5 DEF Patched
    <2>2. ws'.suspended = w.suspended /\ ws'.auto = w.auto
      BY ONLY <2>1, w \in WsType DEF WsType
    <2> QED BY <1>5, <2>2 DEF Entitling
  <1>6. CASE r.patch = "recover"
    <2>1. ws' = [w EXCEPT !.paid = r.p + 1, !.closed = FALSE, !.suspended = FALSE]
      BY <1>6 DEF Patched
    <2>2. ws'.suspended = FALSE /\ ws'.auto = w.auto
      BY ONLY <2>1, w \in WsType DEF WsType
    <2> QED BY <1>6, <2>2 DEF Entitling
  <1> QED BY <1>0, <1>1, <1>2, <1>3, <1>4, <1>5, <1>6 DEF PatchNames

\* No stored expiry stands in the way of an entitlement.
LEMMA EntitlesAccess ==
  ASSUME RInv, XInv, NEW p \in Periods, ws.paid = p, ops[p].status # "none",
         NEW q \in Periods, Covering(q)
  PROVE  q = p
  BY DEF XInv, ExpiryIsAlone

LEMMA PersistAgesPreserved ==
  ASSUME RInv, XInv, NEW a \in Actors, Persist(a)
  PROVE  XInv'
  <1> PICK r \in Pass : r = pass[a] /\ PassAges(r) /\ PassGood(r)
    BY AgesOf
  <1> PICK n \in Operation : n = r.want
    BY PassFields
  <1> PICK p \in Periods : p = r.p
    BY PassFields
  <1> PICK patch \in PatchNames : patch = r.patch
    BY PassFields
  <1> PICK o \in Operation : o = ops[p]
    BY StoredRow
  <1>1. /\ r.pc = "persist" /\ SameResult(o, r.base) /\ PatchHolds(r)
        /\ ops' = [ops EXCEPT ![p] = n] /\ ws' = Patched(r)
        /\ UNCHANGED Rest /\ UNCHANGED external /\ UNCHANGED spent
    BY DEF Persist, PersistHolds, At
  <1>2. /\ Follows(r.row, n) /\ n.status # "none" /\ r.row \in Operation
        /\ r.base \in Operation /\ Near(r.base, r.row) /\ Good(r.row) /\ o.status # "none"
    BY <1>1, PassFields DEF PassGood, PersistGood, Follows, PcHolds, Known, Held
  <1>3. Follows(o, n)
    <2>1. SameMoney(o, r.base) /\ o.expiryStatus = r.base.expiryStatus
      BY <1>1, <1>2, SameResultFields
    <2>2. SameMoney(o, r.row) /\ (o.expiryStatus = "" <=> r.row.expiryStatus = "")
      BY <1>2, <2>1 DEF Near, SameMoney
    <2> QED BY <1>2, <2>2 DEF Follows, SameMoney, Quiet
  <1>4. /\ Dated(o, p) /\ Dated(n, p) /\ AgesStored(o, n, patch)
        /\ o.expiryPaid = r.row.expiryPaid
    <2>1. Dated(o, p)
      BY StoredRow
    <2>2. /\ Dated(r.row, p) /\ Ahead(r.base, r.row) /\ Marked(r.base, r.row)
          /\ Dated(n, p) /\ Ages(r.row, n, patch)
      BY <1>1 DEF PassAges, Aged
    <2> QED BY <1>1, <1>2, <2>1, <2>2, ComparedRow
  <1>5. PICK c \in Pass, t \in Pass :
          /\ Goto(a, t) /\ Lands(c, t) /\ c.p = p /\ c.row = n /\ c.base = n
          /\ Aged(c.caller.base, c.caller.row, p) /\ Marked(c.caller.base, c.caller.row)
    BY PersistTarget DEF PassAges
  <1>6. ops'[p] = n /\ \A q \in Periods : q # p => ops'[q] = ops[q]
    BY <1>1, TypeParts DEF RInv, StoreType
  <1>7. /\ patch \notin Entitling => ws'.paid = ws.paid
        /\ patch \in Entitling => ws.paid = p /\ ws'.paid = p + 1
    BY <1>1, PatchedWs
  <1>8. /\ patch \in {"suspend", "expire", "close"} => ws.paid = o.expiryPaid
        /\ patch # "recover" /\ ws.suspended => ws'.suspended
        /\ patch = "recover" => ~ws'.suspended
        /\ patch \in {"suspend", "expire"} => ws'.suspended
        /\ patch \notin {"suspend", "expire"} /\ ws'.suspended => ws.suspended
        /\ patch \in {"expire", "close"} => ~ws'.auto /\ ws'.closed
        /\ patch \notin Entitling /\ ws.closed => ws'.closed
        /\ ~ws.auto => ~ws'.auto
    BY <1>1, <1>4, PatchedExpiry
  <1>9. /\ Closing(o) => Closing(n) /\ n.expiryPaid = o.expiryPaid
        /\ Lapsed(o) => Lapsed(n)
    <2>1. Closing(o) => n.expiryStatus # "" /\ n.expiryPaid = o.expiryPaid
      BY <1>4 DEF AgesStored, Closing
    <2>2. Closing(o) => n.entitled \/ n.refundConfirmed \/ ~n.attempted
      BY <1>3 DEF Follows, Quiet, Closing
    <2> QED BY <1>4, <2>1, <2>2 DEF AgesStored, Closing
  <1>10. \A q \in Periods : ops'[q].status # "none" <=> ops[q].status # "none"
    BY <1>2, <1>6
  <1>11. ASSUME NEW q \in Periods, Covering(q)
         PROVE  /\ patch # "entitle"
                /\ patch = "recover" => q = p
                /\ patch # "recover" =>
                     ops'[q].expiryStatus # "" /\ ops'[q].expiryPaid = ws.paid
    <2>1. patch \in Entitling => q = p
      BY <1>2, <1>7, <1>11, EntitlesAccess
    <2>2. CASE q = p
      BY <1>4, <1>6, <1>11, <2>2 DEF AgesStored, Covering
    <2>3. CASE q # p
      BY <1>6, <1>11, <2>1, <2>3 DEF Covering, Entitling
    <2> QED BY <2>1, <2>2, <2>3 DEF Entitling
  <1>12. SettledBefore'
    <2> SUFFICES ASSUME NEW m \in Periods, NEW q \in Periods, m < q,
                        ops'[q].status # "none"
                 PROVE  terminalWorkspaceRenewal(ops'[m])
      BY DEF SettledBefore, terminalWorkspaceRenewal
    <2>1. CASE m # p
      BY <1>6, <1>10, <2>1 DEF XInv, SettledBefore
    <2>2. CASE m = p
      <3>1. /\ o.status = "active" /\ o.expiryStatus # "past_due"
            /\ o.expiryStatus = "" \/ o.expiryPhase = "complete"
        BY <1>10, <2>2, SettledMonth
      <3>2. n.status = "active" /\ (n.expiryStatus = "" \/ n.expiryPhase = "complete")
        BY <1>4, <3>1 DEF AgesStored
      <3> QED BY <1>6, <2>2, <3>2 DEF terminalWorkspaceRenewal
    <2> QED BY <2>1, <2>2
  <1>13. ExpiryIsAlone'
    <2> SUFFICES ASSUME NEW q \in Periods, ops'[q].expiryStatus # "",
                        ops'[q].expiryPaid = ws'.paid, ws'.paid \in Periods, q # ws'.paid
                 PROVE  ops'[ws'.paid].status = "none"
      BY DEF ExpiryIsAlone, Covering
    <2>1. CASE patch \in Entitling
      <3> PICK m \in Periods : m = ws'.paid
        OBVIOUS
      <3>1. m = p + 1 /\ ws.paid = p
        BY <1>7, <2>1
      <3>2. ~(m <= ws.paid)
        <4>1. p \in Int
          BY PaidAndPeriods
        <4> QED BY <3>1, <4>1, Order
      <3>3. ops[m].status = "none"
        BY <3>2, PaidAndPeriods
      <3> QED BY <1>10, <3>3
    <2>2. CASE patch \notin Entitling
      <3>1. ws'.paid = ws.paid
        BY <1>7, <2>2
      <3>2. Covering(q)
        <4>1. CASE q = p
          BY <1>4, <1>6, <2>2, <3>1, <4>1 DEF AgesStored, Covering, Entitling
        <4>2. CASE q # p
          BY <1>6, <3>1, <4>2 DEF Covering
        <4> QED BY <4>1, <4>2
      <3>3. ops[ws.paid].status = "none"
        BY <3>1, <3>2 DEF XInv, ExpiryIsAlone
      <3> QED BY <1>10, <3>1, <3>3
    <2> QED BY <2>1, <2>2
  <1>14. ASSUME ws'.suspended
         PROVE  \E q \in Periods : ops'[q].expiryStatus # "" /\ ops'[q].expiryPaid = ws'.paid
    <2>1. CASE patch \in {"suspend", "expire", "close"}
      <3>1. ws'.paid = ws.paid /\ ws.paid = o.expiryPaid
        BY <1>7, <1>8, <2>1 DEF Entitling
      <3>2. n.expiryStatus # "" /\ n.expiryPaid = o.expiryPaid
        BY <1>4, <2>1 DEF AgesStored
      <3> QED BY <1>6, <3>1, <3>2
    <2>2. CASE patch \notin {"suspend", "expire", "close"}
      <3>1. ws.suspended /\ patch # "recover"
        BY <1>8, <1>14, <2>2
      <3> PICK q \in Periods : Covering(q)
        BY <3>1 DEF XInv, ExpiryShown
      <3>2. patch \notin Entitling
        BY <1>11, <3>1 DEF Entitling
      <3>3. ops'[q].expiryStatus # "" /\ ops'[q].expiryPaid = ws'.paid
        BY <1>7, <1>11, <3>1, <3>2
      <3> QED BY <3>3
    <2> QED BY <2>1, <2>2
  <1>15. ASSUME NEW q \in Periods, ops'[q].expiryStatus # ""
         PROVE  patch \notin Entitling /\ ws'.paid = ops'[q].expiryPaid
    <2>1. ops[q].expiryStatus # ""
      BY <1>4, <1>6, <1>15 DEF AgesStored
    <2>2. Covering(q)
      BY <2>1 DEF XInv, ExpiryShown, Covering
    <2>3. patch # "recover"
      BY <1>4, <1>6, <1>11, <1>15, <2>2 DEF AgesStored
    <2> QED BY <1>7, <1>11, <2>2, <2>3 DEF Entitling
  <1>16. ASSUME NEW q \in Periods, Lapsed(ops'[q])
         PROVE  \/ ws'.paid \in spent.unsaved
                \/ ws'.suspended /\ ~ws'.auto /\ ws'.closed
    <2>0. patch \notin Entitling /\ ws'.paid = ops'[q].expiryPaid /\ ws'.paid = ws.paid
      BY <1>7, <1>15, <1>16 DEF Lapsed
    <2>1. CASE Lapsed(ops[q])
      <3>1. ws.paid \in spent.unsaved \/ (ws.suspended /\ ~ws.auto /\ ws.closed)
        BY <2>1 DEF XInv, ExpiryShown
      <3> QED BY <1>8, <2>0, <3>1 DEF Entitling
    <2>2. CASE ~Lapsed(ops[q])
      <3>1. q = p /\ Lapsed(n) /\ ~Lapsed(o)
        BY <1>6, <1>16, <2>2
      <3>2. CASE n.expiryPaid \in spent.unsaved
        BY <1>6, <2>0, <3>1, <3>2
      <3>3. CASE n.expiryPaid \notin spent.unsaved
        <4>1. /\ patch \in {"expire", "close"}
              /\ patch = "close" => o.expiryStatus = "past_due" /\ o.expiryPhase # "suspend"
          BY <1>4, <3>1, <3>3 DEF AgesStored
        <4>2. CASE patch = "expire"
          BY <1>8, <4>2
        <4>3. CASE patch = "close"
          <5>1. ws.suspended \/ ws.paid \in spent.unsaved
            BY <4>1, <4>3 DEF XInv, ExpiryShown
          <5> QED BY <1>8, <2>0, <4>3, <5>1
        <4> QED BY <4>1, <4>2, <4>3
      <3> QED BY <3>2, <3>3
    <2> QED BY <2>1, <2>2
  <1>17. ASSUME NEW q \in Periods, ops'[q].expiryStatus = "past_due",
                ops'[q].expiryPhase # "suspend"
         PROVE  ws'.suspended \/ ws'.paid \in spent.unsaved
    <2>1. patch \notin Entitling /\ ws'.paid = ops'[q].expiryPaid /\ ws'.paid = ws.paid
      BY <1>7, <1>15, <1>17
    <2>2. CASE patch = "suspend"
      BY <1>8, <2>2
    <2>3. CASE ops[q].expiryStatus = "past_due" /\ ops[q].expiryPhase # "suspend"
      <3>1. ws.suspended \/ ws.paid \in spent.unsaved
        BY <2>3 DEF XInv, ExpiryShown
      <3> QED BY <1>8, <2>1, <3>1 DEF Entitling
    <2>4. CASE patch # "suspend" /\ ~(ops[q].expiryStatus = "past_due"
                                        /\ ops[q].expiryPhase # "suspend")
      <3>1. q = p
        BY <1>6, <1>17, <2>4
      <3>2. n.expiryPaid \in spent.unsaved
        BY <1>4, <1>6, <1>17, <2>4, <3>1 DEF AgesStored
      <3> QED BY <1>6, <2>1, <3>1, <3>2
    <2> QED BY <2>2, <2>3, <2>4
  <1>18. ExpiryShown'
    <2>1. (ws.suspended => \E q \in Periods : Covering(q))'
      BY <1>14 DEF Covering
    <2>2. (\A q \in Periods :
             /\ ops[q].expiryStatus # "" => ws.paid = ops[q].expiryPaid
             /\ Lapsed(ops[q]) => \/ ws.paid \in spent.unsaved
                                  \/ ws.suspended /\ ~ws.auto /\ ws.closed
             /\ ops[q].expiryStatus = "past_due" /\ ops[q].expiryPhase # "suspend" =>
                  ws.suspended \/ ws.paid \in spent.unsaved)'
      BY <1>1, <1>15, <1>16, <1>17 DEF Lapsed
    <2> QED BY <2>1, <2>2 DEF ExpiryShown
  <1> QED BY <1>1, <1>3, <1>4, <1>5, <1>9, <1>12, <1>13, <1>18, StoreAges

\* The row a pass claims: it opens the expiry of the month that is over, and
\* closes a month nothing was paid for.
LEMMA ClaimedRowAges ==
  ASSUME RInv, XInv, NEW a \in Workers, NEW p \in Periods, NEW expired \in BOOLEAN,
         expired => now >= ws.paid, p = ws.paid \/ ops[p].entitled
  PROVE  LET n == ClaimedRow(a, p, expired)
             o == ops[p]
         IN  /\ Dated(n, p)
             /\ o.expiryStatus # "" => SameExpiry(o, n) /\ n.status = o.status
             /\ o.expiryStatus = "" /\ n.expiryStatus # "" =>
                  n.expiryPhase = "suspend" /\ n.expiryPaid = ws.paid /\ expired
             /\ o.expiryStatus = "" /\ n.expiryStatus = "" /\ o.status # "none" =>
                  n.status = o.status
  <1> PICK o \in Operation : o = IF ops[p].status = "none"
                                   THEN newWorkspaceRenewalOperation ELSE ops[p]
    BY StoredRow, NewRows
  <1>1. Good(o) /\ Dated(o, p) /\ (o.entitled => ops[p].entitled)
    <2>1. CASE ops[p].status # "none"
      BY <2>1, StoredRow
    <2>2. CASE ops[p].status = "none"
      <3>1. o = newWorkspaceRenewalOperation
        BY <2>2
      <3>2. /\ ~o.entitled /\ o.expiryStatus = "" /\ o.expiryPhase = ""
            /\ o.status = "claimed"
        BY ONLY <3>1 DEF newWorkspaceRenewalOperation
      <3> QED BY <3>1, <3>2, NewRows DEF Dated
    <2> QED BY <2>1, <2>2
  <1>2. ops[p].status = "none" => ops[p].expiryStatus = "" /\ o.expiryStatus = ""
    <2> SUFFICES ASSUME ops[p].status = "none"
                 PROVE  ops[p].expiryStatus = "" /\ o.expiryStatus = ""
      OBVIOUS
    <2>1. o = newWorkspaceRenewalOperation
      OBVIOUS
    <2>2. o.expiryStatus = ""
      BY ONLY <2>1 DEF newWorkspaceRenewalOperation
    <2> QED BY <2>2, UnbegunMonth
  <1> PICK x \in 1 .. LastPeriod + 1 : x = ws.paid
    BY TypeParts DEF RInv, StoreType, WsType
  <1> PICK v \in {"past_due", "expired_unpaid"} :
             v = IF FinancialRecoveryRequired(o) /\ p = ws.paid
                   THEN "past_due" ELSE "expired_unpaid"
    OBVIOUS
  <1> PICK s : s = IF FinancialRecoveryRequired(o) THEN o.status ELSE "expired_unpaid"
    OBVIOUS
  <1> DEFINE b == [o EXCEPT !.expiryPhase = "suspend", !.expiryPaid = x,
                            !.expiryStatus = v, !.status = s]
             e == IF ~expired \/ o.expiryStatus # "" THEN o ELSE b
             n == [e EXCEPT !.lease = a]
  <1>3. ClaimedRow(a, p, expired) = n
    <2>1. ClaimedRow(a, p, expired) =
            [(IF ~expired \/ o.expiryStatus # "" THEN o
              ELSE [o EXCEPT !.expiryPhase = "suspend", !.expiryPaid = ws.paid,
                     !.expiryStatus = IF FinancialRecoveryRequired(o) /\ p = ws.paid
                                        THEN "past_due" ELSE "expired_unpaid",
                     !.status = IF FinancialRecoveryRequired(o) THEN o.status
                                                         ELSE "expired_unpaid"])
              EXCEPT !.lease = a]
      BY ONLY o = IF ops[p].status = "none" THEN newWorkspaceRenewalOperation
                                            ELSE ops[p] DEF ClaimedRow
    <2> QED BY ONLY <2>1, x = ws.paid,
             s = IF FinancialRecoveryRequired(o) THEN o.status ELSE "expired_unpaid",
             v = IF FinancialRecoveryRequired(o) /\ p = ws.paid
                   THEN "past_due" ELSE "expired_unpaid"
  <1>4. /\ b.expiryPhase = "suspend" /\ b.expiryPaid = x /\ b.expiryStatus = v
        /\ b.status = s /\ b.phase = o.phase /\ SameMoney(o, b)
    BY ONLY o \in Operation DEF Operation, SameMoney
  <1>5. [o EXCEPT !.lease = a].status = o.status /\ SameExpiry(o, [o EXCEPT !.lease = a])
        /\ [o EXCEPT !.lease = a].phase = o.phase /\ SameMoney(o, [o EXCEPT !.lease = a])
    BY ONLY o \in Operation DEF Operation, SameExpiry, SameMoney
  <1>6. [b EXCEPT !.lease = a].status = b.status /\ SameExpiry(b, [b EXCEPT !.lease = a])
        /\ [b EXCEPT !.lease = a].phase = b.phase /\ SameMoney(b, [b EXCEPT !.lease = a])
    BY ONLY o \in Operation DEF Operation, SameExpiry, SameMoney
  <1> HIDE DEF b
  <1>7. n.status = e.status /\ SameExpiry(e, n) /\ n.phase = e.phase /\ SameMoney(e, n)
    <2>1. e = o \/ e = b
      OBVIOUS
    <2> HIDE DEF e
    <2> QED BY <1>5, <1>6, <2>1
  <1> HIDE DEF n
  <1>8. CASE ~expired \/ o.expiryStatus # ""
    <2>1. e = o
      BY <1>8
    <2>2. SameExpiry(o, n) /\ n.status = o.status /\ SameMoney(o, n) /\ n.phase = o.phase
      BY <1>7, <2>1
    <2>3. Dated(n, p)
      BY <1>1, <2>2 DEF Dated, Closing, SameExpiry, SameMoney
    <2>4. ops[p].status # "none" => SameExpiry(ops[p], n) /\ n.status = ops[p].status
      BY <2>2
    <2>5. ops[p].status = "none" => n.expiryStatus = ""
      BY <1>2, <2>2 DEF SameExpiry
    <2> QED BY <1>2, <1>3, <2>3, <2>4, <2>5 DEF SameExpiry
  <1>9. CASE expired /\ o.expiryStatus = ""
    <2>1. e = b
      BY <1>9
    <2>2. /\ n.expiryPhase = "suspend" /\ n.expiryPaid = x /\ n.expiryStatus = v
          /\ n.status = s /\ n.phase = o.phase /\ SameMoney(o, n)
      BY <1>4, <1>7, <2>1 DEF SameExpiry, SameMoney
    <2>3. n.entitled = o.entitled /\ n.attempted = o.attempted
          /\ n.refundConfirmed = o.refundConfirmed
      BY <2>2 DEF SameMoney
    <2>4. v = "past_due" => p = ws.paid /\ ~o.entitled
      <3>1. p = ws.paid => ~ops[p].entitled
        <4>1. PeriodGood(p)
          BY DEF RInv
        <4> QED BY <4>1, Order, PaidAndPeriods DEF PeriodGood
      <3> QED BY <1>1, <3>1
    <2>5. v = "expired_unpaid" => o.entitled \/ ~o.attempted
      <3>1. ~FinancialRecoveryRequired(o) => ~o.attempted
        BY DEF FinancialRecoveryRequired
      <3>2. p # ws.paid => ops[p].entitled /\ o = ops[p]
        BY PaidAndPeriods DEF RInv, PeriodGood, Good
      <3> QED BY <3>1, <3>2
    <2>6. s = "active" <=> o.entitled /\ o.phase = "complete"
      <3>1. CASE FinancialRecoveryRequired(o)
        BY <1>1, <3>1 DEF Dated
      <3>2. CASE ~FinancialRecoveryRequired(o)
        <4>1. s = "expired_unpaid" /\ ~o.entitled
          BY <3>2 DEF FinancialRecoveryRequired
        <4> QED BY <4>1
      <3> QED BY <3>1, <3>2
    <2>7. Dated(n, p)
      BY <1>4, <1>9, <2>2, <2>3, <2>4, <2>5, <2>6 DEF Dated, Closing
    <2>8. ops[p].expiryStatus = ""
      BY <1>2, <1>9
    <2> QED BY <1>3, <1>9, <2>2, <2>7, <2>8
  <1> QED BY <1>8, <1>9

LEMMA LoadToClaimAges ==
  ASSUME RInv, XInv, UnsavedGrows, NEW a \in Workers, LoadToClaim(a)
  PROVE  XInv'
  <1>0. a \in Actors
    BY DEF Actors
  <1> PICK r \in Pass : r = pass[a] /\ PassAges(r) /\ PassGood(r)
    BY <1>0, AgesOf
  <1> DEFINE expired == r.now >= ws.paid
             seen == [paid |-> ws.paid, auto |-> ws.auto, commands |-> commands,
                      ops |-> ops]
  <1>e. expired \in BOOLEAN
    OBVIOUS
  <1>1. r.pc = "load" /\ UNCHANGED <<Rest, Store>> /\ UNCHANGED external
    BY DEF LoadToClaim, At
  <1>2. PICK p \in Selected :
          /\ ClaimWanted(p, expired, r.now)
          /\ Goto(a, [r EXCEPT !.pc = "claim", !.p = p, !.row = ops[p],
                !.base = ops[p], !.want = ClaimedRow(a, p, expired),
                !.expired = expired, !.seen = seen])
    BY DEF LoadToClaim
  <1>3. r.now <= now
    BY <1>1 DEF PassAges
  <1>4. expired => now >= ws.paid
    <2>1. now \in Int
      BY TypeParts DEF RInv, StoreType
    <2>2. r.now \in Nat
      BY PassFields
    <2>3. r.now \in Int /\ ws.paid \in Int
      BY <2>2, PaidAndPeriods
    <2> QED BY <1>3, <2>1, <2>3
  <1> HIDE DEF expired
  <1>5. p \in Periods
    BY <1>2 DEF Selected, OpenOperations
  <1>6. p = ws.paid \/ ops[p].entitled
    BY <1>2 DEF ClaimWanted, Selected, OpenOperations
  <1> PICK n : n = ClaimedRow(a, p, expired)
    OBVIOUS
  <1>7. /\ Dated(n, p)
        /\ ops[p].expiryStatus # "" => SameExpiry(ops[p], n) /\ n.status = ops[p].status
        /\ ops[p].expiryStatus = "" /\ n.expiryStatus # "" =>
             n.expiryPhase = "suspend" /\ n.expiryPaid = ws.paid
        /\ ops[p].expiryStatus = "" /\ n.expiryStatus = "" /\ ops[p].status # "none" =>
             n.status = ops[p].status
    BY <1>4, <1>5, <1>6, <1>e, ClaimedRowAges
  <1>8. ops[p].expiryStatus = "" /\ p # ws.paid => ~terminalWorkspaceRenewal(ops[p])
    BY <1>2 DEF Selected, OpenOperations, coversCurrentExpiry
  <1>9. ops[p].status = "none" =>
          \A q \in Periods : ops[q].status # "none" =>
            /\ terminalWorkspaceRenewal(ops[q])
            /\ ~(ops[q].expiryStatus # "" /\ ops[q].expiryPaid = ws.paid)
    <2> SUFFICES ASSUME ops[p].status = "none", NEW q \in Periods, ops[q].status # "none"
                 PROVE  /\ terminalWorkspaceRenewal(ops[q])
                        /\ ~(ops[q].expiryStatus # "" /\ ops[q].expiryPaid = ws.paid)
      OBVIOUS
    <2>1. OpenOperations = {}
      BY <1>2 DEF Selected, OpenOperations
    <2>2. q \notin OpenOperations
      BY <2>1
    <2>3. ops[q].expiryStatus \in {"", "past_due", "expired_unpaid"}
      BY StoredRow DEF Operation
    <2> QED BY <2>2, <2>3 DEF OpenOperations, coversCurrentExpiry
  <1> DEFINE s == [r EXCEPT !.pc = "claim", !.p = p, !.row = ops[p], !.base = ops[p],
                            !.want = n, !.expired = expired, !.seen = seen]
  <1>10. /\ s.pc = "claim" /\ s.p = p /\ s.row = ops[p] /\ s.want = n /\ s.now = r.now
         /\ s.seen = seen /\ s.base = ops[p] /\ s.caller = r.caller
    BY ONLY r \in Pass DEF Pass
  <1>11. seen.ops = ops /\ seen.paid = ws.paid
    OBVIOUS
  <1>12. Goto(a, s)
    BY <1>2
  <1> HIDE DEF s, seen
  <1>13. ClaimAges(s)
    BY <1>7, <1>8, <1>9, <1>10, <1>11 DEF ClaimAges
  <1>14. Aged(s.base, s.row, s.p) /\ Marked(s.base, s.row)
    BY <1>5, <1>10, StoredAged
  <1>c. s.caller = NoCaller
    BY <1>1, <1>10 DEF PassGood, StageGood
  <1>d. Aged(s.caller.base, s.caller.row, s.p) /\ Marked(s.caller.base, s.caller.row)
    BY <1>c, NoCallerFields, FreshRow, SameItself
  <1>15. PassAges(s)
    BY <1>3, <1>7, <1>10, <1>13, <1>14, <1>d DEF PassAges
  <1> QED BY <1>0, <1>1, <1>12, <1>15, AgesWalk

-----------------------------------------------------------------------------
(* The surroundings and the invariant                                      *)

\* No pass moves, no operation is written and no receipt recorded.
LEMMA WorldAges ==
  ASSUME RInv, XInv, UnsavedGrows, UNCHANGED <<pass, ops, receipts>>,
         now' \in Int, now <= now',
         ws'.paid = ws.paid, ws'.suspended = ws.suspended, ws'.closed = ws.closed,
         ws.closed => ws'.auto = ws.auto
  PROVE  XInv'
  <1>0. now \in Int
    BY TypeParts DEF RInv, StoreType
  <1>1. ASSUME NEW o \in Operation, NEW p, Dated(o, p)
        PROVE  Dated(o, p)'
    <2>1. o.expiryPaid \in Int
      <3>1. o.expiryPaid \in 0 .. LastPeriod + 1
        BY DEF Operation
      <3> QED BY <3>1
    <2>2. now >= o.expiryPaid => now' >= o.expiryPaid
      BY <1>0, <2>1
    <2> QED BY <1>1, <2>2 DEF Dated
  <1>a. ASSUME NEW b, NEW o \in Operation, NEW p, Aged(b, o, p)
        PROVE  Aged(b, o, p)'
    <2>1. Dated(o, p)'
      BY <1>1, <1>a DEF Aged
    <2>2. Remembered(b, o, p)'
      BY <1>a DEF Aged, Remembered
    <2> QED BY <1>a, <2>1, <2>2 DEF Aged
  <1>2. SettledBefore'
    BY DEF XInv, SettledBefore
  <1>3. ExpiryIsAlone'
    BY DEF XInv, ExpiryIsAlone, Covering
  <1>4. ExpiryShown'
    BY DEF XInv, ExpiryShown, Covering, UnsavedGrows
  <1>5. ReceiptsBacked'
    BY ReceiptsStill
  <1>6. ASSUME NEW p \in Periods
        PROVE  Dated(ops[p], p)'
    <2> PICK o \in Operation : o = ops[p]
      BY StoredRow
    <2>1. Dated(o, p)'
      BY <1>1, StoredRow
    <2> QED BY ONLY <2>1, o = ops[p], UNCHANGED ops DEF Dated
  <1>7. ASSUME NEW a \in Actors
        PROVE  PassAges(pass[a])'
    <2> PICK r \in Pass : r = pass[a] /\ PassAges(r)
      BY AgesOf
    <2>0. pass'[a] = r
      OBVIOUS
    <2>1. /\ r.row \in Operation /\ r.want \in Operation /\ r.now \in Nat
          /\ r.caller.row \in Operation
      BY PassFields
    <2> PICK b, o, c, q : b = r.base /\ o = r.row /\ c = r.caller.base /\ q = r.caller.row
      OBVIOUS
    <2>2. /\ Aged(b, o, r.p)' /\ Aged(c, q, r.p)' /\ Marked(c, q)'
          /\ Marked(b, o) => Marked(b, o)'
      BY <1>a, <2>1, MarkedKept DEF PassAges
    <2>3. r.pc \in {"load", "claim"} => r.now <= now'
      <3>1. r.now \in Int
        BY <2>1
      <3>2. r.pc \in {"load", "claim"} => r.now <= now
        BY DEF PassAges
      <3> QED BY <1>0, <3>1, <3>2
    <2>4. r.pc \in {"persist", "claim"} => Dated(r.want, r.p)'
      BY <1>1, <2>1 DEF PassAges
    <2>5. PassAges(r)'
      BY <2>2, <2>3, <2>4 DEF PassAges
    <2> QED BY <2>0, <2>5, AgesNamed
  <1> QED BY <1>2, <1>3, <1>4, <1>5, <1>6, <1>7 DEF XInv

LEMMA SurroundingsAge ==
  ASSUME RInv, XInv, UnsavedGrows,
         \/ \E auto \in BOOLEAN : AutoRenewRequest(auto)
         \/ Tick \/ UNCHANGED vars
         \/ \E p \in Periods : LeaseRunsOut(p) \/ LateRedeem(p)
         \/ \E res \in Resources : LateRenewal(res) \/ ResourceVanishes(res)
         \/ \E d \in {-1, 1} : WalletMoves(d)
  PROVE  XInv'
  <1>0. now \in Int /\ ws \in WsType
    BY TypeParts DEF RInv, StoreType
  <1>1. CASE \E auto \in BOOLEAN : AutoRenewRequest(auto)
    <2> PICK auto \in BOOLEAN : AutoRenewRequest(auto)
      BY <1>1
    <2>1. /\ UNCHANGED <<pass, ops>> /\ UNCHANGED external /\ now' = now /\ ~ws.closed
          /\ ws' = [ws EXCEPT !.auto = auto]
      BY DEF AutoRenewRequest, ApplyWorkspaceRenewalIntent, AutoRenewOpen
    <2>2. ws'.paid = ws.paid /\ ws'.suspended = ws.suspended /\ ws'.closed = ws.closed
      BY <1>0, <2>1 DEF WsType
    <2> QED BY <1>0, <2>1, <2>2, Order, WorldAges DEF external
  <1>2. CASE Tick
    <2>1. /\ UNCHANGED <<pass, ops, ws>> /\ UNCHANGED external /\ now' = now + 1
      BY <1>2 DEF Tick
    <2>2. now' \in Int /\ now <= now'
      BY <1>0, <2>1
    <2> QED BY <2>1, <2>2, WorldAges DEF external
  <1>3. ASSUME UNCHANGED <<pass, now, Store, receipts>>
        PROVE  XInv'
    BY <1>0, <1>3, Order, WorldAges DEF Store
  <1>4. CASE UNCHANGED vars
    BY <1>3, <1>4 DEF vars, Store
  <1>5. CASE \E p \in Periods : LeaseRunsOut(p)
    <2>1. UNCHANGED <<pass, ops, ws, now>> /\ UNCHANGED external
      BY <1>5 DEF LeaseRunsOut
    <2> QED BY <1>0, <2>1, Order, WorldAges DEF external
  <1>6. CASE \E p \in Periods : LateRedeem(p)
    BY <1>3, <1>6 DEF LateRedeem
  <1>7. CASE \E res \in Resources : LateRenewal(res) \/ ResourceVanishes(res)
    BY <1>3, <1>7 DEF LateRenewal, ResourceVanishes
  <1>8. CASE \E d \in {-1, 1} : WalletMoves(d)
    BY <1>3, <1>8 DEF WalletMoves
  <1> QED BY <1>1, <1>2, <1>4, <1>5, <1>6, <1>7, <1>8

LEMMA InitAges == Init => XInv
  <1> SUFFICES ASSUME Init PROVE XInv
    OBVIOUS
  <1>1. \A p \in Periods : ops[p] = NoOperation
    BY DEF Init
  <1>2. SettledBefore /\ ExpiryIsAlone
    BY <1>1, NoOperationFields DEF SettledBefore, ExpiryIsAlone, Covering
  <1>3. ExpiryShown
    <2>1. ~ws.suspended
      BY DEF Init
    <2> QED BY <1>1, <2>1, NoOperationFields, FreshRow DEF ExpiryShown
  <1>4. ReceiptsBacked
    BY DEF Init, ReceiptsBacked
  <1>5. \A p \in Periods : Dated(ops[p], p)
    BY <1>1, FreshRow
  <1>6. \A a \in Actors : PassAges(pass[a])
    BY IdleAges DEF Init
  <1> QED BY <1>2, <1>3, <1>4, <1>5, <1>6 DEF XInv

LEMMA WorkerAges ==
  ASSUME RInv, XInv, UnsavedGrows, NEW a \in Workers, BeginPass(a) \/ WorkerStep(a)
  PROVE  XInv'
  <1>0. a \in Actors
    BY DEF Actors
  <1>1. CASE \/ BeginPass(a) \/ LoadToReturn(a) \/ ClaimConflict(a)
             \/ LoadToClaim(a) \/ Claim(a) \/ Reload(a)
    BY <1>0, <1>1, BeginAges, LoadToClaimAges, ClaimAgesPreserved, ReloadAges
  <1>2. CASE \/ ExpirySuspend(a) \/ ExpiryFinancial(a) \/ ExpiryReturns(a)
             \/ ExpiryReceipt(a) \/ ExpiryReceiptNotDue(a)
    BY <1>0, <1>2, ExpiryAges, ExpiryReceiptAges, ExpiryReceiptNotDueAges
  <1>3. CASE \/ RunInsufficient(a) \/ RunClaimed(a) \/ DebitFirst(a) \/ DebitRecover(a)
             \/ DebitConfirmed(a) \/ ChargeSub2API(a) \/ PostChargeBalance(a)
             \/ RunDebited(a)
    BY <1>0, <1>3, RunInsufficientAges, RunClaimedAges, DebitFirstAges,
       DebitRecoverAges, ChargeAges, PostChargeAges, RunDebitedAges
  <1>4. CASE \E res \in Resources : RenewProvider(a, res) \/ VerifyProvider(a, res)
    BY <1>0, <1>4, RenewProviderAges, VerifyProviderAges
  <1>5. CASE \/ RunRefundPending(a) \/ RefundFirst(a) \/ RefundRecover(a)
             \/ RefundSub2API(a) \/ RefundReceipt(a) \/ RunRefunded(a)
    BY <1>0, <1>5, RunWalksAges, RefundAges, RefundReceiptAges
  <1> QED BY <1>1, <1>2, <1>3, <1>4, <1>5 DEF WorkerStep

LEMMA SharedAges ==
  ASSUME RInv, XInv, UnsavedGrows, NEW a \in Actors, SharedStep(a) \/ Crash(a)
  PROVE  XInv'
  BY PersistAgesPreserved, PersistFailsAges, RunVerifyingAges, RunWalksAges,
     RenewalReceiptAges, BeginAges DEF SharedStep

LEMMA ReviewerAges ==
  ASSUME RInv, XInv, UnsavedGrows, NEW a \in Reviewers,
         ReviewStep(a) \/ \E p \in Periods : ReviewRequest(a, p)
  PROVE  XInv'
  <1>0. a \in Actors
    BY DEF Actors
  <1> QED BY <1>0, ReviewVerifyAges, ReviewRunsAges, ReviewEndAges, ReviewRequestAges
          DEF ReviewStep

\* An expiry that was not stored is remembered by every step.
LEMMA UnsavedKept == RInv /\ [Next]_vars => UnsavedGrows
  <1> SUFFICES ASSUME RInv, [Next]_vars PROVE UnsavedGrows
    OBVIOUS
  <1>0. spent \in Spent
    BY TypeParts DEF RInv, OwnersType
  <1>1. NoFault \/ Fault => UnsavedGrows
    BY FaultForgetsNothing DEF NoFault, UnsavedGrows
  <1>2. ASSUME NEW a \in Workers, BeginPass(a) \/ WorkerStep(a)
        PROVE  UnsavedGrows
    <2>1. CASE Reload(a)
      <3>1. \/ NoFault
            \/ \E x : spent' = [spent EXCEPT !.faults = @ + 1, !.unsaved = @ \cup x]
        BY <2>1 DEF Reload
      <3> QED BY <1>0, <1>1, <3>1 DEF Spent, UnsavedGrows
    <2>2. CASE \/ BeginPass(a) \/ LoadToReturn(a) \/ ClaimConflict(a)
               \/ LoadToClaim(a) \/ Claim(a)
      BY <1>1, <2>2 DEF BeginPass, LoadToReturn, ClaimConflict, LoadToClaim, Claim, NoFault
    <2>3. CASE \/ ExpirySuspend(a) \/ ExpiryFinancial(a) \/ ExpiryReturns(a)
               \/ ExpiryReceipt(a) \/ ExpiryReceiptNotDue(a)
      BY <1>1, <2>3 DEF ExpirySuspend, ExpiryFinancial, ExpiryReturns, ExpiryReceipt,
                        ExpiryReceiptNotDue, NoFault
    <2>4. CASE \/ RunInsufficient(a) \/ RunClaimed(a) \/ DebitFirst(a)
               \/ DebitRecover(a) \/ DebitConfirmed(a) \/ ChargeSub2API(a)
               \/ PostChargeBalance(a) \/ RunDebited(a)
      BY <1>1, <2>4 DEF RunInsufficient, RunClaimed, DebitFirst, DebitRecover,
                        DebitConfirmed, ChargeSub2API, PostChargeBalance, RunDebited, NoFault
    <2>5. CASE \E res \in Resources : RenewProvider(a, res) \/ VerifyProvider(a, res)
      BY <1>1, <2>5 DEF RenewProvider, VerifyProvider
    <2>6. CASE \/ RunRefundPending(a) \/ RefundFirst(a) \/ RefundRecover(a)
               \/ RefundSub2API(a) \/ RefundReceipt(a) \/ RunRefunded(a)
      BY <1>1, <2>6 DEF RunRefundPending, RefundFirst, RefundRecover, RefundSub2API,
                        RefundReceipt, RunRefunded, NoFault
    <2> QED BY <1>2, <2>1, <2>2, <2>3, <2>4, <2>5, <2>6 DEF WorkerStep
  <1>3. ASSUME NEW a \in Actors, SharedStep(a) \/ Crash(a)
        PROVE  UnsavedGrows
    BY <1>1, <1>3 DEF SharedStep, Crash, Persist, PersistFails, RunVerifying,
                      RunToReceipt, RenewalReceipt, RunSettled, NoFault
  <1>4. ASSUME NEW a \in Reviewers, ReviewStep(a) \/ \E p \in Periods : ReviewRequest(a, p)
        PROVE  UnsavedGrows
    BY <1>1, <1>4 DEF ReviewStep, ReviewVerify, ReviewRuns, ReviewResolved,
                      ReviewComplete, ReviewFailed, ReviewRequest, NoFault
  <1>5. CASE \/ UNCHANGED vars \/ Tick
             \/ \E auto \in BOOLEAN : AutoRenewRequest(auto)
             \/ \E p \in Periods : LeaseRunsOut(p) \/ LateRedeem(p)
             \/ \E res \in Resources : LateRenewal(res)
    BY <1>1, <1>5 DEF vars, Tick, AutoRenewRequest, LeaseRunsOut, LateRedeem, LateRenewal,
                      NoFault
  <1>6. CASE \E res \in Resources : ResourceVanishes(res)
    BY <1>0, <1>6 DEF ResourceVanishes, Spent, UnsavedGrows
  <1>7. CASE \E d \in {-1, 1} : WalletMoves(d)
    BY <1>0, <1>7 DEF WalletMoves, Spent, UnsavedGrows
  <1> QED BY <1>2, <1>3, <1>4, <1>5, <1>6, <1>7 DEF Next

LEMMA NextAges == RInv /\ XInv /\ [Next]_vars => XInv'
  <1> SUFFICES ASSUME RInv, XInv, [Next]_vars PROVE XInv'
    OBVIOUS
  <1>0. UnsavedGrows
    BY UnsavedKept
  <1>1. CASE UNCHANGED vars
    BY <1>0, <1>1, SurroundingsAge
  <1>2. CASE Next
    BY <1>0, <1>2, WorkerAges, SharedAges, ReviewerAges, SurroundingsAge DEF Next
  <1> QED BY <1>1, <1>2

-----------------------------------------------------------------------------
(* Theorems on the expiry                                                  *)

\* In every reachable state the months are settled in their order, every copy of
\* a row carries an expiry that is due, every receipt has the row that it was
\* issued for, and the stored expiries agree with the Workspace row, unless a pass
\* went on with an expiry of that date that it could neither store nor read back.
THEOREM ExpiryInvariant == Spec => []XInv
  <1>1. Init => RInv /\ XInv
    BY InitHolds, InitAges
  <1>2. RInv /\ XInv /\ [Next]_vars => (RInv /\ XInv)'
    BY NextPreserves, NextAges
  <1> QED BY <1>1, <1>2, PTL DEF Spec

\* Access is only denied once the paid period is over, whichever slow pass
\* writes the expiry it has computed from an older row.
THEOREM AccessEndsWithThePaidPeriod == Spec => []SuspendedIsExpired
  <1>1. XInv => SuspendedIsExpired
    <2> SUFFICES ASSUME XInv, ws.suspended PROVE now >= ws.paid
      BY DEF SuspendedIsExpired
    <2> PICK q \in Periods : ops[q].expiryStatus # "" /\ ops[q].expiryPaid = ws.paid
      BY DEF XInv, ExpiryShown, Covering
    <2>1. Dated(ops[q], q)
      BY DEF XInv
    <2> QED BY <2>1 DEF Dated
  <1> QED BY <1>1, ExpiryInvariant, PTL

\* The receipts of a period tell one story, and the one that happened: a renewal
\* receipt is for a month that was granted, a refund receipt for one whose money
\* went back, an expiry receipt for a Workspace that is suspended at that date,
\* unless a pass went on with an expiry of that date that it could neither store
\* nor read back: then the receipt is recorded and access stays.
THEOREM ReceiptsTellOneStory == Spec => []ReceiptsAgree
  <1>1. RInv /\ XInv => ReceiptsAgree
    <2> SUFFICES ASSUME RInv, XInv, NEW p \in 1 .. LastPeriod + 1
                 PROVE  /\ <<"renewed", p>> \in receipts => ws.paid > p
                        /\ <<"refunded", p>> \in receipts => refund[p] = "used" /\ ws.paid = p
                        /\ <<"expired", p>> \in receipts =>
                             /\ ws.paid = p
                             /\ p \in spent.unsaved \/ (ws.suspended /\ ~ws.auto)
      BY DEF ReceiptsAgree
    <2>1. /\ <<"renewed", p>> \in receipts => p \in Periods /\ ops[p].entitled
          /\ <<"refunded", p>> \in receipts => p \in Periods /\ ops[p].refundConfirmed
          /\ <<"expired", p>> \in receipts =>
               \E q \in Periods : /\ Closing(ops[q]) /\ ops[q].expiryPaid = p
                                  /\ Lapsed(ops[q]) \/ p \in spent.unsaved
      BY DEF XInv, ReceiptsBacked
    <2>2. ASSUME p \in Periods
          PROVE  /\ ws.paid > p <=> ops[p].entitled
                 /\ ops[p].refundConfirmed => refund[p] = "used" /\ ws.paid = p
      <3>1. PeriodGood(p)
        BY <2>2 DEF RInv
      <3>2. ops[p].refundConfirmed => ~ops[p].entitled /\ ops[p].status # "none"
        BY <3>1 DEF PeriodGood, Good
      <3>3. ws.paid > p <=> ops[p].entitled
        BY <3>1 DEF PeriodGood
      <3>4. ops[p].refundConfirmed => refund[p] = "used"
        BY <3>1 DEF PeriodGood, Backed
      <3>5. ASSUME ops[p].refundConfirmed PROVE ws.paid = p
        <4>1. p <= ws.paid /\ ~(ws.paid > p) /\ p \in Int /\ ws.paid \in Int
          BY <2>2, <3>2, <3>3, <3>5, PaidAndPeriods
        <4> QED BY ONLY <4>1
      <3> QED BY <3>3, <3>4, <3>5
    <2>3. \A q \in Periods :
            /\ Closing(ops[q]) => ws.paid = ops[q].expiryPaid
            /\ Lapsed(ops[q]) => ws.paid \in spent.unsaved \/ (ws.suspended /\ ~ws.auto)
      BY DEF XInv, ExpiryShown, Closing
    <2> QED BY <2>1, <2>2, <2>3
  <1> QED BY <1>1, RenewalInvariant, ExpiryInvariant, PTL

\* At most one renewal of a Workspace is unsettled: every month before the last
\* one that was begun has ended, its receipt and its expiry included.
THEOREM RenewalsSettleInOrder == Spec => []OneOpenRenewal
  <1>1. RInv /\ XInv => OneOpenRenewal
    <2> SUFFICES ASSUME RInv, XInv PROVE OneOpenRenewal
      OBVIOUS
    <2> DEFINE open == {p \in Periods : /\ ops[p].status # "none"
                                        /\ ~terminalWorkspaceRenewal(ops[p])}
    <2>1. \A p, q \in open : p = q
      <3> SUFFICES ASSUME NEW p \in open, NEW q \in open
                   PROVE  p = q
        OBVIOUS
      <3>1. ~(p < q) /\ ~(q < p)
        BY DEF XInv, SettledBefore
      <3>2. p \in Int /\ q \in Int
        BY PaidAndPeriods
      <3> QED BY ONLY <3>1, <3>2
    <2>2. CASE open = {}
      BY <2>2, FS_EmptySet DEF OneOpenRenewal
    <2>3. CASE open # {}
      <3> PICK p : p \in open
        BY <2>3
      <3>1. open = {p}
        BY <2>1
      <3>2. Cardinality({p}) = 1
        BY FS_Singleton
      <3>3. OneOpenRenewal <=> Cardinality(open) <= 1
        BY DEF OneOpenRenewal
      <3> HIDE DEF open
      <3> QED BY <3>1, <3>2, <3>3
    <2> QED BY <2>2, <2>3
  <1> QED BY <1>1, RenewalInvariant, ExpiryInvariant, PTL
=============================================================================
