---------------------------- MODULE WorkspaceRenewal ----------------------------
(***************************************************************************)
(* The monthly renewal of one Workspace (workspace_renewal.go): claim of   *)
(* the operation under a lease, debit, provider renewal, refund,           *)
(* entitlement, receipts, unpaid expiry, the operator's review of a        *)
(* charged renewal, and the customer's auto-renew switch.                  *)
(*                                                                         *)
(* A pass of the hourly worker is cut at every call to Sub2API, Fabric or  *)
(* Ledger and at every write of the operation row.  It keeps the row in    *)
(* memory (`row`), the row it last stored or loaded, which a write is      *)
(* compared with (`base`, the PersistedResult), and the row it is about to *)
(* store (`want`).  progressWorkspaceRenewalExpiry changes the row of its  *)
(* caller before it stores it, so after a failed write `row` is ahead of   *)
(* `base`; runWorkspaceRenewal works on a copy, and its caller falls back  *)
(* on the row it had (`caller`).  Error codes, evidence and prices are     *)
(* left out of the row; leases are told apart by the worker that holds     *)
(* them.                                                                   *)
(*                                                                         *)
(* Period p is the month before paidThrough p; now = k means that          *)
(* paidThrough k has passed and the lead window of paidThrough k+1 is open.*)
(***************************************************************************)
EXTENDS Integers, FiniteSets

CONSTANTS
  Workers,      \* renewal workers, one per Control Plane process
  Reviewers,    \* operators who resolve a charged renewal under review
  NoLease,      \* the empty lease token
  LastPeriod,   \* bound: operations exist for the periods 1 .. LastPeriod
  LastNow,      \* bound: the last instant reached
  StartBalance, \* the customer's wallet at the start, in prices
  MaxFaults,    \* bound: crashes, lost or late calls, failed reads and writes
  MaxMoves,     \* bound: wallet movements of somebody else
  MaxLosses,    \* bound: resources that vanish at the provider
  MaxRequests   \* bound: auto-renew requests of the customer

Actors == Workers \cup Reviewers
Periods == 1 .. LastPeriod
Resources == {"compute", "storage"}
Price == 1

ASSUME RenewalAssumption ==
  /\ Workers \cap Reviewers = {}
  /\ NoLease \notin Actors
  /\ LastPeriod \in Nat \ {0}
  /\ {LastNow, StartBalance, MaxFaults, MaxMoves, MaxLosses, MaxRequests}
       \subseteq Nat

VARIABLES
  now,      \* the clock
  ws,       \* the Workspace row: paidThrough, autoRenew, suspended, closed
  ops,      \* per period, the stored workspace.renewal operation
  live,     \* per period, the lease of the stored operation has not run out
  pass,     \* per actor, where its pass is
  wallet,   \* Sub2API: the customer's balance
  charge,   \* Sub2API: per period, the redeem code of the debit
  refund,   \* Sub2API: per period, the redeem code of the refund
  provider, \* Fabric: per resource, how far it is renewed
  receipts, \* Ledger: the receipts recorded
  commands, \* auto-renew commands stored so far
  told,     \* the period the customer was told is cancelled, 0 for none
  spent     \* faults, moves and losses so far, and the ends of paid periods
            \* whose expiry a pass went on with although it was not stored

vars == <<now, ws, ops, live, pass, wallet, charge, refund, provider,
          receipts, commands, told, spent>>
external == <<wallet, charge, refund, provider, receipts>>

-----------------------------------------------------------------------------
(* The operation row                                                       *)

Statuses == {"none", "claimed", "insufficient", "debit_pending", "debited",
  "provider_renewing", "verifying", "active", "refund_pending", "refunded",
  "manual_review", "expired_unpaid"}
Phases == {"preflight_compute", "preflight_storage", "debit",
  "provider_compute", "verify_compute", "provider_storage", "verify_storage",
  "entitlement", "receipt", "refund", "refund_receipt", "complete"}

Operation == [status : Statuses, phase : Phases,
  attempted : BOOLEAN, confirmed : BOOLEAN, pre : Int, post : BOOLEAN,
  refundAttempted : BOOLEAN, refundConfirmed : BOOLEAN, entitled : BOOLEAN,
  expiryStatus : {"", "past_due", "expired_unpaid"},
  expiryPhase : {"", "suspend", "financial", "receipt", "complete"},
  expiryPaid : 0 .. LastPeriod + 1,
  lease : Workers \cup {NoLease},
  review : {"", "verify_compute", "verify_storage", "entitlement", "receipt",
            "completed"}]

newWorkspaceRenewalOperation ==
  [status |-> "claimed", phase |-> "preflight_compute",
   attempted |-> FALSE, confirmed |-> FALSE, pre |-> 0, post |-> FALSE,
   refundAttempted |-> FALSE, refundConfirmed |-> FALSE, entitled |-> FALSE,
   expiryStatus |-> "", expiryPhase |-> "", expiryPaid |-> 0,
   lease |-> NoLease, review |-> ""]

NoOperation == [newWorkspaceRenewalOperation EXCEPT !.status = "none"]

\* The stored result carries everything but the status column.
SameResult(a, b) == [a EXCEPT !.status = ""] = [b EXCEPT !.status = ""]

terminalWorkspaceRenewal(o) ==
  /\ \/ o.status \in {"active", "manual_review"}
     \/ o.status = "refunded" /\ o.phase = "complete"
     \/ /\ o.status = "expired_unpaid"
        /\ o.expiryStatus = "expired_unpaid" \/ o.phase = "complete"
  /\ o.expiryStatus = "" \/ o.expiryPhase = "complete"

\* Mutant: only what is confirmed counts.
FinancialRecoveryConfirmed(o) ==
  o.status = "manual_review" \/ o.confirmed \/ o.refundConfirmed \/ o.entitled

FinancialRecoveryRequired(o) ==
  \/ o.status = "manual_review"
  \/ o.attempted \/ o.confirmed
  \/ o.refundAttempted \/ o.refundConfirmed
  \/ o.entitled

\* The operation currentWorkspaceRenewalOperation finds for period p.
SettlesPeriod(p) ==
  p \in Periods /\ ops[p].status \notin
    {"none", "active", "expired_unpaid", "refunded"}

-----------------------------------------------------------------------------
(* Passes                                                                  *)

Seen == [paid : 0 .. LastPeriod + 1, auto : BOOLEAN, commands : Nat,
         ops : [Periods -> Operation]]
NothingSeen == [paid |-> 0, auto |-> FALSE, commands |-> 0,
                ops |-> [p \in Periods |-> NoOperation]]

NoCaller == [row |-> NoOperation, base |-> NoOperation]

Idle == [pc |-> "idle", stage |-> "", now |-> 0, p |-> 1,
         row |-> NoOperation, base |-> NoOperation, caller |-> NoCaller,
         want |-> NoOperation, patch |-> "", then |-> "",
         expired |-> FALSE, pastDue |-> FALSE, seen |-> NothingSeen]

Points == {"idle", "load", "claim", "expiry", "reload", "run", "charge",
  "post", "receipt", "refund", "refundCall", "refundReceipt",
  "expiryReceipt", "persist", "resolve", "reviewFailed", "complete"}

Pass == [pc : Points, stage : {"", "expiry", "run", "late", "receipt",
           "resolve", "review"},
  now : Nat, p : Periods, row : Operation, base : Operation,
  caller : [row : Operation, base : Operation], want : Operation,
  patch : {"", "suspend", "expire", "close", "entitle", "recover"},
  then : Points \cup {"", "ok", "err"},
  expired : BOOLEAN, pastDue : BOOLEAN, seen : Seen]

Init ==
  /\ now = 0
  /\ ws = [paid |-> 1, auto |-> TRUE, suspended |-> FALSE, closed |-> FALSE]
  /\ ops = [p \in Periods |-> NoOperation]
  /\ live = [p \in Periods |-> FALSE]
  /\ pass = [a \in Actors |-> Idle]
  /\ wallet = StartBalance
  /\ charge = [p \in Periods |-> "none"]
  /\ refund = [p \in Periods |-> "none"]
  /\ provider = [r \in Resources |->
                   [through |-> 1, inflight |-> 0, gone |-> FALSE]]
  /\ receipts = {}
  /\ commands = 0
  /\ told = 0
  /\ spent = [faults |-> 0, moves |-> 0, losses |-> 0, unsaved |-> {}]

Fault ==
  /\ spent.faults < MaxFaults
  /\ spent' = [spent EXCEPT !.faults = @ + 1]
NoFault == UNCHANGED spent

At(a, pc) == pass[a].pc = pc
Goto(a, r) == pass' = [pass EXCEPT ![a] = r]
Store == <<ws, ops, live>>
Rest == <<now, commands, told>>

\* persistWorkspaceRenewal is about to be called.
Save(a, want, patch, then) ==
  Goto(a, [pass[a] EXCEPT !.pc = "persist", !.want = want, !.patch = patch,
                          !.then = then])

retryWorkspaceRenewal(a, o) == Save(a, [o EXCEPT !.lease = NoLease], "", "err")
manualReviewWorkspaceRenewal(a, o) ==
  Save(a, [o EXCEPT !.status = "manual_review", !.lease = NoLease], "", "ok")

\* The caller of runWorkspaceRenewal has not seen what became of the copy; it
\* goes on only when the paid period is over.
BackInCaller(r) ==
  IF r.expired
    THEN [r EXCEPT !.pc = "reload", !.row = r.caller.row,
                   !.base = r.caller.base, !.caller = NoCaller]
    ELSE Idle

\* Where the pass goes on when the function it is in returns.
Returned(r, err) ==
  CASE r.stage \in {"expiry", "late"} -> [r EXCEPT !.pc = "reload"]
    [] r.stage = "run" -> BackInCaller(r)
    [] r.stage = "review" ->
         [r EXCEPT !.pc = IF err THEN "reviewFailed" ELSE "complete"]
    [] OTHER -> Idle
Return(a, err) == Goto(a, Returned(pass[a], err))

-----------------------------------------------------------------------------
(* processWorkspaceRenewal: selection and claim of the operation           *)

workspaceRenewalDue == now >= ws.paid \/ (ws.auto /\ now >= ws.paid - 1)
Recovering == \E p \in Periods : ops[p].status = "verifying"

\* One workspace of runMonthlyBillingOnce; the pass keeps the tick's time.
BeginPass(a) ==
  /\ a \in Workers /\ At(a, "idle")
  /\ workspaceRenewalDue \/ Recovering
  /\ Goto(a, [Idle EXCEPT !.pc = "load", !.now = now])
  /\ UNCHANGED <<Rest, Store, external, spent>>

coversCurrentExpiry(o) ==
  o.expiryStatus \in {"past_due", "expired_unpaid"} /\ o.expiryPaid = ws.paid

OpenOperations ==
  {p \in Periods : /\ ops[p].status # "none"
                   /\ \/ ~terminalWorkspaceRenewal(ops[p])
                      \/ coversCurrentExpiry(ops[p])}

\* The row a pass would claim: at expiry it also opens the expiry.
ClaimedRow(a, p, expired) ==
  LET o == IF ops[p].status = "none" THEN newWorkspaceRenewalOperation
                                     ELSE ops[p]
      recovery == FinancialRecoveryRequired(o)
      e == IF ~expired \/ o.expiryStatus # "" THEN o
           ELSE [o EXCEPT !.expiryPhase = "suspend", !.expiryPaid = ws.paid,
                  !.expiryStatus = IF recovery /\ p = ws.paid
                                     THEN "past_due" ELSE "expired_unpaid",
                  !.status = IF recovery THEN @ ELSE "expired_unpaid"]
  IN  [e EXCEPT !.lease = a]

\* Mutant: an operation that carries a lease is left alone for good.
ClaimWantedUnleased(p, expired, at) ==
  LET o == ops[p]
      found == o.status # "none"
  IN  /\ found => /\ p = ws.paid \/ o.entitled
                  /\ o.lease = NoLease
                  /\ ~terminalWorkspaceRenewal(o) \/ expired
      /\ ~found => expired \/ (ws.auto /\ at >= ws.paid - 1)

\* The early returns between the selection and the claim.
ClaimWanted(p, expired, at) ==
  LET o == ops[p]
      found == o.status # "none"
  IN  /\ found => /\ p = ws.paid \/ o.entitled
                  /\ o.lease = NoLease \/ ~live[p]
                  /\ \/ ~terminalWorkspaceRenewal(o)
                     \/ /\ expired
                        /\ ~(/\ o.expiryStatus = "expired_unpaid"
                             /\ o.expiryPhase = "complete")
      /\ ~found => expired \/ (ws.auto /\ at >= ws.paid - 1)

\* Mutant: only the operation of the current period is considered.
SelectedCurrent == Periods \cap {ws.paid}

Selected == IF OpenOperations # {} THEN OpenOperations
                                   ELSE Periods \cap {ws.paid}

LoadToClaim(a) ==
  LET r == pass[a]
      expired == r.now >= ws.paid
  IN  /\ At(a, "load")
      /\ \E p \in Selected :
           /\ ClaimWanted(p, expired, r.now)
           /\ Goto(a, [r EXCEPT !.pc = "claim", !.p = p, !.row = ops[p],
                !.base = ops[p], !.want = ClaimedRow(a, p, expired),
                !.expired = expired,
                !.seen = [paid |-> ws.paid, auto |-> ws.auto,
                          commands |-> commands, ops |-> ops]])
      /\ UNCHANGED <<Rest, Store, external, spent>>

LoadToReturn(a) ==
  /\ At(a, "load")
  /\ \A p \in Selected : ~ClaimWanted(p, pass[a].now >= ws.paid, pass[a].now)
  /\ Goto(a, Idle)
  /\ UNCHANGED <<Rest, Store, external, spent>>

\* Mutant: neither the switch nor the commands are compared.
ClaimHoldsResult(s) == ws.paid = s.paid /\ ops = s.ops

\* The comparisons of ClaimWorkspaceRenewal, under the row locks.
ClaimHolds(s) ==
  /\ ws.paid = s.paid /\ ws.auto = s.auto
  /\ commands = s.commands /\ ops = s.ops

\* What only the claim needed is forgotten.
Unseen(r) == [r EXCEPT !.now = 0, !.seen = NothingSeen, !.want = NoOperation]

AfterRun(r) ==
  CASE ~r.expired -> Idle
    [] r.expired /\ r.pastDue /\ r.row.expiryStatus # "" ->
         [r EXCEPT !.pc = "expiry", !.stage = "late"]
    [] OTHER -> [r EXCEPT !.pc = "expiryReceipt", !.stage = "receipt"]

AfterExpiry(r) ==
  IF r.row.status # "expired_unpaid"
    THEN [r EXCEPT !.pc = "run", !.stage = "run",
                   !.caller = IF r.expired THEN [row |-> r.row, base |-> r.base]
                                           ELSE NoCaller]
    ELSE AfterRun(r)

Claim(a) ==
  LET r == pass[a]
      c == [Unseen(r) EXCEPT !.row = r.want, !.base = r.want,
             !.pastDue = r.expired /\ r.want.expiryStatus = "past_due"]
  IN  /\ At(a, "claim") /\ ClaimHolds(r.seen)
      /\ ops' = [ops EXCEPT ![r.p] = r.want]
      /\ live' = [live EXCEPT ![r.p] = TRUE]
      /\ Goto(a, IF r.expired THEN [c EXCEPT !.pc = "expiry",
                                             !.stage = "expiry"]
                              ELSE AfterExpiry(c))
      /\ UNCHANGED <<Rest, ws, external, spent>>

\* errWorkspaceRenewalCASConflict: up to three tries, then the pass gives up.
ClaimConflict(a) ==
  /\ At(a, "claim") /\ ~ClaimHolds(pass[a].seen)
  /\ \/ Goto(a, [Idle EXCEPT !.pc = "load", !.now = pass[a].now])
     \/ Goto(a, Idle)
  /\ UNCHANGED <<Rest, Store, external, spent>>

\* The pass reads the row again before its next part.  When it cannot, it goes
\* on with the row it has, one whose expiry could not be stored included.
Reload(a) ==
  LET r == pass[a]
      Continue(s) == CASE s.stage = "expiry" -> AfterExpiry(s)
                       [] s.stage = "run" -> AfterRun(s)
                       [] OTHER -> [s EXCEPT !.pc = "expiryReceipt",
                                             !.stage = "receipt"]
  IN  /\ At(a, "reload")
      /\ \/ /\ NoFault
            /\ Goto(a, Continue([r EXCEPT !.row = ops[r.p], !.base = ops[r.p]]))
         \/ /\ spent.faults < MaxFaults
            /\ spent' = [spent EXCEPT !.faults = @ + 1,
                 !.unsaved = @ \cup
                   (IF r.row = r.base THEN {} ELSE {r.row.expiryPaid})]
            /\ Goto(a, Continue(r))
      /\ UNCHANGED <<Rest, Store, external>>

-----------------------------------------------------------------------------
(* PersistWorkspaceRenewal: compare-and-swap of the row, with the patch of *)
(* the Workspace row in the same transaction                               *)

PatchHolds(r) ==
  CASE r.patch = "" -> TRUE
    [] r.patch \in {"suspend", "expire", "close"} -> ws.paid = r.row.expiryPaid
    [] r.patch = "entitle" -> ws.paid = r.p
    [] OTHER -> ws.paid = r.p /\ ws.suspended

Patched(r) ==
  CASE r.patch = "" -> ws
    [] r.patch = "suspend" -> [ws EXCEPT !.suspended = TRUE]
    [] r.patch = "expire" -> [ws EXCEPT !.suspended = TRUE, !.auto = FALSE,
                                        !.closed = TRUE]
    [] r.patch = "close" -> [ws EXCEPT !.auto = FALSE, !.closed = TRUE]
    [] r.patch = "entitle" -> [ws EXCEPT !.paid = r.p + 1, !.closed = FALSE]
    [] OTHER -> [ws EXCEPT !.paid = r.p + 1, !.closed = FALSE,
                           !.suspended = FALSE]

PersistHolds(r) == SameResult(ops[r.p], r.base) /\ PatchHolds(r)

Stored(r) == [r EXCEPT !.row = r.want, !.base = r.want, !.want = NoOperation,
                       !.patch = "", !.then = ""]

Persist(a) ==
  LET r == pass[a]
      s == Stored(r)
  IN  /\ At(a, "persist") /\ PersistHolds(r)
      /\ ops' = [ops EXCEPT ![r.p] = r.want]
      /\ live' = [live EXCEPT ![r.p] = @ /\ r.want.lease # NoLease]
      /\ ws' = Patched(r)
      /\ Goto(a, CASE r.then = "ok" -> Returned(s, FALSE)
                   [] r.then = "err" -> Returned(s, TRUE)
                   [] OTHER -> [s EXCEPT !.pc = r.then])
      /\ UNCHANGED <<Rest, external, spent>>

\* progressWorkspaceRenewalExpiry leaves its caller with the row it wanted to
\* store; what every other function wanted to store is forgotten.
Unstored(r) ==
  [r EXCEPT !.row = IF r.stage \in {"expiry", "late"} THEN r.want ELSE @,
            !.want = NoOperation, !.patch = "", !.then = ""]

PersistFails(a) ==
  LET r == pass[a]
      s == Unstored(r)
  IN  /\ At(a, "persist")
      /\ \/ ~PersistHolds(r) /\ NoFault
         \/ Fault
      /\ Goto(a, Returned(s, TRUE))
      /\ UNCHANGED <<Rest, Store, external>>

-----------------------------------------------------------------------------
(* runWorkspaceRenewal                                                     *)

Running(a, status) == At(a, "run") /\ pass[a].row.status = status
\* Mutant: a resource that exists counts as renewed.
CoversAnything(res, through) == ~provider[res].gone

Covers(res, through) ==
  ~provider[res].gone /\ provider[res].through >= through

RunInsufficient(a) ==
  /\ Running(a, "insufficient")
  /\ Save(a, [pass[a].row EXCEPT !.status = "debit_pending", !.phase = "debit"],
          "", "run")
  /\ UNCHANGED <<Rest, Store, external, spent>>

PreflightConfirmed(o) ==
  IF o.attempted \/ o.confirmed \/ o.phase = "preflight_storage"
    THEN [o EXCEPT !.status = "debit_pending", !.phase = "debit"]
    ELSE [o EXCEPT !.phase = "preflight_storage"]

\* Both resources exist and cover the period that is paid.
workspaceRenewalResources(p) == \A res \in Resources : Covers(res, p)

\* Provider facts must still cover the paid period; then one preflight.
RunClaimed(a) ==
  LET o == pass[a].row
      covered == workspaceRenewalResources(pass[a].p)
  IN  /\ Running(a, "claimed")
      /\ \/ covered /\ NoFault /\ Save(a, PreflightConfirmed(o), "", "run")
         \/ covered /\ Fault /\ retryWorkspaceRenewal(a, o)
         \/ ~covered /\ NoFault /\ manualReviewWorkspaceRenewal(a, o)
         \/ Fault /\ manualReviewWorkspaceRenewal(a, o)
      /\ UNCHANGED <<Rest, Store, external>>

\* debitWorkspaceRenewal, first attempt: the balance, then the attempt.
DebitFirst(a) ==
  LET o == pass[a].row
  IN  /\ Running(a, "debit_pending") /\ ~o.confirmed /\ ~o.attempted
      /\ \/ wallet >= Price /\ NoFault
            /\ Save(a, [o EXCEPT !.attempted = TRUE, !.pre = wallet], "",
                    "charge")
         \/ wallet < Price /\ NoFault
            /\ Save(a, [o EXCEPT !.status = "insufficient",
                                 !.lease = NoLease], "", "err")
         \/ Fault /\ retryWorkspaceRenewal(a, o)
      /\ UNCHANGED <<Rest, Store, external>>

\* debitWorkspaceRenewal after an attempt: the balance history decides.
DebitRecover(a) ==
  LET r == pass[a]
      o == r.row
  IN  /\ Running(a, "debit_pending") /\ ~o.confirmed /\ o.attempted
      /\ \/ charge[r.p] = "used" /\ NoFault
            /\ Save(a, [o EXCEPT !.confirmed = TRUE], "", "post")
         \/ charge[r.p] # "used" /\ NoFault
            /\ Goto(a, [r EXCEPT !.pc = "charge"])
         \/ Fault /\ retryWorkspaceRenewal(a, o)
         \/ Fault /\ manualReviewWorkspaceRenewal(a, o) \* charge mismatch
      /\ UNCHANGED <<Rest, Store, external>>

DebitConfirmed(a) ==
  /\ Running(a, "debit_pending") /\ pass[a].row.confirmed
  /\ Goto(a, [pass[a] EXCEPT !.pc = "post"])
  /\ UNCHANGED <<Rest, Store, external, spent>>

\* A redeem code takes effect once, whoever sends it and however often.
Used(codes, p) == [codes EXCEPT ![p] = "used"]
Sent(codes, p) == [codes EXCEPT ![p] = IF @ = "used" THEN @ ELSE "inflight"]
Balance(codes, p, value) == IF codes[p] = "used" THEN wallet ELSE wallet + value

Charged(p) ==
  charge' = Used(charge, p) /\ wallet' = Balance(charge, p, -Price)
RefundPaid(p) ==
  refund' = Used(refund, p) /\ wallet' = Balance(refund, p, Price)

\* Mutant: every answer is taken as a confirmation.
ChargeSub2APIUnchecked(a) ==
  LET r == pass[a]
  IN  /\ At(a, "charge")
      /\ Save(a, [r.row EXCEPT !.confirmed = TRUE], "", "post")
      /\ \/ NoFault /\ Charged(r.p)
         \/ Fault /\ UNCHANGED <<charge, wallet>>
      /\ UNCHANGED <<Rest, Store, refund, provider, receipts>>

ChargeSub2API(a) ==
  LET r == pass[a]
      o == r.row
  IN  /\ At(a, "charge")
      /\ \/ NoFault /\ Charged(r.p)
            /\ Save(a, [o EXCEPT !.confirmed = TRUE], "", "post")
         \/ Fault /\ retryWorkspaceRenewal(a, o)       \* result unknown
            /\ \/ Charged(r.p)
               \/ charge' = Sent(charge, r.p) /\ UNCHANGED wallet
               \/ UNCHANGED <<charge, wallet>>
         \/ Fault /\ manualReviewWorkspaceRenewal(a, o) \* refused
            /\ UNCHANGED <<charge, wallet>>
      /\ UNCHANGED <<Rest, Store, refund, provider, receipts>>

PostChargeBalance(a) ==
  LET o == [pass[a].row EXCEPT !.post = TRUE]
      exact == o.pre >= Price /\ wallet >= 0 /\ wallet = o.pre - Price
  IN  /\ At(a, "post")
      /\ \/ exact /\ NoFault
            /\ Save(a, [o EXCEPT !.status = "debited",
                                 !.phase = "provider_compute"], "", "run")
         \/ ~exact /\ NoFault /\ manualReviewWorkspaceRenewal(a, o)
         \/ Fault /\ retryWorkspaceRenewal(a, pass[a].row)
      /\ UNCHANGED <<Rest, Store, external>>

RunDebited(a) ==
  /\ Running(a, "debited")
  /\ Save(a, [pass[a].row EXCEPT !.status = "provider_renewing",
                                 !.phase = "provider_compute"], "", "run")
  /\ UNCHANGED <<Rest, Store, external, spent>>

ProviderPhase(res) == IF res = "compute" THEN "provider_compute"
                                         ELSE "provider_storage"
VerifyPhase(res) == IF res = "compute" THEN "verify_compute"
                                       ELSE "verify_storage"

Renew(res, p) ==
  LET r == provider[res]
      through == IF r.through < p + 1 THEN p + 1 ELSE r.through
  IN  provider' = [provider EXCEPT ![res] =
        IF r.gone THEN r ELSE [r EXCEPT !.through = through, !.inflight = 0]]

\* renewWorkspaceProvider, the call: whatever comes back is verified next.
RenewProvider(a, res) ==
  LET r == pass[a]
  IN  /\ Running(a, "provider_renewing") /\ r.row.phase = ProviderPhase(res)
      /\ Save(a, [r.row EXCEPT !.phase = VerifyPhase(res)], "", "run")
      /\ \/ NoFault /\ Renew(res, r.p)
         \/ Fault /\ \/ UNCHANGED provider
                     \/ provider' = [provider EXCEPT ![res].inflight = r.p]
      /\ UNCHANGED <<Rest, Store, wallet, charge, refund, receipts>>

\* Mutant: the receipt comes before the entitlement.
VerifiedToReceipt(o, res) ==
  IF res = "compute" THEN [o EXCEPT !.phase = "provider_storage"]
                     ELSE [o EXCEPT !.status = "verifying", !.phase = "receipt"]

Verified(o, res) ==
  IF res = "compute" THEN [o EXCEPT !.phase = "provider_storage"]
                     ELSE [o EXCEPT !.status = "verifying",
                                    !.phase = "entitlement"]

\* renewWorkspaceProvider, the readback.
VerifyProvider(a, res) ==
  LET r == pass[a]
      o == r.row
      covered == Covers(res, r.p + 1)
  IN  /\ Running(a, "provider_renewing") /\ o.phase = VerifyPhase(res)
      /\ \/ covered /\ NoFault /\ Save(a, Verified(o, res), "", "run")
         \/ covered /\ Fault /\ Return(a, TRUE)   \* SaveCompute, SaveStorage
         \/ provider[res].gone /\ res = "compute" /\ NoFault
            /\ Goto(a, [r EXCEPT !.pc = "refund"])
         \/ provider[res].gone /\ res = "storage" /\ NoFault
            /\ manualReviewWorkspaceRenewal(a, o)
         \/ ~covered /\ ~provider[res].gone /\ NoFault
            /\ manualReviewWorkspaceRenewal(a, o)
         \/ Fault /\ manualReviewWorkspaceRenewal(a, o)
      /\ UNCHANGED <<Rest, Store, external>>

verifyWorkspaceRenewalProviderReadback(p) ==
  \A res \in Resources : Covers(res, p + 1)

\* Mutant: a suspended Workspace stays suspended when it is renewed.
RecoversNever(o, p) == FALSE

\* commitWorkspaceRenewalEntitlement reads the Workspace before it writes.
Recovers(o, p) == o.expiryStatus = "past_due" /\ o.expiryPaid = p
Entitled(o, p) ==
  LET e == [o EXCEPT !.phase = "receipt", !.entitled = TRUE]
  IN  IF Recovers(o, p)
        THEN [e EXCEPT !.expiryStatus = "", !.expiryPhase = "",
                       !.expiryPaid = 0]
        ELSE e
CommitPossible(o, p) ==
  ws.paid \in {p, p + 1} /\ (Recovers(o, p) => ws.suspended)

RunVerifying(a) ==
  LET r == pass[a]
      o == r.row
      covered == verifyWorkspaceRenewalProviderReadback(r.p)
  IN  /\ Running(a, "verifying") /\ o.phase # "receipt"
      /\ \/ covered /\ CommitPossible(o, r.p) /\ NoFault
            /\ Save(a, Entitled(o, r.p),
                    IF Recovers(o, r.p) THEN "recover" ELSE "entitle", "run")
         \/ ~(covered /\ CommitPossible(o, r.p)) /\ NoFault
            /\ manualReviewWorkspaceRenewal(a, o)
         \/ Fault /\ manualReviewWorkspaceRenewal(a, o)
      /\ UNCHANGED <<Rest, Store, external>>

RunToReceipt(a) ==
  /\ Running(a, "verifying") /\ pass[a].row.phase = "receipt"
  /\ Goto(a, [pass[a] EXCEPT !.pc = "receipt"])
  /\ UNCHANGED <<Rest, Store, external, spent>>

Record(kind, p) == receipts' = receipts \cup {<<kind, p>>}

\* recordWorkspaceRenewalReceipt
RenewalReceipt(a) ==
  LET r == pass[a]
  IN  /\ At(a, "receipt")
      /\ \/ NoFault /\ Record("renewed", r.p)
            /\ Save(a, [r.row EXCEPT !.status = "active", !.phase = "complete",
                                     !.lease = NoLease], "", "ok")
         \/ Fault /\ retryWorkspaceRenewal(a, r.row)
            /\ (Record("renewed", r.p) \/ UNCHANGED receipts)
      /\ UNCHANGED <<Rest, Store, wallet, charge, refund, provider>>

-----------------------------------------------------------------------------
(* refundWorkspaceRenewal                                                  *)

RunRefundPending(a) ==
  /\ Running(a, "refund_pending")
  /\ Goto(a, [pass[a] EXCEPT !.pc = "refund"])
  /\ UNCHANGED <<Rest, Store, external, spent>>

Refunded(o) == [o EXCEPT !.refundConfirmed = TRUE, !.status = "refunded",
                         !.phase = "refund_receipt"]

RefundFirst(a) ==
  LET o == pass[a].row
  IN  /\ At(a, "refund") /\ ~o.refundAttempted
      /\ \/ NoFault
            /\ Save(a, [o EXCEPT !.status = "refund_pending", !.phase = "refund",
                                 !.refundAttempted = TRUE], "", "refundCall")
         \/ Fault /\ manualReviewWorkspaceRenewal(a, o) \* account unmapped
      /\ UNCHANGED <<Rest, Store, external>>

RefundRecover(a) ==
  LET r == pass[a]
      o == r.row
  IN  /\ At(a, "refund") /\ o.refundAttempted
      /\ \/ refund[r.p] = "used" /\ NoFault
            /\ Save(a, Refunded(o), "", "refundReceipt")
         \/ refund[r.p] # "used" /\ NoFault
            /\ Goto(a, [r EXCEPT !.pc = "refundCall"])
         \/ Fault /\ retryWorkspaceRenewal(a, o)
         \/ Fault /\ manualReviewWorkspaceRenewal(a, o) \* unmapped, mismatch
      /\ UNCHANGED <<Rest, Store, external>>

RefundSub2API(a) ==
  LET r == pass[a]
  IN  /\ At(a, "refundCall")
      /\ \/ NoFault /\ RefundPaid(r.p)
            /\ Save(a, Refunded(r.row), "", "refundReceipt")
         \/ Fault /\ retryWorkspaceRenewal(a, r.row)
            /\ \/ RefundPaid(r.p)
               \/ refund' = Sent(refund, r.p) /\ UNCHANGED wallet
               \/ UNCHANGED <<refund, wallet>>
      /\ UNCHANGED <<Rest, Store, charge, provider, receipts>>

\* recordWorkspaceRefundReceipt
RefundReceipt(a) ==
  LET r == pass[a]
  IN  /\ At(a, "refundReceipt")
      /\ \/ NoFault /\ Record("refunded", r.p)
            /\ Save(a, [r.row EXCEPT !.phase = "complete",
                                     !.lease = NoLease], "", "ok")
         \/ Fault /\ retryWorkspaceRenewal(a, r.row)
            /\ (Record("refunded", r.p) \/ UNCHANGED receipts)
      /\ UNCHANGED <<Rest, Store, wallet, charge, refund, provider>>

RunRefunded(a) ==
  /\ Running(a, "refunded")
  /\ IF pass[a].row.phase = "refund_receipt"
       THEN Goto(a, [pass[a] EXCEPT !.pc = "refundReceipt"])
       ELSE Return(a, FALSE)
  /\ UNCHANGED <<Rest, Store, external, spent>>

\* Nothing left to do for this operation.
RunSettled(a) ==
  /\ At(a, "run")
  /\ pass[a].row.status \in {"active", "manual_review", "expired_unpaid"}
  /\ Return(a, FALSE)
  /\ UNCHANGED <<Rest, Store, external, spent>>

-----------------------------------------------------------------------------
(* progressWorkspaceRenewalExpiry and its receipt                          *)

ExpirySuspend(a) ==
  LET o == pass[a].row
  IN  /\ At(a, "expiry") /\ o.expiryPhase = "suspend"
      /\ IF o.expiryStatus = "past_due"
           THEN Save(a, [o EXCEPT !.expiryPhase = "financial"], "suspend",
                     "expiry")
           ELSE Save(a, [o EXCEPT !.expiryPhase = "receipt"], "expire",
                     "expiry")
      /\ UNCHANGED <<Rest, Store, external, spent>>

FinanciallyClosed(o) == o.status \in {"refunded", "expired_unpaid"}

ExpiryFinancial(a) ==
  LET o == pass[a].row
  IN  /\ At(a, "expiry") /\ o.expiryPhase = "financial" /\ FinanciallyClosed(o)
      /\ Save(a, [o EXCEPT !.expiryStatus = "expired_unpaid",
                           !.expiryPhase = "receipt"], "close", "expiry")
      /\ UNCHANGED <<Rest, Store, external, spent>>

ExpiryReturns(a) ==
  LET o == pass[a].row
  IN  /\ At(a, "expiry")
      /\ \/ o.expiryPhase \in {"", "receipt", "complete"}
         \/ o.expiryPhase = "financial" /\ ~FinanciallyClosed(o)
      /\ Return(a, FALSE)
      /\ UNCHANGED <<Rest, Store, external, spent>>

ExpiryReceiptDue(o) ==
  o.expiryStatus = "expired_unpaid" /\ o.expiryPhase = "receipt"

\* recordWorkspaceRenewalExpiryReceipt
ExpiryReceipt(a) ==
  LET r == pass[a]
      o == r.row
  IN  /\ At(a, "expiryReceipt") /\ ExpiryReceiptDue(o)
      /\ \/ NoFault /\ Record("expired", o.expiryPaid)
            /\ Save(a, [o EXCEPT !.expiryPhase = "complete",
                                 !.lease = NoLease], "", "ok")
         \/ Fault /\ retryWorkspaceRenewal(a, o)
            /\ (Record("expired", o.expiryPaid) \/ UNCHANGED receipts)
      /\ UNCHANGED <<Rest, Store, wallet, charge, refund, provider>>

ExpiryReceiptNotDue(a) ==
  /\ At(a, "expiryReceipt") /\ ~ExpiryReceiptDue(pass[a].row)
  /\ Goto(a, Idle)
  /\ UNCHANGED <<Rest, Store, external, spent>>

-----------------------------------------------------------------------------
(* resolveWorkspaceRenewalReview: one resolution, activate_charged, under  *)
(* one idempotency key                                                     *)

ReviewAdmitted(o) ==
  /\ o.review # "completed"
  /\ \/ o.status = "manual_review"
     \/ o.review # "" /\ o.status \in {"verifying", "active"}
  /\ o.post /\ o.confirmed

ReviewRequest(a, p) ==
  LET o == ops[p]
      r == [Idle EXCEPT !.stage = "resolve", !.p = p, !.row = o, !.base = o]
  IN  /\ a \in Reviewers /\ At(a, "idle") /\ ReviewAdmitted(o)
      /\ Goto(a, IF o.review # "" THEN [r EXCEPT !.pc = "resolve"]
                 ELSE [r EXCEPT !.pc = "persist", !.then = "resolve",
                         !.want = [o EXCEPT !.review = "verify_compute"]])
      /\ UNCHANGED <<Rest, Store, external, spent>>

ReviewVerify(a, res) ==
  LET r == pass[a]
      o == r.row
  IN  /\ At(a, "resolve") /\ o.status = "manual_review"
      /\ o.review = VerifyPhase(res)
      /\ \/ Covers(res, r.p + 1) /\ NoFault
            /\ Save(a, IF res = "compute"
                         THEN [o EXCEPT !.review = "verify_storage"]
                         ELSE [o EXCEPT !.status = "verifying",
                                 !.phase = "entitlement",
                                 !.review = "entitlement"], "", "resolve")
         \/ ~Covers(res, r.p + 1) /\ NoFault /\ Goto(a, Idle)
         \/ Fault /\ Goto(a, Idle)
      /\ UNCHANGED <<Rest, Store, external>>

\* The verified renewal is run to its end by the review itself.
ReviewRuns(a) ==
  /\ At(a, "resolve") /\ pass[a].row.status = "verifying"
  /\ Goto(a, [pass[a] EXCEPT !.pc = "run", !.stage = "review"])
  /\ UNCHANGED <<Rest, Store, external, spent>>

ReviewAnswer(a, o) ==
  IF o.status = "active"
    THEN Goto(a, [pass[a] EXCEPT !.pc = "persist", !.stage = "resolve",
           !.row = o, !.base = o, !.want = [o EXCEPT !.review = "completed"],
           !.then = "ok"])
    ELSE Goto(a, Idle)                  \* billing_review_not_pending

ReviewResolved(a) ==
  LET o == pass[a].row
  IN  /\ At(a, "resolve")
      /\ \/ o.status = "active"
         \/ o.status = "manual_review"
            /\ o.review \notin {"verify_compute", "verify_storage"}
      /\ ReviewAnswer(a, o)
      /\ UNCHANGED <<Rest, Store, external, spent>>

ReviewComplete(a) ==
  /\ At(a, "complete")
  /\ ReviewAnswer(a, ops[pass[a].p])
  /\ UNCHANGED <<Rest, Store, external, spent>>

\* The run failed: a receipt that is still missing is noted in the row.
ReviewFailed(a) ==
  LET r == pass[a]
      o == ops[r.p]
  IN  /\ At(a, "reviewFailed")
      /\ IF o.phase = "receipt"
           THEN Goto(a, [r EXCEPT !.pc = "persist", !.stage = "resolve",
                  !.row = o, !.base = o, !.want = [o EXCEPT !.review = "receipt"],
                  !.then = "err"])
           ELSE Goto(a, Idle)
      /\ UNCHANGED <<Rest, Store, external, spent>>

-----------------------------------------------------------------------------
(* The customer's auto-renew switch.  The request plans on what it read    *)
(* and ApplyWorkspaceRenewalIntent compares all of it under the row locks, *)
(* so request and write are one step.                                      *)

\* workspaceAutoRenewResponse: refused once the paid period is over.
AutoRenewOpen == now < ws.paid /\ ~ws.closed

\* What the answer promises: "cancelled" unless a renewal is under way.
ToldAfter(auto) ==
  CASE auto -> 0
    [] ~auto /\ SettlesPeriod(ws.paid) -> told
    [] OTHER -> ws.paid

ApplyWorkspaceRenewalIntent(auto) ==
  /\ ws' = [ws EXCEPT !.auto = auto]
  /\ commands' = commands + 1

AutoRenewRequest(auto) ==
  /\ commands < MaxRequests
  /\ ws.auto # auto /\ AutoRenewOpen
  /\ ApplyWorkspaceRenewalIntent(auto)
  /\ told' = ToldAfter(auto)
  /\ UNCHANGED <<now, ops, live, pass, external, spent>>

-----------------------------------------------------------------------------
(* Surroundings                                                            *)

Tick ==
  /\ now < LastNow /\ now' = now + 1
  /\ UNCHANGED <<ws, ops, live, pass, external, commands, told, spent>>

LeaseRunsOut(p) ==
  /\ live[p] /\ live' = [live EXCEPT ![p] = FALSE]
  /\ UNCHANGED <<now, ws, ops, pass, external, commands, told, spent>>

Crash(a) ==
  /\ ~At(a, "idle") /\ Fault /\ Goto(a, Idle)
  /\ UNCHANGED <<Rest, Store, external>>

LateRedeem(p) ==
  /\ \/ charge[p] = "inflight" /\ Charged(p) /\ UNCHANGED refund
     \/ refund[p] = "inflight" /\ RefundPaid(p) /\ UNCHANGED charge
  /\ UNCHANGED <<now, Store, pass, provider, receipts, commands, told, spent>>

LateRenewal(res) ==
  /\ provider[res].inflight # 0 /\ ~provider[res].gone
  /\ Renew(res, provider[res].inflight)
  /\ UNCHANGED <<now, Store, pass, wallet, charge, refund, receipts, commands,
                 told, spent>>

WalletMoves(d) ==
  /\ spent.moves < MaxMoves /\ wallet + d >= 0
  /\ wallet' = wallet + d
  /\ spent' = [spent EXCEPT !.moves = @ + 1]
  /\ UNCHANGED <<now, Store, pass, charge, refund, provider, receipts,
                 commands, told>>

ResourceVanishes(res) ==
  /\ spent.losses < MaxLosses /\ ~provider[res].gone
  /\ provider' = [provider EXCEPT ![res].gone = TRUE]
  /\ spent' = [spent EXCEPT !.losses = @ + 1]
  /\ UNCHANGED <<now, Store, pass, wallet, charge, refund, receipts, commands,
                 told>>

-----------------------------------------------------------------------------
WorkerStep(a) ==
  \/ LoadToClaim(a) \/ LoadToReturn(a) \/ Claim(a) \/ ClaimConflict(a)
  \/ Reload(a)
  \/ ExpirySuspend(a) \/ ExpiryFinancial(a) \/ ExpiryReturns(a)
  \/ ExpiryReceipt(a) \/ ExpiryReceiptNotDue(a)
  \/ RunInsufficient(a) \/ RunClaimed(a)
  \/ DebitFirst(a) \/ DebitRecover(a) \/ DebitConfirmed(a)
  \/ ChargeSub2API(a) \/ PostChargeBalance(a) \/ RunDebited(a)
  \/ \E res \in Resources : RenewProvider(a, res) \/ VerifyProvider(a, res)
  \/ RunRefundPending(a) \/ RefundFirst(a) \/ RefundRecover(a)
  \/ RefundSub2API(a) \/ RefundReceipt(a) \/ RunRefunded(a)

SharedStep(a) ==
  \/ Persist(a) \/ PersistFails(a)
  \/ RunVerifying(a) \/ RunToReceipt(a) \/ RenewalReceipt(a) \/ RunSettled(a)

ReviewStep(a) ==
  \/ \E res \in Resources : ReviewVerify(a, res)
  \/ ReviewRuns(a) \/ ReviewResolved(a) \/ ReviewComplete(a) \/ ReviewFailed(a)

Next ==
  \/ \E a \in Workers : BeginPass(a) \/ WorkerStep(a)
  \/ \E a \in Actors : SharedStep(a) \/ Crash(a)
  \/ \E a \in Reviewers :
       ReviewStep(a) \/ \E p \in Periods : ReviewRequest(a, p)
  \/ \E auto \in BOOLEAN : AutoRenewRequest(auto)
  \/ Tick
  \/ \E p \in Periods : LeaseRunsOut(p) \/ LateRedeem(p)
  \/ \E res \in Resources : LateRenewal(res) \/ ResourceVanishes(res)
  \/ \E d \in {-1, 1} : WalletMoves(d)

Spec == Init /\ [][Next]_vars

\* The ticker starts passes, a handler that has started runs to its end, time
\* and leases run out, and an operator keeps asking for the review.
Fairness ==
  /\ \A a \in Workers : /\ WF_vars(BeginPass(a))
                        /\ WF_vars(WorkerStep(a) \/ SharedStep(a))
  /\ \A a \in Reviewers :
       /\ WF_vars(\E p \in Periods : ReviewRequest(a, p))
       /\ WF_vars(ReviewStep(a) \/ SharedStep(a))
  /\ WF_vars(Tick)
  /\ \A p \in Periods : WF_vars(LeaseRunsOut(p))

FairSpec == Spec /\ Fairness
-----------------------------------------------------------------------------
(* Properties                                                              *)

\* The Workspace row, the operations, the passes and the owners' facts keep their types, and no
\* bound of the instance is exceeded.
TypeOK ==
  /\ now \in 0 .. LastNow
  /\ ws \in [paid : 1 .. LastPeriod + 1, auto : BOOLEAN, suspended : BOOLEAN,
             closed : BOOLEAN]
  /\ ops \in [Periods -> Operation]
  /\ live \in [Periods -> BOOLEAN]
  /\ pass \in [Actors -> Pass]
  /\ wallet \in Int
  /\ charge \in [Periods -> {"none", "inflight", "used"}]
  /\ refund \in [Periods -> {"none", "inflight", "used"}]
  /\ provider \in [Resources -> [through : 1 .. LastPeriod + 1,
                                 inflight : 0 .. LastPeriod, gone : BOOLEAN]]
  /\ receipts \subseteq ({"renewed", "refunded", "expired"}
                          \X (1 .. LastPeriod + 1))
  /\ commands \in 0 .. MaxRequests
  /\ told \in 0 .. LastPeriod + 1
  /\ spent \in [faults : 0 .. MaxFaults, moves : 0 .. MaxMoves,
                losses : 0 .. MaxLosses, unsaved : SUBSET (1 .. LastPeriod + 1)]

\* The provider is asked to renew only what has been paid for; money reaches or
\* leaves Sub2API only after the attempt is stored, so whoever finds the
\* operation later looks at the balance history before it pays again; and a
\* refund is only sent for a charge that was made.
RenewalIsPaid ==
  \A p \in Periods :
    /\ (\E res \in Resources :
         provider[res].through > p \/ provider[res].inflight = p)
         => charge[p] = "used"
    /\ charge[p] # "none" => ops[p].attempted
    /\ refund[p] # "none" => charge[p] = "used" /\ ops[p].refundAttempted

\* The Workspace never gets a month that was not paid for, not renewed by the
\* provider, or that is being refunded: entitlement and refund exclude each
\* other although a worker and a review may run at the same time.
EntitledIsPaid ==
  \A p \in Periods : ws.paid > p =>
    /\ charge[p] = "used" /\ refund[p] = "none"
    /\ \A res \in Resources : provider[res].through > p

\* A renewal that was closed as unpaid has not touched the wallet, whatever
\* a slow pass with a lapsed lease was about to do when it was closed.
UnpaidIsUncharged ==
  \A p \in Periods : ops[p].status = "expired_unpaid" => charge[p] = "none"

\* Access is only denied once the paid period is over: no stale expiry may
\* suspend a Workspace whose renewal went through.
SuspendedIsExpired == ws.suspended => now >= ws.paid

\* The receipts of a period tell one story, and the one that happened.  An
\* expiry receipt stands for a month that was not renewed, and for a Workspace
\* that is suspended and whose auto-renew is off, unless a pass went on with an
\* expiry it could neither store nor read back: then the receipt is written, and
\* the expiry stored as complete, without the suspension.
ReceiptsAgree ==
  \A p \in 1 .. LastPeriod + 1 :
    /\ <<"renewed", p>> \in receipts => ws.paid > p
    /\ <<"refunded", p>> \in receipts => refund[p] = "used" /\ ws.paid = p
    /\ <<"expired", p>> \in receipts =>
         ws.paid = p /\ (p \in spent.unsaved \/ (ws.suspended /\ ~ws.auto))

\* A customer who was told that the renewal is cancelled is not charged.
CancelledIsHonoured ==
  told \in Periods => charge[told] = "none" \/ ops[told].refundConfirmed

\* At most one renewal of a Workspace is unsettled: a new month is not opened
\* while the receipt or the expiry of the month before is still outstanding.
OneOpenRenewal ==
  Cardinality({p \in Periods : /\ ops[p].status # "none"
                                /\ ~terminalWorkspaceRenewal(ops[p])}) <= 1

Settled(o) ==
  o.status \in {"active", "manual_review"} \/ o.refundConfirmed

\* Money taken is never left in the air: a charge ends in the entitlement, in
\* a refund or on an operator's desk.
ChargeSettles ==
  []<>(\A p \in Periods : charge[p] = "used" => Settled(ops[p]))

\* A Workspace whose paid period ends is suspended or renewed, whichever single
\* write or read fails on the way.  A pass that went on with an expiry it could
\* neither store nor read back may leave the Workspace running for good.
ExpiryTakesHold ==
  []<>(now < ws.paid \/ ws.suspended \/ ws.paid \in spent.unsaved)
=============================================================================
