----------------------------- MODULE RepairDesk -----------------------------
(***************************************************************************)
(* One repair: its workflow, its quotes, the deposits paid for them, their *)
(* refunds, the finance overrides and the gates that read all of these.    *)
(*                                                                         *)
(* A handler that runs in withTransaction is one action.  Intake,          *)
(* diagnosis and completion read the repair, check it and save it with no  *)
(* transaction: each is two actions with everybody else in between.        *)
(***************************************************************************)
EXTENDS Integers, FiniteSets, Tally, PaymentAccounts

CONSTANTS
  MaxVersion,    \* bound on quoteVersionCounter
  Totals,        \* totals a quote may have
  Deposit,       \* financial.requiredDepositAmount, set by no handler
  Payments,      \* deposit attempts that may be created
  Refunds,       \* refund documents that may be created
  RefundOf,      \* RefundOf[r]: the payment refund r is bound to
  Scopes,        \* override scopes finance officers use
  MaxWarranties, \* bound on the warranties issued
  MaxMoney       \* bound on what the attempts can add up to

ASSUME DeskAssumption ==
  /\ MaxVersion \in Nat /\ MaxWarranties \in Nat /\ MaxMoney \in Nat
  /\ Totals \subseteq Nat \ {0}
  /\ Deposit \in 1..MaxMoney
  /\ IsFiniteSet(Payments) /\ IsFiniteSet(Refunds)
  /\ Cardinality(Payments) * Deposit <= MaxMoney
  /\ RefundOf \in [Refunds -> Payments]
  /\ Scopes \subseteq {"ALL", "WORK_START", "QC", "READY", "HANDOVER"}

VARIABLES
  repair,    \* the Repair document
  quote,     \* quote[v]: the Quote document of version v
  payment,   \* Payment documents of purpose repair_deposit
  refund,    \* their Refund documents
  override,  \* scopes with an ACTIVE RepairFinanceOverride
  request    \* staff requests that have read the repair and not saved it

moneyVars == <<payment, refund, override>>
vars == <<repair, quote, payment, refund, override, request>>

-----------------------------------------------------------------------------
(* Documents                                                               *)

REPAIR_STATUS ==
  {"ABSENT", "REQUESTED", "RECEIVED", "DIAGNOSING", "QUOTE_SENT", "QUOTE_PENDING",
   "APPROVED", "DECLINED", "IN_REPAIR", "QC", "READY", "HANDED_OVER"}

QUOTE_STATUS == {"ABSENT", "SENT", "ACCEPTED", "DECLINED", "EXPIRED", "SUPERSEDED"}

Versions == 1..MaxVersion

RepairDocument ==
  [status : REPAIR_STATUS,
   assigned : BOOLEAN,            \* technician is set
   qcPassed : BOOLEAN,            \* qcRecord.passed
   latest : 0..MaxVersion,        \* quoteVersionCounter
   accepted : 0..MaxVersion,      \* financial.acceptedQuote.version, 0 for none
   netPaid : 0..MaxMoney,         \* financial.netPaidAmount
   warranties : 0..MaxWarranties] \* Warranty documents of this repair

QuoteDocument == [status : QUOTE_STATUS, total : Totals \cup {0}, lapsed : BOOLEAN]

DepositDocument ==
  [status : PaymentStatus, version : 0..MaxVersion, captured : 0..Deposit,
   refunded : 0..Deposit, reserved : Int, net : 0..Deposit]

RefundDocument == [status : RefundStatus, amount : 0..Deposit]

(* The unique index on repair, scope and ACTIVE status leaves one active   *)
(* override per scope.                                                     *)
Overrides == SUBSET Scopes

(* What a request remembers: the status it read, and whether the document  *)
(* version it read is still the current one.                               *)
StaffRequest ==
  [kind : {"intake", "diagnosis", "completion"}, seen : REPAIR_STATUS, current : BOOLEAN]

Init ==
  /\ repair = [status |-> "ABSENT", assigned |-> FALSE, qcPassed |-> FALSE, latest |-> 0,
               accepted |-> 0, netPaid |-> 0, warranties |-> 0]
  /\ quote = [v \in Versions |-> [status |-> "ABSENT", total |-> 0, lapsed |-> FALSE]]
  /\ payment = [p \in Payments |-> [status |-> "ABSENT", version |-> 0, captured |-> 0,
                                    refunded |-> 0, reserved |-> 0, net |-> 0]]
  /\ refund = [r \in Refunds |-> [status |-> "ABSENT", amount |-> 0]]
  /\ override = {}
  /\ request = {}

-----------------------------------------------------------------------------
(* Workflow                                                                *)

CreateRepair ==
  /\ repair.status = "ABSENT"
  /\ repair' = [repair EXCEPT !.status = "REQUESTED"]
  /\ UNCHANGED <<quote, moneyVars, request>>

Exists == repair.status # "ABSENT"

AssignTechnician ==
  /\ Exists
  /\ repair' = [repair EXCEPT !.assigned = TRUE]
  /\ UNCHANGED <<quote, moneyVars, request>>

Finalized == {"HANDED_OVER"}

MayRead(kind) ==
  CASE kind = "intake"     -> TRUE
    [] kind = "diagnosis"  -> repair.assigned /\ repair.status \notin Finalized
    [] kind = "completion" -> repair.assigned /\ repair.status = "IN_REPAIR"

(* findById and the checks of a handler; one such request is followed at a *)
(* time, everything else runs beside it.                                   *)
ReadRepair(kind) ==
  /\ Exists /\ request = {}
  /\ MayRead(kind)
  /\ request' = {[kind |-> kind, seen |-> repair.status, current |-> TRUE]}
  /\ UNCHANGED <<repair, quote, moneyVars>>

(* save() sends the paths it changed: a status equal to the one read is    *)
(* not among them.                                                         *)
Saved(r, status) == IF r.seen = status THEN repair.status ELSE status

Outdated(reqs) == {[r EXCEPT !.current = FALSE] : r \in reqs}

(* intakeRepair replaces an array, so its save matches on the version of   *)
(* the document and fails if another save moved it.                        *)
SaveIntake(r) ==
  /\ r.kind = "intake" /\ r.current
  /\ repair' = [repair EXCEPT !.status = Saved(r, "RECEIVED")]
  /\ request' = Outdated(request \ {r})
  /\ UNCHANGED <<quote, moneyVars>>

SaveDiagnosis(r) ==
  /\ r.kind = "diagnosis"
  /\ repair' = [repair EXCEPT !.status = Saved(r, "DIAGNOSING")]
  /\ request' = request \ {r}
  /\ UNCHANGED <<quote, moneyVars>>

(* The push to workLog moves the version and does not check it.            *)
SaveCompletion(r) ==
  /\ r.kind = "completion"
  /\ repair' = [repair EXCEPT !.status = Saved(r, "QC")]
  /\ request' = Outdated(request \ {r})
  /\ UNCHANGED <<quote, moneyVars>>

(* The save fails on its version check, or the connection is gone.         *)
DropRequest(r) ==
  /\ request' = request \ {r}
  /\ UNCHANGED <<repair, quote, moneyVars>>

SaveRequest ==
  \E r \in request : SaveIntake(r) \/ SaveDiagnosis(r) \/ SaveCompletion(r) \/ DropRequest(r)

-----------------------------------------------------------------------------
(* Finance gates                                                           *)

AcceptedTotal == IF repair.accepted = 0 THEN 0 ELSE quote[repair.accepted].total

Overridden(stage) == override \cap {"ALL", stage} # {}

FinanceGate_Bug(stage) ==
  \/ Overridden(stage)
  \/ stage = "WORK_START" /\ repair.netPaid > 0
  \/ stage \in {"QC", "READY", "HANDOVER"} /\ repair.netPaid >= AcceptedTotal
FinanceGate(stage) ==
  \/ Overridden(stage)
  \/ stage = "WORK_START" /\ repair.netPaid >= Deposit
  \/ stage \in {"QC", "READY", "HANDOVER"} /\ repair.netPaid >= AcceptedTotal

(* A new override of a scope supersedes the active one.                    *)
CreateOverride(scope) ==
  /\ Exists
  /\ override' = override \cup {scope}
  /\ UNCHANGED <<repair, quote, payment, refund, request>>

RevokeOverride(scope) ==
  /\ scope \in override
  /\ override' = override \ {scope}
  /\ UNCHANGED <<repair, quote, payment, refund, request>>

(* No status is asked of the repair: quality control may be performed on a *)
(* repair nobody has worked on.                                            *)
PerformQC(passed) ==
  /\ Exists
  /\ passed => FinanceGate("QC")
  /\ repair' = [repair EXCEPT !.qcPassed = passed,
                              !.status = IF passed THEN "READY" ELSE "IN_REPAIR"]
  /\ request' = Outdated(request)
  /\ UNCHANGED <<quote, moneyVars>>

HandoverRepair_Bug ==
  /\ repair.status = "READY"
  /\ repair.warranties < MaxWarranties
  /\ repair' = [repair EXCEPT !.status = "HANDED_OVER", !.warranties = @ + 1]
  /\ UNCHANGED <<quote, moneyVars, request>>
HandoverRepair ==
  /\ repair.status = "READY" /\ repair.qcPassed
  /\ FinanceGate("HANDOVER")
  /\ repair.warranties < MaxWarranties
  /\ repair' = [repair EXCEPT !.status = "HANDED_OVER", !.warranties = @ + 1]
  /\ UNCHANGED <<quote, moneyVars, request>>

-----------------------------------------------------------------------------
(* Quotes.  Only isActionable quotes are SENT; VIEWED is never written.    *)

CreateNewQuoteVersion_Bug(total) ==
  /\ Exists /\ repair.latest < MaxVersion
  /\ repair' = [repair EXCEPT !.latest = @ + 1, !.status = "QUOTE_SENT"]
  /\ quote' = [quote EXCEPT ![repair.latest + 1] =
                 [status |-> "SENT", total |-> total, lapsed |-> FALSE]]
  /\ UNCHANGED <<moneyVars, request>>
CreateNewQuoteVersion(total) ==
  /\ Exists /\ repair.latest < MaxVersion
  /\ repair' = [repair EXCEPT !.latest = @ + 1, !.status = "QUOTE_SENT"]
  /\ quote' = [v \in Versions |->
                 IF v = repair.latest + 1
                 THEN [status |-> "SENT", total |-> total, lapsed |-> FALSE]
                 ELSE IF quote[v].status = "SENT"
                      THEN [quote[v] EXCEPT !.status = "SUPERSEDED"]
                      ELSE quote[v]]
  /\ UNCHANGED <<moneyVars, request>>

(* expiresAt passes.                                                       *)
QuoteLapses(v) ==
  /\ quote[v].status = "SENT" /\ ~quote[v].lapsed
  /\ quote' = [quote EXCEPT ![v].lapsed = TRUE]
  /\ UNCHANGED <<repair, moneyVars, request>>

Decidable_Bug(v) == quote[v].status \in {"SENT", "SUPERSEDED"}
Decidable(v) == quote[v].status = "SENT" /\ ~quote[v].lapsed

(* A lapsed quote throws, and the writes that expire it are rolled back.   *)
ApproveQuote(v) ==
  /\ Decidable(v)
  /\ quote' = [quote EXCEPT ![v].status = "ACCEPTED"]
  /\ repair' = [repair EXCEPT !.status = "APPROVED", !.accepted = v]
  /\ UNCHANGED <<moneyVars, request>>

DeclineQuote_Bug(v) ==
  /\ Decidable(v)
  /\ quote' = [quote EXCEPT ![v].status = "DECLINED"]
  /\ repair' = [repair EXCEPT !.status = "CANCELLATION_REQUESTED"]
  /\ UNCHANGED <<moneyVars, request>>
DeclineQuote(v) ==
  /\ Decidable(v)
  /\ quote' = [quote EXCEPT ![v].status = "DECLINED"]
  /\ repair' = [repair EXCEPT !.status = "DECLINED"]
  /\ UNCHANGED <<moneyVars, request>>

Overdue == {v \in Versions : quote[v].status = "SENT" /\ quote[v].lapsed}

ExpireOverdueQuotes ==
  /\ Overdue # {}
  /\ quote' = [v \in Versions |->
                 IF v \in Overdue THEN [quote[v] EXCEPT !.status = "EXPIRED"] ELSE quote[v]]
  /\ repair' = IF repair.status = "QUOTE_SENT"
               THEN [repair EXCEPT !.status = "QUOTE_PENDING"] ELSE repair
  /\ UNCHANGED <<moneyVars, request>>

TransitionToInRepair ==
  /\ \E v \in Versions : quote[v].status = "ACCEPTED"
  /\ repair.status = "APPROVED"
  /\ FinanceGate("WORK_START")
  /\ repair' = [repair EXCEPT !.status = "IN_REPAIR"]
  /\ UNCHANGED <<quote, moneyVars, request>>

-----------------------------------------------------------------------------
(* Deposits                                                                *)

(* The attempt is bound to the version accepted when it is created.        *)
CreatePaymentAttempt(p) ==
  /\ payment[p].status = "ABSENT"
  /\ repair.accepted # 0
  /\ payment' = [payment EXCEPT ![p].status = "PENDING", ![p].version = repair.accepted]
  /\ UNCHANGED <<repair, quote, refund, override, request>>

Counted == {"SUCCEEDED", "PARTIALLY_REFUNDED", "REFUNDED"}

DepositsOf(v) == {p \in Payments : payment[p].version = v}
NetOf(accounts) == [p \in Payments |-> accounts[p].net]

(* The totals of the repair, from the payments of its accepted version.    *)
RecalculateRepairFinance_Bug(accounts) ==
  repair' = [repair EXCEPT !.netPaid =
               Total([p \in Payments |-> accounts[p].captured],
                     {p \in Payments : accounts[p].status \in Counted}, MaxMoney)]
RecalculateRepairFinance(accounts) ==
  repair' = [repair EXCEPT !.netPaid =
               Total(NetOf(accounts),
                     {p \in DepositsOf(repair.accepted) : accounts[p].status \in Counted},
                     MaxMoney)]

(* ensurePaymentSubject: the repair still has the version that was paid.   *)
VersionAccepted(p) == payment[p].version = repair.accepted

(* charge.success with an event identifier not seen before.  Anything else *)
(* -- a known identifier, another status, another accepted version -- only *)
(* opens a reconciliation case.  A partly refunded deposit is neither      *)
(* SUCCEEDED nor PAYMENT_TERMINAL.                                         *)
ApplyVerifiedPaymentEvent(p) ==
  /\ payment[p].status # "ABSENT"
  /\ payment[p].status # "SUCCEEDED"
  /\ payment[p].status \notin PAYMENT_TERMINAL
  /\ VersionAccepted(p)
  /\ LET accounts == [payment EXCEPT ![p] = Capture(@, Deposit)] IN
       /\ payment' = accounts
       /\ RecalculateRepairFinance(accounts)
  /\ UNCHANGED <<quote, refund, override, request>>

(* charge.failed does not recalculate the repair.                          *)
ProcessVerifiedPaymentFailure(p) ==
  /\ payment[p].status # "ABSENT"
  /\ payment[p].status \notin PAYMENT_TERMINAL
  /\ payment' = [payment EXCEPT ![p].status = "FAILED"]
  /\ UNCHANGED <<repair, quote, refund, override, request>>

ReserveRefund(r, amount) ==
  LET p == RefundOf[r] IN
  /\ refund[r].status = "ABSENT"
  /\ payment[p].status \in PAYMENT_SUCCESS
  /\ amount <= Available(payment[p])
  /\ payment' = [payment EXCEPT ![p] = Hold(@, amount)]
  /\ refund' = [refund EXCEPT ![r] = [status |-> "RESERVED", amount |-> amount]]
  /\ UNCHANGED <<repair, quote, override, request>>

MarkRefundProviderPending(r) ==
  /\ refund[r].status = "RESERVED"
  /\ refund' = [refund EXCEPT ![r].status = "PROVIDER_PENDING"]
  /\ UNCHANGED <<repair, quote, payment, override, request>>

(* The guards whose failure only opens a reconciliation case.              *)
Settleable(r) ==
  LET p == RefundOf[r] IN
  /\ refund[r].status \in ACTIVE_REFUNDS
  /\ VersionAccepted(p)
  /\ payment[p].reserved >= refund[r].amount
  /\ payment[p].refunded + refund[r].amount <= payment[p].captured

SettleRefundSuccess(r) ==
  LET p == RefundOf[r]
      accounts == [payment EXCEPT ![p] = Settle(@, refund[r].amount)] IN
  /\ Settleable(r)
  /\ payment' = accounts
  /\ refund' = [refund EXCEPT ![r].status = "SUCCEEDED"]
  /\ RecalculateRepairFinance(accounts)
  /\ UNCHANGED <<quote, override, request>>

ReleaseRefundReservation(r, target) ==
  LET p == RefundOf[r] IN
  /\ refund[r].status \in ACTIVE_REFUNDS
  /\ target = "CANCELLED" => refund[r].status = "RESERVED"
  /\ payment[p].reserved >= refund[r].amount
  /\ payment' = [payment EXCEPT ![p] = ReleaseHold(@, refund[r].amount)]
  /\ refund' = [refund EXCEPT ![r].status = target]
  /\ UNCHANGED <<repair, quote, override, request>>

-----------------------------------------------------------------------------
(* What the tracking page shows                                            *)

Issued == {v \in Versions : quote[v].status # "ABSENT"}

TrackedVersion == CHOOSE v \in Issued : \A w \in Issued : w <= v

TrackedQuoteStatus ==
  LET q == quote[TrackedVersion] IN IF q.status = "SENT" /\ q.lapsed THEN "EXPIRED" ELSE q.status

(* netPaidAmount || capturedAmount: a deposit that was wholly refunded is  *)
(* shown with the amount once captured.                                    *)
ShownAmount(p) == IF payment[p].net > 0 THEN payment[p].net ELSE payment[p].captured

TrackedPayments_Bug == {p \in Payments : payment[p].version # 0}
TrackedPayments == DepositsOf(TrackedVersion)

TrackedDeposit ==
  LET confirmed == Total([p \in Payments |-> ShownAmount(p)],
                         {p \in TrackedPayments : payment[p].status \in Counted}, MaxMoney) IN
  CASE confirmed >= Deposit -> "confirmed"
    [] confirmed \in 1..(Deposit - 1) -> "partially_confirmed"
    [] confirmed = 0 /\ (\E p \in TrackedPayments : payment[p].status = "FAILED") -> "failed"
    [] OTHER -> "pending"

-----------------------------------------------------------------------------
Workflow ==
  \/ CreateRepair \/ AssignTechnician
  \/ \E kind \in {"intake", "diagnosis", "completion"} : ReadRepair(kind)
  \/ SaveRequest
  \/ \E passed \in BOOLEAN : PerformQC(passed)
  \/ HandoverRepair
  \/ TransitionToInRepair

Quoting ==
  \/ \E total \in Totals : CreateNewQuoteVersion(total)
  \/ \E v \in Versions : QuoteLapses(v) \/ ApproveQuote(v) \/ DeclineQuote(v)
  \/ ExpireOverdueQuotes

Money ==
  \/ \E scope \in Scopes : CreateOverride(scope) \/ RevokeOverride(scope)
  \/ \E p \in Payments : \/ CreatePaymentAttempt(p)
                         \/ ApplyVerifiedPaymentEvent(p)
                         \/ ProcessVerifiedPaymentFailure(p)
  \/ \E r \in Refunds : \/ \E amount \in 1..Deposit : ReserveRefund(r, amount)
                        \/ MarkRefundProviderPending(r)
                        \/ SettleRefundSuccess(r)
                        \/ \E target \in {"FAILED", "CANCELLED"} :
                             ReleaseRefundReservation(r, target)

Next == Workflow \/ Quoting \/ Money

Spec == Init /\ [][Next]_vars

-----------------------------------------------------------------------------
(* Properties                                                              *)

(* Every document has the shape its schema gives it.                       *)
TypeOK ==
  /\ repair \in RepairDocument
  /\ quote \in [Versions -> QuoteDocument]
  /\ payment \in [Payments -> DepositDocument]
  /\ refund \in [Refunds -> RefundDocument]
  /\ override \in Overrides
  /\ request \subseteq StaffRequest

(* quoteService: whatever else moves the repair, the customer can decide   *)
(* the newest quote and no other.                                          *)
OneOpenQuote == \A v \in Versions : quote[v].status = "SENT" => v = repair.latest

(* decideQuote and createNewQuoteVersion race over one repair: work may be *)
(* approved only on the newest quote, and the finance gates look at that   *)
(* same quote.                                                             *)
ApprovedMeansCurrentQuote ==
  repair.status = "APPROVED" =>
    /\ repair.accepted = repair.latest
    /\ quote[repair.latest].status = "ACCEPTED"

(* What the payments bound to version v still hold.                        *)
PaidFor(v) == Total(NetOf(payment), DepositsOf(v), MaxMoney)

(* recalculateRepairFinance: the credit of a repair is money some accepted *)
(* quote's payments still hold, although attempts and refunds of older     *)
(* versions keep arriving.                                                 *)
CreditIsBacked ==
  \/ repair.netPaid = 0
  \/ \E v \in 1..repair.accepted : repair.netPaid <= PaidFor(v)

(* transitionToInRepair: when it starts the work, the payments of one      *)
(* version really hold the deposit, or finance waived it, although the     *)
(* gate reads only the totals cached on the repair.                        *)
StartedWorkIsPaid ==
  TransitionToInRepair => \/ Overridden("WORK_START")
                          \/ \E v \in 1..repair.accepted : PaidFor(v) >= Deposit

(* handoverRepair: the device leaves only after quality control passed,    *)
(* and with the accepted total still held by payments, or waived, at that  *)
(* moment: a refund after quality control closes the gate again.           *)
HandoverNeedsClearance ==
  (repair.status # "HANDED_OVER" /\ repair'.status = "HANDED_OVER")
  => /\ repair.qcPassed
     /\ \/ Overridden("HANDOVER")
        \/ AcceptedTotal = 0
        \/ \E v \in 1..repair.accepted : PaidFor(v) >= AcceptedTotal

(* toPublicRepair: money on the tracking page belongs to the quote shown   *)
(* beside it, which the customer accepted and nothing has superseded; a    *)
(* quote shown as open can be decided.                                     *)
TrackingAgrees ==
  Issued # {} =>
    /\ TrackedDeposit # "pending" => TrackedQuoteStatus = "ACCEPTED"
    /\ TrackedQuoteStatus # "SUPERSEDED"
    /\ TrackedQuoteStatus = "SENT" => Decidable(TrackedVersion)

(* What the customer decides on, the workshop works by and the tracking    *)
(* page shows is one quote, the newest.                                    *)
DecisionsAreCurrent == OneOpenQuote /\ ApprovedMeansCurrentQuote /\ TrackingAgrees

(* Money first: neither work nor the device is given for less than the     *)
(* payments hold, although the gates read only the totals on the repair.   *)
WorkIsPaidFor == [][CreditIsBacked' /\ StartedWorkIsPaid /\ HandoverNeedsClearance]_vars
=============================================================================
