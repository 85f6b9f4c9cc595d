-------------------------- MODULE BackOffice_proofs --------------------------
(***************************************************************************)
(* Repairs.  What the customer decides on, the workshop works by and the   *)
(* tracking page shows is one quote, the newest: for any number of         *)
(* versions, deposits, refunds and staff requests.  Neither work nor the   *)
(* device is given for less than the payments of one accepted quote hold.  *)
(* Selling by quotation.  One quotation to decide on, one decision, one    *)
(* order.                                                                  *)
(* Supply.  Every piece of stock has its entry in the ledger, and every    *)
(* receipt of a purchase order is among them.                              *)
(***************************************************************************)
EXTENDS BackOffice, Tally_proofs

(* The shape of the documents, without the bounds of the sums: what the    *)
(* quotes need to know of the money.                                       *)
RepairRecord ==
  [status : REPAIR_STATUS, assigned : BOOLEAN, qcPassed : BOOLEAN, latest : 0..MaxVersion,
   accepted : 0..MaxVersion, netPaid : Nat, warranties : Nat]

DepositRecord ==
  [status : PaymentStatus, version : 0..MaxVersion, captured : Int, refunded : Int,
   reserved : Int, net : Int]

DeskShape ==
  /\ repair \in RepairRecord
  /\ quote \in [Versions -> QuoteDocument]
  /\ payment \in [Payments -> DepositRecord]
  /\ refund \in [Refunds -> RefundDocument]

(* The counter of the repair numbers the quotes that were issued.          *)
Numbered == \A v \in Versions : quote[v].status = "ABSENT" <=> v > repair.latest

(* Only an older quote is superseded.                                      *)
NewestStands == \A v \in Versions : quote[v].status = "SUPERSEDED" => v # repair.latest

(* The quote the repair accepted stays accepted ...                        *)
AcceptedStands == repair.accepted # 0 => quote[repair.accepted].status = "ACCEPTED"

(* ... and so does the one each deposit was made for, also after the       *)
(* customer accepted another.                                              *)
DepositsFollowAcceptance ==
  \A p \in Payments : payment[p].version # 0 => quote[payment[p].version].status = "ACCEPTED"

DeskInv ==
  /\ DeskShape
  /\ Numbered /\ NewestStands /\ AcceptedStands /\ DepositsFollowAcceptance
  /\ OneOpenQuote /\ ApprovedMeansCurrentQuote

-----------------------------------------------------------------------------
(* Most steps leave the quotes alone: they keep the invariant when they do *)
(* not approve anything and bind deposits to nothing but the accepted      *)
(* version.                                                                *)
QuotesAlone ==
  /\ quote' = quote
  /\ repair'.latest = repair.latest /\ repair'.accepted = repair.accepted
  /\ repair'.status = "APPROVED" => repair.status = "APPROVED"
  /\ \A p \in Payments : payment'[p].version \in {payment[p].version, repair.accepted}

LEMMA QuotesAloneSafe ==
  ASSUME DeskInv, DeskShape', QuotesAlone
  PROVE  DeskInv'
<1>1. Numbered' /\ NewestStands' /\ OneOpenQuote'
  BY DEF DeskInv, QuotesAlone, Numbered, NewestStands, OneOpenQuote
<1>2. AcceptedStands'
  BY DEF DeskInv, QuotesAlone, AcceptedStands
<1>3. DepositsFollowAcceptance'
  <2> SUFFICES ASSUME NEW p \in Payments, payment'[p].version # 0
               PROVE  quote[payment'[p].version].status = "ACCEPTED"
    BY DEF QuotesAlone, DepositsFollowAcceptance
  <2>1. CASE payment'[p].version = payment[p].version
    BY <2>1 DEF DeskInv, DepositsFollowAcceptance
  <2>2. CASE payment'[p].version = repair.accepted
    BY <2>2 DEF DeskInv, AcceptedStands
  <2> QED
    BY <2>1, <2>2 DEF QuotesAlone
<1>4. ApprovedMeansCurrentQuote'
  BY DEF DeskInv, QuotesAlone, ApprovedMeansCurrentQuote
<1> QED
  BY <1>1, <1>2, <1>3, <1>4 DEF DeskInv

(* A repair of which only other fields than its quote counters change.     *)
LEMMA StatusChange ==
  ASSUME DeskShape, NEW s \in REPAIR_STATUS,
         \/ repair' = [repair EXCEPT !.status = s]
         \/ \E b \in BOOLEAN : repair' = [repair EXCEPT !.qcPassed = b, !.status = s]
         \/ \E n \in Nat : repair' = [repair EXCEPT !.status = s, !.warranties = n]
  PROVE  /\ repair' \in RepairRecord
         /\ repair'.latest = repair.latest /\ repair'.accepted = repair.accepted
         /\ repair'.status = s
<1>1. CASE repair' = [repair EXCEPT !.status = s]
  BY <1>1 DEF DeskShape, RepairRecord
<1>2. ASSUME NEW b \in BOOLEAN, repair' = [repair EXCEPT !.qcPassed = b, !.status = s]
      PROVE  /\ repair' \in RepairRecord
             /\ repair'.latest = repair.latest /\ repair'.accepted = repair.accepted
             /\ repair'.status = s
  BY <1>2 DEF DeskShape, RepairRecord
<1>3. ASSUME NEW n \in Nat, repair' = [repair EXCEPT !.status = s, !.warranties = n]
      PROVE  /\ repair' \in RepairRecord
             /\ repair'.latest = repair.latest /\ repair'.accepted = repair.accepted
             /\ repair'.status = s
  BY <1>3 DEF DeskShape, RepairRecord
<1> QED
  BY <1>1, <1>2, <1>3

(* The totals of the repair are recalculated without touching its quotes.  *)
LEMMA Recalculated ==
  ASSUME DeskShape, NEW accounts, RecalculateRepairFinance(accounts)
  PROVE  /\ repair' \in RepairRecord
         /\ repair'.latest = repair.latest /\ repair'.accepted = repair.accepted
         /\ repair'.status = repair.status
<1> DEFINE S == {p \in DepositsOf(repair.accepted) : accounts[p].status \in Counted}
           n == Total(NetOf(accounts), S, MaxMoney)
<1>1. S \subseteq Payments /\ IsFiniteSet(Payments) /\ MaxMoney \in Nat
  BY DeskAssumption DEF DeskAssumption, DepositsOf
<1>2. IsFiniteSet(S)
  BY <1>1, FS_Subset
<1>3. n \in Nat
  BY <1>1, <1>2, TotalType
<1>4. repair' = [repair EXCEPT !.netPaid = n]
  BY DEF RecalculateRepairFinance
<1> HIDE DEF n
<1> QED
  BY <1>3, <1>4 DEF DeskShape, RepairRecord

-----------------------------------------------------------------------------
(* The workshop's own steps.                                               *)
LEMMA WorkflowSafe ==
  ASSUME DeskInv, Workflow
  PROVE  DeskInv'
<1>0. DeskShape
  BY DEF DeskInv
<1> SUFFICES /\ repair' \in RepairRecord
             /\ repair'.latest = repair.latest /\ repair'.accepted = repair.accepted
             /\ repair'.status = "APPROVED" => repair.status = "APPROVED"
             /\ quote' = quote /\ payment' = payment /\ refund' = refund
  BY <1>0, QuotesAloneSafe DEF DeskShape, QuotesAlone
<1>1. CASE CreateRepair
  BY <1>0, <1>1, StatusChange DEF CreateRepair, moneyVars, REPAIR_STATUS
<1>2. CASE AssignTechnician
  BY <1>0, <1>2 DEF AssignTechnician, moneyVars, DeskShape, RepairRecord
<1>3. CASE \E kind \in {"intake", "diagnosis", "completion"} : ReadRepair(kind)
  BY <1>0, <1>3 DEF ReadRepair, moneyVars, DeskShape
<1>4. CASE SaveRequest
  <2>1. PICK r \in request : SaveIntake(r) \/ SaveDiagnosis(r) \/ SaveCompletion(r) \/ DropRequest(r)
    BY <1>4 DEF SaveRequest
  <2>2. CASE DropRequest(r)
    BY <1>0, <2>2 DEF DropRequest, moneyVars, DeskShape
  <2>3. ASSUME NEW s \in {"RECEIVED", "DIAGNOSING", "QC"},
               repair' = [repair EXCEPT !.status = Saved(r, s)]
        PROVE  /\ repair' \in RepairRecord
               /\ repair'.latest = repair.latest /\ repair'.accepted = repair.accepted
               /\ repair'.status = "APPROVED" => repair.status = "APPROVED"
    <3>1. Saved(r, s) \in REPAIR_STATUS /\ (Saved(r, s) = "APPROVED" => repair.status = "APPROVED")
      BY <1>0 DEF Saved, REPAIR_STATUS, DeskShape, RepairRecord
    <3> QED
      BY <1>0, <2>3, <3>1, StatusChange
  <2>4. CASE SaveIntake(r)
    BY <2>3, <2>4 DEF SaveIntake, moneyVars
  <2>5. CASE SaveDiagnosis(r)
    BY <2>3, <2>5 DEF SaveDiagnosis, moneyVars
  <2>6. CASE SaveCompletion(r)
    BY <2>3, <2>6 DEF SaveCompletion, moneyVars
  <2> QED
    BY <2>1, <2>2, <2>4, <2>5, <2>6
<1>5. CASE \E passed \in BOOLEAN : PerformQC(passed)
  <2>1. PICK passed \in BOOLEAN : PerformQC(passed)
    BY <1>5
  <2> DEFINE s == IF passed THEN "READY" ELSE "IN_REPAIR"
  <2>2. repair' = [repair EXCEPT !.qcPassed = passed, !.status = s]
    BY <2>1 DEF PerformQC
  <2>3. s \in REPAIR_STATUS /\ s # "APPROVED"
    BY DEF REPAIR_STATUS
  <2> QED
    BY <1>0, <2>1, <2>2, <2>3, StatusChange DEF PerformQC, moneyVars
<1>6. CASE HandoverRepair
  <2>1. repair.warranties + 1 \in Nat
    BY <1>0 DEF DeskShape, RepairRecord
  <2>2. repair' = [repair EXCEPT !.status = "HANDED_OVER", !.warranties = repair.warranties + 1]
    BY <1>6 DEF HandoverRepair
  <2>3. "HANDED_OVER" \in REPAIR_STATUS
    BY DEF REPAIR_STATUS
  <2> QED
    BY <1>0, <1>6, <2>1, <2>2, <2>3, StatusChange DEF HandoverRepair, moneyVars
<1>7. CASE TransitionToInRepair
  BY <1>0, <1>7, StatusChange DEF TransitionToInRepair, moneyVars, REPAIR_STATUS
<1> QED
  BY <1>1, <1>2, <1>3, <1>4, <1>5, <1>6, <1>7 DEF Workflow

-----------------------------------------------------------------------------
(* Issuing, deciding and expiring quotes.                                  *)
LEMMA CreateNewQuoteVersionSafe ==
  ASSUME DeskInv, NEW total \in Totals, CreateNewQuoteVersion(total)
  PROVE  DeskInv'
<1> DEFINE n == repair.latest + 1
<1>0. DeskShape /\ MaxVersion \in Nat /\ n \in Versions
  BY DeskAssumption DEF DeskAssumption, DeskInv, DeskShape, RepairRecord, CreateNewQuoteVersion,
     Versions
<1>1. repair' \in RepairRecord /\ repair'.latest = n
      /\ repair'.accepted = repair.accepted /\ repair'.status = "QUOTE_SENT"
  <2>1. repair' = [repair EXCEPT !.latest = n, !.status = "QUOTE_SENT"]
    BY DEF CreateNewQuoteVersion
  <2>2. n \in 0..MaxVersion
    BY <1>0 DEF Versions
  <2> HIDE DEF n
  <2> QED
    BY <1>0, <2>1, <2>2 DEF DeskShape, RepairRecord, REPAIR_STATUS
<1>2. \A v \in Versions :
        /\ v = n => quote'[v] = [status |-> "SENT", total |-> total, lapsed |-> FALSE]
        /\ v # n /\ quote[v].status = "SENT" =>
             quote'[v] = [quote[v] EXCEPT !.status = "SUPERSEDED"]
        /\ v # n /\ quote[v].status # "SENT" => quote'[v] = quote[v]
  BY DEF CreateNewQuoteVersion
<1>3. quote' \in [Versions -> QuoteDocument]
  <2>1. ASSUME NEW v \in Versions PROVE quote'[v] \in QuoteDocument
    <3>1. quote[v] \in QuoteDocument
      BY <1>0 DEF DeskShape
    <3>2. CASE v = n
      <4>1. [status |-> "SENT", total |-> total, lapsed |-> FALSE] \in QuoteDocument
        BY DEF QuoteDocument, QUOTE_STATUS
      <4> QED
        BY <1>2, <3>2, <4>1
    <3>3. CASE v # n /\ quote[v].status = "SENT"
      <4>1. quote'[v] = [quote[v] EXCEPT !.status = "SUPERSEDED"]
        BY <1>2, <3>3
      <4> QED
        BY <3>1, <4>1 DEF QuoteDocument, QUOTE_STATUS
    <3>4. CASE v # n /\ quote[v].status # "SENT"
      BY <1>2, <3>1, <3>4
    <3> QED
      BY <3>2, <3>3, <3>4
  <2> QED
    BY <2>1 DEF CreateNewQuoteVersion
<1>4. ASSUME NEW v \in Versions
      PROVE  /\ v = n => quote'[v].status = "SENT"
             /\ v # n => quote'[v].status = IF quote[v].status = "SENT" THEN "SUPERSEDED"
                                            ELSE quote[v].status
  <2>1. quote[v] \in QuoteDocument
    BY <1>0 DEF DeskShape
  <2>2. CASE v # n /\ quote[v].status = "SENT"
    <3>1. quote'[v] = [quote[v] EXCEPT !.status = "SUPERSEDED"]
      BY <1>2, <2>2
    <3> QED
      BY <2>1, <2>2, <3>1 DEF QuoteDocument
  <2>3. CASE v # n /\ quote[v].status # "SENT"
    BY <1>2, <2>3
  <2>4. CASE v = n
    <3>1. quote'[v] = [status |-> "SENT", total |-> total, lapsed |-> FALSE]
      BY <1>2, <2>4
    <3> QED
      BY <2>4, <3>1
  <2> QED
    BY <2>2, <2>3, <2>4
<1>5. payment' = payment /\ refund' = refund
  BY DEF CreateNewQuoteVersion, moneyVars
<1>6. Numbered'
  BY <1>0, <1>1, <1>4 DEF DeskInv, DeskShape, RepairRecord, Numbered, Versions
<1>7. NewestStands' /\ OneOpenQuote'
  BY <1>1, <1>4 DEF NewestStands, OneOpenQuote
<1>8. quote[n].status = "ABSENT"
  BY <1>0 DEF DeskInv, DeskShape, RepairRecord, Numbered
<1>9. AcceptedStands'
  BY <1>0, <1>1, <1>4, <1>8 DEF DeskInv, DeskShape, RepairRecord, AcceptedStands, Versions
<1>10. DepositsFollowAcceptance'
  <2> SUFFICES ASSUME NEW p \in Payments, payment[p].version # 0
               PROVE  quote'[payment[p].version].status = "ACCEPTED"
    BY <1>5 DEF DepositsFollowAcceptance
  <2>1. payment[p].version \in Versions /\ quote[payment[p].version].status = "ACCEPTED"
    BY <1>0 DEF DeskInv, DeskShape, DepositRecord, DepositsFollowAcceptance, Versions
  <2> QED
    BY <1>4, <1>8, <2>1
<1>11. ApprovedMeansCurrentQuote'
  BY <1>1 DEF ApprovedMeansCurrentQuote
<1> QED
  BY <1>0, <1>1, <1>3, <1>5, <1>6, <1>7, <1>9, <1>10, <1>11 DEF DeskInv, DeskShape

(* Each other step on quotes moves some of those that are open to a status *)
(* they keep.                                                              *)
LEMMA Closed ==
  ASSUME DeskInv, NEW closed \in {"ACCEPTED", "DECLINED", "EXPIRED"}, NEW V \in SUBSET Versions,
         \A v \in V : quote[v].status = "SENT",
         quote' = [v \in Versions |->
                     IF v \in V THEN [quote[v] EXCEPT !.status = closed] ELSE quote[v]],
         repair'.latest = repair.latest, payment' = payment
  PROVE  /\ quote' \in [Versions -> QuoteDocument]
         /\ Numbered' /\ NewestStands' /\ OneOpenQuote' /\ DepositsFollowAcceptance'
         /\ \A v \in Versions : quote[v].status = "ACCEPTED" => quote'[v].status = "ACCEPTED"
         /\ \A v \in V : quote'[v].status = closed
<1>0. DeskShape /\ MaxVersion \in Nat
  BY DeskAssumption DEF DeskAssumption, DeskInv
<1>1. \A v \in Versions : quote'[v] \in QuoteDocument
  BY <1>0 DEF DeskShape, QuoteDocument, QUOTE_STATUS
<1>2. \A v \in Versions : quote'[v].status = IF v \in V THEN closed ELSE quote[v].status
  BY <1>0 DEF DeskShape, QuoteDocument
<1>3. Numbered' /\ NewestStands' /\ OneOpenQuote'
  BY <1>2 DEF DeskInv, Numbered, NewestStands, OneOpenQuote
<1>4. DepositsFollowAcceptance'
  BY <1>0, <1>2 DEF DeskInv, DeskShape, DepositRecord, DepositsFollowAcceptance, Versions
<1> QED
  BY <1>1, <1>2, <1>3, <1>4

LEMMA ApproveQuoteSafe ==
  ASSUME DeskInv, NEW v \in Versions, ApproveQuote(v)
  PROVE  DeskInv'
<1>0. DeskShape /\ MaxVersion \in Nat /\ v = repair.latest /\ quote[v].status = "SENT"
  BY DeskAssumption DEF DeskAssumption, DeskInv, OneOpenQuote, ApproveQuote, Decidable
<1>1. /\ repair' \in RepairRecord /\ repair'.latest = repair.latest
      /\ repair'.accepted = v /\ repair'.status = "APPROVED"
  BY <1>0 DEF ApproveQuote, DeskShape, RepairRecord, REPAIR_STATUS, Versions
<1>2. payment' = payment /\ refund' = refund
  BY DEF ApproveQuote, moneyVars
<1>3. /\ quote' = [w \in Versions |->
                     IF w \in {v} THEN [quote[w] EXCEPT !.status = "ACCEPTED"] ELSE quote[w]]
      /\ {v} \in SUBSET Versions /\ (\A w \in {v} : quote[w].status = "SENT")
  BY <1>0 DEF ApproveQuote, DeskShape
<1>4. /\ quote' \in [Versions -> QuoteDocument]
      /\ Numbered' /\ NewestStands' /\ OneOpenQuote' /\ DepositsFollowAcceptance'
      /\ quote'[v].status = "ACCEPTED"
  BY <1>0, <1>1, <1>2, <1>3, Closed
<1>5. AcceptedStands' /\ ApprovedMeansCurrentQuote'
  BY <1>0, <1>1, <1>4 DEF AcceptedStands, ApprovedMeansCurrentQuote
<1> QED
  BY <1>0, <1>1, <1>2, <1>4, <1>5 DEF DeskInv, DeskShape

LEMMA DeclineQuoteSafe ==
  ASSUME DeskInv, NEW v \in Versions, DeclineQuote(v)
  PROVE  DeskInv'
<1>0. DeskShape /\ MaxVersion \in Nat /\ quote[v].status = "SENT"
  BY DeskAssumption DEF DeskAssumption, DeskInv, DeclineQuote, Decidable
<1>1. /\ repair' \in RepairRecord /\ repair'.latest = repair.latest
      /\ repair'.accepted = repair.accepted /\ repair'.status = "DECLINED"
  BY <1>0, StatusChange DEF DeclineQuote, REPAIR_STATUS
<1>2. payment' = payment /\ refund' = refund
  BY DEF DeclineQuote, moneyVars
<1>3. /\ quote' = [w \in Versions |->
                     IF w \in {v} THEN [quote[w] EXCEPT !.status = "DECLINED"] ELSE quote[w]]
      /\ {v} \in SUBSET Versions /\ (\A w \in {v} : quote[w].status = "SENT")
  BY <1>0 DEF DeclineQuote, DeskShape
<1>4. /\ quote' \in [Versions -> QuoteDocument]
      /\ Numbered' /\ NewestStands' /\ OneOpenQuote' /\ DepositsFollowAcceptance'
      /\ \A w \in Versions : quote[w].status = "ACCEPTED" => quote'[w].status = "ACCEPTED"
  BY <1>0, <1>1, <1>2, <1>3, Closed
<1>5. AcceptedStands' /\ ApprovedMeansCurrentQuote'
  BY <1>0, <1>1, <1>4 DEF DeskInv, DeskShape, RepairRecord, AcceptedStands,
     ApprovedMeansCurrentQuote, Versions
<1> QED
  BY <1>0, <1>1, <1>2, <1>4, <1>5 DEF DeskInv, DeskShape

LEMMA ExpireOverdueQuotesSafe ==
  ASSUME DeskInv, ExpireOverdueQuotes
  PROVE  DeskInv'
<1>0. DeskShape /\ MaxVersion \in Nat
  BY DeskAssumption DEF DeskAssumption, DeskInv
<1>1. /\ repair' \in RepairRecord /\ repair'.latest = repair.latest
      /\ repair'.accepted = repair.accepted
      /\ repair'.status = "APPROVED" => repair.status = "APPROVED"
  <2>1. CASE repair.status = "QUOTE_SENT"
    BY <1>0, <2>1, StatusChange DEF ExpireOverdueQuotes, REPAIR_STATUS
  <2>2. CASE repair.status # "QUOTE_SENT"
    BY <1>0, <2>2 DEF ExpireOverdueQuotes, DeskShape
  <2> QED
    BY <2>1, <2>2
<1>2. payment' = payment /\ refund' = refund
  BY DEF ExpireOverdueQuotes, moneyVars
<1>3. /\ quote' = [v \in Versions |->
                     IF v \in Overdue THEN [quote[v] EXCEPT !.status = "EXPIRED"] ELSE quote[v]]
      /\ Overdue \in SUBSET Versions
      /\ \A v \in Overdue : quote[v].status = "SENT"
  BY DEF ExpireOverdueQuotes, Overdue
<1>4. /\ quote' \in [Versions -> QuoteDocument]
      /\ Numbered' /\ NewestStands' /\ OneOpenQuote' /\ DepositsFollowAcceptance'
      /\ \A w \in Versions : quote[w].status = "ACCEPTED" => quote'[w].status = "ACCEPTED"
  BY <1>1, <1>2, <1>3, Closed
<1>5. AcceptedStands'
  BY <1>0, <1>1, <1>4 DEF DeskInv, DeskShape, RepairRecord, AcceptedStands, Versions
<1>6. ApprovedMeansCurrentQuote'
  <2> SUFFICES ASSUME repair'.status = "APPROVED"
               PROVE  repair'.accepted = repair'.latest /\ quote'[repair'.latest].status = "ACCEPTED"
    BY DEF ApprovedMeansCurrentQuote
  <2>1. repair.accepted = repair.latest /\ quote[repair.latest].status = "ACCEPTED"
    BY <1>1 DEF DeskInv, ApprovedMeansCurrentQuote
  <2>2. Overdue # {} => repair.latest \in Versions
    <3> SUFFICES ASSUME NEW v \in Overdue PROVE repair.latest \in Versions
      OBVIOUS
    <3> QED
      BY <1>3 DEF DeskInv, OneOpenQuote
  <2> QED
    BY <1>1, <1>4, <2>1, <2>2 DEF ExpireOverdueQuotes
<1> QED
  BY <1>0, <1>1, <1>2, <1>4, <1>5, <1>6 DEF DeskInv, DeskShape

(* A quote that lapses keeps its status.                                   *)
LEMMA QuoteLapsesSafe ==
  ASSUME DeskInv, NEW v \in Versions, QuoteLapses(v)
  PROVE  DeskInv'
<1>0. DeskShape /\ MaxVersion \in Nat
  BY DeskAssumption DEF DeskAssumption, DeskInv
<1>1. quote' \in [Versions -> QuoteDocument]
      /\ \A w \in Versions : quote'[w].status = quote[w].status
  BY <1>0 DEF QuoteLapses, DeskShape, QuoteDocument
<1>2. repair' = repair /\ payment' = payment /\ refund' = refund
  BY DEF QuoteLapses, moneyVars
<1>3. Numbered' /\ NewestStands' /\ OneOpenQuote'
  BY <1>1, <1>2 DEF DeskInv, Numbered, NewestStands, OneOpenQuote
<1>4. AcceptedStands'
  BY <1>0, <1>1, <1>2 DEF DeskInv, DeskShape, RepairRecord, AcceptedStands, Versions
<1>5. DepositsFollowAcceptance'
  BY <1>0, <1>1, <1>2 DEF DeskInv, DeskShape, DepositRecord, DepositsFollowAcceptance, Versions
<1>6. ApprovedMeansCurrentQuote'
  <2>1. repair.latest \in Versions
    BY DEF DeskInv, OneOpenQuote, QuoteLapses
  <2> QED
    BY <1>1, <1>2, <2>1 DEF DeskInv, ApprovedMeansCurrentQuote
<1> QED
  BY <1>0, <1>1, <1>2, <1>3, <1>4, <1>5, <1>6 DEF DeskInv, DeskShape

LEMMA QuotingSafe ==
  ASSUME DeskInv, Quoting
  PROVE  DeskInv'
BY CreateNewQuoteVersionSafe, ApproveQuoteSafe, DeclineQuoteSafe, ExpireOverdueQuotesSafe,
   QuoteLapsesSafe DEF Quoting

-----------------------------------------------------------------------------
(* Overrides, deposits and refunds: a payment keeps its version, or is     *)
(* bound to the accepted one when it is created.                           *)

(* The moves on a payment keep its shape and its version.                  *)
LEMMA MovesKeepVersion ==
  ASSUME NEW acc \in DepositRecord, NEW amount \in Int
  PROVE  /\ Capture(acc, amount) \in DepositRecord /\ Capture(acc, amount).version = acc.version
         /\ Hold(acc, amount) \in DepositRecord /\ Hold(acc, amount).version = acc.version
         /\ Settle(acc, amount) \in DepositRecord /\ Settle(acc, amount).version = acc.version
         /\ ReleaseHold(acc, amount) \in DepositRecord
         /\ ReleaseHold(acc, amount).version = acc.version
<1>1. Capture(acc, amount) \in DepositRecord /\ Capture(acc, amount).version = acc.version
  <2> DEFINE s == "SUCCEEDED"
             none == 0
  <2>1. s \in PaymentStatus /\ none \in Int
    BY DEF PaymentStatus
  <2>2. Capture(acc, amount) =
          [acc EXCEPT !.status = s, !.captured = amount, !.refunded = none, !.reserved = none,
                      !.net = amount]
    BY DEF Capture
  <2> HIDE DEF s, none
  <2> QED
    BY <2>1, <2>2 DEF DepositRecord
<1>2. Hold(acc, amount) \in DepositRecord /\ Hold(acc, amount).version = acc.version
  BY DEF Hold, DepositRecord
<1>3. Settle(acc, amount) \in DepositRecord /\ Settle(acc, amount).version = acc.version
  <2> DEFINE s == StatusAfterRefund(acc.captured, acc.refunded + amount)
             held == acc.reserved - amount
             repaid == acc.refunded + amount
             left == acc.captured - (acc.refunded + amount)
  <2>1. held \in Int /\ repaid \in Int /\ left \in Int
    BY DEF DepositRecord
  <2>2. s \in PaymentStatus
    BY DEF StatusAfterRefund, PaymentStatus
  <2>3. Settle(acc, amount) =
          [acc EXCEPT !.reserved = held, !.refunded = repaid, !.net = left, !.status = s]
    BY DEF Settle
  <2> HIDE DEF s, held, repaid, left
  <2> QED
    BY <2>1, <2>2, <2>3 DEF DepositRecord
<1>4. ReleaseHold(acc, amount) \in DepositRecord /\ ReleaseHold(acc, amount).version = acc.version
  BY DEF ReleaseHold, DepositRecord
<1> QED
  BY <1>1, <1>2, <1>3, <1>4

(* One payment moves and no quote does.                                    *)
LEMMA PaymentMoveSafe ==
  ASSUME DeskInv, NEW p \in Payments, NEW acc \in DepositRecord,
         acc.version \in {payment[p].version, repair.accepted},
         payment' = [payment EXCEPT ![p] = acc], quote' = quote,
         repair' \in RepairRecord, repair'.latest = repair.latest,
         repair'.accepted = repair.accepted, repair'.status = repair.status,
         refund' \in [Refunds -> RefundDocument]
  PROVE  DeskInv'
<1>1. payment' \in [Payments -> DepositRecord]
  BY DEF DeskInv, DeskShape
<1>2. \A q \in Payments : payment'[q].version \in {payment[q].version, repair.accepted}
  BY DEF DeskInv, DeskShape
<1> QED
  BY <1>1, <1>2, QuotesAloneSafe DEF QuotesAlone, DeskInv, DeskShape

(* Nothing but refund documents and overrides changes.                     *)
LEMMA PaperworkSafe ==
  ASSUME DeskInv, repair' = repair, quote' = quote, payment' = payment,
         refund' \in [Refunds -> RefundDocument]
  PROVE  DeskInv'
BY QuotesAloneSafe DEF QuotesAlone, DeskInv, DeskShape

LEMMA RefundMove ==
  ASSUME DeskShape, NEW r \in Refunds, NEW s \in RefundStatus,
         refund' = [refund EXCEPT ![r].status = s]
  PROVE  refund' \in [Refunds -> RefundDocument]
<1>1. refund[r] \in RefundDocument
  BY DEF DeskShape
<1>2. [refund[r] EXCEPT !.status = s] \in RefundDocument
  BY <1>1 DEF RefundDocument
<1>3. refund' = [refund EXCEPT ![r] = [refund[r] EXCEPT !.status = s]]
  OBVIOUS
<1> QED
  BY <1>2, <1>3 DEF DeskShape

LEMMA MoneySafe ==
  ASSUME DeskInv, Money
  PROVE  DeskInv'
<1>0. DeskShape /\ Deposit \in Int
  BY DeskAssumption DEF DeskInv, DeskAssumption
<1>1. ASSUME NEW scope \in Scopes, CreateOverride(scope) \/ RevokeOverride(scope) PROVE DeskInv'
  BY <1>0, <1>1, PaperworkSafe DEF CreateOverride, RevokeOverride, DeskShape
<1>2. ASSUME NEW p \in Payments, CreatePaymentAttempt(p) PROVE DeskInv'
  <2> DEFINE acc == [payment[p] EXCEPT !.status = "PENDING", !.version = repair.accepted]
  <2>1. payment[p] \in DepositRecord /\ repair.accepted \in 0..MaxVersion
    BY <1>0 DEF DeskShape, RepairRecord
  <2>2. acc \in DepositRecord /\ acc.version = repair.accepted
    BY <2>1 DEF DepositRecord, PaymentStatus
  <2>3. payment' = [payment EXCEPT ![p] = acc]
    BY <1>2 DEF CreatePaymentAttempt
  <2> HIDE DEF acc
  <2> QED
    BY <1>0, <1>2, <2>2, <2>3, PaymentMoveSafe DEF CreatePaymentAttempt, DeskShape
<1>3. ASSUME NEW p \in Payments, ApplyVerifiedPaymentEvent(p) PROVE DeskInv'
  <2> DEFINE acc == Capture(payment[p], Deposit)
             accounts == [payment EXCEPT ![p] = acc]
  <2>1. acc \in DepositRecord /\ acc.version = payment[p].version
    BY <1>0, MovesKeepVersion DEF DeskShape
  <2>2. payment' = accounts /\ RecalculateRepairFinance(accounts)
    BY <1>3 DEF ApplyVerifiedPaymentEvent
  <2>3. quote' = quote /\ refund' = refund
    BY <1>3 DEF ApplyVerifiedPaymentEvent
  <2>4. /\ repair' \in RepairRecord /\ repair'.latest = repair.latest
        /\ repair'.accepted = repair.accepted /\ repair'.status = repair.status
    BY <1>0, <2>2, Recalculated
  <2>5. payment' = [payment EXCEPT ![p] = acc]
    BY <2>2
  <2> HIDE DEF acc
  <2> QED
    BY <1>0, <2>1, <2>3, <2>4, <2>5, PaymentMoveSafe DEF DeskShape
<1>4. ASSUME NEW p \in Payments, ProcessVerifiedPaymentFailure(p) PROVE DeskInv'
  <2> DEFINE acc == [payment[p] EXCEPT !.status = "FAILED"]
  <2>1. payment[p] \in DepositRecord
    BY <1>0 DEF DeskShape
  <2>2. acc \in DepositRecord /\ acc.version = payment[p].version
    BY <2>1 DEF DepositRecord, PaymentStatus
  <2>3. payment' = [payment EXCEPT ![p] = acc]
    BY <1>4 DEF ProcessVerifiedPaymentFailure
  <2> HIDE DEF acc
  <2> QED
    BY <1>0, <1>4, <2>2, <2>3, PaymentMoveSafe DEF ProcessVerifiedPaymentFailure, DeskShape
<1>5. ASSUME NEW r \in Refunds, NEW amount \in 1..Deposit, ReserveRefund(r, amount) PROVE DeskInv'
  <2> DEFINE p == RefundOf[r]
             acc == Hold(payment[p], amount)
  <2>1. p \in Payments /\ amount \in Int /\ amount \in 0..Deposit
    BY <1>0, DeskAssumption DEF DeskAssumption
  <2>2. acc \in DepositRecord /\ acc.version = payment[p].version
    BY <1>0, <2>1, MovesKeepVersion DEF DeskShape
  <2>3. payment' = [payment EXCEPT ![p] = acc] /\ repair' = repair /\ quote' = quote
    BY <1>5 DEF ReserveRefund
  <2>4. refund' \in [Refunds -> RefundDocument]
    <3>1. [status |-> "RESERVED", amount |-> amount] \in RefundDocument
      BY <2>1 DEF RefundDocument, RefundStatus
    <3> QED
      BY <1>0, <1>5, <3>1 DEF ReserveRefund, DeskShape
  <2> HIDE DEF acc, p
  <2> QED
    BY <1>0, <2>1, <2>2, <2>3, <2>4, PaymentMoveSafe DEF DeskShape
<1>6. ASSUME NEW r \in Refunds, MarkRefundProviderPending(r) PROVE DeskInv'
  <2>1. "PROVIDER_PENDING" \in RefundStatus
    BY DEF RefundStatus
  <2>2. refund' \in [Refunds -> RefundDocument]
    BY <1>0, <1>6, <2>1, RefundMove DEF MarkRefundProviderPending
  <2> QED
    BY <1>6, <2>2, PaperworkSafe DEF MarkRefundProviderPending
<1>7. ASSUME NEW r \in Refunds PROVE RefundOf[r] \in Payments /\ refund[r].amount \in Int
  BY <1>0, DeskAssumption DEF DeskAssumption, DeskShape, RefundDocument
<1>8. ASSUME NEW r \in Refunds, SettleRefundSuccess(r) PROVE DeskInv'
  <2> DEFINE p == RefundOf[r]
             acc == Settle(payment[p], refund[r].amount)
             accounts == [payment EXCEPT ![p] = acc]
  <2>1. acc \in DepositRecord /\ acc.version = payment[p].version
    BY <1>0, <1>7, MovesKeepVersion DEF DeskShape
  <2>2. /\ payment' = accounts /\ RecalculateRepairFinance(accounts) /\ quote' = quote
        /\ refund' = [refund EXCEPT ![r].status = "SUCCEEDED"]
    BY <1>8 DEF SettleRefundSuccess
  <2>3. "SUCCEEDED" \in RefundStatus
    BY DEF RefundStatus
  <2>4. refund' \in [Refunds -> RefundDocument]
    BY <1>0, <2>2, <2>3, RefundMove
  <2>5. /\ repair' \in RepairRecord /\ repair'.latest = repair.latest
        /\ repair'.accepted = repair.accepted /\ repair'.status = repair.status
    BY <1>0, <2>2, Recalculated
  <2>6. payment' = [payment EXCEPT ![p] = acc] /\ quote' = quote /\ p \in Payments
    BY <1>7, <2>2
  <2> HIDE DEF acc, p
  <2> QED
    BY <2>1, <2>4, <2>5, <2>6, PaymentMoveSafe
<1>9. ASSUME NEW r \in Refunds, NEW target \in {"FAILED", "CANCELLED"},
             ReleaseRefundReservation(r, target)
      PROVE  DeskInv'
  <2> DEFINE p == RefundOf[r]
             acc == ReleaseHold(payment[p], refund[r].amount)
  <2>1. acc \in DepositRecord /\ acc.version = payment[p].version
    BY <1>0, <1>7, MovesKeepVersion DEF DeskShape
  <2>2. /\ payment' = [payment EXCEPT ![p] = acc] /\ repair' = repair /\ quote' = quote
        /\ refund' = [refund EXCEPT ![r].status = target]
    BY <1>9 DEF ReleaseRefundReservation
  <2>3. target \in RefundStatus
    BY DEF RefundStatus
  <2>4. refund' \in [Refunds -> RefundDocument]
    BY <1>0, <2>2, <2>3, RefundMove
  <2>5. p \in Payments
    BY <1>7
  <2> HIDE DEF acc, p
  <2> QED
    BY <1>0, <2>1, <2>2, <2>4, <2>5, PaymentMoveSafe DEF DeskShape
<1> QED
  BY <1>1, <1>2, <1>3, <1>4, <1>5, <1>6, <1>8, <1>9 DEF Money

-----------------------------------------------------------------------------
(* The tracking page reads the newest quote that was issued.               *)
LEMMA NewestIsTracked ==
  ASSUME DeskInv, Issued # {}
  PROVE  TrackedVersion = repair.latest /\ repair.latest \in Versions
<1>1. /\ MaxVersion \in Nat /\ repair.latest \in 0..MaxVersion
      /\ \A v \in Versions : v \in Issued <=> v <= repair.latest
  BY DeskAssumption DEF DeskAssumption, DeskInv, DeskShape, RepairRecord, Numbered, Issued, Versions
<1>2. PICK u \in Issued : u \in Versions
  BY DEF Issued
<1>3. repair.latest \in Versions /\ repair.latest \in Issued
  BY <1>1, <1>2 DEF Versions
<1>4. \A w \in Issued : w \in Versions /\ w <= repair.latest
  BY <1>1 DEF Issued
<1>5. \E v \in Issued : \A w \in Issued : w <= v
  BY <1>3, <1>4
<1>6. TrackedVersion \in Issued /\ \A w \in Issued : w <= TrackedVersion
  BY <1>5 DEF TrackedVersion
<1>7. TrackedVersion \in Versions /\ TrackedVersion <= repair.latest
      /\ repair.latest <= TrackedVersion
  BY <1>3, <1>4, <1>6
<1> QED
  BY <1>1, <1>3, <1>7 DEF Versions

(* Without deposits for the quote the page shows that none was paid.       *)
LEMMA NothingPaidIsPending ==
  ASSUME TrackedPayments = {}
  PROVE  TrackedDeposit = "pending"
<1> DEFINE weight == [p \in Payments |-> ShownAmount(p)]
           counted == {p \in TrackedPayments : payment[p].status \in Counted}
           confirmed == Total(weight, counted, MaxMoney)
<1>1. counted = {}
  OBVIOUS
<1>2. MaxMoney \in Nat /\ Deposit \in 1..MaxMoney
  BY DeskAssumption DEF DeskAssumption
<1>3. confirmed = 0
  BY <1>1, <1>2, TotalEmpty
<1>4. ~(confirmed >= Deposit) /\ confirmed \notin 1..(Deposit - 1)
  BY <1>2, <1>3
<1>5. ~ \E p \in TrackedPayments : payment[p].status = "FAILED"
  OBVIOUS
<1> HIDE DEF weight, counted
<1>6. TrackedDeposit =
        CASE confirmed >= Deposit -> "confirmed"
          [] confirmed \in 1..(Deposit - 1) -> "partially_confirmed"
          [] confirmed = 0 /\ (\E p \in TrackedPayments : payment[p].status = "FAILED") -> "failed"
          [] OTHER -> "pending"
  BY DEF TrackedDeposit, weight, counted
<1> HIDE DEF confirmed
<1> QED
  BY <1>4, <1>5, <1>6

LEMMA TrackingIsTrue ==
  ASSUME DeskInv
  PROVE  TrackingAgrees
<1> SUFFICES ASSUME Issued # {}
             PROVE  /\ TrackedDeposit # "pending" => TrackedQuoteStatus = "ACCEPTED"
                    /\ TrackedQuoteStatus # "SUPERSEDED"
                    /\ TrackedQuoteStatus = "SENT" => Decidable(TrackedVersion)
  BY DEF TrackingAgrees
<1>1. TrackedVersion = repair.latest /\ repair.latest \in Versions /\ repair.latest # 0
  BY NewestIsTracked, DeskAssumption DEF Versions, DeskAssumption
<1>2. ASSUME TrackedDeposit # "pending" PROVE TrackedQuoteStatus = "ACCEPTED"
  <2>1. PICK p \in Payments : payment[p].version = repair.latest
    BY <1>1, <1>2, NothingPaidIsPending DEF TrackedPayments, DepositsOf
  <2>2. quote[repair.latest].status = "ACCEPTED"
    BY <1>1, <2>1 DEF DeskInv, DepositsFollowAcceptance
  <2> QED
    BY <1>1, <2>2 DEF TrackedQuoteStatus
<1>3. TrackedQuoteStatus # "SUPERSEDED"
  BY <1>1 DEF DeskInv, NewestStands, TrackedQuoteStatus
<1>4. TrackedQuoteStatus = "SENT" => Decidable(TrackedVersion)
  BY DEF TrackedQuoteStatus, Decidable
<1> QED
  BY <1>2, <1>3, <1>4

-----------------------------------------------------------------------------
(* The invariant holds in every reachable state.                           *)
LEMMA DeskInvariant == Spec => []DeskInv
<1>1. Init => DeskInv
  <2> SUFFICES ASSUME Init PROVE DeskInv
    OBVIOUS
  <2>1. DeskShape
    BY DeskAssumption DEF DeskAssumption, Init, DeskShape, RepairRecord, REPAIR_STATUS,
       QuoteDocument, QUOTE_STATUS, DepositRecord, PaymentStatus, RefundDocument, RefundStatus
  <2>2. Numbered /\ NewestStands /\ OneOpenQuote
    BY DeskAssumption DEF DeskAssumption, Init, Numbered, NewestStands, OneOpenQuote, Versions
  <2>3. AcceptedStands /\ DepositsFollowAcceptance /\ ApprovedMeansCurrentQuote
    BY DEF Init, AcceptedStands, DepositsFollowAcceptance, ApprovedMeansCurrentQuote
  <2> QED
    BY <2>1, <2>2, <2>3 DEF DeskInv
<1>2. DeskInv /\ [Next]_vars => DeskInv'
  <2>1. ASSUME DeskInv, UNCHANGED vars PROVE DeskInv'
    BY <2>1, PaperworkSafe DEF vars, moneyVars, DeskInv, DeskShape
  <2> QED
    BY <2>1, WorkflowSafe, QuotingSafe, MoneySafe DEF Next
<1> QED
  BY <1>1, <1>2, PTL DEF Spec

(* decideQuote, createNewQuoteVersion, toPublicRepair: in every order of   *)
(* the customer's decisions, new versions, expiries, deposits and saves    *)
(* that staff had under way, only the newest quote can be decided, work is *)
(* approved on no other, and the tracking page shows money only beside the *)
(* quote it was paid for.                                                  *)
THEOREM OneQuoteCounts == Spec => []DecisionsAreCurrent
<1>1. DeskInv => DecisionsAreCurrent
  BY TrackingIsTrue DEF DeskInv, DecisionsAreCurrent
<1> QED
  BY <1>1, DeskInvariant, PTL

-----------------------------------------------------------------------------
(* The credit of the repair.                                               *)

(* A deposit is bound to a version when it is created, once and for all.   *)
Bound == \A p \in Payments : payment[p].status = "ABSENT" <=> payment[p].version = 0

RefundsHavePayments ==
  \A r \in Refunds : refund[r].status # "ABSENT" => payment[RefundOf[r]].status # "ABSENT"

CreditInv == DeskInv /\ Bound /\ RefundsHavePayments /\ CreditIsBacked

LEMMA PaidForType ==
  ASSUME NEW v
  PROVE  IsFiniteSet(DepositsOf(v)) /\ MaxMoney \in Nat /\ PaidFor(v) \in Nat
<1>1. IsFiniteSet(Payments) /\ MaxMoney \in Nat /\ DepositsOf(v) \in SUBSET Payments
  BY DeskAssumption DEF DeskAssumption, DepositsOf
<1>2. IsFiniteSet(DepositsOf(v))
  BY <1>1, FS_Subset
<1> QED
  BY <1>1, <1>2, TotalType DEF PaidFor

(* A step that keeps the credit, takes money from no payment and moves no  *)
(* payment from one version to another.                                    *)
CreditAlone ==
  /\ repair'.netPaid = repair.netPaid
  /\ repair'.accepted >= repair.accepted
  /\ \A p \in Payments : /\ payment'[p].net = payment[p].net
                         /\ payment[p].version \in {0, payment'[p].version}

LEMMA CreditAloneSafe ==
  ASSUME DeskShape, DeskShape', CreditIsBacked, CreditAlone
  PROVE  CreditIsBacked'
<1>1. /\ repair.accepted \in Nat /\ repair'.accepted \in Nat
      /\ repair'.netPaid = repair.netPaid /\ repair.netPaid \in Nat
  BY DeskAssumption DEF DeskAssumption, DeskShape, RepairRecord, CreditAlone
<1>2. CASE repair.netPaid = 0
  BY <1>1, <1>2 DEF CreditIsBacked
<1>3. CASE repair.netPaid # 0
  <2>1. PICK v \in 1..repair.accepted : repair.netPaid <= PaidFor(v)
    BY <1>3 DEF CreditIsBacked
  <2>2. v \in 1..repair'.accepted
    BY <1>1, <2>1 DEF CreditAlone
  <2> DEFINE S == {p \in Payments : payment[p].version = v}
             T == {p \in Payments : payment'[p].version = v}
             f == [p \in Payments |-> payment[p].net]
             g == [p \in Payments |-> payment'[p].net]
  <2>3. S \in SUBSET T
    BY <2>1 DEF CreditAlone
  <2>4. f = g
    BY DEF CreditAlone
  <2>5. IsFiniteSet(T) /\ MaxMoney \in Nat
    BY DeskAssumption, FS_Subset DEF DeskAssumption
  <2>6. PaidFor(v) = Total(f, S, MaxMoney) /\ PaidFor(v)' = Total(g, T, MaxMoney)
    BY DEF PaidFor, NetOf, DepositsOf
  <2> HIDE DEF S, T, f, g
  <2>7. /\ Total(f, S, MaxMoney) \in Nat /\ Total(g, T, MaxMoney) \in Nat
        /\ Total(f, S, MaxMoney) <= Total(g, T, MaxMoney)
    BY <2>3, <2>4, <2>5, TotalMonotone
  <2>8. repair'.netPaid <= PaidFor(v)'
    BY <1>1, <2>1, <2>6, <2>7
  <2> QED
    BY <2>2, <2>8 DEF CreditIsBacked
<1> QED
  BY <1>2, <1>3

(* After a recalculation the accepted version alone backs the credit.      *)
LEMMA CreditRenewed ==
  ASSUME DeskShape, RecalculateRepairFinance(payment'), repair.accepted # 0,
         \A p \in Payments : payment'[p].version = payment[p].version
  PROVE  CreditIsBacked'
<1>0. PICK a \in Nat : a = repair.accepted
  BY DeskAssumption DEF DeskAssumption, DeskShape, RepairRecord
<1> DEFINE S == {p \in DepositsOf(a) : payment'[p].status \in Counted}
           T == {p \in Payments : payment'[p].version = a}
           f == [p \in Payments |-> payment'[p].net]
           n == Total(f, S, MaxMoney)
<1>1. S \in SUBSET T
  BY <1>0 DEF DepositsOf
<1>2. IsFiniteSet(T) /\ MaxMoney \in Nat
  BY DeskAssumption, FS_Subset DEF DeskAssumption
<1>3. repair' = [repair EXCEPT !.netPaid = n]
  BY <1>0 DEF RecalculateRepairFinance, NetOf
<1>4. PaidFor(a)' = Total(f, T, MaxMoney)
  BY DEF PaidFor, NetOf, DepositsOf
<1>5. n <= Total(f, T, MaxMoney)
  <2> HIDE DEF S, T, f
  <2> QED
    BY <1>1, <1>2, TotalMonotone
<1> HIDE DEF n
<1>6. repair'.netPaid = n /\ repair'.accepted = a /\ a \in 1..a
  BY <1>0, <1>3 DEF DeskShape, RepairRecord
<1> QED
  BY <1>4, <1>5, <1>6 DEF CreditIsBacked

(* The workshop's steps and those on quotes leave payments and credit; an  *)
(* approval only moves the repair on to a newer version.                   *)
LEMMA WorkKeepsCredit ==
  ASSUME DeskInv, Workflow \/ Quoting
  PROVE  payment' = payment /\ refund' = refund /\ CreditAlone
<1>1. /\ repair \in RepairRecord /\ repair.accepted \in Nat /\ repair.latest \in Nat
      /\ MaxVersion \in Nat
  BY DeskAssumption DEF DeskAssumption, DeskInv, DeskShape, RepairRecord
<1>2. repair.accepted <= repair.latest
  BY <1>1 DEF DeskInv, DeskShape, RepairRecord, AcceptedStands, Numbered, Versions
<1> SUFFICES /\ payment' = payment /\ refund' = refund
             /\ repair'.netPaid = repair.netPaid
             /\ repair'.accepted \in {repair.accepted, repair.latest}
  BY <1>1, <1>2 DEF CreditAlone
<1> USE <1>1
<1>3. CASE CreateRepair \/ AssignTechnician \/ TransitionToInRepair
  BY <1>3 DEF CreateRepair, AssignTechnician, TransitionToInRepair, moneyVars, RepairRecord
<1>4. CASE \E kind \in {"intake", "diagnosis", "completion"} : ReadRepair(kind)
  BY <1>4 DEF ReadRepair, moneyVars
<1>5. CASE SaveRequest
  BY <1>5 DEF SaveRequest, SaveIntake, SaveDiagnosis, SaveCompletion, DropRequest, moneyVars,
     RepairRecord
<1>6. CASE \E passed \in BOOLEAN : PerformQC(passed)
  BY <1>6 DEF PerformQC, moneyVars, RepairRecord
<1>7. CASE HandoverRepair
  BY <1>7 DEF HandoverRepair, moneyVars, RepairRecord
<1>8. CASE \E total \in Totals : CreateNewQuoteVersion(total)
  BY <1>8 DEF CreateNewQuoteVersion, moneyVars, RepairRecord
<1>9. ASSUME NEW v \in Versions, QuoteLapses(v) \/ DeclineQuote(v)
      PROVE  /\ payment' = payment /\ refund' = refund
             /\ repair'.netPaid = repair.netPaid
             /\ repair'.accepted \in {repair.accepted, repair.latest}
  BY <1>9 DEF QuoteLapses, DeclineQuote, moneyVars, RepairRecord
<1>10. ASSUME NEW v \in Versions, ApproveQuote(v)
       PROVE  /\ payment' = payment /\ refund' = refund
              /\ repair'.netPaid = repair.netPaid
              /\ repair'.accepted \in {repair.accepted, repair.latest}
  <2>1. v = repair.latest
    BY <1>10 DEF DeskInv, OneOpenQuote, ApproveQuote, Decidable
  <2> QED
    BY <1>10, <2>1 DEF ApproveQuote, moneyVars, RepairRecord
<1>11. CASE ExpireOverdueQuotes
  BY <1>11 DEF ExpireOverdueQuotes, moneyVars, RepairRecord
<1> QED
  BY <1>3, <1>4, <1>5, <1>6, <1>7, <1>8, <1>9, <1>10, <1>11 DEF Workflow, Quoting

(* A move of one payment that exists, with the refunds that are bound to   *)
(* it.                                                                     *)
LEMMA BindingsKept ==
  ASSUME DeskShape, Bound, RefundsHavePayments, NEW p \in Payments, NEW acc,
         acc.status # "ABSENT", acc.version # 0, payment' = [payment EXCEPT ![p] = acc],
         \A r \in Refunds : refund'[r].status # "ABSENT" =>
                             refund[r].status # "ABSENT" \/ RefundOf[r] = p
  PROVE  Bound' /\ RefundsHavePayments'
<1>1. \A q \in Payments : payment'[q] = IF q = p THEN acc ELSE payment[q]
  BY DEF DeskShape
<1>2. \A r \in Refunds : RefundOf[r] \in Payments
  BY DeskAssumption DEF DeskAssumption
<1> QED
  BY <1>1, <1>2 DEF Bound, RefundsHavePayments

(* What the moves on a payment do to the status and to the money it holds. *)
LEMMA MovesOnCredit ==
  ASSUME NEW acc \in DepositRecord, NEW amount \in Int
  PROVE  /\ Capture(acc, amount).status # "ABSENT" /\ Settle(acc, amount).status # "ABSENT"
         /\ Hold(acc, amount).status = acc.status /\ Hold(acc, amount).net = acc.net
         /\ ReleaseHold(acc, amount).status = acc.status /\ ReleaseHold(acc, amount).net = acc.net
<1>1. Capture(acc, amount).status # "ABSENT"
  BY DEF Capture, DepositRecord
<1>2. Settle(acc, amount).status # "ABSENT"
  <2> DEFINE s == StatusAfterRefund(acc.captured, acc.refunded + amount)
  <2>1. s # "ABSENT"
    BY DEF StatusAfterRefund
  <2>2. Settle(acc, amount).status = s
    BY DEF Settle, DepositRecord
  <2> QED
    BY <2>1, <2>2
<1>3. Hold(acc, amount).status = acc.status /\ Hold(acc, amount).net = acc.net
  BY DEF Hold, DepositRecord
<1>4. ReleaseHold(acc, amount).status = acc.status /\ ReleaseHold(acc, amount).net = acc.net
  BY DEF ReleaseHold, DepositRecord
<1> QED
  BY <1>1, <1>2, <1>3, <1>4

(* A payment moves and holds what it held.                                 *)
LEMMA QuietMove ==
  ASSUME DeskShape, DeskShape', CreditIsBacked, repair' = repair,
         NEW p \in Payments, NEW acc, payment' = [payment EXCEPT ![p] = acc],
         acc.net = payment[p].net, payment[p].version \in {0, acc.version}
  PROVE  CreditIsBacked'
<1>1. \A q \in Payments : payment'[q] = IF q = p THEN acc ELSE payment[q]
  BY DEF DeskShape
<1>2. repair.accepted \in Nat
  BY DEF DeskShape, RepairRecord
<1>3. CreditAlone
  BY <1>1, <1>2 DEF CreditAlone
<1> QED
  BY <1>3, CreditAloneSafe

LEMMA MoneyKeepsCredit ==
  ASSUME CreditInv, DeskShape', Money
  PROVE  Bound' /\ RefundsHavePayments' /\ CreditIsBacked'
<1>0. /\ DeskInv /\ DeskShape /\ Bound /\ RefundsHavePayments /\ CreditIsBacked
      /\ Deposit \in Int /\ repair.accepted \in 0..MaxVersion
  BY DeskAssumption DEF CreditInv, DeskInv, DeskShape, RepairRecord, DeskAssumption
<1>1. \A p \in Payments : payment[p] \in DepositRecord
  BY <1>0 DEF DeskShape
<1>2. \A r \in Refunds : /\ refund[r] \in RefundDocument /\ refund[r].amount \in Int
                         /\ RefundOf[r] \in Payments
  BY <1>0, DeskAssumption DEF DeskAssumption, DeskShape, RefundDocument
<1>3. ASSUME repair' = repair, payment' = payment,
             \A r \in Refunds : refund'[r].status # "ABSENT" => refund[r].status # "ABSENT"
      PROVE  Bound' /\ RefundsHavePayments' /\ CreditIsBacked'
  <2>1. Bound' /\ RefundsHavePayments'
    BY <1>0, <1>3 DEF Bound, RefundsHavePayments
  <2>2. CreditAlone
    BY <1>0, <1>3 DEF CreditAlone
  <2> QED
    BY <1>0, <2>1, <2>2, CreditAloneSafe
<1>4. ASSUME NEW scope \in Scopes, CreateOverride(scope) \/ RevokeOverride(scope)
      PROVE  Bound' /\ RefundsHavePayments' /\ CreditIsBacked'
  BY <1>3, <1>4 DEF CreateOverride, RevokeOverride
<1>5. ASSUME NEW p \in Payments, CreatePaymentAttempt(p)
      PROVE  Bound' /\ RefundsHavePayments' /\ CreditIsBacked'
  <2> DEFINE acc == [payment[p] EXCEPT !.status = "PENDING", !.version = repair.accepted]
  <2>1. /\ acc.status = "PENDING" /\ acc.version = repair.accepted
        /\ acc.net = payment[p].net
    BY <1>1 DEF DepositRecord
  <2>2. /\ payment' = [payment EXCEPT ![p] = acc] /\ refund' = refund /\ repair' = repair
        /\ payment[p].status = "ABSENT" /\ repair.accepted # 0
    BY <1>5 DEF CreatePaymentAttempt
  <2>3. payment[p].version = 0
    BY <1>0, <2>2 DEF Bound
  <2> HIDE DEF acc
  <2>4. Bound' /\ RefundsHavePayments'
    BY <1>0, <2>1, <2>2, BindingsKept
  <2>5. CreditIsBacked'
    BY <1>0, <2>1, <2>2, <2>3, QuietMove
  <2> QED
    BY <2>4, <2>5
<1>6. ASSUME NEW p \in Payments, ApplyVerifiedPaymentEvent(p)
      PROVE  Bound' /\ RefundsHavePayments' /\ CreditIsBacked'
  <2> DEFINE acc == Capture(payment[p], Deposit)
  <2>1. acc.status # "ABSENT" /\ acc.version = payment[p].version
    BY <1>0, <1>1, MovesOnCredit, MovesKeepVersion
  <2>2. /\ payment' = [payment EXCEPT ![p] = acc] /\ refund' = refund
        /\ RecalculateRepairFinance(payment') /\ payment[p].status # "ABSENT"
        /\ payment[p].version = repair.accepted
    BY <1>6 DEF ApplyVerifiedPaymentEvent, VersionAccepted
  <2>3. payment[p].version # 0
    BY <1>0, <2>2 DEF Bound
  <2> HIDE DEF acc
  <2>4. Bound' /\ RefundsHavePayments'
    BY <1>0, <2>1, <2>2, <2>3, BindingsKept
  <2>5. \A q \in Payments : payment'[q].version = payment[q].version
    BY <1>0, <2>1, <2>2 DEF DeskShape
  <2> QED
    BY <1>0, <2>2, <2>3, <2>4, <2>5, CreditRenewed
<1>7. ASSUME NEW p \in Payments, ProcessVerifiedPaymentFailure(p)
      PROVE  Bound' /\ RefundsHavePayments' /\ CreditIsBacked'
  <2> DEFINE acc == [payment[p] EXCEPT !.status = "FAILED"]
  <2>1. /\ acc.status = "FAILED" /\ acc.version = payment[p].version
        /\ acc.net = payment[p].net
    BY <1>1 DEF DepositRecord
  <2>2. /\ payment' = [payment EXCEPT ![p] = acc] /\ refund' = refund /\ repair' = repair
        /\ payment[p].status # "ABSENT"
    BY <1>7 DEF ProcessVerifiedPaymentFailure
  <2>3. payment[p].version # 0
    BY <1>0, <2>2 DEF Bound
  <2> HIDE DEF acc
  <2>4. Bound' /\ RefundsHavePayments'
    BY <1>0, <2>1, <2>2, <2>3, BindingsKept
  <2> QED
    BY <1>0, <2>1, <2>2, <2>4, QuietMove
<1>8. ASSUME NEW r \in Refunds, NEW amount \in 1..Deposit, ReserveRefund(r, amount)
      PROVE  Bound' /\ RefundsHavePayments' /\ CreditIsBacked'
  <2> DEFINE acc == Hold(payment[RefundOf[r]], amount)
  <2>1. PICK p \in Payments : p = RefundOf[r]
    BY <1>2
  <2>2. amount \in Int
    BY <1>0
  <2>3. /\ acc.status = payment[p].status /\ acc.version = payment[p].version
        /\ acc.net = payment[p].net
    BY <1>1, <2>1, <2>2, MovesOnCredit, MovesKeepVersion
  <2>4. /\ payment' = [payment EXCEPT ![p] = acc] /\ repair' = repair
        /\ payment[p].status # "ABSENT"
        /\ refund' = [refund EXCEPT ![r] = [status |-> "RESERVED", amount |-> amount]]
    BY <1>8, <2>1 DEF ReserveRefund, PAYMENT_SUCCESS
  <2>5. payment[p].version # 0
    BY <1>0, <2>4 DEF Bound
  <2>6. \A s \in Refunds : refund'[s].status # "ABSENT" =>
                            refund[s].status # "ABSENT" \/ RefundOf[s] = p
    BY <1>0, <2>1, <2>4 DEF DeskShape
  <2> HIDE DEF acc
  <2>7. Bound' /\ RefundsHavePayments'
    BY <1>0, <2>3, <2>4, <2>5, <2>6, BindingsKept
  <2> QED
    BY <1>0, <2>3, <2>4, <2>7, QuietMove
<1>9. ASSUME NEW r \in Refunds, MarkRefundProviderPending(r)
      PROVE  Bound' /\ RefundsHavePayments' /\ CreditIsBacked'
  <2>1. /\ repair' = repair /\ payment' = payment /\ refund[r].status = "RESERVED"
        /\ refund' = [refund EXCEPT ![r].status = "PROVIDER_PENDING"]
    BY <1>9 DEF MarkRefundProviderPending
  <2>2. \A s \in Refunds : refund'[s].status # "ABSENT" => refund[s].status # "ABSENT"
    BY <1>0, <2>1 DEF DeskShape
  <2> QED
    BY <1>3, <2>1, <2>2
<1>10. ASSUME NEW r \in Refunds, NEW target, refund[r].status \in ACTIVE_REFUNDS,
              refund' = [refund EXCEPT ![r].status = target]
       PROVE  /\ payment[RefundOf[r]].status # "ABSENT" /\ payment[RefundOf[r]].version # 0
              /\ \A s \in Refunds : refund'[s].status # "ABSENT" => refund[s].status # "ABSENT"
  <2>1. refund[r].status # "ABSENT"
    BY <1>10 DEF ACTIVE_REFUNDS
  <2>2. payment[RefundOf[r]].status # "ABSENT" /\ payment[RefundOf[r]].version # 0
    BY <1>0, <1>2, <2>1 DEF RefundsHavePayments, Bound
  <2>3. \A s \in Refunds : s # r => refund'[s] = refund[s]
    BY <1>0, <1>10 DEF DeskShape
  <2> QED
    BY <2>1, <2>2, <2>3
<1>11. ASSUME NEW r \in Refunds, SettleRefundSuccess(r)
       PROVE  Bound' /\ RefundsHavePayments' /\ CreditIsBacked'
  <2> DEFINE acc == Settle(payment[RefundOf[r]], refund[r].amount)
  <2>1. PICK p \in Payments : p = RefundOf[r]
    BY <1>2
  <2>2. acc.status # "ABSENT" /\ acc.version = payment[p].version
    BY <1>1, <1>2, <2>1, MovesOnCredit, MovesKeepVersion
  <2>3. /\ payment' = [payment EXCEPT ![p] = acc] /\ RecalculateRepairFinance(payment')
        /\ refund' = [refund EXCEPT ![r].status = "SUCCEEDED"]
        /\ refund[r].status \in ACTIVE_REFUNDS /\ payment[p].version = repair.accepted
    BY <1>11, <2>1 DEF SettleRefundSuccess, Settleable, VersionAccepted
  <2> HIDE DEF acc
  <2>4. /\ payment[p].version # 0
        /\ \A s \in Refunds : refund'[s].status # "ABSENT" => refund[s].status # "ABSENT"
    BY <1>10, <2>1, <2>3
  <2>5. Bound' /\ RefundsHavePayments'
    BY <1>0, <2>2, <2>3, <2>4, BindingsKept
  <2>6. \A q \in Payments : payment'[q].version = payment[q].version
    BY <1>0, <2>2, <2>3 DEF DeskShape
  <2> QED
    BY <1>0, <2>3, <2>4, <2>5, <2>6, CreditRenewed
<1>12. ASSUME NEW r \in Refunds, NEW target \in {"FAILED", "CANCELLED"},
              ReleaseRefundReservation(r, target)
       PROVE  Bound' /\ RefundsHavePayments' /\ CreditIsBacked'
  <2> DEFINE acc == ReleaseHold(payment[RefundOf[r]], refund[r].amount)
  <2>1. PICK p \in Payments : p = RefundOf[r]
    BY <1>2
  <2>2. /\ acc.status = payment[p].status /\ acc.version = payment[p].version
        /\ acc.net = payment[p].net
    BY <1>1, <1>2, <2>1, MovesOnCredit, MovesKeepVersion
  <2>3. /\ payment' = [payment EXCEPT ![p] = acc] /\ repair' = repair
        /\ refund' = [refund EXCEPT ![r].status = target]
        /\ refund[r].status \in ACTIVE_REFUNDS
    BY <1>12, <2>1 DEF ReleaseRefundReservation
  <2> HIDE DEF acc
  <2>4. /\ payment[p].status # "ABSENT" /\ payment[p].version # 0
        /\ \A s \in Refunds : refund'[s].status # "ABSENT" => refund[s].status # "ABSENT"
    BY <1>10, <2>1, <2>3
  <2>5. Bound' /\ RefundsHavePayments'
    BY <1>0, <2>2, <2>3, <2>4, BindingsKept
  <2> QED
    BY <1>0, <2>2, <2>3, <2>5, QuietMove
<1> QED
  BY <1>4, <1>5, <1>6, <1>7, <1>8, <1>9, <1>11, <1>12 DEF Money


(* The credit is backed in every reachable state.                          *)
LEMMA CreditInvariant == Spec => []CreditInv
<1> DEFINE Backed == Bound /\ RefundsHavePayments /\ CreditIsBacked
<1>1. Init => Backed
  BY DEF Init, Bound, RefundsHavePayments, CreditIsBacked
<1>2. DeskInv /\ DeskInv' /\ Backed /\ [Next]_vars => Backed'
  <2> SUFFICES ASSUME DeskInv, DeskInv', Backed, [Next]_vars PROVE Backed'
    OBVIOUS
  <2>1. CreditInv /\ DeskShape /\ DeskShape'
    BY DEF CreditInv, DeskInv
  <2>2. CASE Money
    BY <2>1, <2>2, MoneyKeepsCredit
  <2>3. CASE Workflow \/ Quoting
    <3>1. payment' = payment /\ refund' = refund /\ CreditAlone
      BY <2>3, WorkKeepsCredit
    <3> QED
      BY <2>1, <3>1, CreditAloneSafe DEF Bound, RefundsHavePayments
  <2>4. CASE UNCHANGED vars
    BY <2>4 DEF vars, moneyVars, Bound, RefundsHavePayments, CreditIsBacked, PaidFor, NetOf,
       DepositsOf
  <2> QED
    BY <2>2, <2>3, <2>4 DEF Next
<1>3. DeskInv /\ Backed => CreditInv
  BY DEF CreditInv
<1> HIDE DEF Backed
<1> QED
  BY <1>1, <1>2, <1>3, DeskInvariant, PTL DEF Spec

(* A gate that money opens finds it on the payments.                       *)
LEMMA CreditOnPayments ==
  ASSUME DeskInv, CreditIsBacked, NEW amount \in Nat, repair.netPaid >= amount
  PROVE  amount = 0 \/ \E v \in 1..repair.accepted : PaidFor(v) >= amount
<1>1. repair.netPaid \in Nat
  BY DEF DeskInv, DeskShape, RepairRecord
<1> SUFFICES ASSUME amount # 0
             PROVE  \E v \in 1..repair.accepted : PaidFor(v) >= amount
  OBVIOUS
<1>2. PICK v \in 1..repair.accepted : repair.netPaid <= PaidFor(v)
  BY <1>1 DEF CreditIsBacked
<1>3. PaidFor(v) \in Nat
  BY PaidForType
<1> QED
  BY <1>1, <1>2, <1>3

LEMMA AcceptedTotalType ==
  ASSUME DeskInv
  PROVE  AcceptedTotal \in Nat
<1>1. CASE repair.accepted = 0
  BY <1>1 DEF AcceptedTotal
<1>2. CASE repair.accepted # 0
  <2>1. repair.accepted \in Versions
    BY <1>2, DeskAssumption DEF DeskAssumption, DeskInv, DeskShape, RepairRecord, Versions
  <2>2. quote[repair.accepted].total \in Totals \cup {0}
    BY <2>1 DEF DeskInv, DeskShape, QuoteDocument
  <2>3. Totals \cup {0} \subseteq Nat
    BY DeskAssumption DEF DeskAssumption
  <2>4. AcceptedTotal = quote[repair.accepted].total
    BY <1>2 DEF AcceptedTotal
  <2> QED
    BY <2>2, <2>3, <2>4
<1> QED
  BY <1>1, <1>2

(* Only the handover hands the device over.                                *)
LEMMA OnlyHandoverHandsOver ==
  ASSUME DeskInv, [Next]_vars, repair.status # "HANDED_OVER", repair'.status = "HANDED_OVER"
  PROVE  HandoverRepair
<1>1. repair \in RepairRecord
  BY DEF DeskInv, DeskShape
<1>2. CASE Money
  <2>1. ASSUME NEW accounts, RecalculateRepairFinance(accounts) PROVE repair'.status = repair.status
    BY <2>1, Recalculated DEF DeskInv
  <2> QED
    BY <1>2, <2>1 DEF Money, CreateOverride, RevokeOverride, CreatePaymentAttempt,
       ApplyVerifiedPaymentEvent, ProcessVerifiedPaymentFailure, ReserveRefund,
       MarkRefundProviderPending, SettleRefundSuccess, ReleaseRefundReservation
<1>3. CASE Quoting
  BY <1>1, <1>3 DEF Quoting, CreateNewQuoteVersion, QuoteLapses, ApproveQuote, DeclineQuote,
     ExpireOverdueQuotes, RepairRecord
<1>4. CASE SaveRequest
  <2>1. PICK r \in request : SaveIntake(r) \/ SaveDiagnosis(r) \/ SaveCompletion(r) \/ DropRequest(r)
    BY <1>4 DEF SaveRequest
  <2>2. \A s \in {"RECEIVED", "DIAGNOSING", "QC"} :
          repair' = [repair EXCEPT !.status = Saved(r, s)] => repair'.status # "HANDED_OVER"
    BY <1>1 DEF RepairRecord, Saved
  <2> QED
    BY <2>1, <2>2 DEF SaveIntake, SaveDiagnosis, SaveCompletion, DropRequest
<1>5. CASE UNCHANGED vars
  BY <1>5 DEF vars
<1>6. CASE Workflow /\ ~SaveRequest
  BY <1>1, <1>6 DEF Workflow, CreateRepair, AssignTechnician, ReadRepair, PerformQC,
     TransitionToInRepair, RepairRecord
<1> QED
  BY <1>2, <1>3, <1>4, <1>5, <1>6 DEF Next

(* recalculateRepairFinance and the finance gates: however payments,       *)
(* refunds, new quotes and overrides interleave, the credit of the repair  *)
(* is money that payments of one accepted version hold, so that work is    *)
(* started, and the device handed over, only against such money or a       *)
(* waiver of finance.                                                      *)
THEOREM WorkNeedsMoney == Spec => WorkIsPaidFor
<1>1. ASSUME CreditInv, CreditInv', [Next]_vars
      PROVE  CreditIsBacked' /\ StartedWorkIsPaid /\ HandoverNeedsClearance
  <2>1. DeskInv /\ CreditIsBacked /\ CreditIsBacked'
    BY <1>1 DEF CreditInv
  <2>2. StartedWorkIsPaid
    <3> SUFFICES ASSUME TransitionToInRepair, ~Overridden("WORK_START")
                 PROVE  \E v \in 1..repair.accepted : PaidFor(v) >= Deposit
      BY DEF StartedWorkIsPaid
    <3>1. repair.netPaid >= Deposit /\ Deposit \in Nat /\ Deposit # 0
      BY DeskAssumption DEF DeskAssumption, TransitionToInRepair, FinanceGate
    <3> QED
      BY <2>1, <3>1, CreditOnPayments
  <2>3. HandoverNeedsClearance
    <3> SUFFICES ASSUME repair.status # "HANDED_OVER", repair'.status = "HANDED_OVER"
                 PROVE  /\ repair.qcPassed
                        /\ \/ Overridden("HANDOVER")
                           \/ AcceptedTotal = 0
                           \/ \E v \in 1..repair.accepted : PaidFor(v) >= AcceptedTotal
      BY DEF HandoverNeedsClearance
    <3>1. HandoverRepair
      BY <1>1, <2>1, OnlyHandoverHandsOver
    <3>2. Overridden("HANDOVER") \/ repair.netPaid >= AcceptedTotal
      BY <3>1 DEF HandoverRepair, FinanceGate
    <3>3. AcceptedTotal \in Nat
      BY <2>1, AcceptedTotalType
    <3>4. CASE repair.netPaid >= AcceptedTotal
      <4> DEFINE t == AcceptedTotal
      <4> HIDE DEF t
      <4>1. t = 0 \/ \E v \in 1..repair.accepted : PaidFor(v) >= t
        BY <2>1, <3>3, <3>4, CreditOnPayments DEF t
      <4> QED
        BY <3>1, <4>1 DEF HandoverRepair, t
    <3> QED
      BY <3>1, <3>2, <3>4 DEF HandoverRepair
  <2> QED
    BY <2>1, <2>2, <2>3
<1>2. CreditInv /\ CreditInv' /\ [Next]_vars
        => [CreditIsBacked' /\ StartedWorkIsPaid /\ HandoverNeedsClearance]_vars
  BY <1>1
<1> QED
  BY <1>2, CreditInvariant, PTL DEF Spec, WorkIsPaidFor

-----------------------------------------------------------------------------
(* A set that has at most one element.                                     *)
LEMMA AtMostOne ==
  ASSUME NEW S, \A x, y \in S : x = y
  PROVE  Cardinality(S) <= 1 /\ IsFiniteSet(S)
<1>1. CASE S = {}
  BY <1>1, FS_EmptySet
<1>2. CASE S # {}
  <2>1. PICK x \in S : TRUE
    BY <1>2
  <2>2. S = {x}
    BY <2>1
  <2> QED
    BY <2>2, FS_Singleton
<1> QED
  BY <1>1, <1>2

(* Procurement quotations: the versions 1 to n were issued, only the last  *)
(* can be decided on, and nobody is about to issue one beyond the next.    *)
QuotesInOrder(n) ==
  /\ quotation \in [QuotationVersions -> QuotationDocument]
  /\ \A v \in QuotationVersions : quotation[v].status # "ABSENT" <=> v <= n
  /\ \A v \in QuotationVersions :
       quotation[v].actionable => quotation[v].status = "ISSUED" /\ v = n

IssuesInOrder(n) ==
  /\ inquiry \in [status : InquiryStatus, version : Nat]
  /\ issuing \in [Officers -> Issuing]
  /\ \A s \in Officers : At(s, "supersede") \/ At(s, "create") => issuing[s].next \in 1..(n + 1)

(* An order carries the snapshot of an approved quotation, and so does a   *)
(* conversion that has not committed.                                      *)
OrdersInOrder ==
  /\ b2bOrder \subseteq [version : QuotationVersions, by : Users]
  /\ conversions \subseteq [by : Users, version : QuotationVersions, clean : BOOLEAN]
  /\ \A c \in conversions : quotation[c.version].status = "APPROVED"
  /\ \A o \in b2bOrder : /\ quotation[o.version].status = "APPROVED"
                         /\ quotation[o.version].converted
  /\ \A v \in QuotationVersions : quotation[v].converted => HasOrder(v)
  /\ \A o, p \in b2bOrder : o.version = p.version => o = p

Issues(n) == n \in 0..MaxQuotations /\ QuotesInOrder(n) /\ IssuesInOrder(n)

QuotationsInv == (\E n \in Nat : Issues(n)) /\ OrdersInOrder

(* What is decided stays, and a conversion is remembered.                  *)
QuotesKept ==
  /\ DecisionsAreFinal
  /\ \A v \in QuotationVersions : quotation'[v].converted = quotation[v].converted

(* The version findOne sorts first is the last one issued.                 *)
LEMMA LatestIsLast ==
  ASSUME NEW n \in 0..MaxQuotations, QuotesInOrder(n)
  PROVE  Latest = n
<1> DEFINE S == {v \in QuotationVersions : quotation[v].status # "ABSENT"} \cup {0}
<1>0. MaxQuotations \in Nat /\ n \in Nat
  BY QuotationsAssumption
<1>1. \A x \in S : x \in Nat /\ x <= n
  BY <1>0 DEF QuotesInOrder, QuotationVersions
<1>2. n \in S
  BY <1>0 DEF QuotesInOrder, QuotationVersions
<1> HIDE DEF S
<1>3. \E x \in S : \A y \in S : x >= y
  BY <1>0, <1>1, <1>2
<1>4. PICK m : m = Max(S)
  OBVIOUS
<1>5. m \in S /\ \A y \in S : m >= y
  BY <1>3, <1>4 DEF Max
<1>6. m = n
  BY <1>0, <1>1, <1>2, <1>5
<1> QED
  BY <1>4, <1>6 DEF Latest, S

(* One quotation is written.                                               *)
LEMMA QuoteWrites ==
  ASSUME NEW n \in 0..MaxQuotations, QuotesInOrder(n), NEW v, NEW document \in QuotationDocument,
         quotation' = [quotation EXCEPT ![v] = document],
         v \in QuotationVersions =>
           /\ quotation[v].status # "ABSENT" <=> document.status # "ABSENT"
           /\ document.actionable => document.status = "ISSUED" /\ quotation[v].actionable
  PROVE  QuotesInOrder(n)'
<1>1. \A w \in QuotationVersions : quotation'[w] = IF w = v THEN document ELSE quotation[w]
  BY DEF QuotesInOrder
<1>2. quotation' \in [QuotationVersions -> QuotationDocument]
  BY DEF QuotesInOrder
<1> QED
  BY <1>1, <1>2 DEF QuotesInOrder

(* Orders only follow from what a conversion has read as approved.         *)
LEMMA OrdersFollow ==
  ASSUME OrdersInOrder, QuotesKept, UNCHANGED b2bOrder,
         \A d \in conversions' :
           /\ d \in [by : Users, version : QuotationVersions, clean : BOOLEAN]
           /\ \/ quotation[d.version].status = "APPROVED"
              \/ \E c \in conversions : d.version = c.version
  PROVE  OrdersInOrder'
<1>1. \A v \in QuotationVersions :
        quotation[v].status = "APPROVED" => quotation'[v].status = "APPROVED"
  BY DEF QuotesKept, DecisionsAreFinal
<1>2. \A o \in b2bOrder : o.version \in QuotationVersions
  BY DEF OrdersInOrder
<1>3. \A d \in conversions' : /\ d.version \in QuotationVersions
                              /\ quotation[d.version].status = "APPROVED"
  BY DEF OrdersInOrder
<1> QED
  BY <1>1, <1>2, <1>3 DEF OrdersInOrder, QuotesKept, HasOrder

(* Conversions only lose: a commit before them, or their turn.             *)
LEMMA ConversionsLose ==
  ASSUME OrdersInOrder,
         \/ conversions' \subseteq conversions
         \/ conversions' = Spoiled
         \/ conversions' = {[c EXCEPT !.clean = @ /\ ~quotation[c.version].actionable] :
                              c \in conversions}
         \/ \E x : conversions' = {[d EXCEPT !.clean = FALSE] : d \in conversions \ {x}}
  PROVE  \A d \in conversions' :
           /\ d \in [by : Users, version : QuotationVersions, clean : BOOLEAN]
           /\ \E c \in conversions : d.version = c.version /\ (d.clean => d = c)
<1> SUFFICES ASSUME NEW d \in conversions'
             PROVE  /\ d \in [by : Users, version : QuotationVersions, clean : BOOLEAN]
                    /\ \E c \in conversions : d.version = c.version /\ (d.clean => d = c)
  OBVIOUS
<1>1. PICK c \in conversions :
        d = c \/ \E b \in BOOLEAN : d = [c EXCEPT !.clean = b] /\ (b => c.clean)
  <2>1. \A c \in conversions : c.clean \in BOOLEAN
    BY DEF OrdersInOrder
  <2> QED
    BY <2>1 DEF Spoiled
<1>2. c \in [by : Users, version : QuotationVersions, clean : BOOLEAN]
  BY DEF OrdersInOrder
<1>3. ASSUME NEW b \in BOOLEAN, d = [c EXCEPT !.clean = b], b => c.clean
      PROVE  /\ d \in [by : Users, version : QuotationVersions, clean : BOOLEAN]
             /\ d.version = c.version /\ (d.clean => d = c)
  <2>1. /\ d \in [by : Users, version : QuotationVersions, clean : BOOLEAN]
        /\ d.version = c.version /\ d.clean = b /\ d.by = c.by
    BY <1>2, <1>3
  <2> QED
    BY <1>2, <1>3, <2>1
<1> QED
  BY <1>1, <1>2, <1>3

(* An officer at work on a quotation keeps the versions in order.          *)
LEMMA IssuesKept ==
  ASSUME NEW n \in 0..MaxQuotations, IssuesInOrder(n), NEW s \in Officers, IssueStep(s),
         ~FindVersion(s)
  PROVE  /\ IssuesInOrder(n)'
         /\ SupersedeActionable(s) \/ CreateQuotation(s) \/ UNCHANGED quotation
<1>0. /\ issuing \in [Officers -> Issuing] /\ DOMAIN issuing = Officers
      /\ inquiry \in [status : InquiryStatus, version : Nat]
      /\ MaxQuotations \in Nat
  BY QuotationsAssumption DEF IssuesInOrder
<1> DEFINE Here(w) == issuing' = [issuing EXCEPT ![s] = w]
<1>1. ASSUME NEW w \in Issuing, Here(w), inquiry' \in [status : InquiryStatus, version : Nat],
             w.step \in {"supersede", "create"} => w.next \in 1..(n + 1)
      PROVE  IssuesInOrder(n)'
  <2>1. \A t \in Officers : issuing'[t] = IF t = s THEN w ELSE issuing[t]
    BY <1>0, <1>1
  <2>2. issuing' \in [Officers -> Issuing]
    BY <1>0, <1>1
  <2> QED
    BY <1>1, <2>1, <2>2 DEF IssuesInOrder, At
<1>2. ASSUME NEW step \in {"create", "save"}, At(s, "supersede") \/ At(s, "create"),
             issuing' = Goto(s, step), UNCHANGED inquiry
      PROVE  IssuesInOrder(n)'
  <2> DEFINE w == [issuing[s] EXCEPT !.step = step]
  <2>1. w \in Issuing /\ w.next = issuing[s].next /\ issuing[s].next \in 1..(n + 1)
    BY <1>0, <1>2 DEF Issuing, IssuesInOrder
  <2>2. Here(w)
    BY <1>2 DEF Goto
  <2> HIDE DEF w
  <2> QED
    BY <1>0, <1>1, <1>2, <2>1, <2>2
<1>3. CASE FindRequest(s)
  <2> DEFINE w == [step |-> "version", seen |-> inquiry.status, next |-> 0]
  <2>1. w \in Issuing /\ w.step = "version"
    BY <1>0 DEF Issuing
  <2>2. Here(w) /\ UNCHANGED <<inquiry, quotation>>
    BY <1>3 DEF FindRequest
  <2> HIDE DEF w
  <2> QED
    BY <1>0, <1>1, <2>1, <2>2
<1>4. CASE SupersedeActionable(s)
  BY <1>2, <1>4 DEF SupersedeActionable
<1>5. CASE CreateQuotation(s)
  BY <1>2, <1>5 DEF CreateQuotation
<1>6. CASE SaveAwaitingDecision(s) \/ AbandonQuotation(s)
  <2>1. Idle \in Issuing /\ Idle.step = "idle"
    BY <1>0 DEF Idle, Issuing, InquiryStatus
  <2>2. Here(Idle) /\ UNCHANGED quotation
        /\ inquiry' \in {inquiry, [inquiry EXCEPT !.status = "AWAITING_DECISION"]}
    BY <1>6 DEF SaveAwaitingDecision, AbandonQuotation
  <2>3. [inquiry EXCEPT !.status = "AWAITING_DECISION"] \in [status : InquiryStatus, version : Nat]
    BY <1>0 DEF InquiryStatus
  <2> QED
    BY <1>0, <1>1, <2>1, <2>2, <2>3
<1> QED
  BY <1>3, <1>4, <1>5, <1>6 DEF IssueStep

(* Every step issues the next version, decides on the last, or neither.    *)
LEMMA QuotationsStayInOrder ==
  ASSUME QuotationsInv, QuotationsNext
  PROVE  QuotationsInv' /\ DecisionsAreFinal
<1>0. OrdersInOrder
  BY DEF QuotationsInv
<1>1. PICK n \in Nat : Issues(n)
  BY DEF QuotationsInv
<1>2. /\ n \in 0..MaxQuotations /\ QuotesInOrder(n) /\ IssuesInOrder(n)
      /\ quotation \in [QuotationVersions -> QuotationDocument]
      /\ inquiry \in [status : InquiryStatus, version : Nat]
      /\ MaxQuotations \in Nat
  BY <1>1, QuotationsAssumption DEF Issues, QuotesInOrder, IssuesInOrder
<1>3. ASSUME NEW m \in 0..MaxQuotations, QuotesInOrder(m)', IssuesInOrder(m)'
      PROVE  \E k \in Nat : Issues(k)'
  <2>1. m \in Nat /\ Issues(m)'
    BY <1>2, <1>3 DEF Issues
  <2> QED
    BY <2>1
<1>4. ASSUME inquiry' \in [status : InquiryStatus, version : Nat], UNCHANGED issuing
      PROVE  IssuesInOrder(n)'
  BY <1>2, <1>4 DEF IssuesInOrder, At
<1>5. UNCHANGED quotation => QuotesInOrder(n)' /\ QuotesKept
  BY <1>2 DEF QuotesInOrder, QuotesKept, DecisionsAreFinal
<1>6. ASSUME \/ conversions' \subseteq conversions
             \/ conversions' = Spoiled
             \/ conversions' = {[c EXCEPT !.clean = @ /\ ~quotation[c.version].actionable] :
                                  c \in conversions},
             QuotesKept, UNCHANGED b2bOrder
      PROVE  OrdersInOrder'
  <2>1. \A d \in conversions' :
          /\ d \in [by : Users, version : QuotationVersions, clean : BOOLEAN]
          /\ \E c \in conversions : d.version = c.version
    BY <1>0, <1>6, ConversionsLose
  <2> QED
    BY <1>0, <1>6, <2>1, OrdersFollow
<1>7. ASSUME OrganisationStep \/ InquiryStep PROVE QuotationsInv' /\ DecisionsAreFinal
  <2>1. /\ UNCHANGED <<quotation, b2bOrder, issuing>>
        /\ conversions' \subseteq conversions \/ conversions' = Spoiled
    BY <1>7 DEF OrganisationStep, CreateOrganisation, AddOrUpdateMember, SuspendOrganisation,
                InquiryStep, SubmitInquiry, AskClarification, BeginUpdate, BeginAnswer, ReadInquiry,
                UpdateRequest, RespondClarification, FailCall
  <2>2. \/ UNCHANGED inquiry
        \/ \E st \in InquiryStatus : inquiry' = [inquiry EXCEPT !.status = st]
        \/ inquiry' = [inquiry EXCEPT !.version = @ + 1]
    BY <1>7 DEF OrganisationStep, CreateOrganisation, AddOrUpdateMember, SuspendOrganisation,
                InquiryStep, SubmitInquiry, AskClarification, BeginUpdate, BeginAnswer, ReadInquiry,
                UpdateRequest, RespondClarification, FailCall, InquiryStatus
  <2>3. inquiry' \in [status : InquiryStatus, version : Nat]
    BY <1>2, <2>2
  <2> QED
    BY <1>2, <1>3, <1>4, <1>5, <1>6, <2>1, <2>3 DEF QuotationsInv, QuotesKept
<1>8. ASSUME NEW s \in Officers, IssueStep(s) PROVE QuotationsInv' /\ DecisionsAreFinal
  <2>1. CASE FindVersion(s)
    <3> DEFINE w == [issuing[s] EXCEPT !.step = "supersede", !.next = n + 1]
    <3>0. issuing \in [Officers -> Issuing] /\ Latest = n
      BY <1>2, LatestIsLast DEF IssuesInOrder
    <3>1. w \in Issuing /\ w.next = n + 1
      <4>1. n + 1 \in 0..(MaxQuotations + 1) /\ issuing[s] \in Issuing
        BY <1>2, <3>0
      <4>2. PICK r \in Issuing : r = issuing[s]
        BY <4>1
      <4>3. PICK k \in 0..(MaxQuotations + 1) : k = n + 1
        BY <4>1
      <4>4. /\ [r EXCEPT !.step = "supersede", !.next = k] \in Issuing
            /\ [r EXCEPT !.step = "supersede", !.next = k].next = k
        BY DEF Issuing
      <4> QED
        BY <4>2, <4>3, <4>4
    <3>2. /\ issuing' = [issuing EXCEPT ![s] = w]
          /\ UNCHANGED <<inquiry, quotation, b2bOrder, conversions>>
      BY <2>1, <3>0 DEF FindVersion
    <3> HIDE DEF w
    <3>3. \A t \in Officers : issuing'[t] = IF t = s THEN w ELSE issuing[t]
      BY <3>0, <3>2
    <3>4. issuing' \in [Officers -> Issuing]
      BY <3>0, <3>1, <3>2
    <3>5. IssuesInOrder(n)'
      BY <1>2, <3>1, <3>2, <3>3, <3>4 DEF IssuesInOrder, At
    <3> QED
      BY <1>2, <1>3, <1>5, <1>6, <3>2, <3>5 DEF QuotationsInv, QuotesKept
  <2>2. ASSUME ~FindVersion(s)
        PROVE  /\ IssuesInOrder(n)'
               /\ SupersedeActionable(s) \/ CreateQuotation(s) \/ UNCHANGED quotation
    BY <1>2, <1>8, <2>2, IssuesKept
  <2>3. UNCHANGED b2bOrder
    BY <1>8 DEF IssueStep, FindRequest, FindVersion, SupersedeActionable, CreateQuotation,
                SaveAwaitingDecision, AbandonQuotation
  <2>4. \/ conversions' \subseteq conversions
        \/ conversions' = Spoiled
        \/ conversions' = {[c EXCEPT !.clean = @ /\ ~quotation[c.version].actionable] :
                             c \in conversions}
    BY <1>8 DEF IssueStep, FindRequest, FindVersion, SupersedeActionable, CreateQuotation,
                SaveAwaitingDecision, AbandonQuotation
  <2>5. CASE ~FindVersion(s) /\ UNCHANGED quotation
    BY <1>2, <1>3, <1>5, <1>6, <2>2, <2>3, <2>4, <2>5 DEF QuotationsInv, QuotesKept
  <2>6. CASE SupersedeActionable(s) /\ ~FindVersion(s)
    <3>1. quotation' = [v \in QuotationVersions |-> Superseded(quotation[v])]
      BY <2>6 DEF SupersedeActionable
    <3>2. ASSUME NEW q \in QuotationDocument, q.actionable => q.status = "ISSUED"
          PROVE  /\ Superseded(q) \in QuotationDocument /\ ~Superseded(q).actionable
                 /\ Superseded(q).status # "ABSENT" <=> q.status # "ABSENT"
                 /\ q.status \in {"APPROVED", "DECLINED"} => Superseded(q).status = q.status
                 /\ Superseded(q).converted = q.converted
      BY <3>2 DEF Superseded, QuotationDocument, QuotationStatus
    <3>3. ASSUME NEW v \in QuotationVersions
          PROVE  /\ quotation'[v] \in QuotationDocument /\ ~quotation'[v].actionable
                 /\ quotation'[v].status # "ABSENT" <=> quotation[v].status # "ABSENT"
                 /\ quotation[v].status \in {"APPROVED", "DECLINED"} =>
                      quotation'[v].status = quotation[v].status
                 /\ quotation'[v].converted = quotation[v].converted
      <4>1. /\ quotation[v] \in QuotationDocument
            /\ quotation[v].actionable => quotation[v].status = "ISSUED"
        BY <1>2 DEF QuotesInOrder
      <4>2. quotation'[v] = Superseded(quotation[v])
        BY <3>1
      <4> QED
        BY <3>2, <4>1, <4>2
    <3>4. quotation' \in [QuotationVersions -> QuotationDocument]
      BY <3>1, <3>3
    <3>5. QuotesInOrder(n)'
      BY <1>2, <3>3, <3>4 DEF QuotesInOrder
    <3>6. QuotesKept
      BY <3>3 DEF QuotesKept, DecisionsAreFinal
    <3> QED
      BY <1>2, <1>3, <1>6, <2>2, <2>3, <2>4, <2>6, <3>5, <3>6 DEF QuotationsInv, QuotesKept
  <2>7. CASE CreateQuotation(s) /\ ~FindVersion(s)
    <3>1. PICK v : v = issuing[s].next
      OBVIOUS
    <3>2. /\ v <= MaxQuotations /\ quotation[v].status = "ABSENT"
          /\ \A w \in QuotationVersions : ~quotation[w].actionable
          /\ quotation' = [quotation EXCEPT ![v].status = "ISSUED", ![v].actionable = TRUE]
          /\ v \in 1..(n + 1)
      BY <1>2, <2>7, <3>1 DEF CreateQuotation, IndexesAdmit, IssuesInOrder
    <3>3. v \in QuotationVersions /\ v = n + 1
      BY <1>2, <3>2 DEF QuotesInOrder, QuotationVersions
    <3> DEFINE q == [quotation[v] EXCEPT !.status = "ISSUED", !.actionable = TRUE]
    <3>4. /\ q \in QuotationDocument /\ q.status = "ISSUED" /\ q.converted = quotation[v].converted
      BY <1>2, <3>3 DEF QuotationDocument, QuotationStatus
    <3>5. quotation' = [quotation EXCEPT ![v] = q]
      BY <3>2
    <3> HIDE DEF q
    <3>6. /\ quotation' \in [QuotationVersions -> QuotationDocument]
          /\ \A w \in QuotationVersions : quotation'[w] = IF w = v THEN q ELSE quotation[w]
      BY <1>2, <3>4, <3>5
    <3>7. QuotesInOrder(n + 1)'
      BY <1>2, <3>2, <3>3, <3>4, <3>6 DEF QuotesInOrder, QuotationVersions
    <3>8. QuotesKept
      BY <3>2, <3>4, <3>6 DEF QuotesKept, DecisionsAreFinal
    <3>9. IssuesInOrder(n + 1)' /\ n + 1 \in 0..MaxQuotations
      BY <1>2, <2>2, <2>7, <3>3 DEF IssuesInOrder, QuotationVersions
    <3> QED
      BY <1>3, <1>6, <2>3, <2>4, <3>7, <3>8, <3>9 DEF QuotationsInv, QuotesKept
  <2> QED
    BY <2>1, <2>2, <2>5, <2>6, <2>7
<1>9. ASSUME NEW v \in QuotationVersions, LapseQuotation(v)
      PROVE  QuotationsInv' /\ DecisionsAreFinal
  <2> DEFINE q == [quotation[v] EXCEPT !.lapsed = TRUE]
  <2>1. /\ q \in QuotationDocument /\ q.status = quotation[v].status
        /\ q.actionable = quotation[v].actionable /\ q.converted = quotation[v].converted
    BY <1>2 DEF QuotationDocument
  <2>2. /\ quotation' = [quotation EXCEPT ![v] = q]
        /\ UNCHANGED <<inquiry, b2bOrder, issuing, conversions>>
    BY <1>9 DEF LapseQuotation
  <2> HIDE DEF q
  <2>3. QuotesInOrder(n)'
    BY <1>2, <2>1, <2>2, QuoteWrites DEF QuotesInOrder
  <2>4. \A w \in QuotationVersions : quotation'[w] = IF w = v THEN q ELSE quotation[w]
    BY <1>2, <2>2
  <2>5. QuotesKept
    BY <2>1, <2>4 DEF QuotesKept, DecisionsAreFinal
  <2> QED
    BY <1>2, <1>3, <1>4, <1>6, <2>2, <2>3, <2>5 DEF QuotationsInv, QuotesKept
<1>10. ASSUME NEW v \in QuotationVersions, NEW d \in {"APPROVED", "DECLINED"}, DecideQuotation(v, d)
       PROVE  QuotationsInv' /\ DecisionsAreFinal
  <2> DEFINE q == [quotation[v] EXCEPT !.status = d, !.actionable = FALSE]
  <2>1. /\ q \in QuotationDocument /\ q.status = d /\ ~q.actionable
        /\ q.converted = quotation[v].converted
    BY <1>2 DEF QuotationDocument, QuotationStatus
  <2>2. /\ quotation' = [quotation EXCEPT ![v] = q] /\ quotation[v].status = "ISSUED"
        /\ UNCHANGED <<b2bOrder, issuing>> /\ conversions' = Spoiled
        /\ inquiry' = [inquiry EXCEPT !.status =
                         IF d = "APPROVED" THEN "CONVERSION_PENDING" ELSE "DECLINED"]
    BY <1>10 DEF DecideQuotation, Undecided
  <2>3. inquiry' \in [status : InquiryStatus, version : Nat]
    BY <1>2, <2>2 DEF InquiryStatus
  <2> HIDE DEF q
  <2>4. QuotesInOrder(n)'
    BY <1>2, <2>1, <2>2, QuoteWrites
  <2>5. \A w \in QuotationVersions : quotation'[w] = IF w = v THEN q ELSE quotation[w]
    BY <1>2, <2>2
  <2>6. QuotesKept
    BY <2>1, <2>2, <2>5 DEF QuotesKept, DecisionsAreFinal
  <2> QED
    BY <1>2, <1>3, <1>4, <1>6, <2>2, <2>3, <2>4, <2>6 DEF QuotationsInv, QuotesKept
<1>11. ASSUME NEW u \in Users, NEW v \in QuotationVersions, BeginConversion(u, v)
       PROVE  QuotationsInv' /\ DecisionsAreFinal
  <2> DEFINE new == [by |-> u, version |-> v, clean |-> TRUE]
  <2>1. /\ conversions' = conversions \cup {new}
        /\ quotation[v].status = "APPROVED"
        /\ UNCHANGED <<inquiry, quotation, b2bOrder, issuing>>
    BY <1>11 DEF BeginConversion, Convertible
  <2>0. new \in [by : Users, version : QuotationVersions, clean : BOOLEAN] /\ new.version = v
    OBVIOUS
  <2> HIDE DEF new
  <2>2. \A d \in conversions' :
          /\ d \in [by : Users, version : QuotationVersions, clean : BOOLEAN]
          /\ \/ quotation[d.version].status = "APPROVED"
             \/ \E c \in conversions : d.version = c.version
    BY <1>0, <2>0, <2>1 DEF OrdersInOrder
  <2>3. OrdersInOrder'
    BY <1>0, <1>5, <2>1, <2>2, OrdersFollow
  <2> QED
    BY <1>2, <1>3, <1>4, <1>5, <2>1, <2>3 DEF QuotationsInv, QuotesKept
<1>12. ASSUME NEW c \in conversions, CommitConversion(c) PROVE QuotationsInv' /\ DecisionsAreFinal
  <2>0. /\ c.version \in QuotationVersions /\ c.by \in Users
        /\ quotation[c.version].status = "APPROVED"
    BY <1>0 DEF OrdersInOrder
  <2> DEFINE v == c.version
             q == [quotation[v] EXCEPT !.converted = TRUE]
             o == [version |-> v, by |-> c.by]
  <2>1. /\ q \in QuotationDocument /\ q.status = quotation[v].status
        /\ q.actionable = quotation[v].actionable /\ q.converted
    BY <1>2, <2>0 DEF QuotationDocument
  <2>2. /\ quotation' = [quotation EXCEPT ![v] = q] /\ ~HasOrder(v)
        /\ b2bOrder' = b2bOrder \cup {o} /\ UNCHANGED issuing
        /\ conversions' = {[d EXCEPT !.clean = FALSE] : d \in conversions \ {c}}
        /\ inquiry' = [inquiry EXCEPT !.status = "CONVERTED_TO_ORDER"]
    BY <1>12 DEF CommitConversion, Converted
  <2>3. inquiry' \in [status : InquiryStatus, version : Nat]
    BY <1>2, <2>2 DEF InquiryStatus
  <2>4. o \in [version : QuotationVersions, by : Users] /\ o.version = v
    BY <2>0
  <2> HIDE DEF q, o
  <2>5. QuotesInOrder(n)'
    BY <1>2, <2>1, <2>2, QuoteWrites DEF QuotesInOrder
  <2>6. \A w \in QuotationVersions : quotation'[w] = IF w = v THEN q ELSE quotation[w]
    BY <1>2, <2>2
  <2>7. DecisionsAreFinal
    BY <2>1, <2>6 DEF DecisionsAreFinal
  <2>8. \A d \in conversions' :
          /\ d \in [by : Users, version : QuotationVersions, clean : BOOLEAN]
          /\ quotation'[d.version].status = "APPROVED"
    <3>1. \A d \in conversions' :
            /\ d \in [by : Users, version : QuotationVersions, clean : BOOLEAN]
            /\ \E e \in conversions : d.version = e.version
      BY <1>0, <2>2, ConversionsLose
    <3>2. \A d \in conversions' : d.version \in QuotationVersions
                                  /\ quotation[d.version].status = "APPROVED"
      BY <1>0, <3>1 DEF OrdersInOrder
    <3> QED
      BY <2>1, <2>6, <3>1, <3>2
  <2>9. \A p \in b2bOrder : /\ p \in [version : QuotationVersions, by : Users]
                             /\ p.version # v
                             /\ quotation[p.version].status = "APPROVED"
                             /\ quotation[p.version].converted
    BY <1>0, <2>2 DEF OrdersInOrder, HasOrder
  <2>10. /\ b2bOrder' \subseteq [version : QuotationVersions, by : Users]
         /\ \A p \in b2bOrder' : /\ quotation'[p.version].status = "APPROVED"
                                  /\ quotation'[p.version].converted
    BY <2>0, <2>1, <2>2, <2>4, <2>6, <2>9
  <2>11. \A w \in QuotationVersions : quotation'[w].converted => HasOrder(w)'
    BY <1>0, <2>1, <2>2, <2>4, <2>6 DEF OrdersInOrder, HasOrder
  <2>12. \A p, r \in b2bOrder' : p.version = r.version => p = r
    BY <1>0, <2>2, <2>4, <2>9 DEF OrdersInOrder
  <2>13. OrdersInOrder'
    BY <2>8, <2>10, <2>11, <2>12 DEF OrdersInOrder
  <2> QED
    BY <1>2, <1>3, <1>4, <2>2, <2>3, <2>5, <2>7, <2>13 DEF QuotationsInv
<1>13. ASSUME NEW c \in conversions, AbortConversion(c) PROVE QuotationsInv' /\ DecisionsAreFinal
  <2>1. /\ conversions' \subseteq conversions
        /\ UNCHANGED <<inquiry, quotation, b2bOrder, issuing>>
    BY <1>13 DEF AbortConversion
  <2> QED
    BY <1>2, <1>3, <1>4, <1>5, <1>6, <2>1 DEF QuotationsInv, QuotesKept
<1> QED
  BY <1>7, <1>8, <1>9, <1>10, <1>11, <1>12, <1>13 DEF QuotationsNext, ConversionStep

(* It holds of the initial state.                                          *)
LEMMA QuotationsBegin ==
  QuotationsInit => QuotationsInv
<1> SUFFICES ASSUME QuotationsInit PROVE QuotationsInv
  OBVIOUS
<1>1. 0 \in 0..MaxQuotations
  BY QuotationsAssumption
<1>2. QuotesInOrder(0)
  BY QuotationsAssumption
     DEF QuotationsInit, QuotesInOrder, QuotationDocument, QuotationStatus, QuotationVersions
<1>3. IssuesInOrder(0)
  BY QuotationsAssumption
     DEF QuotationsInit, IssuesInOrder, Issuing, Idle, InquiryStatus, At
<1>4. OrdersInOrder
  BY DEF QuotationsInit, OrdersInOrder
<1>5. Issues(0)
  BY <1>1, <1>2, <1>3 DEF Issues
<1> QED
  BY <1>4, <1>5 DEF QuotationsInv

(* Every step keeps it, and a decision is final.                           *)
LEMMA QuotationsStep ==
  QuotationsInv /\ [QuotationsNext]_quotationVars => QuotationsInv' /\ DecisionsAreFinal
<1>1. QuotationsInv /\ UNCHANGED quotationVars => QuotationsInv' /\ DecisionsAreFinal
  BY DEF quotationVars, QuotationsInv, Issues, QuotesInOrder, IssuesInOrder, OrdersInOrder,
         HasOrder, At, DecisionsAreFinal
<1> QED
  BY <1>1, QuotationsStayInOrder

(* The invariant holds of every reachable state.                           *)
LEMMA QuotationsInvariant == QuotationsSpec => []QuotationsInv
  BY QuotationsBegin, QuotationsStep, PTL DEF QuotationsSpec

(* createQuotation, decideQuotation and convertToOrder: for any number of  *)
(* officers, customers and versions, one quotation can be decided on at    *)
(* most, a decision is final, and an approved quotation becomes one order, *)
(* which names it.                                                         *)
THEOREM QuotationsStand ==
  QuotationsSpec => QuotationsAgree
<1>3. QuotationsInv => OnlyLatestActionable
  <2> SUFFICES ASSUME QuotationsInv PROVE OnlyLatestActionable
    OBVIOUS
  <2>1. PICK n \in Nat : Issues(n)
    BY DEF QuotationsInv
  <2>2. Latest = n /\ QuotesInOrder(n)
    BY <2>1, LatestIsLast DEF Issues
  <2> QED
    BY <2>2 DEF OnlyLatestActionable, QuotesInOrder
<1>4. QuotationsInv => OneOrderPerQuotation
  <2> SUFFICES ASSUME OrdersInOrder, NEW v \in QuotationVersions
               PROVE  LET orders == {o \in b2bOrder : o.version = v} IN
                      /\ Cardinality(orders) = IF quotation[v].converted THEN 1 ELSE 0
                      /\ orders # {} => quotation[v].status = "APPROVED"
    BY DEF QuotationsInv, OneOrderPerQuotation
  <2> DEFINE orders == {o \in b2bOrder : o.version = v}
  <2>1. orders # {} => quotation[v].status = "APPROVED" /\ quotation[v].converted
    BY DEF OrdersInOrder
  <2>2. CASE orders = {}
    <3>1. ~quotation[v].converted
      BY <2>2 DEF OrdersInOrder, HasOrder
    <3> QED
      BY <2>2, <3>1, FS_EmptySet
  <2>3. CASE orders # {}
    <3>1. PICK o \in orders : TRUE
      BY <2>3
    <3>2. orders = {o}
      BY <3>1 DEF OrdersInOrder
    <3> HIDE DEF orders
    <3> QED
      BY <2>1, <2>3, <3>2, FS_Singleton DEF orders
  <2> QED
    BY <2>2, <2>3
<1> QED
  BY QuotationsBegin, QuotationsStep, <1>3, <1>4, PTL DEF QuotationsSpec, QuotationsAgree

-----------------------------------------------------------------------------
(* Purchase orders and the stock they fill                                 *)

(* A purchase order that has received nothing has no receipt.              *)
ReceiptsCount == \A o \in PurchaseOrders : po[o].received = 0 => po[o].receipts = {}

(* What was reconciled is not open any more, for any request.              *)
ReconciledOnce ==
  \A c \in Counts : count[c].status = "RECONCILED" => count[c].discrepancy = "RESOLVED"

(* The properties themselves are the rest of the invariant.                *)
SupplyInv ==
  /\ SupplyTypeOK /\ IsFiniteSet(ledger) /\ ReceiptsCount /\ ReconciledOnce
  /\ StockIsExplained /\ ReceiptsReachStock /\ EndsMatchReceipts

(* What requests carry.                                                    *)
LEMMA RequestFields ==
  ASSUME NEW r \in Requested
  PROVE  /\ r.op \in {"adjust", "release", "count", "resolve"}
         /\ r.op = "adjust" => r.delta \in Int
         /\ r.op = "release" => r.unit \in Units
         /\ r.op = "count" => r.count \in Counts /\ r.counted \in 0..MaxStock
         /\ r.op = "resolve" => r.count \in Counts
<1>1. r \in Requests
  BY RequestAssumption DEF RequestAssumption
<1> QED
  BY <1>1 DEF Requests, Adjustments, Releases, CountRequests, Resolutions

(* An entry counts for the document that its request names.                *)
Named(asked, op, field, x) == asked.op = op /\ asked[field] = x

(* A movement writes one entry that was not there, and the stock with it.  *)
LEMMA MovementAdds ==
  ASSUME SupplyTypeOK, IsFiniteSet(ledger), NEW key, NEW asked, NEW delta \in Int,
         Movement(key, asked, delta)
  PROVE  /\ inStock' = inStock + delta /\ inStock' \in 0..MaxStock
         /\ IsFiniteSet(ledger') /\ \A e \in ledger' : e.delta \in Int
         /\ NetDelta(ledger') = NetDelta(ledger) + delta
         /\ \E e : /\ e \notin ledger /\ e.delta = delta /\ e.request = asked
                   /\ ledger' = ledger \cup {e}
<1> DEFINE e == [key |-> key, request |-> asked, delta |-> delta]
<1>1. /\ inStock' = inStock + delta /\ inStock' \in 0..MaxStock
      /\ ledger' = ledger \cup {e} /\ \A x \in ledger : x.key # key
  BY DEF Movement, KeyFree
<1>2. e.key = key /\ e.delta = delta /\ e.request = asked
  OBVIOUS
<1> HIDE DEF e
<1>3. e \notin ledger /\ \A x \in ledger : x.delta \in Int
  BY <1>1, <1>2 DEF SupplyTypeOK
<1>4. IsFiniteSet(ledger \cup {e}) /\ NetDelta(ledger \cup {e}) = NetDelta(ledger) + delta
  BY <1>2, <1>3, NetAdd
<1>5. \A x \in ledger' : x.delta \in Int
  BY <1>1, <1>2, <1>3
<1> QED
  BY <1>1, <1>2, <1>3, <1>4, <1>5

(* Entries whose request names something else are none of its business.    *)
LEMMA OtherEntries ==
  ASSUME NEW e, ledger' = ledger \cup {e}
  PROVE  /\ \A op, field, x : ~Named(e.request, op, field, x) =>
              {y \in ledger' : Named(y.request, op, field, x)}
                = {y \in ledger : Named(y.request, op, field, x)}
         /\ \A op, field, x : Named(e.request, op, field, x) =>
              {y \in ledger' : Named(y.request, op, field, x)}
                = {y \in ledger : Named(y.request, op, field, x)} \cup {e}
  OBVIOUS

(* The sets the properties count, as entries that name one document.       *)
LEMMA EntriesNamed ==
  /\ \A op, field, x : EntriesFor(op, field, x) = {e \in ledger : Named(e.request, op, field, x)}
  /\ \A op, field, x : EntriesFor(op, field, x)' = {e \in ledger' : Named(e.request, op, field, x)}
  /\ \A o : EntriesOf(o) = {e \in ledger : Named(e.request, "receive", "po", o)}
  /\ \A o : EntriesOf(o)' = {e \in ledger' : Named(e.request, "receive", "po", o)}
  BY DEF EntriesFor, EntriesOf, Named

-----------------------------------------------------------------------------
(* Steps that write no entry                                               *)
(* Stock moves with the sales or the direct edits alone.                   *)
LEMMA NoEntrySafe ==
  ASSUME SupplyInv, SupplyTypeOK', ledger' = ledger,
         inStock' - sold' - unrecorded' = inStock - sold - unrecorded,
         \A u \in Units : unit'[u].state = "SELLABLE" <=> unit[u].state = "SELLABLE",
         \A c \in Counts : count[c].status = "RECONCILED" => count'[c].status = "RECONCILED",
         ReconciledOnce',
         \A o \in PurchaseOrders :
           /\ po'[o].received = po[o].received /\ po'[o].receipts = po[o].receipts
           /\ po'[o].status = "CLOSED" => po[o].received = Ordered
           /\ po'[o].status = "CANCELLED" => po[o].receipts = {}
  PROVE  SupplyInv'
<1>1. /\ \A op, field, x : EntriesFor(op, field, x)' = EntriesFor(op, field, x)
      /\ \A o : EntriesOf(o)' = EntriesOf(o)
  BY EntriesNamed
<1>2. LedgerExplainsStock'
  <2>1. inStock \in Int /\ sold \in Int /\ unrecorded \in Int /\ NetDelta(ledger) \in Int
        /\ inStock' \in Int /\ sold' \in Int /\ unrecorded' \in Int
    BY NetType, InventoryAssumption DEF SupplyInv, SupplyTypeOK, InventoryAssumption
  <2>2. inStock = sold + NetDelta(ledger) + unrecorded
    BY DEF SupplyInv, StockIsExplained, LedgerExplainsStock, LedgerTotal
  <2>3. inStock' = sold' + NetDelta(ledger') + unrecorded'
    BY <2>1, <2>2
  <2> QED
    BY <2>3 DEF LedgerExplainsStock, LedgerTotal
<1>3. UnitReleasedOnce' /\ DiscrepancyAppliedOnce'
  BY <1>1 DEF SupplyInv, StockIsExplained, UnitReleasedOnce, DiscrepancyAppliedOnce
<1>4. ReceiptsReachStock' /\ EndsMatchReceipts' /\ ReceiptsCount'
  BY <1>1 DEF SupplyInv, ReceiptsReachStock, EndsMatchReceipts, ReceiptsCount,
              LooseReceived, SerialsReceived
<1> QED
  BY <1>2, <1>3, <1>4 DEF SupplyInv, StockIsExplained

-----------------------------------------------------------------------------
(* Steps that write one entry                                              *)
(* One new entry moves the stock and the document it names.                *)
LEMMA EntrySafe ==
  ASSUME SupplyInv, SupplyTypeOK', NEW e, e \notin ledger, ledger' = ledger \cup {e},
         e.delta \in Int,
         inStock' - sold' - unrecorded' = inStock - sold - unrecorded + e.delta,
         \A u \in Units :
           IF Named(e.request, "release", "unit", u)
           THEN unit[u].state # "SELLABLE" /\ unit'[u].state = "SELLABLE"
           ELSE unit'[u].state = "SELLABLE" <=> unit[u].state = "SELLABLE",
         \A c \in Counts :
           /\ count[c].status = "RECONCILED" => count'[c].status = "RECONCILED"
           /\ Named(e.request, "resolve", "count", c) =>
                count[c].status # "RECONCILED" /\ count'[c].status = "RECONCILED",
         ReconciledOnce',
         \A o \in PurchaseOrders :
           /\ IF Named(e.request, "receive", "po", o)
              THEN po'[o].received = po[o].received + e.delta /\ e.delta > 0
              ELSE po'[o].received = po[o].received
           /\ po'[o].received <= Ordered,
         EndsMatchReceipts', ReceiptsCount'
  PROVE  SupplyInv'
<1>0. /\ IsFiniteSet(ledger) /\ \A x \in ledger : x.delta \in Int
  BY DEF SupplyInv, SupplyTypeOK
<1>1. IsFiniteSet(ledger')
  BY <1>0, FS_AddElement
<1>2. LedgerExplainsStock'
  <2>1. inStock \in Int /\ sold \in Int /\ unrecorded \in Int /\ NetDelta(ledger) \in Int
        /\ inStock' \in Int /\ sold' \in Int /\ unrecorded' \in Int
    BY NetType, InventoryAssumption DEF SupplyInv, SupplyTypeOK, InventoryAssumption
  <2>2. inStock = sold + NetDelta(ledger) + unrecorded
    BY DEF SupplyInv, StockIsExplained, LedgerExplainsStock, LedgerTotal
  <2>3. NetDelta(ledger') = NetDelta(ledger) + e.delta
    BY <1>0, NetAdd
  <2>4. inStock' = sold' + NetDelta(ledger') + unrecorded'
    BY <2>1, <2>2, <2>3
  <2> QED
    BY <2>4 DEF LedgerExplainsStock, LedgerTotal
<1>3. /\ \A op, field, x : ~Named(e.request, op, field, x) =>
           EntriesFor(op, field, x)' = EntriesFor(op, field, x)
      /\ \A op, field, x : Named(e.request, op, field, x) =>
           EntriesFor(op, field, x)' = EntriesFor(op, field, x) \cup {e}
      /\ \A op, field, x : e \notin EntriesFor(op, field, x)
      /\ \A op, field, x : IsFiniteSet(EntriesFor(op, field, x))
  <2>1. \A op, field, x : EntriesFor(op, field, x) \in SUBSET ledger
    BY DEF EntriesFor
  <2>2. \A op, field, x : IsFiniteSet(EntriesFor(op, field, x))
    BY <1>0, <2>1, FS_Subset
  <2> QED
    BY <2>1, <2>2, OtherEntries, EntriesNamed
<1>4. UnitReleasedOnce'
  <2> SUFFICES ASSUME NEW u \in Units
               PROVE  Cardinality(EntriesFor("release", "unit", u)')
                        = IF unit'[u].state = "SELLABLE" THEN 1 ELSE 0
    BY DEF UnitReleasedOnce
  <2>1. Cardinality(EntriesFor("release", "unit", u)) = IF unit[u].state = "SELLABLE" THEN 1 ELSE 0
    BY DEF SupplyInv, StockIsExplained, UnitReleasedOnce
  <2>2. CASE Named(e.request, "release", "unit", u)
    BY <1>3, <2>1, <2>2, FS_AddElement
  <2>3. CASE ~Named(e.request, "release", "unit", u)
    BY <1>3, <2>1, <2>3
  <2> QED
    BY <2>2, <2>3
<1>5. DiscrepancyAppliedOnce'
  <2> SUFFICES ASSUME NEW c \in Counts
               PROVE  /\ Cardinality(EntriesFor("resolve", "count", c)') <= 1
                      /\ EntriesFor("resolve", "count", c)' # {} => count'[c].status = "RECONCILED"
    BY DEF DiscrepancyAppliedOnce
  <2>1. /\ Cardinality(EntriesFor("resolve", "count", c)) <= 1
        /\ EntriesFor("resolve", "count", c) # {} => count[c].status = "RECONCILED"
    BY DEF SupplyInv, StockIsExplained, DiscrepancyAppliedOnce
  <2>2. CASE Named(e.request, "resolve", "count", c)
    <3>1. EntriesFor("resolve", "count", c) = {}
      BY <2>1, <2>2
    <3>2. EntriesFor("resolve", "count", c)' = {e}
      BY <1>3, <2>2, <3>1
    <3>3. Cardinality({e}) = 1
      BY FS_Singleton
    <3>4. Cardinality(EntriesFor("resolve", "count", c)') = 1
      BY <3>2, <3>3
    <3> QED
      BY <2>2, <3>4
  <2>3. CASE ~Named(e.request, "resolve", "count", c)
    BY <1>3, <2>1, <2>3
  <2> QED
    BY <2>2, <2>3
<1>6. ReceiptsReachStock'
  <2> SUFFICES ASSUME NEW o \in PurchaseOrders
               PROVE  po'[o].received = LooseReceived(o)' + SerialsReceived(o)'
    BY DEF ReceiptsReachStock
  <2> DEFINE S == EntriesOf(o)
  <2>1. po[o].received = NetDelta(S) + Cardinality({x \in S : x.delta = 0})
    BY DEF SupplyInv, ReceiptsReachStock, LooseReceived, SerialsReceived
  <2>2. /\ S = EntriesFor("receive", "po", o) /\ S' = EntriesFor("receive", "po", o)'
        /\ \A x \in S : x.delta \in Int
    BY <1>0, EntriesNamed DEF EntriesOf
  <2>3. CASE ~Named(e.request, "receive", "po", o)
    BY <1>3, <2>1, <2>2, <2>3 DEF LooseReceived, SerialsReceived
  <2>4. CASE Named(e.request, "receive", "po", o)
    <3>1. S' = S \cup {e} /\ e \notin S /\ IsFiniteSet(S)
      BY <1>3, <2>2, <2>4
    <3>2. NetDelta(S') = NetDelta(S) + e.delta
      <4> HIDE DEF S
      <4>1. NetDelta(S \cup {e}) = NetDelta(S) + e.delta
        BY <2>2, <3>1, NetAdd
      <4> QED
        BY <3>1, <4>1
    <3>3. {x \in S' : x.delta = 0} = {x \in S : x.delta = 0}
      BY <2>4, <3>1
    <3>4. {x \in S : x.delta = 0} \in SUBSET S
      OBVIOUS
    <3>5. NetDelta(S) \in Int /\ Cardinality({x \in S : x.delta = 0}) \in Nat
      BY <2>2, <3>1, <3>4, NetType, FS_Subset, FS_CardinalityType
    <3>6. LooseReceived(o)' = NetDelta(S')
      BY DEF LooseReceived
    <3>7. SerialsReceived(o)' = Cardinality({x \in S' : x.delta = 0})
      BY DEF SerialsReceived
    <3>8. po'[o].received = po[o].received + e.delta
      BY <2>4
    <3> HIDE DEF S
    <3>9. PICK z \in Nat : z = Cardinality({x \in S : x.delta = 0})
      BY <3>5
    <3>10. SerialsReceived(o)' = z /\ po[o].received = NetDelta(S) + z
      BY <2>1, <3>3, <3>7, <3>9
    <3> QED
      BY <3>2, <3>5, <3>6, <3>8, <3>10
  <2> QED
    BY <2>3, <2>4
<1> QED
  BY <1>1, <1>2, <1>4, <1>5, <1>6
     DEF SupplyInv, StockIsExplained, ReceiptsReachStock

-----------------------------------------------------------------------------
(* The entries of a receipt of units: one for each, of no stock.           *)
LEMMA UnitEntries ==
  ASSUME NEW key, NEW r \in Receipts, r.serials # {}, IsFiniteSet(Units)
  PROVE  LET T == {[key |-> <<"unit", key, u>>, request |-> r, delta |-> 0] : u \in r.serials} IN
         IsFiniteSet(T) /\ Cardinality(T) = r.quantity
<1> DEFINE T == {[key |-> <<"unit", key, u>>, request |-> r, delta |-> 0] : u \in r.serials}
<1>1. r.serials \in SUBSET Units /\ Cardinality(r.serials) = r.quantity
  BY DEF Receipts
<1>2. IsFiniteSet(r.serials)
  BY <1>1, FS_Subset
<1> DEFINE S == r.serials
           f == [u \in S |-> [key |-> <<"unit", key, u>>, request |-> r, delta |-> 0]]
<1>3. f \in [S -> T] /\ \A x \in T : \E u \in S : f[u] = x
  OBVIOUS
<1>4. \A u, w \in S : f[u] = f[w] => u = w
  <2> SUFFICES ASSUME NEW u \in S, NEW w \in S, f[u] = f[w] PROVE u = w
    OBVIOUS
  <2>1. f[u].key = <<"unit", key, u>> /\ f[w].key = <<"unit", key, w>>
    OBVIOUS
  <2>2. <<"unit", key, u>> = <<"unit", key, w>>
    BY <2>1
  <2> QED
    BY <2>2
<1>5. f \in Bijection(S, T)
  BY <1>3, <1>4 DEF Bijection, Injection, Surjection, IsInjective
<1>6. ExistsBijection(S, T)
  BY <1>5 DEF ExistsBijection
<1> QED
  BY <1>1, <1>2, <1>6, FS_Bijection

(* Units that arrive enter quarantine: entries, and no stock yet.          *)
LEMMA SerialsSafe ==
  ASSUME SupplyInv, SupplyTypeOK', NEW key, NEW r \in Receipts, r.serials # {},
         ReceiveSerials(key, r), UNCHANGED <<sold, unrecorded, count>>,
         \A o \in PurchaseOrders :
           /\ po'[o].received = IF o = r.po THEN po[o].received + r.quantity ELSE po[o].received
           /\ po'[o].received <= Ordered,
         EndsMatchReceipts', ReceiptsCount'
  PROVE  SupplyInv'
<1> DEFINE T == {[key |-> <<"unit", key, u>>, request |-> r, delta |-> 0] : u \in r.serials}
<1>0. /\ IsFiniteSet(ledger) /\ \A x \in ledger : x.delta \in Int
      /\ unit \in [Units -> UnitDocument] /\ r.serials \subseteq Units
      /\ r.op = "receive" /\ r.po \in PurchaseOrders /\ r.quantity \in Nat
  BY DEF SupplyInv, SupplyTypeOK, Receipts
<1>1. IsFiniteSet(T) /\ Cardinality(T) = r.quantity
  <2>1. IsFiniteSet(Units)
    BY InventoryAssumption DEF InventoryAssumption
  <2> QED
    BY <2>1, UnitEntries
<1>2. \A e \in T : e \notin ledger /\ e.delta = 0 /\ e.request = r
  BY DEF ReceiveSerials, KeyFree
<1>3. ledger' = ledger \cup T /\ inStock' = inStock
  BY DEF ReceiveSerials
<1>4. \A u \in Units : unit'[u].state = "SELLABLE" <=> unit[u].state = "SELLABLE"
  BY <1>0 DEF ReceiveSerials
<1> HIDE DEF T
<1>5. IsFiniteSet(ledger')
  BY <1>0, <1>1, <1>3, FS_Union
<1>6. NetDelta(ledger') = NetDelta(ledger)
  BY <1>2, <1>3, NetZeros
<1>7. LedgerExplainsStock'
  BY <1>3, <1>6 DEF SupplyInv, StockIsExplained, LedgerExplainsStock, LedgerTotal
<1>8. \A op, field, x : op # "receive" => EntriesFor(op, field, x)' = EntriesFor(op, field, x)
  BY <1>0, <1>2, <1>3, EntriesNamed DEF Named
<1>9. UnitReleasedOnce' /\ DiscrepancyAppliedOnce'
  BY <1>4, <1>8 DEF SupplyInv, StockIsExplained, UnitReleasedOnce, DiscrepancyAppliedOnce
<1>10. \A o : EntriesOf(o)' = IF o = r.po THEN EntriesOf(o) \cup T ELSE EntriesOf(o)
  BY <1>0, <1>2, <1>3 DEF EntriesOf
<1>11. ReceiptsReachStock'
  <2> SUFFICES ASSUME NEW o \in PurchaseOrders
               PROVE  po'[o].received = LooseReceived(o)' + SerialsReceived(o)'
    BY DEF ReceiptsReachStock
  <2>1. po[o].received = LooseReceived(o) + SerialsReceived(o)
    BY DEF SupplyInv, ReceiptsReachStock
  <2>2. CASE o # r.po
    BY <1>10, <2>1, <2>2 DEF LooseReceived, SerialsReceived
  <2>3. CASE o = r.po
    <3>1. PICK S : S = EntriesOf(o)
      OBVIOUS
    <3>2. EntriesOf(o)' = S \cup T /\ S \in SUBSET ledger
      BY <1>10, <2>3, <3>1 DEF EntriesOf
    <3>3. LooseReceived(o)' = NetDelta(S \cup T) /\ LooseReceived(o) = NetDelta(S)
      BY <3>1, <3>2 DEF LooseReceived
    <3>4. NetDelta(S \cup T) = NetDelta(S)
      BY <1>2, NetZeros
    <3>5. PICK Z : Z = {x \in S : x.delta = 0}
      OBVIOUS
    <3>6. Z \in SUBSET ledger
      BY <3>2, <3>5
    <3>7. IsFiniteSet(Z)
      BY <1>0, <3>6, FS_Subset
    <3>8. {x \in EntriesOf(o)' : x.delta = 0} = Z \cup T
      BY <1>2, <3>2, <3>5
    <3>9. SerialsReceived(o)' = Cardinality(Z \cup T) /\ SerialsReceived(o) = Cardinality(Z)
      BY <3>1, <3>5, <3>8 DEF SerialsReceived
    <3>10. Z \cap T = {}
      BY <1>2, <3>6
    <3>11. Cardinality(Z \cup T) = Cardinality(Z) + Cardinality(T) - Cardinality(Z \cap T)
      BY <1>1, <3>7, FS_Union
    <3>12. Cardinality(Z \cap T) = 0
      BY <3>10, FS_EmptySet
    <3>13. Cardinality(Z) \in Nat
      BY <3>7, FS_CardinalityType
    <3>14. NetDelta(S) \in Int
      <4>1. IsFiniteSet(S) /\ \A x \in S : x.delta \in Int
        BY <1>0, <3>2, FS_Subset
      <4> QED
        BY <4>1, NetType
    <3>15. po'[o].received = po[o].received + r.quantity
      BY <2>3
    <3> QED
      BY <1>0, <1>1, <2>1, <3>3, <3>4, <3>9, <3>11, <3>12, <3>13, <3>14, <3>15
  <2> QED
    BY <2>2, <2>3
<1>12. ReconciledOnce'
  BY DEF SupplyInv, ReconciledOnce
<1> QED
  BY <1>5, <1>7, <1>9, <1>11, <1>12 DEF SupplyInv, StockIsExplained, ReceiptsReachStock

-----------------------------------------------------------------------------
(* Steps                                                                   *)

(* Every level of stock is a number that may be stored.                    *)
LEMMA StockNumbers ==
  ASSUME SupplyInv
  PROVE  /\ MaxStock \in Nat /\ inStock \in 0..MaxStock /\ inStock \in Int
         /\ sold \in Int /\ unrecorded \in Int /\ NetDelta(ledger) \in Int
         /\ IsFiniteSet(ledger) /\ \A e \in ledger : e.delta \in Int
<1>1. MaxStock \in Nat
  BY InventoryAssumption DEF InventoryAssumption
<1>2. /\ inStock \in 0..MaxStock /\ sold \in Int /\ unrecorded \in Int
      /\ IsFiniteSet(ledger) /\ \A e \in ledger : e.delta \in Int
  BY DEF SupplyInv, SupplyTypeOK
<1> QED
  BY <1>1, <1>2, NetType

(* What a purchase order says of its end, as long as it is left alone.     *)
LEMMA EndsStand ==
  ASSUME SupplyInv
  PROVE  \A o \in PurchaseOrders :
           /\ po[o].status = "CLOSED" => po[o].received = Ordered
           /\ po[o].status = "CANCELLED" => po[o].receipts = {}
           /\ po[o].received <= Ordered
  BY DEF SupplyInv, EndsMatchReceipts, ReceiptsReachStock

(* Requests of the desk that write no entry.                               *)
LEMMA DeskNotesSafe ==
  ASSUME SupplyInv, UNCHANGED procurementVars, UNCHANGED <<inStock, ledger, sold, unrecorded>>,
         unit' \in [Units -> UnitDocument], count' \in [Counts -> CountDocument],
         pending' \subseteq [key : Keys, request : Requested],
         \A u \in Units : unit'[u].state = unit[u].state,
         \A c \in Counts :
           /\ count[c].status = "RECONCILED" => count'[c].status = "RECONCILED"
           /\ count'[c].status = "RECONCILED" => count'[c].discrepancy = "RESOLVED"
  PROVE  SupplyInv'
<1>1. SupplyTypeOK'
  BY DEF SupplyInv, SupplyTypeOK, procurementVars
<1>2. ReconciledOnce'
  BY DEF ReconciledOnce
<1>3. \A o \in PurchaseOrders :
        /\ po'[o].received = po[o].received /\ po'[o].receipts = po[o].receipts
        /\ po'[o].status = "CLOSED" => po[o].received = Ordered
        /\ po'[o].status = "CANCELLED" => po[o].receipts = {}
  BY EndsStand DEF procurementVars
<1> QED
  BY <1>1, <1>2, <1>3, NoEntrySafe, StockNumbers

(* Requests of the desk that write one.                                    *)
LEMMA DeskEntrySafe ==
  ASSUME SupplyInv, UNCHANGED procurementVars, UNCHANGED <<sold, unrecorded>>,
         NEW p \in pending, NEW delta \in Int, Movement(p.key, p.request, delta),
         unit' \in [Units -> UnitDocument], count' \in [Counts -> CountDocument],
         pending' \subseteq [key : Keys, request : Requested],
         \A u \in Units :
           IF Named(p.request, "release", "unit", u)
           THEN unit[u].state # "SELLABLE" /\ unit'[u].state = "SELLABLE"
           ELSE unit'[u].state = "SELLABLE" <=> unit[u].state = "SELLABLE",
         \A c \in Counts :
           /\ count[c].status = "RECONCILED" => count'[c].status = "RECONCILED"
           /\ count'[c].status = "RECONCILED" => count'[c].discrepancy = "RESOLVED"
           /\ Named(p.request, "resolve", "count", c) =>
                count[c].status # "RECONCILED" /\ count'[c].status = "RECONCILED"
  PROVE  SupplyInv'
<1>0. SupplyTypeOK /\ IsFiniteSet(ledger) /\ p.request \in Requested
  BY DEF SupplyInv, SupplyTypeOK
<1>1. PICK e : /\ e \notin ledger /\ e.delta = delta /\ e.request = p.request
               /\ ledger' = ledger \cup {e}
  BY <1>0, MovementAdds
<1>2. inStock' = inStock + delta /\ inStock' \in 0..MaxStock /\ \A x \in ledger' : x.delta \in Int
  BY <1>0, MovementAdds
<1>3. SupplyTypeOK'
  BY <1>0, <1>2 DEF SupplyTypeOK, procurementVars
<1>4. ReconciledOnce'
  BY DEF ReconciledOnce
<1>5. \A o : ~Named(e.request, "receive", "po", o)
  BY <1>0, <1>1, RequestFields DEF Named
<1>6. \A o \in PurchaseOrders : po'[o].received = po[o].received /\ po'[o].received <= Ordered
  BY EndsStand DEF procurementVars
<1>7. EndsMatchReceipts' /\ ReceiptsCount'
  BY DEF SupplyInv, EndsMatchReceipts, ReceiptsCount, procurementVars
<1>8. inStock' - sold' - unrecorded' = inStock - sold - unrecorded + e.delta
  BY <1>1, <1>2, StockNumbers
<1> QED
  BY <1>1, <1>3, <1>4, <1>5, <1>6, <1>7, <1>8, EntrySafe

(* Every way a request of the desk ends.                                   *)
LEMMA EndRequestSafe ==
  ASSUME SupplyInv, UNCHANGED procurementVars, NEW p \in pending, EndRequest(p)
  PROVE  SupplyInv'
<1>0. /\ p.request \in Requested /\ pending' \subseteq [key : Keys, request : Requested]
      /\ unit \in [Units -> UnitDocument] /\ count \in [Counts -> CountDocument]
      /\ ReconciledOnce /\ p.key \in Keys
  BY DEF SupplyInv, SupplyTypeOK, EndRequest
<1>1. CASE AdjustStock(p)
  <2>1. /\ p.request.op = "adjust" /\ p.request.delta \in Int
        /\ Movement(p.key, p.request, p.request.delta)
        /\ UNCHANGED <<sold, unrecorded, unit, count>>
    BY <1>0, <1>1, RequestFields DEF AdjustStock
  <2>2. /\ \A u : ~Named(p.request, "release", "unit", u)
        /\ \A c : ~Named(p.request, "resolve", "count", c)
    BY <2>1 DEF Named
  <2> QED
    BY <1>0, <2>1, <2>2, DeskEntrySafe DEF ReconciledOnce
<1>2. CASE TransitionInventoryUnit(p)
  <2> DEFINE w == p.request.unit
             doc == [unit[w] EXCEPT !.state = "SELLABLE"]
  <2>1. /\ p.request.op = "release" /\ w \in Units /\ unit[w].state # "SELLABLE"
        /\ Movement(p.key, p.request, 1) /\ unit' = [unit EXCEPT ![w] = doc]
        /\ UNCHANGED <<sold, unrecorded, count>>
    BY <1>0, <1>2, RequestFields DEF TransitionInventoryUnit, Releasable
  <2>2. doc \in UnitDocument /\ doc.state = "SELLABLE"
    BY <1>0, <2>1 DEF UnitDocument
  <2> HIDE DEF doc
  <2>3. /\ unit' \in [Units -> UnitDocument]
        /\ \A u \in Units : unit'[u] = IF u = w THEN doc ELSE unit[u]
    BY <1>0, <2>1, <2>2
  <2>4. /\ \A u : Named(p.request, "release", "unit", u) <=> u = w
        /\ \A c : ~Named(p.request, "resolve", "count", c)
    BY <2>1 DEF Named
  <2> HIDE DEF w
  <2>5. \A u \in Units :
          IF Named(p.request, "release", "unit", u)
          THEN unit[u].state # "SELLABLE" /\ unit'[u].state = "SELLABLE"
          ELSE unit'[u].state = "SELLABLE" <=> unit[u].state = "SELLABLE"
    BY <2>1, <2>2, <2>3, <2>4
  <2> QED
    BY <1>0, <2>1, <2>3, <2>4, <2>5, DeskEntrySafe DEF ReconciledOnce
<1>3. CASE CreateStockCount(p)
  <2> DEFINE d == p.request.count
             v == p.request.counted - inStock
             doc == [count[d] EXCEPT !.status = IF v = 0 THEN "MATCHED" ELSE "DISCREPANCY",
                                     !.discrepancy = IF v = 0 THEN "NONE" ELSE "OPEN",
                                     !.variance = v, !.key = p.key]
  <2>1. /\ p.request.op = "count" /\ d \in Counts /\ p.request.counted \in 0..MaxStock
        /\ count[d].status = "ABSENT" /\ UNCHANGED <<inStock, ledger, sold, unrecorded, unit>>
    BY <1>0, <1>3, RequestFields DEF CreateStockCount
  <2>2. v \in -MaxStock..MaxStock
    BY <2>1, StockNumbers
  <2>3. count' = [count EXCEPT ![d] = doc]
    BY <1>0, <1>3, <2>1 DEF CreateStockCount
  <2>4. doc \in CountDocument /\ doc.status # "RECONCILED"
    <3> HIDE DEF v
    <3>1. PICK status \in {"MATCHED", "DISCREPANCY"} :
            status = IF v = 0 THEN "MATCHED" ELSE "DISCREPANCY"
      OBVIOUS
    <3>2. PICK found \in {"NONE", "OPEN"} : found = IF v = 0 THEN "NONE" ELSE "OPEN"
      OBVIOUS
    <3>3. doc = [count[d] EXCEPT !.status = status, !.discrepancy = found,
                                 !.variance = v, !.key = p.key]
      BY <3>1, <3>2
    <3>4. count[d] \in CountDocument
      BY <1>0, <2>1
    <3> HIDE DEF doc
    <3> QED
      BY <1>0, <2>2, <3>3, <3>4 DEF CountDocument
  <2> HIDE DEF doc, d, v
  <2>5. /\ count' \in [Counts -> CountDocument]
        /\ \A c \in Counts : count'[c] = IF c = d THEN doc ELSE count[c]
    BY <1>0, <2>1, <2>3, <2>4
  <2> QED
    BY <1>0, <2>1, <2>4, <2>5, DeskNotesSafe DEF ReconciledOnce
<1>4. CASE ResolveStockDiscrepancy(p)
  <2> DEFINE d == p.request.count
             doc == [count[d] EXCEPT !.status = "RECONCILED", !.discrepancy = "RESOLVED",
                                     !.resolutionKey = p.key]
  <2>1. /\ p.request.op = "resolve" /\ d \in Counts /\ count[d].discrepancy = "OPEN"
        /\ UNCHANGED <<sold, unrecorded, unit>>
    BY <1>0, <1>4, RequestFields DEF ResolveStockDiscrepancy, Open
  <2>2. count[d] \in CountDocument /\ count[d].variance \in Int
    BY <1>0, <2>1, StockNumbers DEF CountDocument
  <2>3. count' = [count EXCEPT ![d] = doc]
    BY <1>0, <1>4, <2>1 DEF ResolveStockDiscrepancy
  <2>4. doc \in CountDocument /\ doc.status = "RECONCILED" /\ doc.discrepancy = "RESOLVED"
    BY <1>0, <2>2 DEF CountDocument
  <2>5. /\ \A u : ~Named(p.request, "release", "unit", u)
        /\ \A c : Named(p.request, "resolve", "count", c) <=> c = d
    BY <2>1 DEF Named
  <2>6. /\ Movement(p.key, p.request, count[d].variance) \/ UNCHANGED <<inStock, ledger>>
    BY <1>4 DEF ResolveStockDiscrepancy
  <2> HIDE DEF doc, d
  <2>7. /\ count' \in [Counts -> CountDocument]
        /\ \A c \in Counts : count'[c] = IF c = d THEN doc ELSE count[c]
        /\ count[d].status # "RECONCILED"
    BY <1>0, <2>1, <2>3, <2>4 DEF ReconciledOnce
  <2>8. \A c \in Counts :
          /\ count[c].status = "RECONCILED" => count'[c].status = "RECONCILED"
          /\ count'[c].status = "RECONCILED" => count'[c].discrepancy = "RESOLVED"
          /\ Named(p.request, "resolve", "count", c) =>
               count[c].status # "RECONCILED" /\ count'[c].status = "RECONCILED"
    BY <1>0, <2>4, <2>5, <2>7 DEF ReconciledOnce
  <2>9. CASE Movement(p.key, p.request, count[d].variance)
    BY <1>0, <2>1, <2>2, <2>5, <2>7, <2>8, <2>9, DeskEntrySafe
  <2>10. CASE UNCHANGED <<inStock, ledger>>
    BY <1>0, <2>1, <2>7, <2>8, <2>10, DeskNotesSafe
  <2> QED
    BY <2>6, <2>9, <2>10
<1>5. CASE FailRequest
  BY <1>0, <1>5, DeskNotesSafe DEF FailRequest, ReconciledOnce
<1> QED
  BY <1>1, <1>2, <1>3, <1>4, <1>5 DEF EndRequest

(* Every step of the inventory desk.                                       *)
LEMMA InventoryNextSafe ==
  ASSUME SupplyInv, UNCHANGED procurementVars, InventoryNext
  PROVE  SupplyInv'
<1>0. /\ pending \subseteq [key : Keys, request : Requested]
      /\ unit \in [Units -> UnitDocument] /\ count \in [Counts -> CountDocument]
      /\ ReconciledOnce /\ SupplyTypeOK
  BY DEF SupplyInv, SupplyTypeOK
<1>1. ASSUME NEW key \in Keys, NEW r \in Requested, BeginRequest(key, r) PROVE SupplyInv'
  BY <1>0, <1>1, DeskNotesSafe DEF BeginRequest, ReconciledOnce
<1>2. ASSUME UNCHANGED <<ledger, unit, count, pending>>, inStock' \in 0..MaxStock,
             sold' \in Int, unrecorded' \in Int,
             inStock' - sold' - unrecorded' = inStock - sold - unrecorded
      PROVE  SupplyInv'
  <2>1. SupplyTypeOK' /\ ReconciledOnce'
    BY <1>0, <1>2 DEF SupplyTypeOK, ReconciledOnce, procurementVars
  <2>2. \A o \in PurchaseOrders :
          /\ po'[o].received = po[o].received /\ po'[o].receipts = po[o].receipts
          /\ po'[o].status = "CLOSED" => po[o].received = Ordered
          /\ po'[o].status = "CANCELLED" => po[o].receipts = {}
    BY EndsStand DEF procurementVars
  <2> QED
    BY <1>2, <2>1, <2>2, NoEntrySafe
<1>3. ASSUME NEW delta \in {-1, 1}, RecordOrderMovement(delta) PROVE SupplyInv'
  BY <1>2, <1>3, StockNumbers DEF RecordOrderMovement
<1>4. ASSUME NEW level \in Levels, UpdateVariant(level) PROVE SupplyInv'
  BY <1>2, <1>4, StockNumbers, InventoryAssumption DEF UpdateVariant, InventoryAssumption
<1>5. CASE RunInventoryMigration
  <2> DEFINE n == inStock - LedgerTotal
             e == [key |-> OpeningKey, request |-> [op |-> "migrate"], delta |-> n]
  <2>1. /\ ledger' = ledger \cup {e} /\ e \notin ledger /\ unrecorded' = 0
        /\ UNCHANGED <<inStock, sold, unit, count, pending>>
    BY <1>5 DEF RunInventoryMigration, KeyFree
  <2>2. e.delta = n /\ e.request.op = "migrate"
    OBVIOUS
  <2>3. n \in Int /\ n = unrecorded
    BY StockNumbers DEF SupplyInv, StockIsExplained, LedgerExplainsStock, LedgerTotal
  <2> HIDE DEF e, n
  <2>4. /\ \A o : ~Named(e.request, "receive", "po", o)
        /\ \A u : ~Named(e.request, "release", "unit", u)
        /\ \A c : ~Named(e.request, "resolve", "count", c)
    BY <2>2 DEF Named
  <2>5. SupplyTypeOK'
    BY <1>0, <2>1, <2>2, <2>3 DEF SupplyTypeOK, procurementVars
  <2>6. inStock' - sold' - unrecorded' = inStock - sold - unrecorded + e.delta
    BY <2>1, <2>2, <2>3, StockNumbers
  <2>7. ReconciledOnce' /\ EndsMatchReceipts' /\ ReceiptsCount'
    BY <1>0, <2>1 DEF SupplyInv, EndsMatchReceipts, ReceiptsCount,
                      ReconciledOnce, procurementVars
  <2>8. \A o \in PurchaseOrders : po'[o].received = po[o].received /\ po'[o].received <= Ordered
    BY EndsStand DEF procurementVars
  <2>9. e.delta \in Int /\ UNCHANGED <<unit, count>> /\ e \notin ledger /\ ledger' = ledger \cup {e}
    BY <2>1, <2>2, <2>3
  <2> QED
    BY <2>4, <2>5, <2>6, <2>7, <2>8, <2>9, EntrySafe
<1>6. ASSUME NEW u \in Units, NEW outcome \in {"PASSED", "FAILED"}, RecordInspection(u, outcome)
      PROVE  SupplyInv'
  <2> DEFINE doc == [unit[u] EXCEPT !.inspection = outcome]
  <2>1. doc \in UnitDocument /\ doc.state = unit[u].state
    BY <1>0 DEF UnitDocument
  <2>2. unit' = [unit EXCEPT ![u] = doc] /\ UNCHANGED <<inStock, ledger, sold, unrecorded, count, pending>>
    BY <1>6 DEF RecordInspection
  <2> HIDE DEF doc
  <2>3. unit' \in [Units -> UnitDocument] /\ \A w \in Units : unit'[w].state = unit[w].state
    BY <1>0, <2>1, <2>2
  <2> QED
    BY <1>0, <2>2, <2>3, DeskNotesSafe DEF ReconciledOnce
<1> QED
  BY <1>1, <1>3, <1>4, <1>5, <1>6, EndRequestSafe DEF InventoryNext

-----------------------------------------------------------------------------
(* Purchase orders                                                         *)
(* What the receipts under way carry.                                      *)
LEMMA ReceiptFields ==
  ASSUME SupplyInv, NEW a \in arrivals
  PROVE  /\ a.key \in ReceiptKeys /\ a.request \in Receipts
         /\ a.request.op = "receive" /\ a.request.po \in PurchaseOrders
         /\ a.request.quantity \in 1..Ordered /\ a.request.quantity \in Nat
         /\ a.request.quantity > 0
  BY ProcurementAssumption DEF SupplyInv, SupplyTypeOK, Receipts, ProcurementAssumption

(* Steps of the buyers that receive nothing ...                            *)
LEMMA ProcurementNotesSafe ==
  ASSUME SupplyInv, UNCHANGED inventoryVars, supplier' \in BOOLEAN,
         po' \in [PurchaseOrders -> PurchaseOrderDocument],
         arrivals' \subseteq [key : ReceiptKeys, request : Receipts],
         \A o \in PurchaseOrders :
           /\ po'[o].received = po[o].received /\ po'[o].receipts = po[o].receipts
           /\ po'[o].status = "CLOSED" => po[o].received = Ordered
           /\ po'[o].status = "CANCELLED" => po[o].receipts = {}
  PROVE  SupplyInv'
<1>1. SupplyTypeOK' /\ ReconciledOnce'
  BY DEF SupplyInv, SupplyTypeOK, ReconciledOnce, inventoryVars
<1>2. UNCHANGED <<inStock, ledger, sold, unrecorded, unit, count>>
  BY DEF inventoryVars
<1> QED
  BY <1>1, <1>2, NoEntrySafe, StockNumbers

(* ... among them every change of a purchase order's status alone.         *)
LEMMA StatusSafe ==
  ASSUME SupplyInv, NEW o \in PurchaseOrders, NEW status \in PurchaseOrderStatus,
         po' = WithStatus(o, status), UNCHANGED <<inventoryVars, supplier, arrivals>>,
         status = "CLOSED" => po[o].received = Ordered,
         status = "CANCELLED" => po[o].receipts = {}
  PROVE  SupplyInv'
<1> DEFINE doc == [po[o] EXCEPT !.status = status]
<1>0. /\ po \in [PurchaseOrders -> PurchaseOrderDocument] /\ supplier \in BOOLEAN
      /\ arrivals \subseteq [key : ReceiptKeys, request : Receipts]
  BY DEF SupplyInv, SupplyTypeOK
<1>1. /\ doc \in PurchaseOrderDocument /\ doc.status = status
      /\ doc.received = po[o].received /\ doc.receipts = po[o].receipts
  BY <1>0 DEF PurchaseOrderDocument
<1>2. po' = [po EXCEPT ![o] = doc]
  BY DEF WithStatus
<1> HIDE DEF doc
<1>3. /\ po' \in [PurchaseOrders -> PurchaseOrderDocument]
      /\ \A x \in PurchaseOrders : po'[x] = IF x = o THEN doc ELSE po[x]
  BY <1>0, <1>1, <1>2
<1>4. \A x \in PurchaseOrders :
        /\ po'[x].received = po[x].received /\ po'[x].receipts = po[x].receipts
        /\ po'[x].status = "CLOSED" => po[x].received = Ordered
        /\ po'[x].status = "CANCELLED" => po[x].receipts = {}
  BY <1>1, <1>3, EndsStand
<1> QED
  BY <1>0, <1>3, <1>4, ProcurementNotesSafe

(* A receipt, of loose goods or of units.                                  *)
LEMMA ReceiveSafe ==
  ASSUME SupplyInv, NEW a \in arrivals, ReceivePurchaseOrderLine(a)
  PROVE  SupplyInv'
<1> DEFINE r == a.request
           o == r.po
           q == r.quantity
           doc == [po[o] EXCEPT !.status = StatusAfterReceipt(o, r), !.received = @ + q,
                                !.receipts = @ \cup {<<a.key, r>>}]
<1>0. /\ a.key \in ReceiptKeys /\ r \in Receipts /\ r.op = "receive" /\ o \in PurchaseOrders
      /\ q \in Nat /\ q > 0
  BY ReceiptFields
<1>1. /\ po \in [PurchaseOrders -> PurchaseOrderDocument] /\ supplier \in BOOLEAN
      /\ arrivals \subseteq [key : ReceiptKeys, request : Receipts]
      /\ SupplyTypeOK /\ IsFiniteSet(ledger) /\ ReceiptsCount /\ ReconciledOnce
      /\ unit \in [Units -> UnitDocument]
  BY DEF SupplyInv, SupplyTypeOK
<1>2. /\ po[o].status \in {"APPROVED", "RECEIVING"} /\ po[o].received + q <= Ordered
      /\ po' = [po EXCEPT ![o] = doc] /\ arrivals' = arrivals \ {a}
      /\ IF r.serials = {} THEN ReceiveLoose(a.key, r) ELSE ReceiveSerials(a.key, r)
      /\ UNCHANGED <<supplier, sold, unrecorded, count, pending>>
  BY <1>0, <1>1 DEF ReceivePurchaseOrderLine, Fits
<1>3. po[o] \in PurchaseOrderDocument /\ po[o].received \in Nat /\ Ordered \in Nat
  BY <1>0, <1>1, ProcurementAssumption DEF PurchaseOrderDocument, ProcurementAssumption
<1>4. /\ doc \in PurchaseOrderDocument /\ doc.received = po[o].received + q
      /\ doc.status \in {"CLOSED", "RECEIVING"}
      /\ doc.status = "CLOSED" => po[o].received + q >= Ordered
  <2>1. PICK status \in {"CLOSED", "RECEIVING"} :
          /\ status = StatusAfterReceipt(o, r)
          /\ status = "CLOSED" => po[o].received + q >= Ordered
    BY DEF StatusAfterReceipt
  <2>2. PICK n \in Nat : n = po[o].received + q
    BY <1>0, <1>3
  <2>3. PICK P \in SUBSET (ReceiptKeys \X Receipts) : P = po[o].receipts \cup {<<a.key, r>>}
    <3>1. po[o].receipts \in SUBSET (ReceiptKeys \X Receipts)
      BY <1>3 DEF PurchaseOrderDocument
    <3>2. <<a.key, r>> \in ReceiptKeys \X Receipts
      BY <1>0
    <3> QED
      BY <3>1, <3>2
  <2>4. doc = [po[o] EXCEPT !.status = status, !.received = n, !.receipts = P]
    BY <2>1, <2>2, <2>3
  <2> HIDE DEF doc
  <2> QED
    BY <1>3, <2>1, <2>2, <2>4 DEF PurchaseOrderDocument, PurchaseOrderStatus
<1> HIDE DEF doc
<1>5. /\ po' \in [PurchaseOrders -> PurchaseOrderDocument]
      /\ \A x \in PurchaseOrders : po'[x] = IF x = o THEN doc ELSE po[x]
  BY <1>0, <1>1, <1>2, <1>4
<1>6. /\ \A x \in PurchaseOrders :
           /\ po'[x].received = IF x = o THEN po[x].received + q ELSE po[x].received
           /\ po'[x].received <= Ordered
      /\ ReceiptsCount' /\ EndsMatchReceipts'
  <2>1. \A x \in PurchaseOrders : po'[x].received <= Ordered
    BY <1>2, <1>4, <1>5, EndsStand
  <2>2. ReceiptsCount'
    BY <1>0, <1>1, <1>3, <1>4, <1>5 DEF ReceiptsCount
  <2>3. doc.status = "CLOSED" => doc.received = Ordered
    BY <1>0, <1>2, <1>3, <1>4
  <2>4. EndsMatchReceipts'
    BY <1>4, <1>5, <2>3, EndsStand DEF EndsMatchReceipts
  <2> QED
    BY <1>4, <1>5, <2>1, <2>2, <2>4
<1>7. arrivals' \subseteq [key : ReceiptKeys, request : Receipts]
  BY <1>1, <1>2
<1>8. CASE r.serials = {}
  <2>1. Movement(<<"receipt", a.key>>, r, q) /\ UNCHANGED unit
    BY <1>2, <1>8 DEF ReceiveLoose
  <2>2. q \in Int
    BY <1>0
  <2> HIDE DEF r, o, q
  <2>3. /\ inStock' = inStock + q /\ inStock' \in 0..MaxStock
        /\ \A e \in ledger' : e.delta \in Int
        /\ \E e : /\ e \notin ledger /\ e.delta = q /\ e.request = r /\ ledger' = ledger \cup {e}
    BY <1>1, <2>1, <2>2, MovementAdds
  <2>4. PICK e : /\ e \notin ledger /\ e.delta = q /\ e.request = r /\ ledger' = ledger \cup {e}
    BY <2>3
  <2>5. SupplyTypeOK' /\ ReconciledOnce'
    BY <1>1, <1>2, <1>5, <1>7, <2>1, <2>3 DEF SupplyTypeOK, ReconciledOnce
  <2>6. inStock' - sold' - unrecorded' = inStock - sold - unrecorded + e.delta
    BY <1>2, <2>2, <2>3, <2>4, StockNumbers
  <2>7. /\ \A x : Named(e.request, "receive", "po", x) <=> x = o
        /\ \A u : ~Named(e.request, "release", "unit", u)
        /\ \A c : ~Named(e.request, "resolve", "count", c)
    BY <1>0, <2>4 DEF Named, o
  <2>8. UNCHANGED <<unit, count>>
    BY <1>2, <2>1
  <2>9. \A x \in PurchaseOrders :
          /\ IF Named(e.request, "receive", "po", x)
             THEN po'[x].received = po[x].received + e.delta /\ e.delta > 0
             ELSE po'[x].received = po[x].received
          /\ po'[x].received <= Ordered
    BY <1>0, <1>6, <2>4, <2>7
  <2>10. \A u \in Units :
          IF Named(e.request, "release", "unit", u)
          THEN unit[u].state # "SELLABLE" /\ unit'[u].state = "SELLABLE"
          ELSE unit'[u].state = "SELLABLE" <=> unit[u].state = "SELLABLE"
    BY <2>7, <2>8
  <2>11. \A c \in Counts :
          /\ count[c].status = "RECONCILED" => count'[c].status = "RECONCILED"
          /\ Named(e.request, "resolve", "count", c) =>
               count[c].status # "RECONCILED" /\ count'[c].status = "RECONCILED"
    BY <2>7, <2>8
  <2> QED
    BY <1>6, <2>2, <2>4, <2>5, <2>6, <2>9, <2>10, <2>11, EntrySafe
<1>9. CASE r.serials # {}
  <2>1. ReceiveSerials(a.key, r)
    BY <1>2, <1>9
  <2>2. r.serials \subseteq Units
    BY <1>0 DEF Receipts
  <2>3. unit' \in [Units -> UnitDocument]
    <3>1. [state |-> "QUARANTINED", inspection |-> "PENDING"] \in UnitDocument
      BY DEF UnitDocument
    <3> QED
      BY <1>1, <2>1, <3>1 DEF ReceiveSerials
  <2>4. inStock' = inStock /\ \A e \in ledger' : e \in ledger \/ e.delta = 0
    BY <2>1 DEF ReceiveSerials
  <2>5. \A e \in ledger' : e.delta \in Int
    BY <1>1, <2>4 DEF SupplyTypeOK
  <2>6. SupplyTypeOK'
    BY <1>1, <1>2, <1>5, <1>7, <2>3, <2>4, <2>5 DEF SupplyTypeOK
  <2>7. UNCHANGED <<sold, unrecorded, count>>
    BY <1>2
  <2>8. PICK s \in Receipts : s = r
    BY <1>0
  <2>9. /\ s.serials # {} /\ ReceiveSerials(a.key, s)
        /\ \A x \in PurchaseOrders :
             /\ po'[x].received = IF x = s.po THEN po[x].received + s.quantity ELSE po[x].received
             /\ po'[x].received <= Ordered
    BY <1>6, <1>9, <2>1, <2>8
  <2> QED
    BY <1>6, <2>6, <2>7, <2>9, SerialsSafe
<1> QED
  BY <1>8, <1>9

(* Every step of the buyers.                                               *)
LEMMA ProcurementNextSafe ==
  ASSUME SupplyInv, ProcurementNext
  PROVE  SupplyInv'
<1>0. /\ supplier \in BOOLEAN /\ po \in [PurchaseOrders -> PurchaseOrderDocument]
      /\ arrivals \subseteq [key : ReceiptKeys, request : Receipts]
  BY DEF SupplyInv, SupplyTypeOK
<1>1. ASSUME NEW o \in PurchaseOrders, CreatePurchaseOrder(o) PROVE SupplyInv'
  <2>1. po' = WithStatus(o, "DRAFT") /\ UNCHANGED <<inventoryVars, supplier, arrivals>>
    BY <1>1 DEF CreatePurchaseOrder
  <2> QED
    BY <2>1, StatusSafe DEF PurchaseOrderStatus
<1>2. ASSUME NEW o \in PurchaseOrders, SubmitPurchaseOrder(o) \/ ApprovePurchaseOrder(o)
      PROVE  SupplyInv'
  <2>1. /\ po' = WithStatus(o, "PENDING_APPROVAL") \/ po' = WithStatus(o, "APPROVED")
        /\ UNCHANGED <<inventoryVars, supplier, arrivals>>
    BY <1>2 DEF SubmitPurchaseOrder, ApprovePurchaseOrder, TransitionPurchaseOrder
  <2> QED
    BY <2>1, StatusSafe DEF PurchaseOrderStatus
<1>3. ASSUME NEW o \in PurchaseOrders, CancelPurchaseOrder(o) PROVE SupplyInv'
  <2>1. /\ po' = WithStatus(o, "CANCELLED") /\ UNCHANGED <<inventoryVars, supplier, arrivals>>
        /\ po[o].receipts = {}
    BY <1>3 DEF CancelPurchaseOrder, Cancellable, SupplyInv, ReceiptsCount
  <2> QED
    BY <2>1, StatusSafe DEF PurchaseOrderStatus
<1>4. ASSUME NEW o \in PurchaseOrders, ClosePurchaseOrder(o) PROVE SupplyInv'
  <2>1. /\ po' = WithStatus(o, "CLOSED") /\ UNCHANGED <<inventoryVars, supplier, arrivals>>
        /\ po[o].received = Ordered
    BY <1>4 DEF ClosePurchaseOrder
  <2> QED
    BY <2>1, StatusSafe DEF PurchaseOrderStatus
<1>5. ASSUME UNCHANGED <<inventoryVars, po>>, supplier' \in BOOLEAN,
             arrivals' \subseteq [key : ReceiptKeys, request : Receipts]
      PROVE  SupplyInv'
  BY <1>0, <1>5, EndsStand, ProcurementNotesSafe
<1>6. CASE DeactivateSupplier
  BY <1>0, <1>5, <1>6 DEF DeactivateSupplier
<1>7. ASSUME NEW key \in ReceiptKeys, NEW r \in Receipts, BeginReceipt(key, r) PROVE SupplyInv'
  BY <1>0, <1>5, <1>7 DEF BeginReceipt
<1>8. ASSUME NEW a \in arrivals, FailReceipt(a) PROVE SupplyInv'
  BY <1>0, <1>5, <1>8 DEF FailReceipt
<1> QED
  BY <1>1, <1>2, <1>3, <1>4, <1>6, <1>7, <1>8, ReceiveSafe DEF ProcurementNext

(* The invariant holds at every step of buying and stocking.               *)
LEMMA SupplyInvariant == SupplySpec => []SupplyInv
<1>1. SupplyInit => SupplyInv
  <2> SUFFICES ASSUME SupplyInit PROVE SupplyInv
    OBVIOUS
  <2>1. SupplyTypeOK
    BY InventoryAssumption
       DEF InventoryAssumption, SupplyInit, InventoryInit, ProcurementInit, SupplyTypeOK,
           UnitDocument, CountDocument, PurchaseOrderDocument, PurchaseOrderStatus
  <2>2. ledger = {} /\ NetDelta(ledger) = 0 /\ IsFiniteSet(ledger)
    BY NetEmpty, FS_EmptySet DEF SupplyInit, InventoryInit
  <2>3. /\ \A op, field, x : EntriesFor(op, field, x) = {}
        /\ \A o : EntriesOf(o) = {} /\ {e \in EntriesOf(o) : e.delta = 0} = {}
    BY <2>2 DEF EntriesFor, EntriesOf
  <2>4. Cardinality({}) = 0
    BY FS_EmptySet
  <2>5. StockIsExplained
    <3>1. LedgerExplainsStock
      BY <2>2, InventoryAssumption
         DEF InventoryAssumption, LedgerExplainsStock, LedgerTotal, SupplyInit, InventoryInit
    <3>2. UnitReleasedOnce /\ DiscrepancyAppliedOnce
      BY <2>3, <2>4 DEF UnitReleasedOnce, DiscrepancyAppliedOnce, SupplyInit, InventoryInit
    <3> QED
      BY <3>1, <3>2 DEF StockIsExplained
  <2>6. ReceiptsReachStock /\ EndsMatchReceipts /\ ReceiptsCount
    <3>1. \A o : LooseReceived(o) = 0 /\ SerialsReceived(o) = 0
      BY <2>3, <2>4, NetEmpty DEF LooseReceived, SerialsReceived
    <3> QED
      BY <3>1, ProcurementAssumption
         DEF ProcurementAssumption, ReceiptsReachStock, EndsMatchReceipts,
             ReceiptsCount, SupplyInit, ProcurementInit
  <2>7. ReconciledOnce
    BY DEF ReconciledOnce, SupplyInit, InventoryInit
  <2> QED
    BY <2>1, <2>2, <2>5, <2>6, <2>7 DEF SupplyInv
<1>2. SupplyInv /\ [SupplyNext]_supplyVars => SupplyInv'
  <2> SUFFICES ASSUME SupplyInv, [SupplyNext]_supplyVars PROVE SupplyInv'
    OBVIOUS
  <2>1. CASE UNCHANGED supplyVars
    <3>1. /\ UNCHANGED <<inventoryVars, supplier, arrivals, po>> /\ supplier \in BOOLEAN
          /\ po \in [PurchaseOrders -> PurchaseOrderDocument]
          /\ arrivals \subseteq [key : ReceiptKeys, request : Receipts]
      BY <2>1 DEF supplyVars, procurementVars, SupplyInv, SupplyTypeOK
    <3> QED
      BY <3>1, EndsStand, ProcurementNotesSafe
  <2> QED
    BY <2>1, InventoryNextSafe, ProcurementNextSafe DEF SupplyNext
<1> QED
  BY <1>1, <1>2, PTL DEF SupplySpec

(* Stock and its ledger.  Whatever recordStockMovement, the order flow,    *)
(* updateVariant and runInventoryMigration did in whatever order, the      *)
(* stock is the net of the order movements, the ledger's entries and the   *)
(* direct edits not yet migrated; transitionInventoryUnit released each    *)
(* sellable unit exactly once, and resolveStockDiscrepancy applied a       *)
(* discrepancy at most once.                                               *)
THEOREM StockHasItsEntries == SupplySpec => []StockIsExplained
<1>1. SupplyInv => StockIsExplained
  BY DEF SupplyInv
<1> QED
  BY <1>1, SupplyInvariant, PTL

-----------------------------------------------------------------------------
(* The entries of receipts                                                 *)

(* No two entries of the ledger have one key.                              *)
LedgerKeysUnique == \A d, e \in ledger : d.key = e.key => d = e

(* A key of receipts is of one purchase order.                             *)
KeysStayApart ==
  \A o, p \in PurchaseOrders : \A x \in po[o].receipts, y \in po[p].receipts :
    x[1] = y[1] => o = p

EntriesInv == LedgerKeysUnique /\ ReceiptsHaveEntries /\ KeysStayApart

(* One entry under a free key, of a request that receives nothing.         *)
OtherEntry ==
  \E e : /\ ledger' = ledger \cup {e} /\ KeyFree(e.key) /\ e.request.op # "receive"

(* Neither does a movement disturb what was received ...                   *)
LEMMA OtherEntrySafe ==
  ASSUME EntriesInv, UNCHANGED po, ledger' = ledger \/ OtherEntry
  PROVE  EntriesInv'
<1>1. LedgerKeysUnique'
  BY DEF EntriesInv, LedgerKeysUnique, OtherEntry, KeyFree
<1>2. \A o : EntriesOf(o)' = EntriesOf(o)
  BY DEF EntriesOf, OtherEntry
<1> QED
  BY <1>1, <1>2 DEF EntriesInv, ReceiptsHaveEntries, KeysStayApart, EntriesOfReceipt

(* ... nor does a purchase order that changes otherwise.                   *)
LEMMA SameReceiptsSafe ==
  ASSUME EntriesInv, UNCHANGED ledger,
         \A o \in PurchaseOrders : po'[o].receipts = po[o].receipts
  PROVE  EntriesInv'
<1>1. \A o : EntriesOf(o)' = EntriesOf(o)
  BY DEF EntriesOf
<1>2. LedgerKeysUnique' /\ KeysStayApart'
  BY DEF EntriesInv, LedgerKeysUnique, KeysStayApart
<1> QED
  BY <1>1, <1>2 DEF EntriesInv, ReceiptsHaveEntries, EntriesOfReceipt

(* Every entry the inventory desk writes is of its own requests.           *)
LEMMA DeskEntries ==
  ASSUME SupplyInv, InventoryNext
  PROVE  ledger' = ledger \/ OtherEntry
<1>1. ASSUME NEW key, NEW asked, NEW delta, Movement(key, asked, delta), asked.op # "receive"
      PROVE  OtherEntry
  <2> DEFINE e == [key |-> key, request |-> asked, delta |-> delta]
  <2>1. ledger' = ledger \cup {e} /\ KeyFree(e.key) /\ e.request.op # "receive"
    BY <1>1 DEF Movement
  <2> QED
    BY <2>1 DEF OtherEntry
<1>2. ASSUME NEW p \in pending, EndRequest(p) PROVE ledger' = ledger \/ OtherEntry
  <2>1. p.request.op # "receive"
    BY RequestFields DEF SupplyInv, SupplyTypeOK
  <2> QED
    BY <1>1, <1>2, <2>1
       DEF EndRequest, AdjustStock, TransitionInventoryUnit, CreateStockCount,
           ResolveStockDiscrepancy, FailRequest
<1>3. CASE RunInventoryMigration
  <2> DEFINE e == [key |-> OpeningKey, request |-> [op |-> "migrate"], delta |-> inStock - LedgerTotal]
  <2>1. ledger' = ledger \cup {e} /\ KeyFree(e.key) /\ e.request.op # "receive"
    BY <1>3 DEF RunInventoryMigration
  <2> QED
    BY <2>1 DEF OtherEntry
<1> QED
  BY <1>2, <1>3
     DEF InventoryNext, BeginRequest, RecordOrderMovement, UpdateVariant, RecordInspection

(* The entries of a receipt have different keys.                           *)
LEMMA ReceiptKeysDiffer ==
  ASSUME NEW key, NEW r
  PROVE  \A d, e \in EntriesOfReceipt(key, r) : d.key = e.key => d = e
<1>1. \A u, w : <<"unit", key, u>> = <<"unit", key, w>> => u = w
  OBVIOUS
<1> QED
  BY <1>1 DEF EntriesOfReceipt

(* A receipt is listed together with its entries.                          *)
LEMMA ReceiptSafe ==
  ASSUME SupplyInv, EntriesInv, NEW a \in arrivals, ReceivePurchaseOrderLine(a)
  PROVE  EntriesInv'
<1> DEFINE r == a.request
           o == r.po
           z == <<a.key, r>>
           T == EntriesOfReceipt(a.key, r)
<1>1. /\ o \in PurchaseOrders /\ po \in [PurchaseOrders -> PurchaseOrderDocument]
      /\ r.op = "receive"
  BY ReceiptFields DEF SupplyInv, SupplyTypeOK
<1>2. \A x \in PurchaseOrders :
        po'[x].receipts = IF x = o THEN po[x].receipts \cup {z} ELSE po[x].receipts
  BY <1>1 DEF ReceivePurchaseOrderLine, PurchaseOrderDocument
<1>3. ledger' = ledger \cup T /\ \A e \in T : KeyFree(e.key) /\ e.request = r
  <2>1. CASE r.serials = {}
    BY <2>1 DEF ReceivePurchaseOrderLine, ReceiveLoose, Movement, EntriesOfReceipt
  <2>2. CASE r.serials # {}
    BY <2>2 DEF ReceivePurchaseOrderLine, ReceiveSerials, EntriesOfReceipt
  <2> QED
    BY <2>1, <2>2
<1>4. \A d, e \in T : d.key = e.key => d = e
  BY ReceiptKeysDiffer
<1>5. \A x \in PurchaseOrders \ {o} : \A y \in po[x].receipts : y[1] # a.key
  BY DEF ReceivePurchaseOrderLine, ReceiptIndexAdmits, KeysOf
<1>6. z[1] = a.key /\ z[2] = r
  OBVIOUS
<1> HIDE DEF T, z
<1>7. LedgerKeysUnique'
  BY <1>3, <1>4 DEF EntriesInv, LedgerKeysUnique, KeyFree
<1>8. KeysStayApart'
  <2> SUFFICES ASSUME NEW x \in PurchaseOrders, NEW v \in PurchaseOrders, x # v,
                      NEW y \in po'[x].receipts, NEW w \in po'[v].receipts
               PROVE  y[1] # w[1]
    BY DEF KeysStayApart
  <2>1. ASSUME y \in po[x].receipts, w \in po[v].receipts PROVE y[1] # w[1]
    BY <2>1 DEF EntriesInv, KeysStayApart
  <2>2. /\ y \in po[x].receipts \/ (x = o /\ y[1] = a.key)
        /\ w \in po[v].receipts \/ (v = o /\ w[1] = a.key)
    BY <1>2, <1>6
  <2> QED
    BY <1>5, <2>1, <2>2
<1>9. ReceiptsHaveEntries'
  <2> SUFFICES ASSUME NEW x \in PurchaseOrders
               PROVE  EntriesOf(x)' = UNION {EntriesOfReceipt(y[1], y[2]) : y \in po'[x].receipts}
    BY DEF ReceiptsHaveEntries, EntriesOfReceipt
  <2>1. EntriesOf(x) = UNION {EntriesOfReceipt(y[1], y[2]) : y \in po[x].receipts}
    BY DEF EntriesInv, ReceiptsHaveEntries
  <2>2. EntriesOf(x)' = IF x = o THEN EntriesOf(x) \cup T ELSE EntriesOf(x)
    BY <1>1, <1>3 DEF EntriesOf
  <2>3. CASE x # o
    BY <1>2, <2>1, <2>2, <2>3
  <2>4. CASE x = o
    <3>1. UNION {EntriesOfReceipt(y[1], y[2]) : y \in po[x].receipts \cup {z}}
            = (UNION {EntriesOfReceipt(y[1], y[2]) : y \in po[x].receipts}) \cup T
      BY <1>6 DEF T
    <3> QED
      BY <1>2, <2>1, <2>2, <2>4, <3>1, <1>6
  <2> QED
    BY <2>3, <2>4
<1> QED
  BY <1>7, <1>8, <1>9 DEF EntriesInv

(* The invariant of the entries holds at every step.                       *)
LEMMA EntriesInvariant == SupplySpec => []EntriesInv
<1>1. SupplyInit => EntriesInv
  BY DEF SupplyInit, InventoryInit, ProcurementInit, EntriesInv, LedgerKeysUnique,
         ReceiptsHaveEntries, KeysStayApart, EntriesOf
<1>2. SupplyInv /\ EntriesInv /\ [SupplyNext]_supplyVars => EntriesInv'
  <2> SUFFICES ASSUME SupplyInv, EntriesInv, [SupplyNext]_supplyVars PROVE EntriesInv'
    OBVIOUS
  <2>0. po \in [PurchaseOrders -> PurchaseOrderDocument]
    BY DEF SupplyInv, SupplyTypeOK
  <2>1. CASE InventoryNext /\ UNCHANGED procurementVars
    BY <2>1, DeskEntries, OtherEntrySafe DEF procurementVars
  <2>2. ASSUME NEW a \in arrivals, ReceivePurchaseOrderLine(a) PROVE EntriesInv'
    BY <2>2, ReceiptSafe
  <2>3. ASSUME NEW o \in PurchaseOrders, NEW status, po' = WithStatus(o, status), UNCHANGED ledger
        PROVE  EntriesInv'
    <3>1. \A x \in PurchaseOrders : po'[x].receipts = po[x].receipts
      BY <2>0, <2>3 DEF WithStatus, PurchaseOrderDocument
    <3> QED
      BY <2>3, <3>1, SameReceiptsSafe
  <2>4. ASSUME UNCHANGED <<ledger, po>> PROVE EntriesInv'
    BY <2>4, SameReceiptsSafe
  <2>5. CASE ProcurementNext
    BY <2>2, <2>3, <2>4, <2>5
       DEF ProcurementNext, CreatePurchaseOrder, SubmitPurchaseOrder, ApprovePurchaseOrder,
           TransitionPurchaseOrder, CancelPurchaseOrder, ClosePurchaseOrder, DeactivateSupplier,
           BeginReceipt, FailReceipt, inventoryVars
  <2>6. CASE UNCHANGED supplyVars
    BY <2>4, <2>6 DEF supplyVars, inventoryVars, procurementVars
  <2> QED
    BY <2>1, <2>5, <2>6 DEF SupplyNext
<1> QED
  BY <1>1, <1>2, SupplyInvariant, PTL DEF SupplySpec

(* Two receipts of loose goods under one key would be one entry.           *)
LEMMA OneLooseReceipt ==
  ASSUME SupplyTypeOK, EntriesInv
  PROVE  KeysNameReceipts
<1> SUFFICES ASSUME NEW o \in PurchaseOrders, NEW p \in PurchaseOrders,
                    NEW x \in po[o].receipts, NEW y \in po[p].receipts, x[1] = y[1]
             PROVE  o = p /\ (x[2].serials = {} /\ y[2].serials = {} => x = y)
  BY DEF KeysNameReceipts
<1>1. o = p
  BY DEF EntriesInv, KeysStayApart
<1>2. ASSUME x[2].serials = {}, y[2].serials = {} PROVE x = y
  <2> DEFINE Entry(z) == [key |-> <<"receipt", z[1]>>, request |-> z[2], delta |-> z[2].quantity]
  <2>1. Entry(x) \in EntriesOfReceipt(x[1], x[2]) /\ Entry(y) \in EntriesOfReceipt(y[1], y[2])
    BY <1>2 DEF EntriesOfReceipt
  <2>2. Entry(x) \in EntriesOf(o) /\ Entry(y) \in EntriesOf(p)
    BY <2>1 DEF EntriesInv, ReceiptsHaveEntries
  <2>3. Entry(x) \in ledger /\ Entry(y) \in ledger /\ Entry(x).key = Entry(y).key
    BY <2>2 DEF EntriesOf
  <2>4. Entry(x) = Entry(y)
    BY <2>3 DEF EntriesInv, LedgerKeysUnique
  <2>5. x[2] = y[2]
    BY <2>4
  <2>6. x \in ReceiptKeys \X Receipts /\ y \in ReceiptKeys \X Receipts
    BY DEF SupplyTypeOK, PurchaseOrderDocument
  <2> QED
    BY <2>5, <2>6
<1> QED
  BY <1>1, <1>2

(* Receipts.  What receivePurchaseOrderLine counts on an order is what it  *)
(* wrote to the ledger, never more than was ordered, and the entries are   *)
(* those of the receipts listed; a key is of one order and of one receipt  *)
(* of loose goods.  A closed order has received everything and a cancelled *)
(* one has no receipt, however cancelPurchaseOrder and concurrent receipts *)
(* interleave.                                                             *)
THEOREM ReceiptsAreKept == SupplySpec => []OrdersAreReceived
<1>1. SupplyInv /\ EntriesInv => OrdersAreReceived
  BY OneLooseReceipt DEF SupplyInv, EntriesInv, OrdersAreReceived
<1> QED
  BY <1>1, SupplyInvariant, EntriesInvariant, PTL

-----------------------------------------------------------------------------
(***************************************************************************)
(* The schemas.  The invariants above say most of what the documents look  *)
(* like; what follows is the rest of it, one desk after the other.         *)
(***************************************************************************)

(* What the quotations themselves do not need: the organisation, what      *)
(* customers have read, and that nobody quotes before there is a request.  *)
RequestsInOrder ==
  /\ organisation \in {"ABSENT", "ACTIVE", "SUSPENDED"}
  /\ member \in [Users -> Roles]
  /\ calls \subseteq Call
  /\ inquiry.status = "ABSENT" =>
       /\ \A v \in QuotationVersions : quotation[v].status = "ABSENT"
       /\ \A s \in Officers : At(s, "idle")

(* A write of the request leaves what customers have read a reading.       *)
LEMMA OvertakenCalls ==
  ASSUME NEW cs \in SUBSET Call
  PROVE  Overtaken(cs) \subseteq Call
<1>1. ASSUME NEW c \in cs
      PROVE  (IF c.kind = "answer" THEN [c EXCEPT !.current = FALSE] ELSE c) \in Call
  <2>1. CASE c \in [kind : {"edit"}, version : Nat]
    <3>1. c.kind # "answer"
      BY <2>1
    <3> QED
      BY <2>1, <3>1 DEF Call
  <2>2. CASE c \in [kind : {"answer"}, current : BOOLEAN]
    <3>1. c.kind = "answer" /\ [c EXCEPT !.current = FALSE] \in [kind : {"answer"}, current : BOOLEAN]
      BY <2>2
    <3> QED
      BY <3>1 DEF Call
  <2> QED
    BY <2>1, <2>2 DEF Call
<1> QED
  BY <1>1 DEF Overtaken

(* Whatever customers and officers send, the request is saved with a       *)
(* status it may have.                                                     *)
LEMMA RequestsStayInOrder ==
  ASSUME QuotationsInv, RequestsInOrder, QuotationsNext
  PROVE  RequestsInOrder'
<1>0. /\ inquiry \in [status : InquiryStatus, version : Nat]
      /\ issuing \in [Officers -> Issuing] /\ calls \in SUBSET Call
      /\ quotation \in [QuotationVersions -> QuotationDocument]
  BY DEF QuotationsInv, Issues, IssuesInOrder, QuotesInOrder, RequestsInOrder
<1>1. Overtaken(calls) \subseteq Call /\ \A c : Overtaken(calls \ {c}) \subseteq Call
  BY <1>0, OvertakenCalls
<1>2. ASSUME OrganisationStep PROVE RequestsInOrder'
  <2>1. Founder \in Users
    BY QuotationsAssumption
  <2> QED
    BY <1>2, <2>1 DEF OrganisationStep, CreateOrganisation, AddOrUpdateMember, SuspendOrganisation,
                   RequestsInOrder, Roles, At
<1>3. ASSUME inquiry'.status # "ABSENT", calls' \subseteq Call, UNCHANGED <<organisation, member>>
      PROVE  RequestsInOrder'
  BY <1>3 DEF RequestsInOrder
<1>4. ASSUME InquiryStep PROVE RequestsInOrder'
  <2>1. CASE SubmitInquiry \/ AskClarification
    BY <1>0, <1>3, <2>1 DEF SubmitInquiry, AskClarification
  <2>2. CASE BeginUpdate
    <3>1. [kind |-> "edit", version |-> inquiry.version] \in Call
      BY <1>0 DEF Call
    <3> QED
      BY <1>0, <1>3, <2>2, <3>1 DEF BeginUpdate, ReadInquiry
  <2>3. CASE BeginAnswer
    <3>1. [kind |-> "answer", current |-> TRUE] \in Call
      BY DEF Call
    <3> QED
      BY <1>0, <1>3, <2>3, <3>1 DEF BeginAnswer, ReadInquiry
  <2>4. ASSUME NEW c \in calls, UpdateRequest(c) \/ FailCall(c) PROVE RequestsInOrder'
    <3>1. inquiry'.status = inquiry.status /\ calls' \subseteq Call
      BY <1>0, <2>4 DEF UpdateRequest, FailCall
    <3> QED
      BY <2>4, <3>1 DEF UpdateRequest, FailCall, RequestsInOrder, At
  <2>5. ASSUME NEW c \in calls, RespondClarification(c) PROVE RequestsInOrder'
    BY <1>0, <1>1, <1>3, <2>5 DEF RespondClarification
  <2> QED
    BY <1>4, <2>1, <2>2, <2>3, <2>4, <2>5 DEF InquiryStep
<1>5. ASSUME NEW s \in Officers, IssueStep(s) PROVE RequestsInOrder'
  <2>1. CASE SaveAwaitingDecision(s)
    <3>1. ~At(s, "idle") /\ inquiry.status # "ABSENT"
      BY <2>1 DEF SaveAwaitingDecision, At, RequestsInOrder
    <3>2. inquiry'.status # "ABSENT"
      BY <1>0, <2>1, <3>1 DEF SaveAwaitingDecision
    <3> QED
      BY <1>1, <1>3, <2>1, <3>2 DEF SaveAwaitingDecision
  <2>2. CASE FindRequest(s)
    BY <1>0, <1>3, <2>2 DEF FindRequest
  <2>3. CASE FindVersion(s) \/ SupersedeActionable(s) \/ CreateQuotation(s) \/ AbandonQuotation(s)
    <3>1. inquiry.status # "ABSENT" /\ UNCHANGED <<inquiry, organisation, member, calls>>
      BY <2>3 DEF FindVersion, SupersedeActionable, CreateQuotation, AbandonQuotation, At,
                  RequestsInOrder
    <3> QED
      BY <1>0, <1>3, <3>1
  <2> QED
    BY <1>5, <2>1, <2>2, <2>3 DEF IssueStep
<1>6. ASSUME NEW v \in QuotationVersions, LapseQuotation(v) PROVE RequestsInOrder'
  <2>1. inquiry.status # "ABSENT"
    BY <1>6 DEF LapseQuotation, RequestsInOrder
  <2> QED
    BY <1>0, <1>3, <1>6, <2>1 DEF LapseQuotation
<1>7. ASSUME NEW v \in QuotationVersions, NEW d \in {"APPROVED", "DECLINED"}, DecideQuotation(v, d)
      PROVE  RequestsInOrder'
  BY <1>0, <1>1, <1>3, <1>7 DEF DecideQuotation
<1>8. ASSUME NEW u \in Users, NEW v \in QuotationVersions, BeginConversion(u, v)
      PROVE  RequestsInOrder'
  BY <1>0, <1>8 DEF BeginConversion, RequestsInOrder, At
<1>9. ASSUME NEW c \in conversions, CommitConversion(c) PROVE RequestsInOrder'
  BY <1>0, <1>1, <1>3, <1>9 DEF CommitConversion
<1>10. ASSUME NEW c \in conversions, AbortConversion(c) PROVE RequestsInOrder'
  BY <1>10 DEF AbortConversion, RequestsInOrder, At
<1> QED
  BY <1>2, <1>4, <1>5, <1>6, <1>7, <1>8, <1>9, <1>10 DEF QuotationsNext, ConversionStep

(* Quotations, calls and orders keep their shapes.                         *)
LEMMA QuotationsTypeCorrect == QuotationsSpec => []QuotationsTypeOK
<1>1. QuotationsInit => RequestsInOrder
  BY DEF QuotationsInit, RequestsInOrder, Roles, Idle, At
<1>2. QuotationsInv /\ RequestsInOrder /\ [QuotationsNext]_quotationVars => RequestsInOrder'
  <2>1. RequestsInOrder /\ UNCHANGED quotationVars => RequestsInOrder'
    BY DEF quotationVars, RequestsInOrder, At
  <2> QED
    BY <2>1, RequestsStayInOrder
<1>3. QuotationsInv /\ RequestsInOrder => QuotationsTypeOK
  BY DEF QuotationsInv, Issues, QuotesInOrder, IssuesInOrder, OrdersInOrder, RequestsInOrder,
         QuotationsTypeOK
<1> QED
  BY <1>1, <1>2, <1>3, QuotationsInvariant, PTL DEF QuotationsSpec

-----------------------------------------------------------------------------
(* A payment holds no more than the deposit and paid no more back.         *)
Within(acc) ==
  acc.captured \in 0..Deposit /\ acc.refunded \in 0..acc.captured /\ acc.net \in 0..Deposit

(* What the desk keeps to, besides its shape.                              *)
DeskBounds ==
  /\ \A p \in Payments : Within(payment[p])
  /\ repair.netPaid \in 0..MaxMoney
  /\ repair.warranties \in 0..MaxWarranties
  /\ override \in Overrides
  /\ request \subseteq StaffRequest

(* The moves on a payment stay within the deposit.                         *)
LEMMA MovesStayWithin ==
  ASSUME NEW acc \in DepositRecord, Within(acc), NEW amount \in Nat
  PROVE  /\ Within(Capture(acc, Deposit))
         /\ Within(Hold(acc, amount)) /\ Within(ReleaseHold(acc, amount))
         /\ acc.refunded + amount <= acc.captured => Within(Settle(acc, amount))
<1>0. Deposit \in Nat
  BY DeskAssumption DEF DeskAssumption
<1>1. Within(Capture(acc, Deposit))
  <2>1. /\ Capture(acc, Deposit).captured = Deposit /\ Capture(acc, Deposit).refunded = 0
        /\ Capture(acc, Deposit).net = Deposit
    BY DEF Capture, DepositRecord
  <2> QED
    BY <1>0, <2>1 DEF Within
<1>2. Within(Hold(acc, amount))
  BY DEF Hold, Within, DepositRecord
<1>3. Within(ReleaseHold(acc, amount))
  BY DEF ReleaseHold, Within, DepositRecord
<1>4. ASSUME acc.refunded + amount <= acc.captured PROVE Within(Settle(acc, amount))
  <2>1. /\ Settle(acc, amount).captured = acc.captured
        /\ Settle(acc, amount).refunded = acc.refunded + amount
        /\ Settle(acc, amount).net = acc.captured - (acc.refunded + amount)
    BY DEF Settle, DepositRecord
  <2>2. acc.captured \in 0..Deposit /\ acc.refunded \in 0..acc.captured
    BY DEF Within
  <2> QED
    BY <1>0, <1>4, <2>1, <2>2 DEF Within
<1> QED
  BY <1>1, <1>2, <1>3, <1>4

(* The credit of the repair is a sum of what payments hold.                *)
LEMMA CreditBounded ==
  ASSUME DeskShape, repair.warranties \in 0..MaxWarranties,
         NEW accounts, \A p \in Payments : Within(accounts[p]),
         RecalculateRepairFinance(accounts)
  PROVE  repair'.netPaid \in 0..MaxMoney /\ repair'.warranties \in 0..MaxWarranties
<1> DEFINE S == {p \in DepositsOf(repair.accepted) : accounts[p].status \in Counted}
           n == Total(NetOf(accounts), S, MaxMoney)
<1>0. /\ MaxMoney \in Nat /\ Deposit \in Nat /\ IsFiniteSet(Payments)
      /\ Cardinality(Payments) * Deposit <= MaxMoney
  BY DeskAssumption DEF DeskAssumption
<1>1. S \in SUBSET Payments
  BY DEF DepositsOf
<1>2. /\ IsFiniteSet(S) /\ Cardinality(S) \in Nat /\ Cardinality(Payments) \in Nat
      /\ Cardinality(S) <= Cardinality(Payments)
  BY <1>0, <1>1, FS_Subset, FS_CardinalityType
<1>3. \A p \in S : NetOf(accounts)[p] \in Int /\ NetOf(accounts)[p] <= Deposit
  BY <1>0, <1>1 DEF NetOf, Within
<1> HIDE DEF S
<1>4. n \in Nat /\ n <= Cardinality(S) * Deposit
  BY <1>0, <1>2, <1>3, TotalType, TotalBounded
<1>5. n <= MaxMoney
  <2>1. \A a, b, c \in Nat : a <= b => a * c <= b * c
    OBVIOUS
  <2>2. Cardinality(S) * Deposit <= Cardinality(Payments) * Deposit
    BY <1>0, <1>2, <2>1
  <2>3. Cardinality(S) * Deposit \in Int /\ Cardinality(Payments) * Deposit \in Int
    BY <1>0, <1>2
  <2> HIDE DEF n
  <2> QED
    BY <1>0, <1>4, <2>2, <2>3
<1>6. repair' = [repair EXCEPT !.netPaid = n]
  BY DEF RecalculateRepairFinance, S
<1> HIDE DEF n
<1>7. repair'.netPaid = n /\ repair'.warranties = repair.warranties
  BY <1>6 DEF DeskShape, RepairRecord
<1> QED
  BY <1>0, <1>4, <1>5, <1>7

(* Deposits, refunds and overrides keep the bounds.                        *)
LEMMA MoneyKeepsBounds ==
  ASSUME DeskShape, DeskBounds, Money
  PROVE  DeskBounds'
<1>0. /\ payment \in [Payments -> DepositRecord] /\ Deposit \in Nat
      /\ \A p \in Payments : payment[p] \in DepositRecord /\ Within(payment[p])
      /\ \A r \in Refunds : RefundOf[r] \in Payments /\ refund[r].amount \in Nat
  BY DeskAssumption DEF DeskShape, DeskBounds, DeskAssumption, RefundDocument
<1>1. ASSUME NEW p \in Payments, NEW acc, Within(acc), payment' = [payment EXCEPT ![p] = acc],
             \/ repair' = repair
             \/ RecalculateRepairFinance([payment EXCEPT ![p] = acc]),
             UNCHANGED <<override, request>>
      PROVE  DeskBounds'
  <2>1. \A q \in Payments : Within([payment EXCEPT ![p] = acc][q])
    BY <1>0, <1>1
  <2>2. repair'.netPaid \in 0..MaxMoney /\ repair'.warranties \in 0..MaxWarranties
    BY <1>1, <2>1, CreditBounded DEF DeskBounds
  <2> QED
    BY <1>1, <2>1, <2>2 DEF DeskBounds
<1>2. ASSUME NEW scope \in Scopes, CreateOverride(scope) \/ RevokeOverride(scope)
      PROVE  DeskBounds'
  BY <1>2 DEF CreateOverride, RevokeOverride, DeskBounds, Overrides
<1>3. ASSUME NEW p \in Payments, CreatePaymentAttempt(p) PROVE DeskBounds'
  <2> DEFINE acc == [payment[p] EXCEPT !.status = "PENDING", !.version = repair.accepted]
  <2>1. Within(acc)
    BY <1>0 DEF Within, DepositRecord
  <2>2. payment' = [payment EXCEPT ![p] = acc] /\ UNCHANGED <<repair, override, request>>
    BY <1>0, <1>3 DEF CreatePaymentAttempt
  <2> HIDE DEF acc
  <2> QED
    BY <1>1, <2>1, <2>2
<1>4. ASSUME NEW p \in Payments, ProcessVerifiedPaymentFailure(p) PROVE DeskBounds'
  <2> DEFINE acc == [payment[p] EXCEPT !.status = "FAILED"]
  <2>1. Within(acc)
    BY <1>0 DEF Within, DepositRecord
  <2>2. payment' = [payment EXCEPT ![p] = acc] /\ UNCHANGED <<repair, override, request>>
    BY <1>0, <1>4 DEF ProcessVerifiedPaymentFailure
  <2> HIDE DEF acc
  <2> QED
    BY <1>1, <2>1, <2>2
<1>5. ASSUME NEW p \in Payments, ApplyVerifiedPaymentEvent(p) PROVE DeskBounds'
  <2> DEFINE acc == Capture(payment[p], Deposit)
  <2>1. Within(acc)
    BY <1>0, MovesStayWithin
  <2>2. /\ payment' = [payment EXCEPT ![p] = acc] /\ UNCHANGED <<override, request>>
        /\ RecalculateRepairFinance([payment EXCEPT ![p] = acc])
    BY <1>5 DEF ApplyVerifiedPaymentEvent
  <2> HIDE DEF acc
  <2> QED
    BY <1>1, <2>1, <2>2
<1>6. ASSUME NEW r \in Refunds, NEW amount \in 1..Deposit, ReserveRefund(r, amount)
      PROVE  DeskBounds'
  <2> DEFINE acc == Hold(payment[RefundOf[r]], amount)
  <2>1. Within(acc)
    BY <1>0, MovesStayWithin
  <2>2. payment' = [payment EXCEPT ![RefundOf[r]] = acc] /\ UNCHANGED <<repair, override, request>>
    BY <1>6 DEF ReserveRefund
  <2> HIDE DEF acc
  <2> QED
    BY <1>0, <1>1, <2>1, <2>2
<1>7. ASSUME NEW r \in Refunds, MarkRefundProviderPending(r) PROVE DeskBounds'
  BY <1>7 DEF MarkRefundProviderPending, DeskBounds
<1>8. ASSUME NEW r \in Refunds, SettleRefundSuccess(r) PROVE DeskBounds'
  <2> DEFINE acc == Settle(payment[RefundOf[r]], refund[r].amount)
  <2>1. Within(acc)
    BY <1>0, <1>8, MovesStayWithin DEF SettleRefundSuccess, Settleable
  <2>2. /\ payment' = [payment EXCEPT ![RefundOf[r]] = acc] /\ UNCHANGED <<override, request>>
        /\ RecalculateRepairFinance([payment EXCEPT ![RefundOf[r]] = acc])
    BY <1>8 DEF SettleRefundSuccess
  <2> HIDE DEF acc
  <2> QED
    BY <1>0, <1>1, <2>1, <2>2
<1>9. ASSUME NEW r \in Refunds, NEW target \in {"FAILED", "CANCELLED"},
             ReleaseRefundReservation(r, target)
      PROVE  DeskBounds'
  <2> DEFINE acc == ReleaseHold(payment[RefundOf[r]], refund[r].amount)
  <2>1. Within(acc)
    BY <1>0, MovesStayWithin
  <2>2. payment' = [payment EXCEPT ![RefundOf[r]] = acc] /\ UNCHANGED <<repair, override, request>>
    BY <1>9 DEF ReleaseRefundReservation
  <2> HIDE DEF acc
  <2> QED
    BY <1>0, <1>1, <2>1, <2>2
<1> QED
  BY <1>2, <1>3, <1>4, <1>5, <1>6, <1>7, <1>8, <1>9 DEF Money

(* The workshop and its quotes change no amount, and save what they read.  *)
LEMMA WorkKeepsBounds ==
  ASSUME DeskShape, DeskBounds, Workflow \/ Quoting
  PROVE  DeskBounds'
<1>0. /\ repair \in RepairRecord /\ repair.warranties \in 0..MaxWarranties
      /\ repair.netPaid \in 0..MaxMoney /\ MaxWarranties \in Nat /\ request \subseteq StaffRequest
  BY DeskAssumption DEF DeskShape, DeskBounds, DeskAssumption
<1>1. ASSUME UNCHANGED <<payment, override>>, request' \subseteq StaffRequest,
             repair'.netPaid = repair.netPaid,
             repair'.warranties \in {repair.warranties, repair.warranties + 1},
             repair'.warranties = repair.warranties \/ repair.warranties < MaxWarranties
      PROVE  DeskBounds'
  <2>1. repair'.warranties \in 0..MaxWarranties
    BY <1>0, <1>1
  <2> QED
    BY <1>1, <2>1 DEF DeskBounds
<1>2. \A S \in SUBSET request : Outdated(S) \subseteq StaffRequest
  BY <1>0 DEF Outdated, StaffRequest
<1>3. ASSUME Quoting PROVE DeskBounds'
  BY <1>0, <1>1, <1>3 DEF Quoting, CreateNewQuoteVersion, QuoteLapses, ApproveQuote, DeclineQuote,
     ExpireOverdueQuotes, moneyVars, RepairRecord
<1>4. CASE CreateRepair \/ AssignTechnician \/ TransitionToInRepair
  BY <1>0, <1>1, <1>4 DEF CreateRepair, AssignTechnician, TransitionToInRepair, moneyVars, RepairRecord
<1>5. CASE HandoverRepair
  BY <1>0, <1>1, <1>5 DEF HandoverRepair, moneyVars, RepairRecord
<1>6. ASSUME NEW passed \in BOOLEAN, PerformQC(passed) PROVE DeskBounds'
  <2>1. Outdated(request) \subseteq StaffRequest
    BY <1>2
  <2> QED
    BY <1>0, <1>1, <1>6, <2>1 DEF PerformQC, moneyVars, RepairRecord
<1>7. ASSUME NEW kind \in {"intake", "diagnosis", "completion"}, ReadRepair(kind) PROVE DeskBounds'
  <2>1. [kind |-> kind, seen |-> repair.status, current |-> TRUE] \in StaffRequest
    BY <1>0 DEF RepairRecord, StaffRequest
  <2> QED
    BY <1>0, <1>1, <1>7, <2>1 DEF ReadRepair, moneyVars
<1>8. ASSUME NEW r \in request, SaveIntake(r) \/ SaveDiagnosis(r) \/ SaveCompletion(r) \/ DropRequest(r)
      PROVE  DeskBounds'
  <2>1. Outdated(request \ {r}) \subseteq StaffRequest /\ request \ {r} \subseteq StaffRequest
    BY <1>0, <1>2
  <2> QED
    BY <1>0, <1>1, <1>8, <2>1 DEF SaveIntake, SaveDiagnosis, SaveCompletion, DropRequest, moneyVars,
       RepairRecord
<1> QED
  BY <1>3, <1>4, <1>5, <1>6, <1>7, <1>8 DEF Workflow, SaveRequest

(* The repair keeps its documents, and the amounts on them their bounds:   *)
(* no deposit holds or pays back more than was asked for.                  *)
LEMMA RepairTypeCorrect == Spec => []TypeOK
<1>1. Init => DeskBounds
  <2>1. /\ MaxMoney \in Nat /\ MaxWarranties \in Nat /\ Deposit \in Nat
    BY DeskAssumption DEF DeskAssumption
  <2> QED
    BY <2>1 DEF Init, DeskBounds, Within, Overrides
<1>2. DeskInv /\ DeskBounds /\ [Next]_vars => DeskBounds'
  <2>1. DeskBounds /\ UNCHANGED vars => DeskBounds'
    BY DEF vars, moneyVars, DeskBounds, Within
  <2> QED
    BY <2>1, MoneyKeepsBounds, WorkKeepsBounds DEF DeskInv, Next
<1>3. DeskInv /\ DeskBounds => TypeOK
  <2> SUFFICES ASSUME DeskShape, DeskBounds PROVE TypeOK
    BY DEF DeskInv
  <2>1. repair \in RepairDocument
    BY DEF DeskShape, DeskBounds, RepairRecord, RepairDocument
  <2>2. \A p \in Payments : payment[p] \in DepositDocument
    <3> SUFFICES ASSUME NEW p \in Payments PROVE payment[p] \in DepositDocument
      OBVIOUS
    <3>1. payment[p] \in DepositRecord /\ Within(payment[p]) /\ Deposit \in Nat
      BY DeskAssumption DEF DeskShape, DeskBounds, DeskAssumption
    <3>2. payment[p].refunded \in 0..Deposit
      BY <3>1 DEF Within
    <3> QED
      BY <3>1, <3>2 DEF DepositRecord, DepositDocument, Within
  <2>3. payment \in [Payments -> DepositDocument]
    BY <2>2 DEF DeskShape
  <2> QED
    BY <2>1, <2>3 DEF DeskShape, DeskBounds, TypeOK
<1> QED
  BY <1>1, <1>2, <1>3, DeskInvariant, PTL DEF Spec

-----------------------------------------------------------------------------
(* The three desks keep their documents within their schemas, and the      *)
(* amounts on them within what customers were asked to pay, however their  *)
(* requests interleave.                                                    *)
THEOREM BackOfficeTypeCorrect == BackOfficeSpec => []BackOfficeTypeOK
<1>1. SupplyInv => SupplyTypeOK
  BY DEF SupplyInv
<1>2. SupplySpec => []SupplyTypeOK
  BY <1>1, SupplyInvariant, PTL
<1>3. BackOfficeTypeOK <=> TypeOK /\ SupplyTypeOK /\ QuotationsTypeOK
  BY DEF BackOfficeTypeOK
<1> QED
  BY <1>2, <1>3, RepairTypeCorrect, QuotationsTypeCorrect, PTL DEF BackOfficeSpec
=============================================================================
