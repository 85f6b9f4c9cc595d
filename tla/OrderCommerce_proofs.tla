------------------------ MODULE OrderCommerce_proofs ------------------------
(***************************************************************************)
(* Types, stock and shelf of OrderCommerce, for every value of its         *)
(* constants: what checkouts, callbacks, cancellations, expiry jobs and    *)
(* dispatches, in any order, do to documents, lines and stock levels.      *)
(* Then who gets the goods and what became of the money: goods, captures   *)
(* and books each need the other two to be inductive.                      *)
(***************************************************************************)
EXTENDS OrderCommerce, Tally_proofs

-----------------------------------------------------------------------------
(* Types                                                                   *)

(* The moves of the payment service keep a payment document a document.    *)
LEMMA AccountType ==
  ASSUME NEW acc \in PaymentDocument, NEW n \in Int
  PROVE  /\ Hold(acc, n) \in PaymentDocument
         /\ ReleaseHold(acc, n) \in PaymentDocument
         /\ Settle(acc, n) \in PaymentDocument
<1>1. /\ acc.reserved - n \in Int /\ acc.refunded + n \in Int
      /\ acc.captured - (acc.refunded + n) \in Int
  BY DEF PaymentDocument
<1>2. StatusAfterRefund(acc.captured, acc.refunded + n) \in PaymentStatus
  BY DEF StatusAfterRefund, PaymentStatus
<1>3. Settle(acc, n) \in PaymentDocument
  BY <1>1, <1>2 DEF Settle, PaymentDocument
<1>4. Hold(acc, n) \in PaymentDocument /\ ReleaseHold(acc, n) \in PaymentDocument
  BY DEF Hold, ReleaseHold, PaymentDocument
<1> QED
  BY <1>3, <1>4

(* The other writes to a payment, an order and a refund document.          *)
LEMMA PaymentWrite ==
  ASSUME NEW acc \in PaymentDocument, NEW s \in PaymentStatus, NEW E \in SUBSET EventIds,
         NEW n \in Int
  PROVE  /\ [acc EXCEPT !.status = s] \in PaymentDocument
         /\ [acc EXCEPT !.status = s, !.events = E] \in PaymentDocument
         /\ [Capture(acc, n) EXCEPT !.events = E] \in PaymentDocument
<1>0. [acc EXCEPT !.status = s] \in PaymentDocument
  BY DEF PaymentDocument
<1>1. [acc EXCEPT !.status = s, !.events = E] \in PaymentDocument
  BY DEF PaymentDocument
<1>2. Capture(acc, n) \in PaymentDocument
  <2>1. "SUCCEEDED" \in PaymentStatus /\ 0 \in Int
    BY DEF PaymentStatus
  <2> QED
    BY <2>1 DEF Capture, PaymentDocument
<1>3. [Capture(acc, n) EXCEPT !.events = E] \in PaymentDocument
  BY <1>2 DEF PaymentDocument
<1> QED
  BY <1>0, <1>1, <1>3

LEMMA OrderWrite ==
  ASSUME NEW doc \in OrderDocument, NEW s \in OrderStatus, NEW x \in OrderPaymentStatus,
         NEW S \in SUBSET Units
  PROVE  /\ [doc EXCEPT !.status = s, !.paymentStatus = x] \in OrderDocument
         /\ [doc EXCEPT !.status = s, !.serials = S] \in OrderDocument
BY DEF OrderDocument

LEMMA RefundWrite ==
  ASSUME NEW doc \in RefundDocument, NEW s \in RefundStatus, NEW E \in SUBSET EventIds,
         NEW a \in 0..MaxTotal
  PROVE  /\ [doc EXCEPT !.status = s, !.events = E] \in RefundDocument
         /\ [doc EXCEPT !.status = s, !.amount = a] \in RefundDocument
BY DEF RefundDocument

(* A new order is an order.                                                *)
LEMMA PlacedType ==
  ASSUME NEW doc \in OrderDocument, NEW m \in CheckoutMethods
  PROVE  PlacedOrder(doc, m) \in OrderDocument
<1>1. m \in {"ABSENT", "paystack", "bank_transfer", "pay_on_pickup"}
  BY CommerceAssumption DEF CommerceAssumption
<1> QED
  BY <1>1 DEF PlacedOrder, OrderDocument, OrderStatus, OrderPaymentStatus

(* Closing lines leaves reservations and stock of the right type: what     *)
(* comes back is a natural number of units.                                *)
LEMMA ReturnLinesType ==
  ASSUME TypeOK, NEW L, NEW next \in ReservationStatus, ReturnLines(L, next)
  PROVE  /\ reservation' \in [Orders -> [Variants -> ReservationStatus]]
         /\ inStock' \in [Variants -> Nat]
         /\ UNCHANGED <<lapsed, corrected, unit>>
<1>1. reservation' \in [Orders -> [Variants -> ReservationStatus]]
  BY DEF ReturnLines, TypeOK
<1>2. ASSUME NEW v \in Variants
      PROVE  inStock[v] + Total(QuantityOf(v), {o \in Orders : <<o, v>> \in L}, MaxQuantity) \in Nat
  <2> DEFINE S == {o \in Orders : <<o, v>> \in L}
  <2>1. IsFiniteSet(S) /\ MaxQuantity \in Nat
    BY CommerceAssumption, FS_Subset DEF CommerceAssumption
  <2>2. Total(QuantityOf(v), S, MaxQuantity) \in Nat
    BY <2>1, TotalType
  <2>3. inStock[v] \in Nat
    BY DEF TypeOK
  <2> QED
    BY <2>2, <2>3
<1> QED
  BY <1>1, <1>2 DEF ReturnLines

(* The effects of a capture on the documents it writes.                    *)
LEMMA CaptureType ==
  ASSUME TypeOK, NEW p \in Payments, NEW events \in SUBSET EventIds, CaptureFor(p, events)
  PROVE  TypeOK'
<1> DEFINE o == Subject[p]
<1>1. o \in Orders /\ OrderTotal[o] \in Int
  BY CommerceAssumption DEF CommerceAssumption
<1>2. payment' \in [Payments -> PaymentDocument]
  <2>1. "SUCCEEDED" \in PaymentStatus
    BY DEF PaymentStatus
  <2>2. [Capture(payment[p], OrderTotal[o]) EXCEPT !.events = events] \in PaymentDocument
    BY <1>1, <2>1, PaymentWrite DEF TypeOK
  <2> QED
    BY <2>2 DEF TypeOK, CaptureFor
<1>3. order' \in [Orders -> OrderDocument]
  <2>1. "paid" \in OrderStatus /\ "paid" \in OrderPaymentStatus /\ {} \in SUBSET Units
    BY DEF OrderStatus, OrderPaymentStatus
  <2>2. [order[o] EXCEPT !.status = "paid", !.paymentStatus = "paid"] \in OrderDocument
    BY <1>1, <2>1, OrderWrite DEF TypeOK
  <2> QED
    BY <1>1, <2>2 DEF TypeOK, CaptureFor
<1>4. reservation' \in [Orders -> [Variants -> ReservationStatus]]
  BY <1>1 DEF TypeOK, CaptureFor, AllocateOrderReservations, ReservationStatus
<1>5. documents' \subseteq FinancialDocument
  BY <1>1 DEF TypeOK, CaptureFor, VerifiedDocuments, FinancialDocument
<1> QED
  BY <1>2, <1>3, <1>4, <1>5 DEF TypeOK, CaptureFor

(* Every document stays within its schema and no stock level is negative.  *)
THEOREM TypeCorrect == Spec => []TypeOK
<1>1. Init => TypeOK
  BY CommerceAssumption DEF CommerceAssumption, Init, TypeOK, NoOrder, NoPayment, NoRefund,
     OrderDocument, OrderStatus, OrderPaymentStatus, ReservationStatus, PaymentDocument,
     PaymentStatus, RefundDocument, RefundStatus, FinancialDocument
<1>2. TypeOK /\ [Next]_vars => TypeOK'
  <2> SUFFICES ASSUME TypeOK, [Next]_vars PROVE TypeOK'
    OBVIOUS
  <2>0. CASE UNCHANGED vars
    BY <2>0 DEF TypeOK, vars, stockVars, moneyVars
  <2>1. ASSUME NEW o \in Orders, NEW m \in CheckoutMethods, Checkout(o, m) PROVE TypeOK'
    <3>1. order' \in [Orders -> OrderDocument]
      BY <2>1, PlacedType DEF Checkout, TypeOK
    <3>2. reservation' \in [Orders -> [Variants -> ReservationStatus]]
      BY <2>1 DEF Checkout, TypeOK, ReservationStatus
    <3>3. ASSUME NEW v \in Variants PROVE inStock[v] - Quantity[o][v] \in Nat
      <4>1. Quantity[o][v] \in Nat /\ inStock[v] \in Nat
        BY CommerceAssumption DEF CommerceAssumption, TypeOK
      <4>2. Quantity[o][v] > 0 => Quantity[o][v] <= inStock[v]
        BY <2>1 DEF Checkout, Coverable, Lines
      <4> QED
        BY <4>1, <4>2
    <3> QED
      BY <2>1, <3>1, <3>2, <3>3 DEF Checkout, TypeOK, moneyVars
  <2>2. ASSUME NEW o \in Orders, NEW m \in CheckoutMethods, ConvertQuotation(o, m) PROVE TypeOK'
    BY <2>2, PlacedType DEF ConvertQuotation, TypeOK, stockVars, moneyVars
  <2>3. ASSUME NEW o \in Orders, CancelOrder(o) PROVE TypeOK'
    <3>1. "RELEASED" \in ReservationStatus
      BY DEF ReservationStatus
    <3>2. /\ reservation' \in [Orders -> [Variants -> ReservationStatus]]
          /\ inStock' \in [Variants -> Nat]
          /\ UNCHANGED <<lapsed, corrected, unit>>
      BY <2>3, <3>1, ReturnLinesType DEF CancelOrder, ReleaseOrderReservations
    <3>3. CancelledOrder(order[o]) \in OrderDocument
      <4>1. /\ "cancelled" \in OrderStatus
            /\ PaymentStatusAfterCancel(order[o].paymentStatus) \in OrderPaymentStatus
            /\ order[o] \in OrderDocument /\ {} \in SUBSET Units
        BY DEF PaymentStatusAfterCancel, TypeOK, OrderDocument, OrderStatus, OrderPaymentStatus
      <4> QED
        BY <4>1, OrderWrite DEF CancelledOrder
    <3> QED
      BY <2>3, <3>2, <3>3 DEF CancelOrder, TypeOK, moneyVars
  <2>4. ASSUME NEW o \in Orders, IssueInvoice(o) PROVE TypeOK'
    BY <2>4 DEF IssueInvoice, TypeOK, FinancialDocument, stockVars
  <2>5. ASSUME NEW o \in Orders, DeleteReceiptEvidence(o) PROVE TypeOK'
    <3>1. order[o] \in OrderDocument
      BY DEF TypeOK
    <3>2. [order[o] EXCEPT !.receipt = "DELETED"] \in OrderDocument
      BY <3>1 DEF OrderDocument
    <3>3. order' \in [Orders -> OrderDocument]
      BY <2>5, <3>2 DEF DeleteReceiptEvidence, TypeOK
    <3> QED
      BY <2>5, <3>3 DEF DeleteReceiptEvidence, TypeOK, stockVars, moneyVars
  <2>6. ASSUME NEW p \in Payments, CreatePaymentAttempt(p) PROVE TypeOK'
    <3>1. "PENDING" \in PaymentStatus /\ {} \in SUBSET EventIds /\ 0 \in Int
      BY DEF PaymentStatus
    <3>2. [payment[p] EXCEPT !.status = "PENDING"] \in PaymentDocument
      BY <3>1, PaymentWrite DEF TypeOK
    <3>3. payment' \in [Payments -> PaymentDocument]
      BY <2>6, <3>2 DEF CreatePaymentAttempt, TypeOK
    <3> QED
      BY <2>6, <3>3 DEF CreatePaymentAttempt, TypeOK, stockVars
  <2>7. ASSUME NEW p \in Payments, AttachBankTransferEvidence(p) PROVE TypeOK'
    <3>1. Subject[p] \in Orders
      BY CommerceAssumption DEF CommerceAssumption
    <3>2. order' \in [Orders -> OrderDocument]
      <4>0. order[Subject[p]] \in OrderDocument
        BY <3>1 DEF TypeOK
      <4>1. [order[Subject[p]] EXCEPT !.receipt = "ACTIVE"] \in OrderDocument
        BY <4>0 DEF OrderDocument
      <4> QED
        BY <2>7, <4>1 DEF AttachBankTransferEvidence, TypeOK
    <3>3. payment' \in [Payments -> PaymentDocument]
      <4>1. "PENDING" \in PaymentStatus /\ {} \in SUBSET EventIds /\ 0 \in Int
        BY DEF PaymentStatus
      <4>2. [payment[p] EXCEPT !.status = "PENDING"] \in PaymentDocument
        BY <4>1, PaymentWrite DEF TypeOK
      <4> QED
        BY <2>7, <4>2 DEF AttachBankTransferEvidence, TypeOK
    <3> QED
      BY <2>7, <3>2, <3>3 DEF AttachBankTransferEvidence, TypeOK, stockVars
  <2>8. ASSUME NEW o \in Orders, NEW t \in {"dispatched", "completed"}, NEW S \in SUBSET Units,
               FulfillOrder(o, t, S)
        PROVE  TypeOK'
    <3>1. order' \in [Orders -> OrderDocument]
      <4> DEFINE T == IF S # {} THEN S ELSE order[o].serials
      <4>1. t \in OrderStatus /\ "paid" \in OrderPaymentStatus /\ T \in SUBSET Units
        BY DEF OrderStatus, OrderPaymentStatus, TypeOK, OrderDocument
      <4>2. [order[o] EXCEPT !.status = t, !.serials = T] \in OrderDocument
        <5> HIDE DEF T
        <5> QED
          BY <4>1, OrderWrite DEF TypeOK
      <4> QED
        BY <2>8, <4>2 DEF FulfillOrder, TypeOK
    <3>2. reservation' \in [Orders -> [Variants -> ReservationStatus]]
      BY <2>8 DEF FulfillOrder, TypeOK, ReservationStatus
    <3>3. unit' \in [Units -> {"SELLABLE", "CONSUMED"}]
      BY <2>8 DEF FulfillOrder, TypeOK
    <3> QED
      BY <2>8, <3>1, <3>2, <3>3 DEF FulfillOrder, TypeOK, moneyVars
  <2>9. ASSUME NEW o \in Orders, ConfirmDelivery(o) PROVE TypeOK'
    <3>1. order[o] \in OrderDocument /\ "completed" \in OrderStatus
      BY DEF TypeOK, OrderStatus
    <3>2. [order[o] EXCEPT !.status = "completed"] \in OrderDocument
      BY <3>1 DEF OrderDocument
    <3>3. order' \in [Orders -> OrderDocument]
      BY <2>9, <3>2 DEF ConfirmDelivery, TypeOK
    <3> QED
      BY <2>9, <3>3 DEF ConfirmDelivery, TypeOK, stockVars, moneyVars
  <2>10. ASSUME NEW p \in Payments, VerifyBankTransfer(p) PROVE TypeOK'
    <3>1. payment[p].events \in SUBSET EventIds
      BY DEF TypeOK, PaymentDocument
    <3> QED
      BY <2>10, <3>1, CaptureType DEF VerifyBankTransfer
  <2>11. ASSUME NEW r \in Refunds, NEW a \in 1..MaxTotal, ReserveRefund(r, a) PROVE TypeOK'
    <3>1. RefundOf[r] \in Payments /\ MaxTotal \in Nat
      BY CommerceAssumption DEF CommerceAssumption
    <3>2. refund' \in [Refunds -> RefundDocument]
      <4>1. "RESERVED" \in RefundStatus /\ a \in 0..MaxTotal /\ {} \in SUBSET EventIds
        BY <3>1 DEF RefundStatus
      <4>2. [refund[r] EXCEPT !.status = "RESERVED", !.amount = a] \in RefundDocument
        BY <4>1, RefundWrite DEF TypeOK
      <4> QED
        BY <2>11, <4>2 DEF ReserveRefund, TypeOK
    <3>3. payment' \in [Payments -> PaymentDocument]
      BY <2>11, <3>1, AccountType DEF ReserveRefund, TypeOK
    <3> QED
      BY <2>11, <3>2, <3>3 DEF ReserveRefund, TypeOK, stockVars
  <2>12. ASSUME NEW r \in Refunds, NEW target \in {"FAILED", "CANCELLED"},
                NEW events \in SUBSET EventIds, ReleaseRefund(r, target, events)
         PROVE  TypeOK'
    <3>1. RefundOf[r] \in Payments
      BY CommerceAssumption DEF CommerceAssumption
    <3>2. refund' \in [Refunds -> RefundDocument]
      <4>1. target \in RefundStatus /\ refund[r].amount \in 0..MaxTotal
        BY DEF RefundStatus, TypeOK, RefundDocument
      <4>2. [refund[r] EXCEPT !.status = target, !.events = events] \in RefundDocument
        BY <4>1, RefundWrite DEF TypeOK
      <4> QED
        BY <2>12, <4>2 DEF ReleaseRefund, TypeOK
    <3>3. refund[r].amount \in Int
      BY CommerceAssumption DEF CommerceAssumption, TypeOK, RefundDocument
    <3>4. payment' \in [Payments -> PaymentDocument]
      <4>1. ReleaseHold(payment[RefundOf[r]], refund[r].amount) \in PaymentDocument
        BY <3>1, <3>3, AccountType DEF TypeOK
      <4> QED
        BY <2>12, <3>1, <4>1 DEF ReleaseRefund, TypeOK
    <3> QED
      BY <2>12, <3>2, <3>4 DEF ReleaseRefund, TypeOK, stockVars
  <2>13. ASSUME NEW r \in Refunds, CancelReservedRefund(r) PROVE TypeOK'
    <3>1. CASE ReleaseRefund(r, "CANCELLED", refund[r].events)
      <4>1. refund[r].events \in SUBSET EventIds
        BY DEF TypeOK, RefundDocument
      <4> QED
        BY <3>1, <4>1, <2>12
    <3>2. CASE UNCHANGED <<order, stockVars, payment, refund, documents>>
      BY <3>2 DEF TypeOK, stockVars
    <3> QED
      BY <2>13, <3>1, <3>2 DEF CancelReservedRefund
  <2>14. ASSUME NEW v \in Variants, NEW n \in StockLevels, CorrectStock(v, n) PROVE TypeOK'
    <3>1. n \in Nat
      BY CommerceAssumption DEF CommerceAssumption
    <3> QED
      BY <2>14, <3>1 DEF CorrectStock, TypeOK, moneyVars
  <2>15. ASSUME NEW p \in Payments, PaymentMismatch(p) PROVE TypeOK'
    BY <2>15 DEF PaymentMismatch, TypeOK, stockVars
  <2>16. ASSUME NEW p \in Payments, NEW e \in EventIds, ChargeSucceeds(p, e) PROVE TypeOK'
    <3>1. CASE UNCHANGED <<order, stockVars, payment, refund, documents>>
      BY <3>1 DEF TypeOK, stockVars
    <3>2. CASE CaptureFor(p, payment[p].events \cup {e})
      <4>1. payment[p].events \cup {e} \in SUBSET EventIds
        BY DEF TypeOK, PaymentDocument
      <4> QED
        BY <3>2, <4>1, CaptureType
    <3> QED
      BY <2>16, <3>1, <3>2 DEF ChargeSucceeds
  <2>17. ASSUME NEW p \in Payments, NEW e \in EventIds, ChargeFails(p, e) PROVE TypeOK'
    <3>1. CASE UNCHANGED <<order, stockVars, payment, refund, documents>>
      BY <3>1 DEF TypeOK, stockVars
    <3>2. CASE /\ payment' = [payment EXCEPT ![p] =
                               [@ EXCEPT !.status = "FAILED",
                                         !.events = payment[p].events \cup {e}]]
               /\ ReleaseOrderReservations(Subject[p])
               /\ UNCHANGED <<order, refund, documents, cases>>
      <4>1. "RELEASED" \in ReservationStatus
        BY DEF ReservationStatus
      <4>2. /\ reservation' \in [Orders -> [Variants -> ReservationStatus]]
            /\ inStock' \in [Variants -> Nat]
            /\ UNCHANGED <<lapsed, corrected, unit>>
        BY <3>2, <4>1, ReturnLinesType DEF ReleaseOrderReservations
      <4>3. payment' \in [Payments -> PaymentDocument]
        <5>1. "FAILED" \in PaymentStatus /\ payment[p].events \cup {e} \in SUBSET EventIds
              /\ 0 \in Int
          BY DEF TypeOK, PaymentDocument, PaymentStatus
        <5>2. [payment[p] EXCEPT !.status = "FAILED", !.events = payment[p].events \cup {e}]
                \in PaymentDocument
          BY <5>1, PaymentWrite DEF TypeOK
        <5> QED
          BY <3>2, <5>2 DEF TypeOK
      <4> QED
        BY <3>2, <4>2, <4>3 DEF TypeOK
    <3> QED
      BY <2>17, <3>1, <3>2 DEF ChargeFails
  <2>18. ASSUME NEW r \in Refunds, NEW e \in EventIds, RefundEventRejected(r, e) PROVE TypeOK'
    BY <2>18 DEF RefundEventRejected, TypeOK, stockVars
  <2>19. ASSUME NEW r \in Refunds, NEW e \in EventIds,
                \E t \in {"PROVIDER_PENDING", "SUCCEEDED", "FAILED"} : LateRefundEvent(r, e, t)
         PROVE  TypeOK'
    BY <2>19 DEF LateRefundEvent, TypeOK, stockVars
  <2>20. ASSUME NEW r \in Refunds, NEW e \in EventIds, RefundPending(r, e) PROVE TypeOK'
    <3>1. refund' \in [Refunds -> RefundDocument]
      <4>1. /\ "PROVIDER_PENDING" \in RefundStatus /\ refund[r].events \cup {e} \in SUBSET EventIds
            /\ refund[r].amount \in 0..MaxTotal
        BY DEF RefundStatus, TypeOK, RefundDocument
      <4>2. [refund[r] EXCEPT !.status = "PROVIDER_PENDING", !.events = refund[r].events \cup {e}]
              \in RefundDocument
        BY <4>1, RefundWrite DEF TypeOK
      <4> QED
        BY <2>20, <4>2 DEF RefundPending, TypeOK
    <3> QED
      BY <2>20, <3>1 DEF RefundPending, TypeOK, stockVars
  <2>21. ASSUME NEW r \in Refunds, NEW e \in EventIds, RefundSucceeds(r, e) PROVE TypeOK'
    <3> DEFINE p == RefundOf[r]
               o == Subject[p]
    <3>1. p \in Payments /\ o \in Orders
      BY CommerceAssumption DEF CommerceAssumption
    <3>2. refund[r].amount \in Int
      BY CommerceAssumption DEF CommerceAssumption, TypeOK, RefundDocument
    <3>3. Settle(payment[p], refund[r].amount) \in PaymentDocument
      BY <3>1, <3>2, AccountType DEF TypeOK
    <3>4. payment' \in [Payments -> PaymentDocument]
      BY <2>21, <3>1, <3>3 DEF RefundSucceeds, TypeOK
    <3>5. refund' \in [Refunds -> RefundDocument]
      <4>1. /\ "SUCCEEDED" \in RefundStatus /\ refund[r].events \cup {e} \in SUBSET EventIds
            /\ refund[r].amount \in 0..MaxTotal
        BY DEF RefundStatus, TypeOK, RefundDocument
      <4>2. [refund[r] EXCEPT !.status = "SUCCEEDED", !.events = refund[r].events \cup {e}]
              \in RefundDocument
        BY <4>1, RefundWrite DEF TypeOK
      <4> QED
        BY <2>21, <4>2 DEF RefundSucceeds, TypeOK
    <3>6. OrderAfterRefund(o, Settle(payment[p], refund[r].amount)) \in OrderDocument
      <4>1. /\ "refunded" \in OrderStatus /\ "refunded" \in OrderPaymentStatus
            /\ "partially_refunded" \in OrderPaymentStatus /\ order[o] \in OrderDocument
        BY <3>1 DEF OrderStatus, OrderPaymentStatus, TypeOK
      <4>2. [order[o] EXCEPT !.paymentStatus = "refunded", !.status = "refunded"] \in OrderDocument
        BY <4>1 DEF OrderDocument
      <4>3. [order[o] EXCEPT !.paymentStatus = "partially_refunded"] \in OrderDocument
        BY <4>1 DEF OrderDocument
      <4> QED
        BY <4>2, <4>3 DEF OrderAfterRefund
    <3>7. order' \in [Orders -> OrderDocument]
      BY <2>21, <3>1, <3>6 DEF RefundSucceeds, TypeOK
    <3> QED
      BY <2>21, <3>4, <3>5, <3>7 DEF RefundSucceeds, TypeOK, stockVars
  <2>22. ASSUME NEW r \in Refunds, NEW e \in EventIds, RefundFails(r, e) PROVE TypeOK'
    <3>1. refund[r].events \cup {e} \in SUBSET EventIds
      BY DEF TypeOK, RefundDocument
    <3> QED
      BY <2>22, <3>1, <2>12 DEF RefundFails
  <2>23. ASSUME NEW o \in Orders, NEW v \in Variants, LineLapses(o, v) PROVE TypeOK'
    BY <2>23 DEF LineLapses, TypeOK, moneyVars
  <2>24. CASE ExpireReservations
    <3>1. "EXPIRED" \in ReservationStatus
      BY DEF ReservationStatus
    <3>2. /\ reservation' \in [Orders -> [Variants -> ReservationStatus]]
          /\ inStock' \in [Variants -> Nat]
          /\ UNCHANGED <<lapsed, corrected, unit>>
      BY <2>24, <3>1, ReturnLinesType DEF ExpireReservations
    <3> QED
      BY <2>24, <3>2 DEF ExpireReservations, TypeOK, moneyVars
  <2> QED
    <3>1. CASE CustomerStep
      BY <3>1, <2>1, <2>2, <2>3, <2>4, <2>5, <2>6, <2>7 DEF CustomerStep
    <3>2. CASE StaffStep
      BY <3>2, <2>8, <2>9, <2>10, <2>11, <2>13, <2>14 DEF StaffStep
    <3>3. CASE ProviderStep
      BY <3>3, <2>15, <2>16, <2>17, <2>18, <2>19, <2>20, <2>21, <2>22 DEF ProviderStep
    <3>4. CASE ClockStep
      BY <3>4, <2>23, <2>24 DEF ClockStep
    <3> QED
      BY <2>0, <3>1, <3>2, <3>3, <3>4 DEF Next
<1> QED
  BY <1>1, <1>2, PTL DEF Spec

-----------------------------------------------------------------------------
(* Kinds of steps                                                          *)

(* Most steps touch neither lines nor amounts: they open an attempt, file  *)
(* a document or a case, or let time pass.                                 *)
SameTotals(p) ==
  /\ payment'[p].captured = payment[p].captured /\ payment'[p].refunded = payment[p].refunded
  /\ payment'[p].reserved = payment[p].reserved /\ payment'[p].net = payment[p].net

SameOrder(o) ==
  /\ order'[o].paymentStatus = order[o].paymentStatus /\ order'[o].serials = order[o].serials
  /\ \/ order'[o].status = order[o].status
     \/ order[o].status = "dispatched" /\ order'[o].status = "completed"

Paperwork ==
  /\ UNCHANGED <<reservation, unit, refund>>
  /\ \A p \in Payments : /\ SameTotals(p)
                         /\ <<"RECEIPT", p>> \in documents' <=> <<"RECEIPT", p>> \in documents
  /\ \A o \in Orders : SameOrder(o)
  /\ \A c \in cases' \ cases : c.category # "provider_database_disagreement"

(* The stock is touched by the desk or not at all.                         *)
QuietStock ==
  \/ UNCHANGED <<inStock, corrected>>
  \/ \E v \in Variants, n \in StockLevels : CorrectStock(v, n)

(* A charge that failed gives back what the order held.                    *)
AttemptFails(p) ==
  /\ \E E \in SUBSET EventIds :
       payment' = [payment EXCEPT ![p] = [@ EXCEPT !.status = "FAILED", !.events = E]]
  /\ ReleaseOrderReservations(Subject[p])
  /\ UNCHANGED <<order, refund, documents, cases>>

OrderKinds ==
  \/ \E o \in Orders, m \in CheckoutMethods : Checkout(o, m) \/ ConvertQuotation(o, m)
  \/ \E o \in Orders : CancelOrder(o)
  \/ \E o \in Orders, t \in {"dispatched", "completed"}, S \in SUBSET Units : FulfillOrder(o, t, S)
  \/ \E p \in Payments, E \in SUBSET EventIds : OrderAwaitsPayment(Subject[p]) /\ CaptureFor(p, E)
  \/ \E p \in Payments : AttemptFails(p)
  \/ ExpireReservations

RefundKinds ==
  \/ \E r \in Refunds, a \in 1..MaxTotal : ReserveRefund(r, a)
  \/ \E r \in Refunds, e \in EventIds : RefundPending(r, e) \/ RefundSucceeds(r, e)
  \/ \E r \in Refunds, t \in {"FAILED", "CANCELLED"}, E \in SUBSET EventIds :
       Refundable(r) /\ ReleaseRefund(r, t, E)

(* Every step is one of these.                                             *)
LEMMA StepKinds ==
  ASSUME TypeOK, [Next]_vars
  PROVE  (Paperwork /\ QuietStock) \/ OrderKinds \/ RefundKinds
<1>0. ASSUME UNCHANGED <<order, stockVars, payment, refund, documents>>,
             \/ UNCHANGED cases
             \/ \E category \in {"payment_binding_mismatch", "duplicate_event_conflict",
                                 "out_of_order_terminal_event", "refund_binding_mismatch"} :
                  \E about : Reconcile(category, about)
      PROVE  Paperwork /\ QuietStock
  <2>1. \A c \in cases' \ cases : c.category # "provider_database_disagreement"
    BY <1>0 DEF Reconcile
  <2> QED
    BY <1>0, <2>1 DEF Paperwork, QuietStock, stockVars, SameTotals, SameOrder
<1>1. ASSUME NEW o \in Orders, IssueInvoice(o) PROVE Paperwork /\ QuietStock
  BY <1>1 DEF IssueInvoice, Paperwork, QuietStock, stockVars, SameTotals, SameOrder
<1>2. ASSUME NEW o \in Orders, NEW doc \in OrderDocument, doc.paymentStatus = order[o].paymentStatus,
             doc.serials = order[o].serials,
             \/ doc.status = order[o].status
             \/ order[o].status = "dispatched" /\ doc.status = "completed",
             order' = [order EXCEPT ![o] = doc], UNCHANGED <<stockVars, refund, documents, cases>>,
             \A p \in Payments : SameTotals(p)
      PROVE  Paperwork /\ QuietStock
  <2>1. \A x \in Orders : SameOrder(x)
    BY <1>2 DEF TypeOK, SameOrder
  <2> QED
    BY <1>2, <2>1 DEF Paperwork, QuietStock, stockVars
<1>3. ASSUME NEW p \in Payments, payment' = [payment EXCEPT ![p].status = "PENDING"]
      PROVE  \A q \in Payments : SameTotals(q)
  BY <1>3 DEF TypeOK, PaymentDocument, SameTotals
<1>4. ASSUME NEW o \in Orders, DeleteReceiptEvidence(o) PROVE Paperwork /\ QuietStock
  <2> DEFINE doc == [order[o] EXCEPT !.receipt = "DELETED"]
  <2>0. order[o] \in OrderDocument
    BY DEF TypeOK
  <2>1. /\ doc \in OrderDocument /\ doc.paymentStatus = order[o].paymentStatus
        /\ doc.serials = order[o].serials /\ doc.status = order[o].status
    BY <2>0 DEF OrderDocument
  <2>2. order' = [order EXCEPT ![o] = doc]
    BY <1>4 DEF DeleteReceiptEvidence
  <2> HIDE DEF doc
  <2> QED
    BY <1>4, <2>1, <2>2, <1>2 DEF DeleteReceiptEvidence, moneyVars, SameTotals
<1>5. ASSUME NEW o \in Orders, ConfirmDelivery(o) PROVE Paperwork /\ QuietStock
  <2> DEFINE doc == [order[o] EXCEPT !.status = "completed"]
  <2>0. order[o] \in OrderDocument /\ "completed" \in OrderStatus
    BY DEF TypeOK, OrderStatus
  <2>1. /\ doc \in OrderDocument /\ doc.paymentStatus = order[o].paymentStatus
        /\ doc.serials = order[o].serials /\ doc.status = "completed"
    BY <2>0 DEF OrderDocument
  <2>2. order' = [order EXCEPT ![o] = doc]
    BY <1>5 DEF ConfirmDelivery
  <2> HIDE DEF doc
  <2> QED
    BY <1>5, <2>1, <2>2, <1>2 DEF ConfirmDelivery, moneyVars, SameTotals
<1>6. ASSUME NEW p \in Payments, CreatePaymentAttempt(p) PROVE Paperwork /\ QuietStock
  BY <1>6, <1>3 DEF CreatePaymentAttempt, Paperwork, QuietStock, stockVars, SameOrder
<1>7. ASSUME NEW p \in Payments, AttachBankTransferEvidence(p) PROVE Paperwork /\ QuietStock
  <2> DEFINE o == Subject[p]
             doc == [order[o] EXCEPT !.receipt = "ACTIVE"]
  <2>0. o \in Orders /\ order[o] \in OrderDocument
    BY CommerceAssumption DEF CommerceAssumption, TypeOK
  <2>1. /\ doc \in OrderDocument /\ doc.paymentStatus = order[o].paymentStatus
        /\ doc.serials = order[o].serials /\ doc.status = order[o].status
    BY <2>0 DEF OrderDocument
  <2>2. order' = [order EXCEPT ![o] = doc]
    BY <1>7 DEF AttachBankTransferEvidence
  <2>3. \A q \in Payments : SameTotals(q)
    BY <1>7, <1>3 DEF AttachBankTransferEvidence
  <2> HIDE DEF doc, o
  <2> QED
    BY <1>7, <2>0, <2>1, <2>2, <2>3, <1>2 DEF AttachBankTransferEvidence
<1>8. CASE CustomerStep
  BY <1>8, <1>1, <1>4, <1>6, <1>7 DEF CustomerStep, OrderKinds
<1>9. ASSUME NEW v \in Variants, NEW n \in StockLevels, CorrectStock(v, n)
      PROVE  Paperwork /\ QuietStock
  BY <1>9 DEF CorrectStock, Paperwork, QuietStock, moneyVars, SameTotals, SameOrder
<1>10. ASSUME NEW r \in Refunds, CancelReservedRefund(r)
       PROVE  (Paperwork /\ QuietStock) \/ RefundKinds
  <2>1. refund[r].events \in SUBSET EventIds
    BY DEF TypeOK, RefundDocument
  <2>2. CASE refund[r].status = "RESERVED" /\ ReleaseRefund(r, "CANCELLED", refund[r].events)
    BY <2>1, <2>2 DEF RefundKinds, Refundable, ACTIVE_REFUNDS
  <2>3. CASE /\ Reconcile("out_of_order_terminal_event", r)
             /\ UNCHANGED <<order, stockVars, payment, refund, documents>>
    BY <2>3, <1>0
  <2> QED
    BY <1>10, <2>2, <2>3 DEF CancelReservedRefund
<1>11. ASSUME NEW p \in Payments, VerifyBankTransfer(p) PROVE OrderKinds
  <2>1. payment[p].events \in SUBSET EventIds
    BY DEF TypeOK, PaymentDocument
  <2> QED
    BY <1>11, <2>1 DEF VerifyBankTransfer, TransferVerifiable, OrderAwaitsPayment, OrderKinds
<1>12. CASE StaffStep
  BY <1>12, <1>5, <1>9, <1>10, <1>11 DEF StaffStep, OrderKinds, RefundKinds
<1>13. ASSUME NEW p \in Payments, NEW e \in EventIds, ChargeSucceeds(p, e)
       PROVE  (Paperwork /\ QuietStock) \/ OrderKinds
  <2>1. payment[p].events \cup {e} \in SUBSET EventIds
    BY DEF TypeOK, PaymentDocument
  <2>2. CASE OrderAwaitsPayment(Subject[p]) /\ CaptureFor(p, payment[p].events \cup {e})
    BY <2>1, <2>2 DEF OrderKinds
  <2>3. CASE /\ Reconcile(IF payment[p].status = "SUCCEEDED" THEN "duplicate_event_conflict"
                          ELSE "out_of_order_terminal_event", p)
             /\ UNCHANGED <<order, stockVars, payment, refund, documents>>
    BY <2>3, <1>0
  <2> QED
    BY <1>13, <2>2, <2>3 DEF ChargeSucceeds
<1>14. ASSUME NEW p \in Payments, NEW e \in EventIds, ChargeFails(p, e)
       PROVE  (Paperwork /\ QuietStock) \/ OrderKinds
  <2>1. payment[p].events \cup {e} \in SUBSET EventIds
    BY DEF TypeOK, PaymentDocument
  <2>2. CASE /\ payment' = [payment EXCEPT ![p] =
                              [@ EXCEPT !.status = "FAILED", !.events = payment[p].events \cup {e}]]
             /\ ReleaseOrderReservations(Subject[p])
             /\ UNCHANGED <<order, refund, documents, cases>>
    BY <2>1, <2>2 DEF OrderKinds, AttemptFails
  <2>3. CASE /\ Reconcile("out_of_order_terminal_event", p)
             /\ UNCHANGED <<order, stockVars, payment, refund, documents>>
    BY <2>3, <1>0
  <2> QED
    BY <1>14, <2>2, <2>3 DEF ChargeFails
<1>15. ASSUME NEW r \in Refunds, NEW e \in EventIds, RefundFails(r, e) PROVE RefundKinds
  <2>1. refund[r].events \cup {e} \in SUBSET EventIds
    BY DEF TypeOK, RefundDocument
  <2> QED
    BY <1>15, <2>1 DEF RefundFails, RefundKinds
<1>16. CASE ProviderStep
  <2>1. ASSUME NEW p \in Payments, PaymentMismatch(p) PROVE Paperwork /\ QuietStock
    BY <2>1, <1>0 DEF PaymentMismatch
  <2>2. ASSUME NEW r \in Refunds, NEW e \in EventIds, RefundEventRejected(r, e)
        PROVE  Paperwork /\ QuietStock
    BY <2>2, <1>0 DEF RefundEventRejected
  <2>3. ASSUME NEW r \in Refunds, NEW e \in EventIds, NEW t, LateRefundEvent(r, e, t)
        PROVE  Paperwork /\ QuietStock
    BY <2>3, <1>0 DEF LateRefundEvent
  <2> QED
    BY <1>16, <1>13, <1>14, <1>15, <2>1, <2>2, <2>3 DEF ProviderStep, RefundKinds
<1>17. CASE ClockStep
  BY <1>17 DEF ClockStep, LineLapses, OrderKinds, Paperwork, QuietStock, moneyVars, SameTotals, SameOrder
<1>18. CASE UNCHANGED vars
  BY <1>18, <1>0 DEF vars, moneyVars
<1> QED
  BY <1>8, <1>12, <1>16, <1>17, <1>18 DEF Next
-----------------------------------------------------------------------------
(* Stock                                                                   *)

Held == {"RESERVED", "ALLOCATED", "CONSUMED"}

(* StockConserved is not inductive alone: a checkout overwrites the lines  *)
(* of its order, so an order nobody placed yet must have none.             *)
NothingHeldUnplaced ==
  \A o \in Orders : order[o].status = "ABSENT" => \A v \in Variants : reservation[o][v] = "ABSENT"

StockInv == TypeOK /\ NothingHeldUnplaced /\ StockConserved

(* What orders hold of a variant is a natural number.                      *)
LEMMA HeldType ==
  ASSUME NEW v \in Variants, NEW S \in SUBSET Orders
  PROVE  /\ IsFiniteSet(S) /\ MaxQuantity \in Nat
         /\ Total(QuantityOf(v), S, MaxQuantity) \in Nat
<1>1. IsFiniteSet(S) /\ MaxQuantity \in Nat
  BY CommerceAssumption, FS_Subset DEF CommerceAssumption
<1> QED
  BY <1>1, TotalType

(* Moving lines among the held states, and stock not at all, conserves.    *)
LEMMA SameHeldConserves ==
  ASSUME StockConserved, UNCHANGED <<inStock, corrected>>,
         \A v \in Variants : OrdersWith(v, Held)' = OrdersWith(v, Held)
  PROVE  StockConserved'
BY DEF StockConserved, Held, QuantityOf

(* Closing live lines puts back exactly what they held.                    *)
LEMMA ReturnConserves ==
  ASSUME TypeOK, StockConserved, NEW L, NEW next \in {"RELEASED", "EXPIRED"},
         \A o \in Orders, v \in Variants : <<o, v>> \in L => reservation[o][v] \in LiveStates,
         ReturnLines(L, next)
  PROVE  StockConserved'
<1> SUFFICES ASSUME NEW v \in Variants
             PROVE  (inStock[v] + Total(QuantityOf(v), OrdersWith(v, Held), MaxQuantity)
                       = OpeningStock[v] + corrected[v])'
  BY DEF StockConserved, Held
<1> DEFINE S == {o \in Orders : <<o, v>> \in L}
           H == OrdersWith(v, Held)
<1>1. S \subseteq H
  BY DEF OrdersWith, Held, LiveStates
<1>2. OrdersWith(v, Held)' = H \ S
  BY DEF OrdersWith, Held, ReturnLines, TypeOK
<1>3. IsFiniteSet(S) /\ IsFiniteSet(H \ S) /\ MaxQuantity \in Nat
  <2>1. S \in SUBSET Orders /\ H \ S \in SUBSET Orders
    BY DEF OrdersWith
  <2> QED
    BY <2>1, HeldType
<1>4. H = (H \ S) \cup S /\ (H \ S) \cap S = {}
  BY <1>1
<1> HIDE DEF S, H
<1>5. Total(QuantityOf(v), H, MaxQuantity)
        = Total(QuantityOf(v), H \ S, MaxQuantity) + Total(QuantityOf(v), S, MaxQuantity)
  BY <1>3, <1>4, TotalUnion
<1>6. /\ Total(QuantityOf(v), H \ S, MaxQuantity) \in Nat
      /\ Total(QuantityOf(v), S, MaxQuantity) \in Nat
  BY <1>3, TotalType
<1>7. inStock'[v] = inStock[v] + Total(QuantityOf(v), S, MaxQuantity) /\ corrected' = corrected
  BY DEF ReturnLines, S
<1>8. inStock[v] + Total(QuantityOf(v), H, MaxQuantity) = OpeningStock[v] + corrected[v]
  BY DEF StockConserved, Held, H
<1>9. inStock[v] \in Nat
  BY DEF TypeOK
<1>10. inStock'[v] + Total(QuantityOf(v), H \ S, MaxQuantity) = OpeningStock[v] + corrected'[v]
  BY <1>5, <1>6, <1>7, <1>8, <1>9
<1> QED
  BY <1>2, <1>10 DEF QuantityOf

(* A checkout takes off the shelf exactly what its new lines hold.         *)
LEMMA CheckoutConserves ==
  ASSUME StockInv, NEW o \in Orders, NEW m \in CheckoutMethods, Checkout(o, m)
  PROVE  StockConserved'
<1> SUFFICES ASSUME NEW v \in Variants
             PROVE  (inStock[v] + Total(QuantityOf(v), OrdersWith(v, Held), MaxQuantity)
                       = OpeningStock[v] + corrected[v])'
  BY DEF StockConserved, Held
<1> DEFINE H == OrdersWith(v, Held)
           q == Quantity[o][v]
           S == IF q > 0 THEN {o} ELSE {}
<1>1. q \in 0..MaxQuantity /\ MaxQuantity \in Nat
  BY CommerceAssumption DEF CommerceAssumption
<1>2. reservation[o][v] = "ABSENT"
  BY DEF StockInv, NothingHeldUnplaced, Checkout
<1>3. o \notin H
  BY <1>2 DEF OrdersWith, Held
<1>4. OrdersWith(v, Held)' = H \cup S
  <2>1. reservation'[o][v] = IF q > 0 THEN "RESERVED" ELSE "ABSENT"
    BY DEF Checkout, Lines, StockInv, TypeOK
  <2>2. \A x \in Orders \ {o} : reservation'[x][v] = reservation[x][v]
    BY DEF Checkout, StockInv, TypeOK
  <2> QED
    BY <1>2, <2>1, <2>2 DEF OrdersWith, Held
<1>5. Total(QuantityOf(v), S, MaxQuantity) = q
  <2>1. QuantityOf(v)[o] = q
    BY DEF QuantityOf
  <2>2. CASE q > 0
    BY <1>1, <2>1, <2>2, TotalSingleton
  <2>3. CASE q = 0
    BY <1>1, <2>3, TotalEmpty
  <2> QED
    BY <1>1, <2>2, <2>3
<1>6. H \in SUBSET Orders /\ S \in SUBSET Orders /\ H \cap S = {}
  BY <1>3 DEF OrdersWith
<1>7. corrected' = corrected /\ inStock'[v] = inStock[v] - q
  BY DEF Checkout
<1>8. inStock[v] + Total(QuantityOf(v), H, MaxQuantity) = OpeningStock[v] + corrected[v]
  BY DEF StockInv, StockConserved, Held
<1>9. inStock[v] \in Nat
  BY DEF StockInv, TypeOK
<1> HIDE DEF S, H
<1>10. IsFiniteSet(H) /\ IsFiniteSet(S) /\ Total(QuantityOf(v), H, MaxQuantity) \in Nat
  BY <1>6, HeldType
<1>11. Total(QuantityOf(v), H \cup S, MaxQuantity) = Total(QuantityOf(v), H, MaxQuantity) + q
  BY <1>1, <1>5, <1>6, <1>10, TotalUnion
<1>12. inStock'[v] + Total(QuantityOf(v), H \cup S, MaxQuantity) = OpeningStock[v] + corrected'[v]
  BY <1>1, <1>7, <1>8, <1>9, <1>10, <1>11
<1> QED
  BY <1>4, <1>12 DEF QuantityOf

(* The inductive step, one case per action that writes what StockInv reads.*)
LEMMA StockStep == StockInv /\ TypeOK' /\ [Next]_vars => StockInv'
<1> SUFFICES ASSUME StockInv, TypeOK', [Next]_vars
             PROVE  NothingHeldUnplaced' /\ StockConserved'
  BY DEF StockInv
<1> USE DEF StockInv
<1>0. ASSUME UNCHANGED <<reservation, inStock, corrected>>,
             \A o \in Orders : order'[o].status = "ABSENT" => order[o].status = "ABSENT"
      PROVE  NothingHeldUnplaced' /\ StockConserved'
  <2>1. NothingHeldUnplaced'
    BY <1>0 DEF NothingHeldUnplaced
  <2>2. \A v \in Variants : OrdersWith(v, Held)' = OrdersWith(v, Held)
    BY <1>0 DEF OrdersWith
  <2> QED
    BY <1>0, <2>1, <2>2, SameHeldConserves
<1>1. ASSUME NEW o \in Orders, NEW m \in CheckoutMethods, Checkout(o, m)
      PROVE  NothingHeldUnplaced' /\ StockConserved'
  <2>1. order'[o].status # "ABSENT"
    BY <1>1 DEF Checkout, PlacedOrder, TypeOK, OrderDocument
  <2>2. \A x \in Orders \ {o} : order'[x] = order[x] /\ reservation'[x] = reservation[x]
    BY <1>1 DEF Checkout, TypeOK
  <2> QED
    BY <1>1, <2>1, <2>2, CheckoutConserves DEF NothingHeldUnplaced
<1>2. ASSUME NEW o \in Orders, NEW m \in CheckoutMethods, ConvertQuotation(o, m)
      PROVE  NothingHeldUnplaced' /\ StockConserved'
  BY <1>0, <1>2 DEF ConvertQuotation, TypeOK, stockVars
<1>3. ASSUME NEW o \in Orders, ReleaseOrderReservations(o),
             \A x \in Orders : order'[x].status = "ABSENT" => order[x].status = "ABSENT"
      PROVE  NothingHeldUnplaced' /\ StockConserved'
  <2> DEFINE L == {o} \X LinesIn(o, LiveStates)
  <2>1. ReturnLines(L, "RELEASED")
    BY <1>3 DEF ReleaseOrderReservations
  <2>2. \A x \in Orders, v \in Variants : <<x, v>> \in L => reservation[x][v] \in LiveStates
    BY DEF LinesIn
  <2>3. StockConserved'
    BY <2>1, <2>2, ReturnConserves
  <2>4. NothingHeldUnplaced'
    BY <1>3, <2>1, <2>2 DEF NothingHeldUnplaced, ReturnLines, LiveStates
  <2> QED
    BY <2>3, <2>4
<1>4. ASSUME NEW o \in Orders, CancelOrder(o)
      PROVE  NothingHeldUnplaced' /\ StockConserved'
  <2>1. \A x \in Orders : order'[x].status = "ABSENT" => order[x].status = "ABSENT"
    BY <1>4 DEF CancelOrder, CancelledOrder, TypeOK, OrderDocument
  <2> QED
    BY <1>3, <1>4, <2>1 DEF CancelOrder
<1>5. ASSUME NEW o \in Orders, NEW t \in {"dispatched", "completed"}, NEW S \in SUBSET Units,
             FulfillOrder(o, t, S)
      PROVE  NothingHeldUnplaced' /\ StockConserved'
  <2>1. \A x \in Orders, v \in Variants :
          \/ reservation'[x][v] = reservation[x][v]
          \/ reservation[x][v] = "ALLOCATED" /\ reservation'[x][v] = "CONSUMED"
    BY <1>5 DEF FulfillOrder, TypeOK
  <2>2. \A v \in Variants : OrdersWith(v, Held)' = OrdersWith(v, Held)
    BY <2>1 DEF OrdersWith, Held
  <2>3. StockConserved'
    BY <1>5, <2>2, SameHeldConserves DEF FulfillOrder
  <2>4. \A x \in Orders : order'[x].status = "ABSENT" => order[x].status = "ABSENT"
    <3> DEFINE T == IF S # {} THEN S ELSE order[o].serials
    <3>1. order' = [order EXCEPT ![o] = [order[o] EXCEPT !.status = t, !.serials = T]]
      BY <1>5 DEF FulfillOrder
    <3>2. [order[o] EXCEPT !.status = t, !.serials = T].status = t
      BY DEF TypeOK, OrderDocument
    <3> HIDE DEF T
    <3> QED
      BY <3>1, <3>2 DEF TypeOK
  <2> QED
    BY <2>1, <2>3, <2>4 DEF NothingHeldUnplaced
<1>6. ASSUME NEW p \in Payments, NEW events, CaptureFor(p, events)
      PROVE  NothingHeldUnplaced' /\ StockConserved'
  <2>1. \A x \in Orders, v \in Variants :
          \/ reservation'[x][v] = reservation[x][v]
          \/ reservation[x][v] = "RESERVED" /\ reservation'[x][v] = "ALLOCATED"
    BY <1>6 DEF CaptureFor, AllocateOrderReservations, TypeOK
  <2>2. \A v \in Variants : OrdersWith(v, Held)' = OrdersWith(v, Held)
    BY <2>1 DEF OrdersWith, Held
  <2>3. StockConserved'
    BY <1>6, <2>2, SameHeldConserves DEF CaptureFor
  <2>4. \A x \in Orders : order'[x].status = "ABSENT" => order[x].status = "ABSENT"
    BY <1>6 DEF CaptureFor, TypeOK, OrderDocument
  <2> QED
    BY <2>1, <2>3, <2>4 DEF NothingHeldUnplaced
<1>7. CASE ExpireReservations
  <2> DEFINE L == {l \in Orders \X Variants :
                     reservation[l[1]][l[2]] \in ExpirableStates /\ l[2] \in lapsed[l[1]]}
  <2>1. ReturnLines(L, "EXPIRED") /\ order' = order
    BY <1>7 DEF ExpireReservations
  <2>2. \A x \in Orders, v \in Variants : <<x, v>> \in L => reservation[x][v] = "RESERVED"
    BY DEF ExpirableStates
  <2>3. StockConserved'
    BY <2>1, <2>2, ReturnConserves DEF LiveStates
  <2>4. NothingHeldUnplaced'
    BY <2>1, <2>2 DEF NothingHeldUnplaced, ReturnLines
  <2> QED
    BY <2>3, <2>4
<1>8. ASSUME NEW v \in Variants, NEW n \in StockLevels, CorrectStock(v, n)
      PROVE  NothingHeldUnplaced' /\ StockConserved'
  <2>1. NothingHeldUnplaced'
    BY <1>8 DEF CorrectStock, NothingHeldUnplaced
  <2>2. ASSUME NEW w \in Variants
        PROVE  (inStock[w] + Total(QuantityOf(w), OrdersWith(w, Held), MaxQuantity)
                  = OpeningStock[w] + corrected[w])'
    <3> DEFINE T == Total(QuantityOf(w), OrdersWith(w, Held), MaxQuantity)
    <3>1. T' = T
      BY <1>8 DEF CorrectStock, OrdersWith, QuantityOf
    <3>2. inStock[w] + T = OpeningStock[w] + corrected[w]
      BY DEF StockConserved, Held
    <3>3. T \in Nat
      BY HeldType DEF OrdersWith
    <3>4. /\ inStock[w] \in Nat /\ corrected[w] \in Int /\ OpeningStock[w] \in Nat
          /\ n \in Nat
      BY CommerceAssumption DEF CommerceAssumption, TypeOK
    <3>5. CASE w = v
      <4>1. inStock'[w] = n /\ corrected'[w] = corrected[w] + (n - inStock[w])
        BY <1>8, <3>5 DEF CorrectStock, TypeOK
      <4>2. inStock'[w] + T = OpeningStock[w] + corrected'[w]
        <5> HIDE DEF T
        <5> QED
          BY <3>2, <3>3, <3>4, <4>1
      <4> QED
        BY <3>1, <4>2
    <3>6. CASE w # v
      <4>1. inStock'[w] = inStock[w] /\ corrected'[w] = corrected[w]
        BY <1>8, <3>6 DEF CorrectStock, TypeOK
      <4> QED
        BY <3>1, <3>2, <4>1
    <3> QED
      BY <3>5, <3>6
  <2> QED
    BY <2>1, <2>2 DEF StockConserved, Held
<1>9. ASSUME UNCHANGED stockVars,
             \A o \in Orders : order'[o].status = "ABSENT" => order[o].status = "ABSENT"
      PROVE  NothingHeldUnplaced' /\ StockConserved'
  BY <1>0, <1>9 DEF stockVars
<1>10. CASE Paperwork /\ QuietStock
  <2>1. \A o \in Orders : order'[o].status = "ABSENT" => order[o].status = "ABSENT"
    BY <1>10 DEF Paperwork, SameOrder
  <2>2. CASE UNCHANGED <<inStock, corrected>>
    BY <1>0, <1>10, <2>1, <2>2 DEF Paperwork
  <2> QED
    BY <1>8, <1>10, <2>2 DEF QuietStock
<1>11. CASE OrderKinds
  <2>1. ASSUME NEW p \in Payments, AttemptFails(p) PROVE NothingHeldUnplaced' /\ StockConserved'
    <3>1. Subject[p] \in Orders
      BY CommerceAssumption DEF CommerceAssumption
    <3> QED
      BY <1>3, <2>1, <3>1 DEF AttemptFails
  <2> QED
    BY <1>11, <1>1, <1>2, <1>4, <1>5, <1>6, <1>7, <2>1 DEF OrderKinds
<1>12. CASE RefundKinds
  <2>1. ASSUME NEW r \in Refunds, NEW e \in EventIds, RefundSucceeds(r, e)
        PROVE  NothingHeldUnplaced' /\ StockConserved'
    <3> DEFINE o == Subject[RefundOf[r]]
               acc == Settle(payment[RefundOf[r]], refund[r].amount)
    <3>1. OrderAfterRefund(o, acc).status = "ABSENT" => order[o].status = "ABSENT"
      <4>1. o \in Orders
        BY CommerceAssumption DEF CommerceAssumption
      <4>2. order[o] \in OrderDocument
        BY <4>1 DEF TypeOK
      <4> QED
        BY <4>2 DEF OrderAfterRefund, OrderDocument
    <3>2. \/ order' = order
          \/ order' = [order EXCEPT ![o] = OrderAfterRefund(o, acc)]
      BY <2>1 DEF RefundSucceeds
    <3>3. \A x \in Orders : order'[x].status = "ABSENT" => order[x].status = "ABSENT"
      BY <3>1, <3>2 DEF TypeOK
    <3> QED
      BY <2>1, <3>3, <1>9 DEF RefundSucceeds
  <2> QED
    BY <1>9, <1>12, <2>1 DEF RefundKinds, ReserveRefund, RefundPending, ReleaseRefund
<1> QED
  BY <1>10, <1>11, <1>12, StepKinds

(* The invariant itself, for the theorems that need its parts.             *)
LEMMA StockInvariant == Spec => []StockInv
<1>1. Init => NothingHeldUnplaced /\ StockConserved
  <2>1. ASSUME Init PROVE StockConserved
    <3> SUFFICES ASSUME NEW v \in Variants
                 PROVE  inStock[v] + Total(QuantityOf(v), OrdersWith(v, Held), MaxQuantity)
                          = OpeningStock[v] + corrected[v]
      BY DEF StockConserved, Held
    <3>1. OrdersWith(v, Held) = {}
      BY <2>1 DEF Init, OrdersWith, Held
    <3>2. Total(QuantityOf(v), OrdersWith(v, Held), MaxQuantity) = 0
      BY <3>1, TotalEmpty, HeldType
    <3>3. inStock[v] = OpeningStock[v] /\ corrected[v] = 0 /\ OpeningStock[v] \in Nat
      BY <2>1, CommerceAssumption DEF CommerceAssumption, Init
    <3> QED
      BY <3>2, <3>3
  <2> QED
    BY <2>1 DEF Init, NothingHeldUnplaced
<1> QED
  BY <1>1, StockStep, TypeCorrect, PTL DEF Spec, StockInv

(* Stock is neither lost nor made: for any orders, carts and payments, the *)
(* shelf and what orders hold or took away add up to what the store opened *)
(* with and what the inventory desk moved.                                 *)
THEOREM StockIsConserved == Spec => []StockConserved
<1>1. StockInv => StockConserved
  BY DEF StockInv
<1> QED
  BY <1>1, StockInvariant, PTL

-----------------------------------------------------------------------------
(* Lines and the shelf                                                     *)

(* What one step may do to the line of an order, and on what condition.    *)
LineMove(o, v) ==
  \/ reservation'[o][v] = reservation[o][v]
  \/ /\ reservation[o][v] = "ABSENT" /\ reservation'[o][v] = "RESERVED"
     /\ order[o].status = "ABSENT" /\ order'[o].status = "pending_payment"
  \/ /\ reservation[o][v] = "RESERVED" /\ reservation'[o][v] = "ALLOCATED"
     /\ \E p \in PaymentsOf(o) : payment'[p].captured = OrderTotal[o]
  \/ reservation[o][v] \in LiveStates /\ reservation'[o][v] = "RELEASED"
  \/ reservation[o][v] = "RESERVED" /\ reservation'[o][v] = "EXPIRED"
  \/ /\ reservation[o][v] = "ALLOCATED" /\ reservation'[o][v] = "CONSUMED"
     /\ order[o].paymentStatus = "paid"

LEMMA LineMoves ==
  ASSUME StockInv, [Next]_vars, NEW o \in Orders, NEW v \in Variants
  PROVE  LineMove(o, v)
<1> USE DEF LineMove
<1>0. TypeOK
  BY DEF StockInv
<1>1. CASE Paperwork \/ RefundKinds
  BY <1>1 DEF Paperwork, RefundKinds, ReserveRefund, RefundPending, RefundSucceeds, ReleaseRefund,
     stockVars
<1>2. ASSUME NEW x \in Orders, NEW m \in CheckoutMethods, Checkout(x, m) PROVE LineMove(o, v)
  <2>1. x # o => reservation'[o][v] = reservation[o][v]
    BY <1>0, <1>2 DEF Checkout, TypeOK
  <2>2. CASE x = o
    <3>1. reservation[o][v] = "ABSENT" /\ order[o].status = "ABSENT"
      BY <1>2, <2>2 DEF Checkout, StockInv, NothingHeldUnplaced
    <3>2. reservation'[o][v] \in {"RESERVED", "ABSENT"}
      BY <1>0, <1>2, <2>2 DEF Checkout, TypeOK
    <3>3. order'[o].status = "pending_payment"
      BY <1>0, <1>2, <2>2 DEF Checkout, PlacedOrder, TypeOK, OrderDocument
    <3> QED
      BY <3>1, <3>2, <3>3
  <2> QED
    BY <2>1, <2>2
<1>3. ASSUME NEW x \in Orders, NEW m \in CheckoutMethods, ConvertQuotation(x, m)
      PROVE  LineMove(o, v)
  BY <1>3 DEF ConvertQuotation, stockVars
<1>4. ASSUME NEW x \in Orders, ReleaseOrderReservations(x) PROVE LineMove(o, v)
  BY <1>0, <1>4 DEF ReleaseOrderReservations, ReturnLines, LinesIn, TypeOK
<1>5. ASSUME NEW x \in Orders, NEW t, NEW S, FulfillOrder(x, t, S) PROVE LineMove(o, v)
  BY <1>0, <1>5 DEF FulfillOrder, Fulfillable, TypeOK
<1>6. ASSUME NEW p \in Payments, NEW E, CaptureFor(p, E) PROVE LineMove(o, v)
  <2>1. Subject[p] # o => reservation'[o][v] = reservation[o][v]
    BY <1>0, <1>6 DEF CaptureFor, AllocateOrderReservations, TypeOK
  <2>2. CASE Subject[p] = o
    <3>1. payment[p] \in PaymentDocument
      BY <1>0 DEF TypeOK
    <3>2. payment'[p] = [Capture(payment[p], OrderTotal[o]) EXCEPT !.events = E]
      BY <1>0, <1>6, <2>2 DEF CaptureFor, TypeOK
    <3>3. payment'[p].captured = OrderTotal[o]
      BY <3>1, <3>2 DEF Capture, PaymentDocument
    <3>4. \/ reservation'[o][v] = reservation[o][v]
          \/ reservation[o][v] = "RESERVED" /\ reservation'[o][v] = "ALLOCATED"
      BY <1>0, <1>6, <2>2 DEF CaptureFor, AllocateOrderReservations, TypeOK
    <3> QED
      BY <2>2, <3>3, <3>4 DEF PaymentsOf
  <2> QED
    BY <2>1, <2>2
<1>7. CASE ExpireReservations
  BY <1>0, <1>7 DEF ExpireReservations, ExpirableStates, ReturnLines, TypeOK
<1>8. ASSUME NEW p \in Payments, AttemptFails(p) PROVE LineMove(o, v)
  <2>1. Subject[p] \in Orders
    BY CommerceAssumption DEF CommerceAssumption
  <2> QED
    BY <1>4, <1>8, <2>1 DEF AttemptFails
<1>9. CASE OrderKinds
  BY <1>9, <1>2, <1>3, <1>4, <1>5, <1>6, <1>7, <1>8 DEF OrderKinds, CancelOrder
<1> QED
  BY <1>0, <1>1, <1>9, StepKinds

(* A reservation moves only forward: neither the expiry job nor a failed   *)
(* payment, however late, touches what was shipped, and an allocation is   *)
(* never expired.                                                          *)
THEOREM LinesMoveForward == Spec => ReservationsMoveForward
<1>1. StockInv /\ [Next]_vars =>
        [\A o \in Orders, v \in Variants :
           reservation'[o][v] # reservation[o][v]
             => <<reservation[o][v], reservation'[o][v]>> \in ReservationMoves]_vars
  BY LineMoves DEF LineMove, LiveStates, ReservationMoves
<1> QED
  BY <1>1, StockInvariant, PTL DEF Spec, ReservationsMoveForward

(* Steps that move no line and no stock are stutters of the shelf.         *)
LEMMA SameClaims ==
  ASSUME \A o \in Orders, v \in Variants : Claim(reservation'[o][v]) = Claim(reservation[o][v])
  PROVE  Claims' = Claims
BY DEF Claims

(* The shelf counts as the store does.                                     *)
LEMMA ShelfTotal ==
  ASSUME NEW weight, NEW S, NEW max
  PROVE  Shelf!Total(weight, S, max) = Total(weight, S, max)
<1>1. Shelf!Pieces(weight, S, max) = Pieces(weight, S, max)
  BY DEF Shelf!Pieces, Pieces
<1>2. ASSUME NEW T PROVE Shelf!Cardinality(T) = Cardinality(T)
  BY DEF Shelf!Cardinality, Cardinality
<1> QED
  BY <1>1, <1>2 DEF Shelf!Total, Total

(* Returned lines are given back.                                          *)
LEMMA ShelfReturn ==
  ASSUME TypeOK, NEW L \in SUBSET (Orders \X Variants), NEW next \in {"RELEASED", "EXPIRED"},
         \A o \in Orders, v \in Variants : <<o, v>> \in L => reservation[o][v] \in LiveStates,
         ReturnLines(L, next)
  PROVE  Shelf!ShelfNext
<1>1. \A l \in L : Claims[l[1]][l[2]] = "held"
  BY DEF Claims, Claim, LiveStates
<1>2. Claims' = [o \in Orders |-> [v \in Variants |->
                   IF <<o, v>> \in L THEN "back" ELSE Claims[o][v]]]
  <2>1. ASSUME NEW o \in Orders, NEW v \in Variants
        PROVE  Claim(reservation'[o][v]) = IF <<o, v>> \in L THEN "back" ELSE Claim(reservation[o][v])
    <3>1. reservation'[o][v] = IF <<o, v>> \in L THEN next ELSE reservation[o][v]
      BY DEF ReturnLines
    <3>2. Claim(next) = "back"
      BY DEF Claim
    <3> QED
      BY <3>1, <3>2
  <2> QED
    BY <2>1 DEF Claims
<1>3. inStock' = [v \in Variants |->
        inStock[v] + Shelf!Total(Shelf!Weight(v), {o \in Orders : <<o, v>> \in L}, MaxQuantity)]
  <2>1. ASSUME NEW v \in Variants
        PROVE  Shelf!Total(Shelf!Weight(v), {o \in Orders : <<o, v>> \in L}, MaxQuantity)
                 = Total(QuantityOf(v), {o \in Orders : <<o, v>> \in L}, MaxQuantity)
    <3>1. Shelf!Weight(v) = QuantityOf(v)
      BY DEF Shelf!Weight, QuantityOf
    <3> QED
      BY <3>1, ShelfTotal
  <2> QED
    BY <2>1 DEF ReturnLines
<1>4. Shelf!GiveBack(L)
  BY <1>1, <1>2, <1>3 DEF Shelf!GiveBack
<1> QED
  BY <1>4 DEF Shelf!ShelfNext

(* What handlers do to reservations and stock is taking all the lines of   *)
(* an order, giving back held lines, shipping held lines and correcting a  *)
(* level: the store implements StockShelf.                                 *)
THEOREM StoreKeepsTheShelf == Spec => ShelfSpec
<1>1. Init => Shelf!ShelfInit
  BY DEF Init, Shelf!ShelfInit, Claims, Claim
<1>2. StockInv /\ [Next]_vars => [Shelf!ShelfNext]_(Shelf!shelfVars)
  <2> SUFFICES ASSUME StockInv, [Next]_vars
               PROVE  Shelf!ShelfNext \/ (inStock' = inStock /\ Claims' = Claims)
    BY DEF Shelf!shelfVars
  <2>0. TypeOK
    BY DEF StockInv
  <2>1. CASE Paperwork /\ QuietStock
    <3>1. Claims' = Claims
      BY <2>1, SameClaims DEF Paperwork
    <3>2. ASSUME NEW v \in Variants, NEW n \in StockLevels, CorrectStock(v, n)
          PROVE  Shelf!ShelfNext
      <4>1. inStock' = [inStock EXCEPT ![v] = n] /\ inStock'[v] = n /\ n \in Nat
        BY <2>0, <3>2, CommerceAssumption DEF CommerceAssumption, CorrectStock, TypeOK
      <4>2. Shelf!Correct(v)
        BY <3>1, <4>1 DEF Shelf!Correct
      <4> QED
        BY <4>2 DEF Shelf!ShelfNext
    <3> QED
      BY <2>1, <3>1, <3>2 DEF QuietStock
  <2>2. CASE RefundKinds
    <3>1. UNCHANGED stockVars
      BY <2>2 DEF RefundKinds, ReserveRefund, RefundPending, RefundSucceeds, ReleaseRefund
    <3> QED
      BY <3>1, SameClaims DEF stockVars
  <2>3. ASSUME NEW o \in Orders, NEW m \in CheckoutMethods, Checkout(o, m) PROVE Shelf!ShelfNext
    <3>1. ASSUME NEW v \in Variants
          PROVE  Claims[o][v] = "none" /\ Quantity[o][v] \in Nat /\ Quantity[o][v] <= inStock[v]
      <4>1. Quantity[o][v] \in Nat /\ inStock[v] \in Nat
        BY <2>0, CommerceAssumption DEF CommerceAssumption, TypeOK
      <4>2. Quantity[o][v] > 0 => Quantity[o][v] <= inStock[v]
        BY <2>3 DEF Checkout, Coverable, Lines
      <4>3. Claims[o][v] = "none"
        BY <2>3 DEF Checkout, StockInv, NothingHeldUnplaced, Claims, Claim
      <4> QED
        BY <4>1, <4>2, <4>3
    <3>2. ASSUME NEW x \in Orders
          PROVE  [v \in Variants |-> Claim(reservation'[x][v])] =
                   IF x = o THEN [v \in Variants |-> IF Quantity[o][v] > 0 THEN "held" ELSE "none"]
                   ELSE Claims[x]
      <4>1. CASE x = o
        <5>1. ASSUME NEW v \in Variants
              PROVE  Claim(reservation'[o][v]) = IF Quantity[o][v] > 0 THEN "held" ELSE "none"
          <6>1. reservation'[o][v] = IF Quantity[o][v] > 0 THEN "RESERVED" ELSE "ABSENT"
            BY <2>0, <2>3 DEF Checkout, Lines, TypeOK
          <6> QED
            BY <6>1 DEF Claim
        <5> QED
          BY <4>1, <5>1
      <4>2. CASE x # o
        <5>1. reservation'[x] = reservation[x]
          BY <2>0, <2>3, <4>2 DEF Checkout, TypeOK
        <5> QED
          BY <4>2, <5>1 DEF Claims
      <4> QED
        BY <4>1, <4>2
    <3>3. Claims' = [Claims EXCEPT ![o] =
                       [v \in Variants |-> IF Quantity[o][v] > 0 THEN "held" ELSE "none"]]
      BY <3>2 DEF Claims
    <3>4. Shelf!Take(o)
      BY <2>3, <3>1, <3>3 DEF Checkout, Shelf!Take
    <3> QED
      BY <3>4 DEF Shelf!ShelfNext
  <2>4. ASSUME NEW o \in Orders, NEW m \in CheckoutMethods, ConvertQuotation(o, m)
        PROVE  inStock' = inStock /\ Claims' = Claims
    BY <2>4, SameClaims DEF ConvertQuotation, stockVars
  <2>5. ASSUME NEW o \in Orders, ReleaseOrderReservations(o) PROVE Shelf!ShelfNext
    <3> DEFINE L == {o} \X LinesIn(o, LiveStates)
    <3>1. /\ L \in SUBSET (Orders \X Variants) /\ ReturnLines(L, "RELEASED")
          /\ \A x \in Orders, v \in Variants : <<x, v>> \in L => reservation[x][v] \in LiveStates
      BY <2>5 DEF ReleaseOrderReservations, LinesIn
    <3> HIDE DEF L
    <3> QED
      BY <2>0, <3>1, ShelfReturn
  <2>6. ASSUME NEW o \in Orders, NEW t, NEW S, FulfillOrder(o, t, S) PROVE Shelf!ShelfNext
    <3> DEFINE W == LinesIn(o, {"ALLOCATED"})
    <3>1. W \in SUBSET Variants /\ \A v \in W : Claims[o][v] = "held"
      BY DEF LinesIn, Claims, Claim
    <3>2. ASSUME NEW x \in Orders
          PROVE  [v \in Variants |-> Claim(reservation'[x][v])] =
                   IF x = o THEN [v \in Variants |-> IF v \in W THEN "gone" ELSE Claims[o][v]]
                   ELSE Claims[x]
      <4>1. CASE x = o
        <5>1. ASSUME NEW v \in Variants
              PROVE  Claim(reservation'[o][v]) =
                       IF v \in W THEN "gone" ELSE Claim(reservation[o][v])
          <6>1. reservation'[o][v] = IF v \in W THEN "CONSUMED" ELSE reservation[o][v]
            BY <2>0, <2>6 DEF FulfillOrder, LinesIn, TypeOK
          <6>2. Claim("CONSUMED") = "gone"
            BY DEF Claim
          <6> QED
            BY <6>1, <6>2
        <5> HIDE DEF W
        <5> QED
          BY <4>1, <5>1 DEF Claims
      <4>2. CASE x # o
        <5>1. reservation'[x] = reservation[x]
          BY <2>0, <2>6, <4>2 DEF FulfillOrder, TypeOK
        <5> QED
          BY <4>2, <5>1 DEF Claims
      <4> QED
        BY <4>1, <4>2
    <3>3. Claims' = [Claims EXCEPT ![o] = [v \in Variants |-> IF v \in W THEN "gone" ELSE @[v]]]
      <4> HIDE DEF W
      <4> QED
        BY <3>2 DEF Claims
    <3>4. Shelf!Ship(o, W)
      BY <2>6, <3>1, <3>3 DEF FulfillOrder, Shelf!Ship
    <3> QED
      BY <3>1, <3>4 DEF Shelf!ShelfNext
  <2>7. ASSUME NEW p \in Payments, NEW E, CaptureFor(p, E)
        PROVE  inStock' = inStock /\ Claims' = Claims
    <3>1. \A o \in Orders, v \in Variants : Claim(reservation'[o][v]) = Claim(reservation[o][v])
      BY <2>0, <2>7 DEF CaptureFor, AllocateOrderReservations, TypeOK, Claim
    <3> QED
      BY <2>7, <3>1, SameClaims DEF CaptureFor
  <2>8. ASSUME NEW p \in Payments, AttemptFails(p) PROVE Shelf!ShelfNext
    <3>1. Subject[p] \in Orders
      BY CommerceAssumption DEF CommerceAssumption
    <3> QED
      BY <2>5, <2>8, <3>1 DEF AttemptFails
  <2>9. CASE ExpireReservations
    <3> DEFINE L == {l \in Orders \X Variants :
                       reservation[l[1]][l[2]] \in ExpirableStates /\ l[2] \in lapsed[l[1]]}
    <3>1. /\ L \in SUBSET (Orders \X Variants) /\ ReturnLines(L, "EXPIRED")
          /\ \A x \in Orders, v \in Variants : <<x, v>> \in L => reservation[x][v] \in LiveStates
      BY <2>9 DEF ExpireReservations, ExpirableStates, LiveStates
    <3> HIDE DEF L
    <3> QED
      BY <2>0, <3>1, ShelfReturn
  <2>10. CASE OrderKinds
    BY <2>10, <2>3, <2>4, <2>5, <2>6, <2>7, <2>8, <2>9 DEF OrderKinds, CancelOrder
  <2> QED
    BY <2>0, <2>1, <2>2, <2>10, StepKinds
<1> QED
  BY <1>1, <1>2, StockInvariant, PTL DEF Spec, ShelfSpec, Shelf!ShelfSpec

-----------------------------------------------------------------------------
(* The invariant                                                           *)

(* An order is payable only from its checkout to its cancellation.         *)
PayableWhilePlaced ==
  \A o \in Orders :
    /\ order[o].status = "ABSENT" => order[o].paymentStatus = "ABSENT"
    /\ order[o].status = "cancelled" => order[o].paymentStatus # "pending"

(* A payment takes the whole total of its order or nothing.                *)
CapturedWhole ==
  \A p \in Payments : payment[p].captured \in {0, OrderTotal[Subject[p]]}

(* No refund of nothing: one would turn the order "partially_refunded"     *)
(* without any money moving.                                               *)
RefundsPositive ==
  \A r \in Refunds : refund[r].status # "ABSENT" => refund[r].amount > 0

(* What an order was given is no longer for sale.                          *)
SoldUnitsGone ==
  \A o \in Orders : \A u \in order[o].serials : unit[u] = "CONSUMED"

MoneyInv ==
  /\ StockInv
  /\ PayableWhilePlaced /\ CapturedWhole /\ RefundsPositive /\ SoldUnitsGone
  /\ GoodsGoToPayers /\ CapturedOnce /\ BooksAgree

(* What refunds in the given states ask of payment p.                      *)
Asked(p, states) == Total(RefundAmount, RefundsIn(p, states), MaxTotal)

-----------------------------------------------------------------------------
(* Reading the invariant                                                   *)

LEMMA AskedType ==
  ASSUME NEW p \in Payments, NEW states
  PROVE  Asked(p, states) \in Nat /\ Asked(p, states)' \in Nat
<1>1. IsFiniteSet(RefundsIn(p, states)) /\ IsFiniteSet(RefundsIn(p, states)') /\ MaxTotal \in Nat
  BY CommerceAssumption, FS_Subset DEF CommerceAssumption, RefundsIn
<1> QED
  BY <1>1, TotalType DEF Asked

(* The totals of a payment, as numbers.                                    *)
LEMMA Totals ==
  ASSUME MoneyInv, NEW p \in Payments
  PROVE  /\ payment[p] \in PaymentDocument
         /\ payment[p].captured \in Nat /\ payment[p].refunded \in Nat
         /\ payment[p].reserved \in Nat /\ payment[p].net \in Int
         /\ payment[p].reserved = Asked(p, ACTIVE_REFUNDS)
         /\ payment[p].refunded = Asked(p, {"SUCCEEDED"})
         /\ payment[p].refunded + payment[p].reserved <= payment[p].captured
         /\ payment[p].net = payment[p].captured - payment[p].refunded
<1>1. payment[p] \in PaymentDocument
  BY DEF MoneyInv, StockInv, TypeOK
<1>2. /\ payment[p].reserved = Asked(p, ACTIVE_REFUNDS)
      /\ payment[p].refunded = Asked(p, {"SUCCEEDED"})
      /\ payment[p].refunded + payment[p].reserved <= payment[p].captured
      /\ payment[p].net = payment[p].captured - payment[p].refunded
  BY DEF MoneyInv, BooksAgree, PaymentTotalsExact, Balanced, Asked, ACTIVE_REFUNDS
<1>3. Asked(p, ACTIVE_REFUNDS) \in Nat /\ Asked(p, {"SUCCEEDED"}) \in Nat
  BY AskedType
<1>4. payment[p].captured \in Int /\ payment[p].net \in Int
  BY <1>1 DEF PaymentDocument
<1> QED
  BY <1>1, <1>2, <1>3, <1>4

(* A callback may still capture only an order no payment was captured for. *)
LEMMA PendingUncaptured ==
  ASSUME MoneyInv, NEW o \in Orders, order[o].paymentStatus \in {"ABSENT", "pending"},
         NEW p \in PaymentsOf(o)
  PROVE  payment[p].captured = 0
<1>1. p \in Payments
  BY DEF PaymentsOf
<1>2. ~(payment[p].captured > 0)
  BY DEF MoneyInv, BooksAgree, OrderMirrorsPayments
<1> QED
  BY <1>1, <1>2, Totals

(* The totals of a payment always cover its refunds in flight: a callback  *)
(* about one never finds that they disagree.                               *)
LEMMA Covered ==
  ASSUME MoneyInv, NEW r \in Refunds, Refundable(r)
  PROVE  /\ refund[r].amount \in 1..MaxTotal
         /\ payment[RefundOf[r]].reserved >= refund[r].amount
         /\ payment[RefundOf[r]].refunded + refund[r].amount <= payment[RefundOf[r]].captured
         /\ ~Disagrees(r)
<1> DEFINE p == RefundOf[r]
           R == RefundsIn(p, ACTIVE_REFUNDS)
           a == refund[r].amount
<1>1. p \in Payments /\ MaxTotal \in Nat /\ IsFiniteSet(R)
  BY CommerceAssumption, FS_Subset DEF CommerceAssumption, RefundsIn
<1>2. r \in R
  BY DEF RefundsIn, Refundable
<1>3. a \in 0..MaxTotal /\ a > 0
  BY DEF MoneyInv, StockInv, TypeOK, RefundDocument, RefundsPositive, Refundable, ACTIVE_REFUNDS
<1>4. RefundAmount[r] = a
  BY DEF RefundAmount
<1>5. /\ Total(RefundAmount, R \ {r}, MaxTotal) \in Nat
      /\ Asked(p, ACTIVE_REFUNDS) = Total(RefundAmount, R \ {r}, MaxTotal) + a
  <2> HIDE DEF R
  <2> QED
    BY <1>1, <1>2, <1>3, <1>4, TotalSplit DEF Asked, R
<1>6. payment[p].reserved >= a /\ payment[p].refunded + a <= payment[p].captured
  BY <1>1, <1>3, <1>5, Totals
<1>7. ~Disagrees(r)
  <2>1. payment[p].reserved \in Nat /\ payment[p].refunded \in Nat /\ payment[p].captured \in Nat
    BY <1>1, Totals
  <2> QED
    BY <1>1, <1>3, <1>6, <2>1 DEF Disagrees
<1> QED
  BY <1>1, <1>3, <1>6, <1>7

(* Writing one refund moves what is asked of each payment by what the      *)
(* refund asked of it before and after.                                    *)
Share(r, doc, p, states) ==
  IF RefundOf[r] = p /\ doc.status \in states THEN doc.amount ELSE 0

LEMMA AskedMoves ==
  ASSUME TypeOK, NEW r \in Refunds, NEW doc \in RefundDocument,
         refund' = [refund EXCEPT ![r] = doc],
         NEW p \in Payments, NEW states
  PROVE  Asked(p, states)' + Share(r, refund[r], p, states)
           = Asked(p, states) + Share(r, doc, p, states)
<1> DEFINE S == RefundsIn(p, states)
           T == {s \in Refunds : RefundOf[s] = p /\ refund'[s].status \in states}
           f == RefundAmount
           g == [s \in Refunds |-> refund'[s].amount]
<1>0. Asked(p, states) = Total(f, S, MaxTotal) /\ Asked(p, states)' = Total(g, T, MaxTotal)
  BY DEF Asked, RefundsIn, RefundAmount
<1>1. IsFiniteSet(S) /\ IsFiniteSet(T) /\ MaxTotal \in Nat
  BY CommerceAssumption, FS_Subset DEF CommerceAssumption, RefundsIn
<1>2. /\ f[r] = refund[r].amount /\ g[r] = doc.amount
      /\ f[r] \in 0..MaxTotal /\ g[r] \in 0..MaxTotal
  BY DEF RefundAmount, TypeOK, RefundDocument
<1>3. \A s \in Refunds \ {r} : refund'[s] = refund[s]
  BY DEF TypeOK
<1>4. S \ {r} = T \ {r} /\ \A s \in S \ {r} : f[s] = g[s]
  BY <1>3 DEF RefundsIn, RefundAmount
<1>5. /\ r \in S <=> RefundOf[r] = p /\ refund[r].status \in states
      /\ r \in T <=> RefundOf[r] = p /\ doc.status \in states
  BY DEF RefundsIn, TypeOK
<1> DEFINE n == Total(f, S \ {r}, MaxTotal)
<1>6. n = Total(g, T \ {r}, MaxTotal)
  <2> HIDE DEF S, T, f, g
  <2> QED
    BY <1>1, <1>4, TotalCongruence DEF n
<1>7. n \in Nat
  <2>1. IsFiniteSet(S \ {r})
    BY <1>1, FS_Subset
  <2> QED
    BY <1>1, <2>1, TotalType
<1>8. Total(f, S, MaxTotal) = n + Share(r, refund[r], p, states)
  <2>1. CASE r \in S
    <3>1. Share(r, refund[r], p, states) = f[r]
      BY <1>2, <1>5, <2>1 DEF Share
    <3> HIDE DEF S, f
    <3> QED
      BY <1>1, <1>2, <2>1, <3>1, TotalSplit DEF n
  <2>2. CASE r \notin S
    <3>1. Share(r, refund[r], p, states) = 0 /\ S \ {r} = S
      BY <1>5, <2>2 DEF Share
    <3> HIDE DEF S, f
    <3> QED
      BY <1>7, <3>1 DEF n
  <2> QED
    BY <2>1, <2>2
<1>9. Total(g, T, MaxTotal) = n + Share(r, doc, p, states)
  <2>1. CASE r \in T
    <3>1. Share(r, doc, p, states) = g[r]
      BY <1>2, <1>5, <2>1 DEF Share
    <3> HIDE DEF T, g, n
    <3> QED
      BY <1>1, <1>2, <1>6, <2>1, <3>1, TotalSplit
  <2>2. CASE r \notin T
    <3>1. Share(r, doc, p, states) = 0 /\ T \ {r} = T
      BY <1>5, <2>2 DEF Share
    <3> HIDE DEF T, g, n
    <3> QED
      BY <1>6, <1>7, <3>1
  <2> QED
    BY <2>1, <2>2
<1>10. Share(r, refund[r], p, states) \in Nat /\ Share(r, doc, p, states) \in Nat
  BY <1>2 DEF Share
<1> HIDE DEF n, S, T, f, g
<1> QED
  BY <1>0, <1>7, <1>8, <1>9, <1>10

-----------------------------------------------------------------------------
(* What a step does to money and orders                                    *)

SameMoney ==
  /\ refund' = refund
  /\ \A p \in Payments : /\ SameTotals(p)
                         /\ <<"RECEIPT", p>> \in documents' <=> <<"RECEIPT", p>> \in documents
  /\ \A c \in cases' \ cases : c.category # "provider_database_disagreement"

Placed(o) ==
  /\ order[o].status = "ABSENT" /\ order'[o].status = "pending_payment"
  /\ order'[o].serials = order[o].serials

Cancelled(o) ==
  /\ order'[o].status = "cancelled" /\ \A v \in Variants : reservation'[o][v] \notin LiveStates
  /\ order'[o].paymentStatus = PaymentStatusAfterCancel(order[o].paymentStatus)
  /\ order'[o].serials = order[o].serials

Fulfilled(o) ==
  /\ order[o].status # "ABSENT" /\ order'[o].status \in {"dispatched", "completed"}
  /\ order'[o].paymentStatus = order[o].paymentStatus

(* A step that moves no money leaves each order alone or does one of these.*)
OrderMove(o) == SameOrder(o) \/ Placed(o) \/ Cancelled(o) \/ Fulfilled(o)

Captured(p) ==
  LET o == Subject[p] IN
  /\ order[o].paymentStatus = "pending"
  /\ order'[o].status = "paid" /\ order'[o].paymentStatus = "paid"
  /\ \A x \in Orders \ {o} : order'[x] = order[x]
  /\ payment'[p].captured = OrderTotal[o] /\ payment'[p].net = OrderTotal[o]
  /\ payment'[p].refunded = 0 /\ payment'[p].reserved = 0
  /\ \A q \in Payments \ {p} : payment'[q] = payment[q]
  /\ documents' = documents \cup VerifiedDocuments(p)
  /\ UNCHANGED <<refund, cases>>

(* Writing doc for refund r moves the totals of its payment by what the    *)
(* refund asks before and after, and keeps them balanced.                  *)
Rebalanced(r, doc, p) ==
  /\ payment'[p].captured = payment[p].captured
  /\ payment'[p].reserved + Share(r, refund[r], p, ACTIVE_REFUNDS)
       = payment[p].reserved + Share(r, doc, p, ACTIVE_REFUNDS)
  /\ payment'[p].refunded + Share(r, refund[r], p, {"SUCCEEDED"})
       = payment[p].refunded + Share(r, doc, p, {"SUCCEEDED"})
  /\ Balanced(payment'[p])

RefundedOrder(p) ==
  LET o == Subject[p] IN
  /\ order'[o].status \in {order[o].status, "refunded"}
  /\ order'[o].paymentStatus =
       IF payment'[p].refunded = payment'[p].captured THEN "refunded" ELSE "partially_refunded"

RefundWritten(r, doc) ==
  /\ refund[r].status \in {"ABSENT"} \cup ACTIVE_REFUNDS
  /\ doc.status \in RefundStatus \ {"ABSENT"} /\ doc.amount \in 1..MaxTotal
  /\ refund[r].status = "ABSENT" => doc.status = "RESERVED"
  /\ refund[r].status # "ABSENT" => doc.amount = refund[r].amount
  /\ refund' = [refund EXCEPT ![r] = doc]
  /\ \A p \in Payments : Rebalanced(r, doc, p)
  /\ IF doc.status = "SUCCEEDED" THEN RefundedOrder(RefundOf[r])
     ELSE order'[Subject[RefundOf[r]]] = order[Subject[RefundOf[r]]]
  /\ \A x \in Orders \ {Subject[RefundOf[r]]} : order'[x] = order[x]
  /\ UNCHANGED <<documents, cases>>

(* The other payments of the store have no part in a refund.               *)
LEMMA OthersBalanced ==
  ASSUME MoneyInv, NEW r \in Refunds, NEW doc,
         \A q \in Payments \ {RefundOf[r]} : payment'[q] = payment[q],
         Rebalanced(r, doc, RefundOf[r])
  PROVE  \A p \in Payments : Rebalanced(r, doc, p)
<1> SUFFICES ASSUME NEW q \in Payments, q # RefundOf[r] PROVE Rebalanced(r, doc, q)
  OBVIOUS
<1>1. payment'[q] = payment[q] /\ Balanced(payment[q])
  BY DEF MoneyInv, BooksAgree, PaymentTotalsExact
<1>2. \A d, st : Share(r, d, q, st) = 0
  BY DEF Share
<1> QED
  BY <1>1, <1>2 DEF Rebalanced

LEMMA ReserveWrites ==
  ASSUME MoneyInv, NEW r \in Refunds, NEW a \in 1..MaxTotal, ReserveRefund(r, a)
  PROVE  \E doc \in RefundDocument : RefundWritten(r, doc)
<1> DEFINE p == RefundOf[r]
           doc == [refund[r] EXCEPT !.status = "RESERVED", !.amount = a]
           acc == Hold(payment[p], a)
<1>1. p \in Payments /\ MaxTotal \in Nat /\ a \in Nat /\ a \in 1..MaxTotal
  BY CommerceAssumption DEF CommerceAssumption
<1>2. refund[r] \in RefundDocument /\ refund[r].status = "ABSENT"
  BY DEF MoneyInv, StockInv, TypeOK, ReserveRefund
<1>3. doc \in RefundDocument /\ doc.status = "RESERVED" /\ doc.amount = a
  <2>1. "RESERVED" \in RefundStatus /\ a \in 0..MaxTotal /\ {} \in SUBSET EventIds
    BY <1>1 DEF RefundStatus
  <2>2. doc \in RefundDocument
    BY <1>2, <2>1, RefundWrite
  <2> QED
    BY <1>2, <2>2 DEF RefundDocument
<1>4. refund' = [refund EXCEPT ![r] = doc] /\ payment' = [payment EXCEPT ![p] = acc]
  BY DEF ReserveRefund
<1>5. /\ acc.captured = payment[p].captured /\ acc.refunded = payment[p].refunded
      /\ acc.reserved = payment[p].reserved + a /\ acc.net = payment[p].net
  BY <1>1, Totals DEF Hold, PaymentDocument
<1>6. a <= payment[p].captured - payment[p].refunded - payment[p].reserved
  <2>1. a \in 1..Available(payment[p])
    BY DEF ReserveRefund
  <2>2. Available(payment[p]) \in Int
    BY <1>1, Totals DEF Available
  <2> QED
    BY <2>1, <2>2 DEF Available
<1> HIDE DEF doc, acc, p
<1>7. payment'[p] = acc /\ \A q \in Payments \ {p} : payment'[q] = payment[q]
  BY <1>1, <1>4 DEF MoneyInv, StockInv, TypeOK
<1>8. Balanced(acc)
  BY <1>1, <1>5, <1>6, Totals DEF Balanced
<1>9. Rebalanced(r, doc, p)
  <2>1. /\ Share(r, refund[r], p, ACTIVE_REFUNDS) = 0 /\ Share(r, doc, p, ACTIVE_REFUNDS) = a
        /\ Share(r, refund[r], p, {"SUCCEEDED"}) = 0 /\ Share(r, doc, p, {"SUCCEEDED"}) = 0
    BY <1>2, <1>3 DEF Share, ACTIVE_REFUNDS, p
  <2> QED
    BY <1>1, <1>5, <1>7, <1>8, <2>1, Totals DEF Rebalanced
<1>10. \A q \in Payments : Rebalanced(r, doc, q)
  BY <1>7, <1>9, OthersBalanced DEF p
<1>11. UNCHANGED <<order, documents, cases>>
  BY DEF ReserveRefund
<1>12. RefundWritten(r, doc)
  BY <1>1, <1>2, <1>3, <1>4, <1>10, <1>11 DEF RefundWritten, RefundStatus
<1> QED
  BY <1>3, <1>12

LEMMA PendingWrites ==
  ASSUME MoneyInv, NEW r \in Refunds, NEW e \in EventIds, RefundPending(r, e)
  PROVE  \E doc \in RefundDocument : RefundWritten(r, doc)
<1> DEFINE p == RefundOf[r]
           E == refund[r].events \cup {e}
           doc == [refund[r] EXCEPT !.status = "PROVIDER_PENDING", !.events = E]
<1>1. p \in Payments
  BY CommerceAssumption DEF CommerceAssumption
<1>2. refund[r] \in RefundDocument /\ refund[r].status = "RESERVED"
  BY DEF MoneyInv, StockInv, TypeOK, RefundPending
<1>3. doc \in RefundDocument /\ doc.status = "PROVIDER_PENDING" /\ doc.amount = refund[r].amount
  <2>1. E \in SUBSET EventIds
    BY <1>2 DEF RefundDocument
  <2> HIDE DEF E
  <2> QED
    BY <1>2, <2>1 DEF RefundDocument, RefundStatus
<1>4. refund' = [refund EXCEPT ![r] = doc] /\ payment' = payment
  BY DEF RefundPending
<1> HIDE DEF doc, p
<1>5. refund[r].amount \in 1..MaxTotal
  BY <1>2, Covered DEF Refundable, ACTIVE_REFUNDS
<1>6. Rebalanced(r, doc, p)
  <2>1. /\ Share(r, refund[r], p, ACTIVE_REFUNDS) = Share(r, doc, p, ACTIVE_REFUNDS)
        /\ Share(r, refund[r], p, {"SUCCEEDED"}) = Share(r, doc, p, {"SUCCEEDED"})
    BY <1>2, <1>3 DEF Share, ACTIVE_REFUNDS
  <2>2. Balanced(payment[p])
    BY <1>1 DEF MoneyInv, BooksAgree, PaymentTotalsExact
  <2> QED
    BY <1>4, <2>1, <2>2 DEF Rebalanced
<1>7. \A q \in Payments : Rebalanced(r, doc, q)
  BY <1>4, <1>6, OthersBalanced DEF p
<1>8. UNCHANGED <<order, documents, cases>>
  BY DEF RefundPending
<1>9. RefundWritten(r, doc)
  BY <1>2, <1>3, <1>4, <1>5, <1>7, <1>8 DEF RefundWritten, RefundStatus, ACTIVE_REFUNDS
<1> QED
  BY <1>3, <1>9
LEMMA SuccessWrites ==
  ASSUME MoneyInv, NEW r \in Refunds, NEW e \in EventIds, RefundSucceeds(r, e)
  PROVE  \E doc \in RefundDocument : RefundWritten(r, doc)
<1> DEFINE p == RefundOf[r]
           o == Subject[p]
           a == refund[r].amount
           E == refund[r].events \cup {e}
           doc == [refund[r] EXCEPT !.status = "SUCCEEDED", !.events = E]
           acc == Settle(payment[p], a)
<1>1. p \in Payments /\ o \in Orders /\ Refundable(r) /\ MaxTotal \in Nat
  BY CommerceAssumption DEF CommerceAssumption, RefundSucceeds
<1>2. /\ a \in 1..MaxTotal /\ payment[p].reserved >= a
      /\ payment[p].refunded + a <= payment[p].captured /\ ~Disagrees(r)
  BY <1>1, Covered
<1>3. refund[r] \in RefundDocument /\ refund[r].status \in ACTIVE_REFUNDS
  BY <1>1 DEF MoneyInv, StockInv, TypeOK, Refundable
<1>4. doc \in RefundDocument /\ doc.status = "SUCCEEDED" /\ doc.amount = a
  <2>1. E \in SUBSET EventIds /\ "SUCCEEDED" \in RefundStatus /\ 0 \in 0..MaxTotal
    BY <1>1, <1>3 DEF RefundDocument, RefundStatus
  <2> HIDE DEF E
  <2>2. doc \in RefundDocument
    BY <1>3, <2>1, RefundWrite
  <2> QED
    BY <1>3, <2>2 DEF RefundDocument
<1>5. /\ refund' = [refund EXCEPT ![r] = doc] /\ payment' = [payment EXCEPT ![p] = acc]
      /\ order' = [order EXCEPT ![o] = OrderAfterRefund(o, acc)] /\ UNCHANGED <<cases, documents>>
  BY <1>2 DEF RefundSucceeds
<1>6. /\ acc.captured = payment[p].captured /\ acc.refunded = payment[p].refunded + a
      /\ acc.reserved = payment[p].reserved - a
      /\ acc.net = payment[p].captured - (payment[p].refunded + a)
  BY <1>1, Totals DEF Settle, PaymentDocument
<1> HIDE DEF doc, acc, p, a
<1>7. payment'[p] = acc /\ \A q \in Payments \ {p} : payment'[q] = payment[q]
  BY <1>1, <1>5 DEF MoneyInv, StockInv, TypeOK
<1>8. Balanced(acc)
  BY <1>1, <1>2, <1>6, Totals DEF Balanced
<1>9. Rebalanced(r, doc, p)
  <2>1. /\ Share(r, refund[r], p, ACTIVE_REFUNDS) = a /\ Share(r, doc, p, ACTIVE_REFUNDS) = 0
        /\ Share(r, refund[r], p, {"SUCCEEDED"}) = 0 /\ Share(r, doc, p, {"SUCCEEDED"}) = a
    BY <1>3, <1>4 DEF Share, ACTIVE_REFUNDS, p, a
  <2> QED
    BY <1>1, <1>2, <1>6, <1>7, <1>8, <2>1, Totals DEF Rebalanced
<1>10. \A q \in Payments : Rebalanced(r, doc, q)
  BY <1>7, <1>9, OthersBalanced DEF p
<1>11. RefundedOrder(p)
  <2>1. order'[o] = OrderAfterRefund(o, acc)
    BY <1>1, <1>5 DEF MoneyInv, StockInv, TypeOK
  <2>2. order[o] \in OrderDocument
    BY <1>1 DEF MoneyInv, StockInv, TypeOK
  <2> QED
    BY <1>7, <2>1, <2>2 DEF OrderAfterRefund, OrderDocument, RefundedOrder
<1>12. \A x \in Orders \ {o} : order'[x] = order[x]
  BY <1>1, <1>5 DEF MoneyInv, StockInv, TypeOK
<1>13. RefundWritten(r, doc)
  BY <1>2, <1>3, <1>4, <1>5, <1>10, <1>11, <1>12 DEF RefundWritten, RefundStatus, ACTIVE_REFUNDS, p, a
<1> QED
  BY <1>4, <1>13

LEMMA ReleaseWrites ==
  ASSUME MoneyInv, NEW r \in Refunds, NEW t \in {"FAILED", "CANCELLED"}, NEW E \in SUBSET EventIds,
         Refundable(r), ReleaseRefund(r, t, E)
  PROVE  \E doc \in RefundDocument : RefundWritten(r, doc)
<1> DEFINE p == RefundOf[r]
           a == refund[r].amount
           doc == [refund[r] EXCEPT !.status = t, !.events = E]
           acc == ReleaseHold(payment[p], a)
<1>1. p \in Payments /\ MaxTotal \in Nat
  BY CommerceAssumption DEF CommerceAssumption
<1>2. a \in 1..MaxTotal /\ payment[p].reserved >= a
  BY Covered
<1>3. refund[r] \in RefundDocument /\ refund[r].status \in ACTIVE_REFUNDS
  BY DEF MoneyInv, StockInv, TypeOK, Refundable
<1>4. doc \in RefundDocument /\ doc.status = t /\ doc.amount = a
  <2>1. t \in RefundStatus /\ 0 \in 0..MaxTotal
    BY <1>1 DEF RefundStatus
  <2>2. doc \in RefundDocument
    BY <1>3, <2>1, RefundWrite
  <2> QED
    BY <1>3, <2>2 DEF RefundDocument
<1>5. ~(payment[p].reserved < a)
  BY <1>1, <1>2, Totals
<1>6. /\ refund' = [refund EXCEPT ![r] = doc] /\ payment' = [payment EXCEPT ![p] = acc]
      /\ UNCHANGED <<order, cases, documents>>
  BY <1>5 DEF ReleaseRefund
<1>7. /\ acc.captured = payment[p].captured /\ acc.refunded = payment[p].refunded
      /\ acc.reserved = payment[p].reserved - a /\ acc.net = payment[p].net
  BY <1>1, Totals DEF ReleaseHold, PaymentDocument
<1> HIDE DEF doc, acc, p, a
<1>8. payment'[p] = acc /\ \A q \in Payments \ {p} : payment'[q] = payment[q]
  BY <1>1, <1>6 DEF MoneyInv, StockInv, TypeOK
<1>9. Balanced(acc)
  BY <1>1, <1>2, <1>7, Totals DEF Balanced
<1>10. Rebalanced(r, doc, p)
  <2>1. /\ Share(r, refund[r], p, ACTIVE_REFUNDS) = a /\ Share(r, doc, p, ACTIVE_REFUNDS) = 0
        /\ Share(r, refund[r], p, {"SUCCEEDED"}) = 0 /\ Share(r, doc, p, {"SUCCEEDED"}) = 0
    BY <1>3, <1>4 DEF Share, ACTIVE_REFUNDS, p, a
  <2> QED
    BY <1>1, <1>2, <1>7, <1>8, <1>9, <2>1, Totals DEF Rebalanced
<1>11. \A q \in Payments : Rebalanced(r, doc, q)
  BY <1>8, <1>10, OthersBalanced DEF p
<1>12. RefundWritten(r, doc)
  BY <1>2, <1>3, <1>4, <1>6, <1>11 DEF RefundWritten, RefundStatus, ACTIVE_REFUNDS, a
<1> QED
  BY <1>4, <1>12
LEMMA CaptureTakes ==
  ASSUME MoneyInv, NEW p \in Payments, NEW E \in SUBSET EventIds,
         OrderAwaitsPayment(Subject[p]), CaptureFor(p, E)
  PROVE  Captured(p)
<1> DEFINE o == Subject[p]
           acc == [Capture(payment[p], OrderTotal[o]) EXCEPT !.events = E]
           doc == [order[o] EXCEPT !.status = "paid", !.paymentStatus = "paid"]
<1>1. o \in Orders
  BY CommerceAssumption DEF CommerceAssumption
<1>2. payment' = [payment EXCEPT ![p] = acc] /\ order' = [order EXCEPT ![o] = doc]
  BY DEF CaptureFor
<1>3. /\ acc.captured = OrderTotal[o] /\ acc.net = OrderTotal[o]
      /\ acc.refunded = 0 /\ acc.reserved = 0
  BY Totals DEF Capture, PaymentDocument
<1>4. doc.status = "paid" /\ doc.paymentStatus = "paid"
  <2>1. order[o] \in OrderDocument
    BY <1>1 DEF MoneyInv, StockInv, TypeOK
  <2> QED
    BY <2>1 DEF OrderDocument
<1> HIDE DEF acc, doc
<1>5. /\ payment'[p] = acc /\ \A q \in Payments \ {p} : payment'[q] = payment[q]
      /\ order'[o] = doc /\ \A x \in Orders \ {o} : order'[x] = order[x]
  BY <1>1, <1>2 DEF MoneyInv, StockInv, TypeOK
<1> QED
  BY <1>3, <1>4, <1>5 DEF Captured, CaptureFor, OrderAwaitsPayment

(* Every step moves no money, captures one payment or writes one refund.   *)
LEMMA MoneyMoves ==
  ASSUME MoneyInv, [Next]_vars
  PROVE  \/ SameMoney /\ \A o \in Orders : OrderMove(o)
         \/ \E p \in Payments : Captured(p)
         \/ \E r \in Refunds : \E doc \in RefundDocument : RefundWritten(r, doc)
<1> DEFINE Quiet == SameMoney /\ \A o \in Orders : OrderMove(o)
<1>0. TypeOK
  BY DEF MoneyInv, StockInv
<1>1. CASE Paperwork
  BY <1>1 DEF Paperwork, SameMoney, OrderMove
<1>2. ASSUME UNCHANGED moneyVars PROVE SameMoney
  BY <1>2 DEF moneyVars, SameMoney, SameTotals
<1>3. ASSUME NEW o \in Orders, NEW m \in CheckoutMethods,
             order[o].status = "ABSENT", order' = [order EXCEPT ![o] = PlacedOrder(@, m)]
      PROVE  \A x \in Orders : OrderMove(x)
  <2> DEFINE doc == PlacedOrder(order[o], m)
  <2>1. doc.status = "pending_payment" /\ doc.serials = order[o].serials
    <3>1. order[o] \in OrderDocument
      BY <1>0 DEF TypeOK
    <3> QED
      BY <3>1 DEF PlacedOrder, OrderDocument
  <2>2. order' = [order EXCEPT ![o] = doc]
    BY <1>3
  <2> HIDE DEF doc
  <2>3. Placed(o)
    BY <1>0, <1>3, <2>1, <2>2 DEF TypeOK, Placed
  <2>4. \A x \in Orders \ {o} : SameOrder(x)
    BY <1>0, <2>2 DEF TypeOK, SameOrder
  <2> QED
    BY <2>3, <2>4 DEF OrderMove
<1>4. ASSUME NEW o \in Orders, NEW m \in CheckoutMethods, Checkout(o, m) \/ ConvertQuotation(o, m)
      PROVE  Quiet
  BY <1>2, <1>3, <1>4 DEF Checkout, ConvertQuotation
<1>5. ASSUME NEW o \in Orders, CancelOrder(o) PROVE Quiet
  <2> DEFINE doc == CancelledOrder(order[o])
  <2>1. /\ doc.status = "cancelled" /\ doc.serials = order[o].serials
        /\ doc.paymentStatus = PaymentStatusAfterCancel(order[o].paymentStatus)
    <3>1. order[o] \in OrderDocument
      BY <1>0 DEF TypeOK
    <3> QED
      BY <3>1 DEF CancelledOrder, OrderDocument
  <2>2. order' = [order EXCEPT ![o] = doc]
    BY <1>5 DEF CancelOrder
  <2> HIDE DEF doc
  <2>3. \A v \in Variants : reservation'[o][v] \notin LiveStates
    BY <1>5 DEF CancelOrder, ReleaseOrderReservations, ReturnLines, LinesIn, LiveStates
  <2>4. Cancelled(o)
    BY <1>0, <2>1, <2>2, <2>3 DEF TypeOK, Cancelled
  <2>5. \A x \in Orders \ {o} : SameOrder(x)
    BY <1>0, <2>2 DEF TypeOK, SameOrder
  <2> QED
    BY <1>2, <1>5, <2>4, <2>5 DEF OrderMove, CancelOrder
<1>6. ASSUME NEW o \in Orders, NEW t \in {"dispatched", "completed"}, NEW S \in SUBSET Units,
             FulfillOrder(o, t, S)
      PROVE  Quiet
  <2> DEFINE T == IF S # {} THEN S ELSE order[o].serials
             doc == [order[o] EXCEPT !.status = t, !.serials = T]
  <2>1. doc.status = t /\ doc.paymentStatus = order[o].paymentStatus
    <3>1. order[o] \in OrderDocument
      BY <1>0 DEF TypeOK
    <3> HIDE DEF T
    <3> QED
      BY <3>1 DEF OrderDocument
  <2>2. order' = [order EXCEPT ![o] = doc]
    BY <1>6 DEF FulfillOrder
  <2> HIDE DEF doc
  <2>3. Fulfilled(o)
    BY <1>0, <1>6, <2>1, <2>2 DEF TypeOK, FulfillOrder, Fulfillable, Fulfilled
  <2>4. \A x \in Orders \ {o} : SameOrder(x)
    BY <1>0, <2>2 DEF TypeOK, SameOrder
  <2> QED
    BY <1>2, <1>6, <2>3, <2>4 DEF OrderMove, FulfillOrder
<1>7. ASSUME NEW p \in Payments, AttemptFails(p) PROVE Quiet
  <2>1. PICK E \in SUBSET EventIds :
          payment' = [payment EXCEPT ![p] = [@ EXCEPT !.status = "FAILED", !.events = E]]
    BY <1>7 DEF AttemptFails
  <2>2. \A q \in Payments : SameTotals(q)
    <3> DEFINE acc == [payment[p] EXCEPT !.status = "FAILED", !.events = E]
    <3>1. /\ acc.captured = payment[p].captured /\ acc.refunded = payment[p].refunded
          /\ acc.reserved = payment[p].reserved /\ acc.net = payment[p].net
      BY Totals DEF PaymentDocument
    <3>2. payment' = [payment EXCEPT ![p] = acc]
      BY <2>1
    <3> HIDE DEF acc
    <3> QED
      BY <1>0, <3>1, <3>2 DEF TypeOK, SameTotals
  <2> QED
    BY <1>7, <2>2 DEF AttemptFails, SameMoney, OrderMove, SameOrder
<1>8. CASE ExpireReservations
  BY <1>2, <1>8 DEF ExpireReservations, OrderMove, SameOrder
<1>9. CASE OrderKinds
  BY <1>9, <1>4, <1>5, <1>6, <1>7, <1>8, CaptureTakes DEF OrderKinds
<1>10. CASE RefundKinds
  BY <1>10, ReserveWrites, PendingWrites, SuccessWrites, ReleaseWrites DEF RefundKinds
<1> QED
  BY <1>0, <1>1, <1>9, <1>10, StepKinds
-----------------------------------------------------------------------------
(* Captures and books                                                      *)

MoneySafe == CapturedWhole /\ RefundsPositive /\ CapturedOnce /\ BooksAgree

(* Without a move of money the books change only if an order does; and an  *)
(* order somebody paid for keeps its payment status.                       *)
LEMMA QuietBooks ==
  ASSUME MoneyInv, SameMoney, \A o \in Orders : OrderMove(o)
  PROVE  MoneySafe'
<1>1. CapturedWhole' /\ RefundsPositive' /\ CapturedOnce'
  BY DEF SameMoney, SameTotals, MoneyInv, CapturedWhole, RefundsPositive, CapturedOnce,
     AtMostOneCapture, ReceiptsMatchCaptures
<1>2. PaymentTotalsExact'
  <2>1. RefundAmount' = RefundAmount /\ \A p, st : RefundsIn(p, st)' = RefundsIn(p, st)
    BY DEF SameMoney, RefundAmount, RefundsIn
  <2> QED
    BY <2>1 DEF MoneyInv, BooksAgree, PaymentTotalsExact, Balanced, SameMoney, SameTotals
<1>3. NeverDisagrees'
  BY DEF MoneyInv, BooksAgree, NeverDisagrees, SameMoney
<1>4. ASSUME NEW o \in Orders, NEW p \in PaymentsOf(o), payment'[p].captured > 0
      PROVE  order'[o].paymentStatus =
               IF payment'[p].refunded = 0 THEN "paid"
               ELSE IF payment'[p].net = 0 THEN "refunded" ELSE "partially_refunded"
  <2>1. /\ payment'[p].captured = payment[p].captured /\ payment'[p].refunded = payment[p].refunded
        /\ payment'[p].net = payment[p].net
    BY DEF PaymentsOf, SameMoney, SameTotals
  <2>2. order[o].paymentStatus =
          IF payment[p].refunded = 0 THEN "paid"
          ELSE IF payment[p].net = 0 THEN "refunded" ELSE "partially_refunded"
    BY <1>4, <2>1 DEF MoneyInv, BooksAgree, OrderMirrorsPayments
  <2>3. order'[o].paymentStatus = order[o].paymentStatus
    <3>1. order[o].paymentStatus \notin {"ABSENT", "pending"}
      BY <2>2
    <3>2. OrderMove(o) /\ (order[o].status = "ABSENT" => order[o].paymentStatus = "ABSENT")
      BY DEF MoneyInv, PayableWhilePlaced
    <3> QED
      BY <3>1, <3>2 DEF OrderMove, SameOrder, Placed, Cancelled, Fulfilled, PaymentStatusAfterCancel
  <2> QED
    BY <2>1, <2>2, <2>3
<1> QED
  BY <1>1, <1>2, <1>3, <1>4 DEF MoneySafe, BooksAgree, OrderMirrorsPayments, PaymentsOf

(* A capture finds no other one for the order and no refund of its payment.*)
LEMMA CaptureBooks ==
  ASSUME MoneyInv, NEW p \in Payments, Captured(p)
  PROVE  MoneySafe'
<1> DEFINE o == Subject[p]
<1>1. o \in Orders /\ OrderTotal[o] \in Nat /\ OrderTotal[o] > 0
  BY CommerceAssumption DEF CommerceAssumption
<1>2. \A q \in PaymentsOf(o) : payment[q].captured = 0
  BY <1>1, PendingUncaptured DEF Captured
<1>3. payment[p].refunded = 0 /\ payment[p].reserved = 0
  <2>1. payment[p].captured = 0
    BY <1>2 DEF PaymentsOf
  <2> QED
    BY <2>1, Totals
<1>4. /\ payment'[p].captured = OrderTotal[o] /\ payment'[p].net = OrderTotal[o]
      /\ payment'[p].refunded = 0 /\ payment'[p].reserved = 0
      /\ \A q \in Payments \ {p} : payment'[q] = payment[q]
      /\ refund' = refund /\ cases' = cases /\ documents' = documents \cup VerifiedDocuments(p)
      /\ order'[o].paymentStatus = "paid" /\ \A x \in Orders \ {o} : order'[x] = order[x]
  BY DEF Captured
<1>5. CapturedWhole' /\ RefundsPositive'
  BY <1>4 DEF MoneyInv, CapturedWhole, RefundsPositive
<1>6. AtMostOneCapture'
  BY <1>1, <1>2, <1>4 DEF MoneyInv, CapturedOnce, AtMostOneCapture, PaymentsOf
<1>7. ReceiptsMatchCaptures'
  <2>1. \A q \in Payments : <<"RECEIPT", q>> \in documents'
                             <=> \/ <<"RECEIPT", q>> \in documents
                                 \/ q = p /\ Subject[p] \in Documentable
    BY <1>4 DEF VerifiedDocuments
  <2> QED
    BY <1>1, <1>4, <2>1 DEF MoneyInv, CapturedOnce, ReceiptsMatchCaptures
<1>8. PaymentTotalsExact'
  <2>1. RefundAmount' = RefundAmount /\ \A q, st : RefundsIn(q, st)' = RefundsIn(q, st)
    BY <1>4 DEF RefundAmount, RefundsIn
  <2>2. /\ payment'[p].reserved = payment[p].reserved /\ payment'[p].refunded = payment[p].refunded
        /\ Balanced(payment[p])'
    BY <1>1, <1>3, <1>4 DEF Balanced
  <2> QED
    BY <1>4, <2>1, <2>2 DEF MoneyInv, BooksAgree, PaymentTotalsExact
<1>9. NeverDisagrees'
  BY <1>4 DEF MoneyInv, BooksAgree, NeverDisagrees
<1>10. OrderMirrorsPayments'
  <2>1. ASSUME NEW x \in Orders, NEW q \in PaymentsOf(x), payment'[q].captured > 0
        PROVE  order'[x].paymentStatus =
                 IF payment'[q].refunded = 0 THEN "paid"
                 ELSE IF payment'[q].net = 0 THEN "refunded" ELSE "partially_refunded"
    <3>1. CASE q = p
      BY <1>4, <3>1 DEF PaymentsOf
    <3>2. CASE q # p /\ x = o
      BY <1>2, <1>4, <2>1, <3>2 DEF PaymentsOf
    <3>3. CASE q # p /\ x # o
      BY <1>4, <2>1, <3>3 DEF PaymentsOf, MoneyInv, BooksAgree, OrderMirrorsPayments
    <3> QED
      BY <3>1, <3>2, <3>3
  <2> QED
    BY <2>1 DEF OrderMirrorsPayments, PaymentsOf
<1> QED
  BY <1>5, <1>6, <1>7, <1>8, <1>9, <1>10 DEF MoneySafe, CapturedOnce, BooksAgree

(* A refund moves the totals of its payment and nothing else.              *)
LEMMA RefundBooks ==
  ASSUME MoneyInv, TypeOK', NEW r \in Refunds, NEW doc \in RefundDocument, RefundWritten(r, doc)
  PROVE  MoneySafe'
<1>0. TypeOK
  BY DEF MoneyInv, StockInv
<1>1. \A p \in Payments : payment'[p].captured = payment[p].captured
  BY DEF RefundWritten, Rebalanced
<1>2. CapturedWhole' /\ CapturedOnce'
  BY <1>1 DEF MoneyInv, CapturedWhole, CapturedOnce, AtMostOneCapture, ReceiptsMatchCaptures,
     RefundWritten
<1>3. RefundsPositive'
  <2>1. doc.amount > 0 /\ refund' = [refund EXCEPT ![r] = doc]
    BY CommerceAssumption DEF CommerceAssumption, RefundWritten
  <2> QED
    BY <1>0, <2>1 DEF MoneyInv, RefundsPositive, TypeOK
<1>4. ASSUME NEW p \in Payments
      PROVE  /\ payment'[p].reserved = Asked(p, ACTIVE_REFUNDS)'
             /\ payment'[p].refunded = Asked(p, {"SUCCEEDED"})'
             /\ Balanced(payment[p])'
  <2>1. ASSUME NEW st
        PROVE  /\ Asked(p, st)' \in Nat
               /\ Asked(p, st)' + Share(r, refund[r], p, st) = Asked(p, st) + Share(r, doc, p, st)
               /\ Share(r, refund[r], p, st) \in Nat /\ Share(r, doc, p, st) \in Nat
    <3>1. refund' = [refund EXCEPT ![r] = doc]
      BY DEF RefundWritten
    <3>2. refund[r].amount \in Nat /\ doc.amount \in Nat
      BY <1>0, CommerceAssumption DEF CommerceAssumption, TypeOK, RefundDocument
    <3>3. Share(r, refund[r], p, st) \in Nat /\ Share(r, doc, p, st) \in Nat
      BY <3>2 DEF Share
    <3>4. Asked(p, st)' \in Nat
      BY AskedType
    <3>5. Asked(p, st)' + Share(r, refund[r], p, st) = Asked(p, st) + Share(r, doc, p, st)
      BY <1>0, <3>1, AskedMoves
    <3> QED
      BY <3>3, <3>4, <3>5
  <2>2. payment'[p].reserved \in Int /\ payment'[p].refunded \in Int
    BY DEF TypeOK, PaymentDocument
  <2>3. Rebalanced(r, doc, p)
    BY DEF RefundWritten
  <2>4. payment'[p].reserved = Asked(p, ACTIVE_REFUNDS)'
    <3>1. payment[p].reserved = Asked(p, ACTIVE_REFUNDS) /\ payment[p].reserved \in Nat
      BY Totals
    <3>2. payment'[p].reserved + Share(r, refund[r], p, ACTIVE_REFUNDS)
            = payment[p].reserved + Share(r, doc, p, ACTIVE_REFUNDS)
      BY <2>3 DEF Rebalanced
    <3> QED
      BY <2>1, <2>2, <3>1, <3>2
  <2>5. payment'[p].refunded = Asked(p, {"SUCCEEDED"})'
    <3>1. payment[p].refunded = Asked(p, {"SUCCEEDED"}) /\ payment[p].refunded \in Nat
      BY Totals
    <3>2. payment'[p].refunded + Share(r, refund[r], p, {"SUCCEEDED"})
            = payment[p].refunded + Share(r, doc, p, {"SUCCEEDED"})
      BY <2>3 DEF Rebalanced
    <3> QED
      BY <2>1, <2>2, <3>1, <3>2
  <2> QED
    BY <2>3, <2>4, <2>5 DEF Rebalanced
<1>5. PaymentTotalsExact'
  BY <1>4 DEF PaymentTotalsExact, Asked, ACTIVE_REFUNDS
<1>6. NeverDisagrees'
  BY DEF RefundWritten, MoneyInv, BooksAgree, NeverDisagrees
<1>7. ASSUME NEW p \in Payments,
             Share(r, doc, p, {"SUCCEEDED"}) = Share(r, refund[r], p, {"SUCCEEDED"})
      PROVE  payment'[p].refunded = payment[p].refunded /\ payment'[p].net = payment[p].net
  <2>1. payment'[p].refunded \in Int /\ Share(r, doc, p, {"SUCCEEDED"}) \in Int
    BY <1>0, CommerceAssumption DEF CommerceAssumption, TypeOK, PaymentDocument, RefundDocument, Share
  <2>2. Rebalanced(r, doc, p)
    BY DEF RefundWritten
  <2> QED
    BY <1>1, <1>7, <2>1, <2>2, Totals DEF Rebalanced, Balanced
<1>8. ASSUME NEW o \in Orders, NEW p \in PaymentsOf(o), payment'[p].captured > 0
      PROVE  order'[o].paymentStatus =
               IF payment'[p].refunded = 0 THEN "paid"
               ELSE IF payment'[p].net = 0 THEN "refunded" ELSE "partially_refunded"
  <2> DEFINE b == RefundOf[r]
  <2>0. p \in Payments /\ Subject[p] = o /\ b \in Payments /\ payment[p].captured > 0
    BY <1>1, <1>8, CommerceAssumption DEF CommerceAssumption, PaymentsOf
  <2>1. ASSUME order'[o] = order[o], payment'[p].refunded = payment[p].refunded,
               payment'[p].net = payment[p].net
        PROVE  order'[o].paymentStatus =
                 IF payment'[p].refunded = 0 THEN "paid"
                 ELSE IF payment'[p].net = 0 THEN "refunded" ELSE "partially_refunded"
    BY <2>0, <2>1 DEF MoneyInv, BooksAgree, OrderMirrorsPayments
  <2>2. CASE o # Subject[b]
    <3>1. order'[o] = order[o]
      BY <2>2 DEF RefundWritten
    <3>2. Share(r, doc, p, {"SUCCEEDED"}) = 0 /\ Share(r, refund[r], p, {"SUCCEEDED"}) = 0
      BY <2>0, <2>2 DEF Share
    <3> QED
      BY <1>7, <2>0, <2>1, <3>1, <3>2
  <2>3. CASE o = Subject[b] /\ doc.status # "SUCCEEDED"
    <3>1. order'[o] = order[o]
      BY <2>3 DEF RefundWritten
    <3>2. Share(r, doc, p, {"SUCCEEDED"}) = 0 /\ Share(r, refund[r], p, {"SUCCEEDED"}) = 0
      BY <2>3 DEF Share, RefundWritten, ACTIVE_REFUNDS
    <3> QED
      BY <1>7, <2>0, <2>1, <3>1, <3>2
  <2>4. CASE o = Subject[b] /\ doc.status = "SUCCEEDED"
    <3>1. Refundable(r) /\ doc.amount = refund[r].amount
      BY <2>4 DEF RefundWritten, Refundable
    <3>2. /\ doc.amount \in Nat /\ doc.amount > 0
          /\ payment[b].refunded + doc.amount <= payment[b].captured
      BY <3>1, Covered, CommerceAssumption DEF CommerceAssumption
    <3>3. p = b
      BY <2>0, <2>4, <3>2, Totals DEF MoneyInv, CapturedOnce, AtMostOneCapture
    <3>4. Share(r, doc, b, {"SUCCEEDED"}) = doc.amount /\ Share(r, refund[r], b, {"SUCCEEDED"}) = 0
      BY <2>4, <3>1 DEF Share, Refundable, ACTIVE_REFUNDS
    <3>5. Rebalanced(r, doc, b) /\ payment'[b].refunded \in Int /\ payment'[b].net \in Int
      BY <2>0 DEF RefundWritten, TypeOK, PaymentDocument
    <3>6. payment'[b].refunded > 0 /\ payment'[b].net = payment'[b].captured - payment'[b].refunded
      BY <2>0, <3>2, <3>4, <3>5, Totals DEF Rebalanced, Balanced
    <3>7. order'[o].paymentStatus =
            IF payment'[b].refunded = payment'[b].captured THEN "refunded" ELSE "partially_refunded"
      BY <2>4 DEF RefundWritten, RefundedOrder
    <3>8. payment'[b].captured \in Nat
      BY <1>1, <2>0, Totals
    <3> QED
      BY <3>3, <3>5, <3>6, <3>7, <3>8
  <2> QED
    BY <2>2, <2>3, <2>4
<1> QED
  BY <1>2, <1>3, <1>5, <1>6, <1>8 DEF MoneySafe, BooksAgree, OrderMirrorsPayments, PaymentsOf
-----------------------------------------------------------------------------
(* Goods                                                                   *)

(* Serials are given out by a dispatch and by nothing else.                *)
LEMMA SerialsStay ==
  ASSUME TypeOK, [Next]_vars
  PROVE  \/ unit' = unit /\ \A o \in Orders : order'[o].serials = order[o].serials
         \/ \E o \in Orders, t \in {"dispatched", "completed"}, S \in SUBSET Units :
              FulfillOrder(o, t, S)
<1>1. ASSUME NEW o \in Orders, NEW doc, doc.serials = order[o].serials,
             order' = [order EXCEPT ![o] = doc]
      PROVE  \A x \in Orders : order'[x].serials = order[x].serials
  BY <1>1 DEF TypeOK
<1>2. CASE Paperwork
  BY <1>2 DEF Paperwork, SameOrder
<1>3. ASSUME NEW o \in Orders, NEW m \in CheckoutMethods, Checkout(o, m) \/ ConvertQuotation(o, m)
      PROVE  unit' = unit /\ \A x \in Orders : order'[x].serials = order[x].serials
  <2>1. PlacedOrder(order[o], m).serials = order[o].serials
    <3>1. order[o] \in OrderDocument
      BY DEF TypeOK
    <3> QED
      BY <3>1 DEF PlacedOrder, OrderDocument
  <2>2. order' = [order EXCEPT ![o] = PlacedOrder(order[o], m)] /\ unit' = unit
    BY <1>3 DEF Checkout, ConvertQuotation, stockVars
  <2> QED
    BY <1>1, <2>1, <2>2
<1>4. ASSUME NEW o \in Orders, CancelOrder(o)
      PROVE  unit' = unit /\ \A x \in Orders : order'[x].serials = order[x].serials
  <2>1. CancelledOrder(order[o]).serials = order[o].serials
    <3>1. order[o] \in OrderDocument
      BY DEF TypeOK
    <3> QED
      BY <3>1 DEF CancelledOrder, OrderDocument
  <2>2. order' = [order EXCEPT ![o] = CancelledOrder(order[o])] /\ unit' = unit
    BY <1>4 DEF CancelOrder, ReleaseOrderReservations, ReturnLines
  <2> QED
    BY <1>1, <2>1, <2>2
<1>5. ASSUME NEW p \in Payments, NEW E, CaptureFor(p, E)
      PROVE  unit' = unit /\ \A x \in Orders : order'[x].serials = order[x].serials
  <2> DEFINE o == Subject[p]
             doc == [order[o] EXCEPT !.status = "paid", !.paymentStatus = "paid"]
  <2>1. o \in Orders /\ doc.serials = order[o].serials
    <3>1. o \in Orders
      BY CommerceAssumption DEF CommerceAssumption
    <3>2. order[o] \in OrderDocument
      BY <3>1 DEF TypeOK
    <3> QED
      BY <3>1, <3>2 DEF OrderDocument
  <2>2. order' = [order EXCEPT ![o] = doc] /\ unit' = unit
    BY <1>5 DEF CaptureFor
  <2> HIDE DEF o, doc
  <2> QED
    BY <1>1, <2>1, <2>2
<1>6. ASSUME NEW r \in Refunds, NEW e \in EventIds, RefundSucceeds(r, e)
      PROVE  unit' = unit /\ \A x \in Orders : order'[x].serials = order[x].serials
  <2> DEFINE o == Subject[RefundOf[r]]
             doc == OrderAfterRefund(o, Settle(payment[RefundOf[r]], refund[r].amount))
  <2>1. o \in Orders /\ doc.serials = order[o].serials
    <3>1. o \in Orders
      BY CommerceAssumption DEF CommerceAssumption
    <3>2. order[o] \in OrderDocument
      BY <3>1 DEF TypeOK
    <3> QED
      BY <3>1, <3>2 DEF OrderAfterRefund, OrderDocument
  <2>2. (order' = order \/ order' = [order EXCEPT ![o] = doc]) /\ unit' = unit
    BY <1>6 DEF RefundSucceeds, stockVars
  <2> HIDE DEF o, doc
  <2> QED
    BY <1>1, <2>1, <2>2
<1>7. CASE RefundKinds
  BY <1>6, <1>7 DEF RefundKinds, ReserveRefund, RefundPending, ReleaseRefund, stockVars
<1>8. CASE OrderKinds
  <2>1. ASSUME NEW p \in Payments, AttemptFails(p) PROVE unit' = unit /\ order' = order
    BY <2>1 DEF AttemptFails, ReleaseOrderReservations, ReturnLines
  <2>2. CASE ExpireReservations
    BY <2>2 DEF ExpireReservations, ReturnLines
  <2> QED
    BY <1>3, <1>4, <1>5, <1>8, <2>1, <2>2 DEF OrderKinds
<1> QED
  BY <1>2, <1>7, <1>8, StepKinds

LEMMA UnitsStep ==
  ASSUME MoneyInv, [Next]_vars
  PROVE  SoldUnitsGone' /\ UnitSoldOnce'
<1>0. TypeOK /\ SoldUnitsGone /\ UnitSoldOnce
  BY DEF MoneyInv, StockInv, GoodsGoToPayers
<1>1. CASE unit' = unit /\ \A o \in Orders : order'[o].serials = order[o].serials
  BY <1>0, <1>1 DEF SoldUnitsGone, UnitSoldOnce
<1>2. ASSUME NEW o \in Orders, NEW t \in {"dispatched", "completed"}, NEW S \in SUBSET Units,
             FulfillOrder(o, t, S)
      PROVE  SoldUnitsGone' /\ UnitSoldOnce'
  <2> DEFINE T == IF S # {} THEN S ELSE order[o].serials
             doc == [order[o] EXCEPT !.status = t, !.serials = T]
  <2>1. doc.serials = T
    <3>1. order[o] \in OrderDocument
      BY <1>0 DEF TypeOK
    <3> HIDE DEF T
    <3> QED
      BY <3>1 DEF OrderDocument
  <2>2. order' = [order EXCEPT ![o] = doc]
    BY <1>2 DEF FulfillOrder
  <2> HIDE DEF doc
  <2>3. order'[o].serials \in {S, order[o].serials}
    BY <1>0, <2>1, <2>2 DEF TypeOK
  <2>4. \A x \in Orders \ {o} : order'[x] = order[x]
    BY <1>0, <2>2 DEF TypeOK
  <2>5. \A u \in S : unit[u] # "CONSUMED" /\ unit'[u] = "CONSUMED"
    BY <1>2 DEF FulfillOrder, SellableSerials
  <2>6. \A x \in Orders : order[x].serials \subseteq Units
    BY <1>0 DEF TypeOK, OrderDocument
  <2>7. \A x \in Orders : \A u \in order[x].serials : unit[u] = "CONSUMED" /\ unit'[u] = "CONSUMED"
    BY <1>0, <1>2, <2>6 DEF FulfillOrder, SoldUnitsGone
  <2>8. SoldUnitsGone'
    BY <2>3, <2>4, <2>5, <2>7 DEF SoldUnitsGone
  <2>9. UnitSoldOnce'
    <3>1. \A x \in Orders \ {o} : order'[o].serials \cap order'[x].serials = {}
      BY <1>0, <2>3, <2>4, <2>5, <2>7 DEF UnitSoldOnce
    <3> QED
      BY <1>0, <2>4, <3>1 DEF UnitSoldOnce
  <2> QED
    BY <2>8, <2>9
<1> QED
  BY <1>0, <1>1, <1>2, SerialsStay

(* Money stays behind every line that is allocated or gone, an order is    *)
(* cancelled with its lines given back, and a cancelled order is never     *)
(* paid for again.                                                         *)
LEMMA GoodsStep ==
  ASSUME MoneyInv, [Next]_vars
  PROVE  PayableWhilePlaced' /\ CancelledHoldsNothing' /\ StockGoesToPayers'
<1>0. StockInv /\ PayableWhilePlaced /\ CancelledHoldsNothing /\ StockGoesToPayers
  BY DEF MoneyInv, GoodsGoToPayers
<1>1. ASSUME NEW o \in Orders, NEW v \in Variants PROVE LineMove(o, v)
  BY <1>0, LineMoves
<1>2. ASSUME NEW r \in Refunds, NEW doc \in RefundDocument, RefundWritten(r, doc),
             doc.status = "SUCCEEDED"
      PROVE  order[Subject[RefundOf[r]]].status # "ABSENT"
  <2> DEFINE p == RefundOf[r]
             o == Subject[p]
  <2>1. p \in Payments /\ o \in Orders
    BY CommerceAssumption DEF CommerceAssumption
  <2>2. Refundable(r)
    BY <1>2 DEF RefundWritten, Refundable
  <2>3. payment[p].captured > 0
    <3>1. refund[r].amount \in Nat /\ refund[r].amount > 0
      BY <2>2, Covered, CommerceAssumption DEF CommerceAssumption
    <3> QED
      BY <2>1, <2>2, <3>1, Covered, Totals
  <2>4. order[o].paymentStatus # "ABSENT"
    BY <2>1, <2>3, PendingUncaptured DEF PaymentsOf
  <2> QED
    BY <1>0, <2>1, <2>4 DEF PayableWhilePlaced
<1>3. ASSUME NEW o \in Orders
      PROVE  /\ order'[o].status = "ABSENT" => order'[o].paymentStatus = "ABSENT"
             /\ order'[o].status = "cancelled" => order'[o].paymentStatus # "pending"
             /\ order'[o].status = "cancelled" =>
                  \/ order[o].status = "cancelled"
                  \/ \A v \in Variants : reservation'[o][v] \notin LiveStates
  <2>1. CASE OrderMove(o)
    BY <1>0, <2>1 DEF OrderMove, SameOrder, Placed, Cancelled, Fulfilled, PayableWhilePlaced,
       PaymentStatusAfterCancel
  <2>2. ASSUME NEW p \in Payments, Captured(p) PROVE order'[o].status = "paid" \/ order'[o] = order[o]
    BY <2>2 DEF Captured
  <2>3. ASSUME NEW r \in Refunds, NEW doc \in RefundDocument, RefundWritten(r, doc)
        PROVE  \/ order'[o] = order[o]
               \/ /\ order[o].status # "ABSENT" /\ order'[o].status \in {order[o].status, "refunded"}
                  /\ order'[o].paymentStatus \in {"refunded", "partially_refunded"}
    BY <1>2, <2>3 DEF RefundWritten, RefundedOrder
  <2> QED
    BY <1>0, <2>1, <2>2, <2>3, MoneyMoves DEF PayableWhilePlaced
<1>4. CancelledHoldsNothing'
  <2>1. ASSUME NEW o \in Orders, NEW v \in Variants, order'[o].status = "cancelled"
        PROVE  reservation'[o][v] \notin LiveStates
    <3>1. CASE order[o].status = "cancelled"
      <4>1. reservation[o][v] \notin LiveStates
        BY <1>0, <3>1 DEF CancelledHoldsNothing, LinesIn, LiveStates
      <4> QED
        BY <1>1, <3>1, <4>1 DEF LineMove, LiveStates
    <3> QED
      BY <1>3, <2>1, <3>1
  <2> QED
    BY <2>1 DEF CancelledHoldsNothing, LinesIn, LiveStates
<1>5. ASSUME NEW p \in Payments
      PROVE  payment'[p].captured \in {payment[p].captured, OrderTotal[Subject[p]]}
  BY MoneyMoves DEF SameMoney, SameTotals, Captured, RefundWritten, Rebalanced
<1>6. StockGoesToPayers'
  <2>1. ASSUME NEW o \in Orders, NEW v \in Variants, reservation'[o][v] \in {"ALLOCATED", "CONSUMED"}
        PROVE  \E p \in PaymentsOf(o) : payment'[p].captured = OrderTotal[o]
    <3>1. CASE reservation[o][v] \in {"ALLOCATED", "CONSUMED"}
      <4>1. PICK p \in PaymentsOf(o) : payment[p].captured = OrderTotal[o]
        BY <1>0, <3>1 DEF StockGoesToPayers, LinesIn
      <4> QED
        BY <1>5, <4>1 DEF PaymentsOf
    <3> QED
      BY <1>1, <2>1, <3>1 DEF LineMove, LiveStates
  <2> QED
    BY <2>1 DEF StockGoesToPayers, LinesIn, PaymentsOf
<1> QED
  BY <1>3, <1>4, <1>6 DEF PayableWhilePlaced

-----------------------------------------------------------------------------
(* Theorems                                                                *)

LEMMA MoneyStep == MoneyInv /\ TypeOK' /\ [Next]_vars => MoneyInv'
<1> SUFFICES ASSUME MoneyInv, TypeOK', [Next]_vars PROVE MoneyInv'
  OBVIOUS
<1>1. StockInv'
  BY StockStep DEF MoneyInv
<1>2. MoneySafe'
  BY MoneyMoves, QuietBooks, CaptureBooks, RefundBooks
<1>3. PayableWhilePlaced' /\ SoldUnitsGone' /\ GoodsGoToPayers'
  BY GoodsStep, UnitsStep DEF GoodsGoToPayers
<1> QED
  BY <1>1, <1>2, <1>3 DEF MoneyInv, MoneySafe

LEMMA MoneyStart == Init /\ StockInv => MoneyInv
<1> SUFFICES ASSUME Init, StockInv PROVE MoneyInv
  OBVIOUS
<1>1. \A o \in Orders : /\ order[o].status = "ABSENT" /\ order[o].paymentStatus = "ABSENT"
                       /\ order[o].serials = {}
  BY DEF Init, NoOrder
<1>2. \A p \in Payments : /\ payment[p].captured = 0 /\ payment[p].refunded = 0
                         /\ payment[p].reserved = 0 /\ payment[p].net = 0
  BY DEF Init, NoPayment
<1>3. \A r \in Refunds : refund[r].status = "ABSENT"
  BY DEF Init, NoRefund
<1>4. GoodsGoToPayers
  BY <1>1 DEF Init, GoodsGoToPayers, CancelledHoldsNothing, StockGoesToPayers, UnitSoldOnce, LinesIn
<1>5. CapturedOnce
  BY <1>2 DEF Init, CapturedOnce, AtMostOneCapture, ReceiptsMatchCaptures
<1>6. PaymentTotalsExact
  <2>1. \A p \in Payments : RefundsIn(p, {"RESERVED", "PROVIDER_PENDING"}) = {}
                           /\ RefundsIn(p, {"SUCCEEDED"}) = {}
    BY <1>3 DEF RefundsIn
  <2>2. MaxTotal \in Nat
    BY CommerceAssumption DEF CommerceAssumption
  <2> QED
    BY <1>2, <2>1, <2>2, TotalEmpty DEF PaymentTotalsExact, Balanced
<1>7. BooksAgree
  BY <1>2, <1>6 DEF Init, BooksAgree, NeverDisagrees, OrderMirrorsPayments, PaymentsOf
<1> QED
  BY <1>1, <1>2, <1>3, <1>4, <1>5, <1>7 DEF MoneyInv, PayableWhilePlaced, CapturedWhole,
     RefundsPositive, SoldUnitsGone

LEMMA MoneyInvariant == Spec => []MoneyInv
BY MoneyStart, MoneyStep, StockInvariant, TypeCorrect, PTL DEF Spec

(* However cancellations, captures and dispatches interleave: a cancelled  *)
(* order keeps no stock, allocated and shipped lines are backed by a whole *)
(* capture, and no serialised unit goes to two orders.                     *)
THEOREM OnlyPayersGetGoods == Spec => []GoodsGoToPayers
<1>1. MoneyInv => GoodsGoToPayers
  BY DEF MoneyInv
<1> QED
  BY <1>1, MoneyInvariant, PTL

(* However many attempts, transfers and callbacks race, one payment of an  *)
(* order is captured, and of the orders that can be documented exactly the *)
(* captured payments have a receipt: the others are captured without one.  *)
THEOREM OrdersAreCapturedOnce == Spec => []CapturedOnce
<1>1. MoneyInv => CapturedOnce
  BY DEF MoneyInv
<1> QED
  BY <1>1, MoneyInvariant, PTL

(* Cached totals are the sums of the refunds behind them, cover every      *)
(* refund in flight, and the order says what its payment records, whatever *)
(* the order and number of provider callbacks.                             *)
THEOREM BooksAlwaysAgree == Spec => []BooksAgree
<1>1. MoneyInv => BooksAgree
  BY DEF MoneyInv
<1> QED
  BY <1>1, MoneyInvariant, PTL
(* Goods leave only while the payment still stands whole: the dispatch     *)
(* reads the order, and the order mirrors the payment it never reads.      *)
THEOREM ShippedGoodsArePaid == Spec => ShipsOnlyFullyPaid
<1>1. ASSUME MoneyInv, [Next]_vars, NEW o \in Orders, NEW v \in Variants,
             reservation'[o][v] = "CONSUMED", reservation[o][v] # "CONSUMED"
      PROVE  \E p \in PaymentsOf(o) : payment[p].net = OrderTotal[o]
  <2>1. reservation[o][v] = "ALLOCATED" /\ order[o].paymentStatus = "paid"
    BY <1>1, LineMoves DEF MoneyInv, LineMove, LiveStates
  <2>2. PICK p \in PaymentsOf(o) : payment[p].captured = OrderTotal[o]
    BY <1>1, <2>1 DEF MoneyInv, GoodsGoToPayers, StockGoesToPayers, LinesIn
  <2>3. p \in Payments /\ OrderTotal[o] \in Nat /\ OrderTotal[o] > 0
    BY CommerceAssumption DEF CommerceAssumption, PaymentsOf
  <2>4. payment[p].refunded = 0
    <3>1. payment[p].captured > 0
      BY <2>2, <2>3
    <3> QED
      BY <1>1, <2>1, <3>1 DEF MoneyInv, BooksAgree, OrderMirrorsPayments
  <2>5. payment[p].net = OrderTotal[o]
    BY <1>1, <2>2, <2>3, <2>4, Totals
  <2> QED
    BY <2>5
<1>2. MoneyInv /\ [Next]_vars =>
        [\A o \in Orders, v \in Variants :
           reservation'[o][v] = "CONSUMED" /\ reservation[o][v] # "CONSUMED"
             => \E p \in PaymentsOf(o) : payment[p].net = OrderTotal[o]]_vars
  BY <1>1
<1> QED
  BY <1>2, MoneyInvariant, PTL DEF Spec, ShipsOnlyFullyPaid

-----------------------------------------------------------------------------
(* The refund ledger                                                       *)

(* What the ledger has promised out of a payment is what is reserved on it *)
(* and what was paid back.                                                 *)
LEMMA LedgerTotal ==
  ASSUME NEW weight, NEW S, NEW max
  PROVE  Ledger!Total(weight, S, max) = Total(weight, S, max)
<1>1. Ledger!Pieces(weight, S, max) = Pieces(weight, S, max)
  BY DEF Ledger!Pieces, Pieces
<1>2. ASSUME NEW T PROVE Ledger!Cardinality(T) = Cardinality(T)
  BY DEF Ledger!Cardinality, Cardinality
<1> QED
  BY <1>1, <1>2 DEF Ledger!Total, Total

LEMMA PromisedIsBooked ==
  ASSUME MoneyInv, NEW p \in Payments
  PROVE  Ledger!Total(RefundAmount, Ledger!Promised(p), MaxTotal)
           = payment[p].reserved + payment[p].refunded
<1> DEFINE A == RefundsIn(p, ACTIVE_REFUNDS)
           B == RefundsIn(p, {"SUCCEEDED"})
<1>1. IsFiniteSet(A) /\ IsFiniteSet(B) /\ MaxTotal \in Nat
  BY CommerceAssumption, FS_Subset DEF CommerceAssumption, RefundsIn
<1>2. A \cap B = {}
  BY DEF RefundsIn, ACTIVE_REFUNDS
<1>3. Ledger!Promised(p) = A \cup B
  <2>1. \A r \in Refunds : refund[r].status \in RefundStatus
    BY DEF MoneyInv, StockInv, TypeOK, RefundDocument
  <2>2. \A r \in Refunds : Fate(refund[r].status) \in {"open", "paid"}
                            <=> refund[r].status \in ACTIVE_REFUNDS \cup {"SUCCEEDED"}
    BY <2>1 DEF Fate, RefundStatus, ACTIVE_REFUNDS
  <2> QED
    BY <2>2 DEF Ledger!Promised, RefundsIn
<1> HIDE DEF A, B
<1>4. Total(RefundAmount, A \cup B, MaxTotal)
        = Total(RefundAmount, A, MaxTotal) + Total(RefundAmount, B, MaxTotal)
  BY <1>1, <1>2, TotalUnion
<1>5. /\ payment[p].reserved = Total(RefundAmount, A, MaxTotal)
      /\ payment[p].refunded = Total(RefundAmount, B, MaxTotal)
  BY Totals DEF Asked, A, B
<1> QED
  BY <1>3, <1>4, <1>5, LedgerTotal

(* A refund document written is a promise made, closed or left as it was.  *)
LEMMA RefundWriteIsLedgerStep ==
  ASSUME MoneyInv, TypeOK', NEW r \in Refunds, NEW doc \in RefundDocument, RefundWritten(r, doc)
  PROVE  [Ledger!LedgerNext]_(Ledger!ledgerVars)
<1> DEFINE b == RefundOf[r]
           captured == [p \in Payments |-> payment[p].captured]
           fate == [s \in Refunds |-> Fate(refund[s].status)]
<1>0. b \in Payments /\ MaxTotal \in Nat /\ TypeOK
  BY CommerceAssumption DEF CommerceAssumption, MoneyInv, StockInv
<1>1. captured' = captured
  BY DEF RefundWritten, Rebalanced
<1>2. refund'[r] = doc /\ \A s \in Refunds \ {r} : refund'[s] = refund[s]
  BY <1>0 DEF TypeOK, RefundWritten
<1>3. RefundAmount' = [RefundAmount EXCEPT ![r] = doc.amount]
  BY <1>2 DEF RefundAmount
<1>4. fate' = [fate EXCEPT ![r] = Fate(doc.status)]
  BY <1>2
<1>5. CASE refund[r].status = "ABSENT"
  <2>1. doc.status = "RESERVED" /\ doc.amount \in 1..MaxTotal
    BY <1>5 DEF RefundWritten
  <2>2. fate[r] = "none" /\ Fate(doc.status) = "open"
    BY <1>5, <2>1 DEF Fate
  <2>3. doc.amount + (payment[b].reserved + payment[b].refunded) <= payment[b].captured
    <3>1. Rebalanced(r, doc, b)
      BY <1>0 DEF RefundWritten
    <3>2. /\ Share(r, refund[r], b, ACTIVE_REFUNDS) = 0
          /\ Share(r, doc, b, ACTIVE_REFUNDS) = doc.amount
          /\ Share(r, refund[r], b, {"SUCCEEDED"}) = 0 /\ Share(r, doc, b, {"SUCCEEDED"}) = 0
      BY <1>5, <2>1 DEF Share, ACTIVE_REFUNDS
    <3>3. payment'[b].reserved \in Int /\ payment'[b].refunded \in Int
      BY <1>0 DEF TypeOK, PaymentDocument
    <3>4. doc.amount \in Nat
      BY <1>0, <2>1
    <3> QED
      BY <1>0, <3>1, <3>2, <3>3, <3>4, Totals DEF Rebalanced, Balanced
  <2>4. doc.amount + Ledger!Total(RefundAmount, Ledger!Promised(b), MaxTotal) <= captured[b]
    BY <1>0, <2>3, PromisedIsBooked
  <2>5. Ledger!Promise(r, doc.amount)
    BY <1>1, <1>3, <1>4, <2>2, <2>4 DEF Ledger!Promise
  <2> QED
    BY <2>1, <2>5 DEF Ledger!LedgerNext
<1>6. CASE refund[r].status \in ACTIVE_REFUNDS
  <2>1. RefundAmount' = RefundAmount
    <3>1. doc.amount = RefundAmount[r]
      BY <1>6 DEF RefundWritten, RefundAmount, ACTIVE_REFUNDS
    <3> QED
      BY <1>3, <3>1 DEF RefundAmount
  <2>2. fate[r] = "open"
    BY <1>6 DEF Fate, ACTIVE_REFUNDS
  <2>3. Fate(doc.status) \in {"open", "paid", "dropped"}
    BY DEF Fate, RefundWritten, RefundStatus
  <2>4. CASE Fate(doc.status) = "open"
    <3>1. fate' = fate
      BY <1>4, <2>2, <2>4
    <3> QED
      BY <1>1, <2>1, <3>1 DEF Ledger!ledgerVars
  <2>5. CASE Fate(doc.status) \in {"paid", "dropped"}
    <3>1. Ledger!Close(r, Fate(doc.status))
      BY <1>1, <1>4, <2>1, <2>2 DEF Ledger!Close
    <3> QED
      BY <2>5, <3>1 DEF Ledger!LedgerNext
  <2> QED
    BY <2>3, <2>4, <2>5
<1> QED
  BY <1>5, <1>6 DEF RefundWritten

(* Callbacks in any order, repeated or late, capture an order once and     *)
(* settle each refund once, out of what was captured: the store implements *)
(* RefundLedger.                                                           *)
THEOREM StoreKeepsTheLedger == Spec => LedgerSpec
<1> DEFINE captured == [p \in Payments |-> payment[p].captured]
           fate == [s \in Refunds |-> Fate(refund[s].status)]
<1>1. Init => Ledger!LedgerInit
  BY DEF Init, NoPayment, NoRefund, Ledger!LedgerInit, RefundAmount, Fate
<1>2. MoneyInv /\ TypeOK' /\ [Next]_vars => [Ledger!LedgerNext]_(Ledger!ledgerVars)
  <2> SUFFICES ASSUME MoneyInv, TypeOK', [Next]_vars
               PROVE  [Ledger!LedgerNext]_(Ledger!ledgerVars)
    OBVIOUS
  <2>1. CASE SameMoney
    <3>1. captured' = captured /\ RefundAmount' = RefundAmount /\ fate' = fate
      BY <2>1 DEF SameMoney, SameTotals, RefundAmount
    <3> QED
      BY <3>1 DEF Ledger!ledgerVars
  <2>2. ASSUME NEW p \in Payments, Captured(p) PROVE Ledger!CaptureMoney(p)
    <3>1. RefundAmount' = RefundAmount /\ fate' = fate
      BY <2>2 DEF Captured, RefundAmount
    <3>2. captured' = [captured EXCEPT ![p] = OrderTotal[Subject[p]]]
      BY <2>2 DEF Captured
    <3>3. \A q \in Payments : Subject[q] = Subject[p] => captured[q] = 0
      BY <2>2, PendingUncaptured, CommerceAssumption DEF CommerceAssumption, Captured, PaymentsOf
    <3> QED
      BY <3>1, <3>2, <3>3 DEF Ledger!CaptureMoney
  <2>3. (\E p \in Payments : Captured(p)) => Ledger!LedgerNext
    BY <2>2 DEF Ledger!LedgerNext
  <2> QED
    BY <2>1, <2>3, MoneyMoves, RefundWriteIsLedgerStep
<1> QED
  BY <1>1, <1>2, MoneyInvariant, TypeCorrect, PTL DEF Spec, LedgerSpec, Ledger!LedgerSpec
=============================================================================
