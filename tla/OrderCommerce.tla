--------------------------- MODULE OrderCommerce ---------------------------
(***************************************************************************)
(* Orders, stock reservations, payments and refunds of the store: the      *)
(* documents that checkout, the reservation service, the payment           *)
(* transition service, the bank-transfer service and the expiry job share  *)
(* in MongoDB.                                                             *)
(*                                                                         *)
(* Every handler below runs in one withTransaction, so one action is one   *)
(* handler.  Provider callbacks are duplicated, reordered, delayed and     *)
(* lost at will: any callback about an existing payment or refund may be   *)
(* delivered at any time, any number of times, or never.                   *)
(*                                                                         *)
(* An operator named X_Bug is a plausible bug in X, kept beside it to show *)
(* that a property would catch it; nothing uses it.                        *)
(***************************************************************************)
EXTENDS Integers, FiniteSets, Tally, PaymentAccounts

CONSTANTS
  Orders,           \* orders that may be placed
  B2BOrders,        \* those converted from a quotation: no lines, no stock
  Variants,         \* product variants with local stock
  Units,            \* serialised inventory units
  Payments,         \* payment documents that may be created
  BankPayments,     \* those of provider bank_transfer
  Refunds,          \* refund documents that may be created
  EventIds,         \* provider event identifiers
  Quantity,         \* Quantity[o][v]: units of v in the cart of order o
  MaxQuantity,      \* bound on the quantity of a line
  OrderTotal,       \* OrderTotal[o]: the total of order o in minor units
  Documentable,     \* orders whose amounts are whole minor units and add up
  MaxTotal,         \* bound on an order total
  Subject,          \* Subject[p]: the order payment p is bound to
  RefundOf,         \* RefundOf[r]: the payment refund r is bound to
  OpeningStock,     \* OpeningStock[v]: stock before the first order
  StockLevels,      \* levels the inventory desk may correct a stock to
  CheckoutMethods   \* payment methods customers choose

ASSUME CommerceAssumption ==
  /\ IsFiniteSet(Orders) /\ IsFiniteSet(Refunds)
  /\ B2BOrders \subseteq Orders /\ BankPayments \subseteq Payments
  /\ MaxQuantity \in Nat /\ MaxTotal \in Nat
  /\ Quantity \in [Orders -> [Variants -> 0..MaxQuantity]]
  /\ \A o \in Orders : (o \in B2BOrders) <=> (\A v \in Variants : Quantity[o][v] = 0)
  /\ OrderTotal \in [Orders -> 1..MaxTotal]
  /\ Documentable \subseteq Orders
  /\ Subject \in [Payments -> Orders]
  /\ RefundOf \in [Refunds -> Payments]
  \* the idempotency key bank-transfer:<order> is unique
  /\ \A p, q \in BankPayments : Subject[p] = Subject[q] => p = q
  /\ OpeningStock \in [Variants -> Nat]
  /\ StockLevels \subseteq Nat
  /\ CheckoutMethods \subseteq {"paystack", "bank_transfer", "pay_on_pickup"}

VARIABLES
  order,        \* Order documents
  reservation,  \* reservation[o][v]: status of the StockReservation of a line
  lapsed,       \* lapsed[o]: variants whose line of o has passed its expiresAt
  inStock,      \* Variant.inStock
  corrected,    \* corrected[v]: net stock movement not made by a reservation
  unit,         \* InventoryUnit.state
  payment,      \* Payment documents
  refund,       \* Refund documents
  documents,    \* FinancialDocument keys
  cases         \* ReconciliationCase documents

stockVars == <<inStock, corrected, reservation, lapsed, unit>>
moneyVars == <<payment, refund, documents, cases>>
vars == <<order, stockVars, moneyVars>>

-----------------------------------------------------------------------------
(* Documents                                                               *)

OrderStatus ==
  {"ABSENT", "pending_payment", "paid", "dispatched", "completed", "cancelled", "refunded"}

OrderPaymentStatus ==
  {"ABSENT", "pending", "paid", "failed", "partially_refunded", "refunded"}

OrderDocument ==
  [status : OrderStatus, paymentStatus : OrderPaymentStatus,
   paymentMethod : {"ABSENT", "paystack", "bank_transfer", "pay_on_pickup"},
   receipt : {"ABSENT", "ACTIVE", "DELETED"}, \* evidence both documents point to
   serials : SUBSET Units]

ReservationStatus == {"ABSENT", "RESERVED", "ALLOCATED", "RELEASED", "CONSUMED", "EXPIRED"}

PaymentDocument ==
  [status : PaymentStatus, captured : Int, refunded : Int, reserved : Int, net : Int,
   events : SUBSET EventIds]

RefundDocument ==
  [status : RefundStatus, amount : 0..MaxTotal, events : SUBSET EventIds]

(* A document is known by its unique documentKey: an invoice is keyed by   *)
(* its order, a receipt by its payment.                                    *)
FinancialDocument == ({"INVOICE"} \X Orders) \cup ({"RECEIPT"} \X Payments)

NoOrder == [status |-> "ABSENT", paymentStatus |-> "ABSENT", paymentMethod |-> "ABSENT",
            receipt |-> "ABSENT", serials |-> {}]
NoPayment == [status |-> "ABSENT", captured |-> 0, refunded |-> 0, reserved |-> 0, net |-> 0,
              events |-> {}]
NoRefund == [status |-> "ABSENT", amount |-> 0, events |-> {}]

Lines(o) == {v \in Variants : Quantity[o][v] > 0}
LinesIn(o, states) == {v \in Variants : reservation[o][v] \in states}
OrdersWith(v, states) == {o \in Orders : reservation[o][v] \in states}
QuantityOf(v) == [o \in Orders |-> Quantity[o][v]]

PaymentsOf(o) == {p \in Payments : Subject[p] = o}
RefundsIn(p, states) == {r \in Refunds : RefundOf[r] = p /\ refund[r].status \in states}
RefundAmount == [r \in Refunds |-> refund[r].amount]

Init ==
  /\ order = [o \in Orders |-> NoOrder]
  /\ reservation = [o \in Orders |-> [v \in Variants |-> "ABSENT"]]
  /\ lapsed = [o \in Orders |-> {}]
  /\ inStock = OpeningStock
  /\ corrected = [v \in Variants |-> 0]
  /\ unit = [u \in Units |-> "SELLABLE"]
  /\ payment = [p \in Payments |-> NoPayment]
  /\ refund = [r \in Refunds |-> NoRefund]
  /\ documents = {}
  /\ cases = {}

-----------------------------------------------------------------------------
(* Reservations                                                            *)

LiveStates_Bug == {"RESERVED"}
LiveStates == {"RESERVED", "ALLOCATED"}

(* Close the lines of set L and put what they held back on the shelf.      *)
ReturnLines_Bug(L, next) ==
  /\ reservation' = [o \in Orders |-> [v \in Variants |->
                       IF <<o, v>> \in L THEN next ELSE reservation[o][v]]]
  /\ UNCHANGED <<inStock, lapsed, corrected, unit>>
ReturnLines(L, next) ==
  /\ reservation' = [o \in Orders |-> [v \in Variants |->
                       IF <<o, v>> \in L THEN next ELSE reservation[o][v]]]
  /\ inStock' = [v \in Variants |->
                   inStock[v] + Total(QuantityOf(v), {o \in Orders : <<o, v>> \in L}, MaxQuantity)]
  /\ UNCHANGED <<lapsed, corrected, unit>>

ReleaseOrderReservations_Bug(o) == ReturnLines({o} \X LinesIn(o, LiveStates \cup {"CONSUMED"}), "RELEASED")
ReleaseOrderReservations(o) == ReturnLines({o} \X LinesIn(o, LiveStates), "RELEASED")

AllocateOrderReservations_Bug(o) == reservation' = [x \in Orders |->
  [v \in Variants |-> IF reservation[x][v] = "RESERVED" THEN "ALLOCATED" ELSE reservation[x][v]]]
AllocateOrderReservations(o) == reservation' = [reservation EXCEPT ![o] =
  [v \in Variants |-> IF @[v] = "RESERVED" THEN "ALLOCATED" ELSE @[v]]]

(* Each line is taken by an update conditional on inStock >= quantity; one *)
(* line that finds too little aborts the whole checkout.                   *)
Coverable_Bug(o) == \E v \in Lines(o) : Quantity[o][v] <= inStock[v]
Coverable(o) == \A v \in Lines(o) : Quantity[o][v] <= inStock[v]

PlacedOrder(doc, method) == [doc EXCEPT !.status = "pending_payment",
                                        !.paymentStatus = "pending", !.paymentMethod = method]

(* Order, one reservation per line and the stock holds, all or nothing.    *)
Checkout(o, method) ==
  /\ o \notin B2BOrders /\ order[o].status = "ABSENT"
  /\ Coverable(o)
  /\ order' = [order EXCEPT ![o] = PlacedOrder(@, method)]
  /\ inStock' = [v \in Variants |-> inStock[v] - Quantity[o][v]]
  /\ reservation' = [reservation EXCEPT ![o] =
                       [v \in Variants |-> IF v \in Lines(o) THEN "RESERVED" ELSE "ABSENT"]]
  /\ UNCHANGED <<corrected, lapsed, unit, moneyVars>>

(* An approved quotation becomes an order that holds no stock.             *)
ConvertQuotation(o, method) ==
  /\ o \in B2BOrders /\ order[o].status = "ABSENT"
  /\ order' = [order EXCEPT ![o] = PlacedOrder(@, method)]
  /\ UNCHANGED <<stockVars, moneyVars>>

(* Each line has an expiresAt of its own, taken when the line was written. *)
LineLapses(o, v) ==
  /\ reservation[o][v] = "RESERVED" /\ v \notin lapsed[o]
  /\ lapsed' = [lapsed EXCEPT ![o] = @ \cup {v}]
  /\ UNCHANGED <<order, inStock, corrected, reservation, unit, moneyVars>>

(* The job's query: what it closes among the lines whose time has passed.  *)
ExpirableStates_Bug == {"ALLOCATED"}
ExpirableStates == {"RESERVED"}

ExpireReservations ==
  LET L == {l \in Orders \X Variants :
              reservation[l[1]][l[2]] \in ExpirableStates /\ l[2] \in lapsed[l[1]]}
  IN  /\ L # {}
      /\ ReturnLines(L, "EXPIRED")
      /\ UNCHANGED <<order, moneyVars>>

PaymentStatusAfterCancel(s) == IF s = "pending" THEN "failed" ELSE s

CancelledOrder(doc) ==
  [doc EXCEPT !.status = "cancelled", !.paymentStatus = PaymentStatusAfterCancel(@)]

CancelOrder(o) ==
  /\ order[o].status \notin {"ABSENT", "cancelled", "dispatched", "completed"}
  /\ ReleaseOrderReservations(o)
  /\ order' = [order EXCEPT ![o] = CancelledOrder(@)]
  /\ UNCHANGED moneyVars

Fulfillable(o, target) ==
  /\ order[o].status \notin {"ABSENT", target, "completed", "cancelled"}
  /\ order[o].paymentStatus = "paid"

(* Serials are checked for being sellable, not for being of the order.     *)
SellableSerials_Bug(S) == S \subseteq Units
SellableSerials(S) == \A u \in S : unit[u] \in {"SELLABLE", "ALLOCATED"}

FulfillOrder(o, target, serials) ==
  /\ Fulfillable(o, target)
  /\ LinesIn(o, {"ALLOCATED"}) # {}
  /\ SellableSerials(serials)
  /\ reservation' = [reservation EXCEPT ![o] =
                       [v \in Variants |-> IF @[v] = "ALLOCATED" THEN "CONSUMED" ELSE @[v]]]
  /\ unit' = [u \in Units |-> IF u \in serials THEN "CONSUMED" ELSE unit[u]]
  /\ order' = [order EXCEPT ![o] =
                  [@ EXCEPT !.status = target,
                            !.serials = IF serials # {} THEN serials ELSE order[o].serials]]
  /\ UNCHANGED <<inStock, corrected, lapsed, moneyVars>>

ConfirmDelivery(o) ==
  /\ order[o].status = "dispatched"
  /\ order' = [order EXCEPT ![o].status = "completed"]
  /\ UNCHANGED <<stockVars, moneyVars>>

(* A manual adjustment, a resolved count or a catalogue edit of inStock.   *)
CorrectStock(v, level) ==
  /\ level # inStock[v]
  /\ inStock' = [inStock EXCEPT ![v] = level]
  /\ corrected' = [corrected EXCEPT ![v] = @ + (level - inStock[v])]
  /\ UNCHANGED <<order, reservation, lapsed, unit, moneyVars>>

-----------------------------------------------------------------------------
(* Payments                                                                *)

Reconcile(category, about) ==
  cases' = cases \cup {[category |-> category, about |-> about]}

(* An attempt may be opened while the order is unpaid, several at a time   *)
(* under different keys, whatever payment method the customer chose.       *)
CreatePaymentAttempt(p) ==
  /\ p \notin BankPayments /\ payment[p].status = "ABSENT"
  /\ order[Subject[p]].paymentStatus = "pending"
  /\ payment' = [payment EXCEPT ![p].status = "PENDING"]
  /\ UNCHANGED <<order, stockVars, refund, documents, cases>>

(* Verified financial documents are written with the capture of an order   *)
(* that can be documented; a callback captures the others without any.     *)
VerifiedDocuments_Bug(p) == {<<"INVOICE", Subject[p]>>}
VerifiedDocuments(p) ==
  {d \in {<<"INVOICE", Subject[p]>>, <<"RECEIPT", p>>} : Subject[p] \in Documentable}

OrderAwaitsPayment(o) == order[o].paymentStatus = "pending"

(* The effects of a capture, common to a callback and a verified transfer. *)
CaptureFor(p, events) ==
  LET o == Subject[p] IN
  /\ payment' = [payment EXCEPT ![p] = [Capture(@, OrderTotal[o]) EXCEPT !.events = events]]
  /\ order' = [order EXCEPT ![o] = [@ EXCEPT !.status = "paid", !.paymentStatus = "paid"]]
  /\ AllocateOrderReservations(o)
  /\ documents' = documents \cup VerifiedDocuments(p)
  /\ UNCHANGED <<inStock, corrected, lapsed, unit, refund, cases>>

(* A provider event id is unique over the payments of the store.           *)
Located(p) == p \notin BankPayments /\ payment[p].status # "ABSENT"
EventUnused(e) == \A p \in Payments : e \notin payment[p].events

(* A callback whose amount, currency, owner, subject or purpose differs.   *)
PaymentMismatch(p) ==
  /\ Located(p)
  /\ Reconcile("payment_binding_mismatch", p)
  /\ UNCHANGED <<order, stockVars, payment, refund, documents>>

ChargeSucceeds(p, e) ==
  /\ Located(p) /\ e \notin payment[p].events
  /\ \/ /\ payment[p].status \in PAYMENT_TERMINAL
        /\ Reconcile(IF payment[p].status = "SUCCEEDED" THEN "duplicate_event_conflict"
                     ELSE "out_of_order_terminal_event", p)
        /\ UNCHANGED <<order, stockVars, payment, refund, documents>>
     \/ /\ payment[p].status \notin PAYMENT_TERMINAL
        /\ OrderAwaitsPayment(Subject[p]) /\ EventUnused(e) \* else the transaction aborts
        /\ CaptureFor(p, payment[p].events \cup {e})

ChargeFails(p, e) ==
  /\ Located(p) /\ e \notin payment[p].events /\ payment[p].status # "FAILED"
  /\ \/ /\ payment[p].status \in PAYMENT_TERMINAL
        /\ Reconcile("out_of_order_terminal_event", p)
        /\ UNCHANGED <<order, stockVars, payment, refund, documents>>
     \/ /\ payment[p].status \notin PAYMENT_TERMINAL /\ EventUnused(e)
        /\ payment' = [payment EXCEPT ![p] =
                         [@ EXCEPT !.status = "FAILED", !.events = payment[p].events \cup {e}]]
        /\ ReleaseOrderReservations(Subject[p])
        /\ UNCHANGED <<order, refund, documents, cases>>

(* The receipt of a bank transfer opens or refreshes the order's payment.  *)
AttachBankTransferEvidence(p) ==
  LET o == Subject[p] IN
  /\ p \in BankPayments /\ payment[p].status \in {"ABSENT", "PENDING"}
  /\ order[o].paymentMethod = "bank_transfer"
  /\ order[o].paymentStatus = "pending" /\ order[o].status = "pending_payment"
  /\ payment' = [payment EXCEPT ![p].status = "PENDING"]
  /\ order' = [order EXCEPT ![o].receipt = "ACTIVE"]
  /\ UNCHANGED <<stockVars, refund, documents, cases>>

(* Its owner or the staff of the order domain may delete the evidence.     *)
DeleteReceiptEvidence(o) ==
  /\ order[o].receipt = "ACTIVE"
  /\ order' = [order EXCEPT ![o].receipt = "DELETED"]
  /\ UNCHANGED <<stockVars, moneyVars>>

TransferVerifiable_Bug(p) ==
  LET o == Subject[p] IN order[o].receipt = "ACTIVE" /\ payment[p].status = "PENDING"
TransferVerifiable(p) ==
  LET o == Subject[p] IN
  /\ order[o].receipt = "ACTIVE" /\ payment[p].status = "PENDING"
  /\ order[o].paymentStatus = "pending" /\ order[o].status = "pending_payment"

(* Staff who verify a transfer always write its documents: the schema      *)
(* refuses those of an order that cannot be documented, and the            *)
(* transaction aborts.                                                     *)
VerifyBankTransfer(p) ==
  /\ p \in BankPayments
  /\ TransferVerifiable(p) /\ Subject[p] \in Documentable
  /\ CaptureFor(p, payment[p].events)

(* The owner asks for the invoice of an order, paid or not.  A receipt     *)
(* asked for is the one of the capture: without that one its documents are *)
(* refused as well.                                                        *)
IssueInvoice(o) ==
  /\ o \in Documentable /\ order[o].status # "ABSENT" /\ <<"INVOICE", o>> \notin documents
  /\ documents' = documents \cup {<<"INVOICE", o>>}
  /\ UNCHANGED <<order, stockVars, payment, refund, cases>>

-----------------------------------------------------------------------------
(* Refunds                                                                 *)

ReserveRefund(r, amount) ==
  LET p == RefundOf[r] IN
  /\ refund[r].status = "ABSENT"
  /\ payment[p].status \in PAYMENT_SUCCESS
  /\ amount \in 1..Available(payment[p])
  /\ payment' = [payment EXCEPT ![p] = Hold(@, amount)]
  /\ refund' = [refund EXCEPT ![r] = [@ EXCEPT !.status = "RESERVED", !.amount = amount]]
  /\ UNCHANGED <<order, stockVars, documents, cases>>

EventOfAnotherRefund(r, e) == \E s \in Refunds \ {r} : e \in refund[s].events

(* A callback whose binding differs, or that another refund already used.  *)
RefundEventRejected(r, e) ==
  /\ refund[r].status # "ABSENT"
  /\ \/ Reconcile("refund_binding_mismatch", r)
     \/ EventOfAnotherRefund(r, e) /\ Reconcile("duplicate_event_conflict", r)
  /\ UNCHANGED <<order, stockVars, payment, refund, documents>>

(* A callback that contradicts what the refund already is.                 *)
LateRefundEvent(r, e, target) ==
  /\ refund[r].status \notin {"ABSENT"} \cup ACTIVE_REFUNDS
  /\ ~(refund[r].status = target /\ e \in refund[r].events)
  /\ ~EventOfAnotherRefund(r, e)
  /\ Reconcile("out_of_order_terminal_event", r)
  /\ UNCHANGED <<order, stockVars, payment, refund, documents>>

RefundPending(r, e) ==
  /\ refund[r].status = "RESERVED" /\ ~EventOfAnotherRefund(r, e)
  /\ refund' = [refund EXCEPT ![r] =
                  [@ EXCEPT !.status = "PROVIDER_PENDING", !.events = refund[r].events \cup {e}]]
  /\ UNCHANGED <<order, stockVars, payment, documents, cases>>

Refundable_Bug(r) == refund[r].status # "ABSENT"
Refundable(r) == refund[r].status \in ACTIVE_REFUNDS

(* The totals cached on the payment no longer cover the refund.            *)
Disagrees(r) ==
  LET acc == payment[RefundOf[r]] IN
  \/ acc.reserved < refund[r].amount
  \/ acc.refunded + refund[r].amount > acc.captured

OrderAfterRefund_Bug(o, acc) ==
  IF acc.refunded = acc.captured
    THEN [order[o] EXCEPT !.paymentStatus = "refunded", !.status = "refunded"]
    ELSE order[o]
OrderAfterRefund(o, acc) ==
  IF acc.refunded = acc.captured
    THEN [order[o] EXCEPT !.paymentStatus = "refunded", !.status = "refunded"]
    ELSE [order[o] EXCEPT !.paymentStatus = "partially_refunded"]

RefundSucceeds(r, e) ==
  LET p == RefundOf[r] o == Subject[p] acc == Settle(payment[p], refund[r].amount) IN
  /\ Refundable(r) /\ ~EventOfAnotherRefund(r, e)
  /\ IF Disagrees(r)
       THEN /\ Reconcile("provider_database_disagreement", r)
            /\ UNCHANGED <<order, payment, refund>>
       ELSE /\ payment' = [payment EXCEPT ![p] = acc]
            /\ refund' = [refund EXCEPT ![r] =
                            [@ EXCEPT !.status = "SUCCEEDED", !.events = refund[r].events \cup {e}]]
            /\ order' = [order EXCEPT ![o] = OrderAfterRefund(o, acc)]
            /\ UNCHANGED cases
  /\ UNCHANGED <<stockVars, documents>>

ReleaseRefund(r, target, events) ==
  LET p == RefundOf[r] IN
  /\ IF payment[p].reserved < refund[r].amount
       THEN /\ Reconcile("provider_database_disagreement", r)
            /\ UNCHANGED <<payment, refund>>
       ELSE /\ payment' = [payment EXCEPT ![p] = ReleaseHold(@, refund[r].amount)]
            /\ refund' = [refund EXCEPT ![r] = [@ EXCEPT !.status = target, !.events = events]]
            /\ UNCHANGED cases
  /\ UNCHANGED <<order, stockVars, documents>>

RefundFails(r, e) ==
  /\ Refundable(r) /\ ~EventOfAnotherRefund(r, e)
  /\ ReleaseRefund(r, "FAILED", refund[r].events \cup {e})

(* Staff may take back a refund the provider has not acknowledged yet.     *)
CancelReservedRefund(r) ==
  \/ /\ refund[r].status = "RESERVED"
     /\ ReleaseRefund(r, "CANCELLED", refund[r].events)
  \/ /\ refund[r].status \notin {"ABSENT", "RESERVED", "CANCELLED"}
     /\ Reconcile("out_of_order_terminal_event", r)
     /\ UNCHANGED <<order, stockVars, payment, refund, documents>>

-----------------------------------------------------------------------------
(* The store                                                               *)

CustomerStep ==
  \/ \E o \in Orders, m \in CheckoutMethods : Checkout(o, m) \/ ConvertQuotation(o, m)
  \/ \E o \in Orders : CancelOrder(o) \/ IssueInvoice(o) \/ DeleteReceiptEvidence(o)
  \/ \E p \in Payments : CreatePaymentAttempt(p) \/ AttachBankTransferEvidence(p)

StaffStep ==
  \/ \E o \in Orders, t \in {"dispatched", "completed"}, S \in SUBSET Units : FulfillOrder(o, t, S)
  \/ \E o \in Orders : ConfirmDelivery(o)
  \/ \E p \in Payments : VerifyBankTransfer(p)
  \/ \E r \in Refunds, a \in 1..MaxTotal : ReserveRefund(r, a)
  \/ \E r \in Refunds : CancelReservedRefund(r)
  \/ \E v \in Variants, n \in StockLevels : CorrectStock(v, n)

ProviderStep ==
  \/ \E p \in Payments : PaymentMismatch(p)
  \/ \E p \in Payments, e \in EventIds : ChargeSucceeds(p, e) \/ ChargeFails(p, e)
  \/ \E r \in Refunds, e \in EventIds :
       \/ RefundEventRejected(r, e)
       \/ \E t \in {"PROVIDER_PENDING", "SUCCEEDED", "FAILED"} : LateRefundEvent(r, e, t)
       \/ RefundPending(r, e) \/ RefundSucceeds(r, e) \/ RefundFails(r, e)

ClockStep ==
  \/ \E o \in Orders, v \in Variants : LineLapses(o, v)
  \/ ExpireReservations

Next == CustomerStep \/ StaffStep \/ ProviderStep \/ ClockStep

Spec == Init /\ [][Next]_vars

-----------------------------------------------------------------------------
(* Properties                                                              *)

(* Every document stays within the values its schema allows, and no stock  *)
(* level is negative.                                                      *)
TypeOK ==
  /\ order \in [Orders -> OrderDocument]
  /\ reservation \in [Orders -> [Variants -> ReservationStatus]]
  /\ lapsed \in [Orders -> SUBSET Variants]
  /\ inStock \in [Variants -> Nat]
  /\ corrected \in [Variants -> Int]
  /\ unit \in [Units -> {"SELLABLE", "CONSUMED"}]
  /\ payment \in [Payments -> PaymentDocument]
  /\ refund \in [Refunds -> RefundDocument]
  /\ documents \subseteq FinancialDocument

(* Stock is neither lost nor made: what is on the shelf and what orders    *)
(* hold or have taken away is what the store opened with, give or take the *)
(* movements of the inventory desk.  A release that restocks twice, or not *)
(* at all, breaks it.                                                      *)
StockConserved ==
  \A v \in Variants :
    inStock[v] + Total(QuantityOf(v), OrdersWith(v, {"RESERVED", "ALLOCATED", "CONSUMED"}), MaxQuantity)
      = OpeningStock[v] + corrected[v]

(* A cancelled order keeps no stock from other customers, however the      *)
(* cancellation raced a payment.                                           *)
CancelledHoldsNothing ==
  \A o \in Orders : order[o].status = "cancelled" => LinesIn(o, {"RESERVED", "ALLOCATED"}) = {}

(* Stock is allocated, and goods leave, only against captured money.       *)
StockGoesToPayers ==
  \A o \in Orders : LinesIn(o, {"ALLOCATED", "CONSUMED"}) # {}
     => \E p \in PaymentsOf(o) : payment[p].captured = OrderTotal[o]

(* Several attempts and a bank transfer may race for one order: at most    *)
(* one of them is ever recorded as captured.                               *)
AtMostOneCapture ==
  \A p, q \in Payments :
    Subject[p] = Subject[q] /\ payment[p].captured > 0 /\ payment[q].captured > 0 => p = q

(* The totals cached on a payment are exactly its refund documents: what   *)
(* is reserved are the refunds in flight, what is refunded are the         *)
(* refunds that succeeded, and together they never exceed the capture.     *)
PaymentTotalsExact ==
  \A p \in Payments :
    /\ payment[p].reserved = Total(RefundAmount, RefundsIn(p, {"RESERVED", "PROVIDER_PENDING"}), MaxTotal)
    /\ payment[p].refunded = Total(RefundAmount, RefundsIn(p, {"SUCCEEDED"}), MaxTotal)
    /\ Balanced(payment[p])

(* So a callback never finds totals that cannot cover its refund.          *)
NeverDisagrees == \A c \in cases : c.category # "provider_database_disagreement"

(* What the order says of its payment is what the payment records.         *)
OrderMirrorsPayments ==
  \A o \in Orders : \A p \in PaymentsOf(o) :
    payment[p].captured > 0 =>
      order[o].paymentStatus =
        IF payment[p].refunded = 0 THEN "paid"
        ELSE IF payment[p].net = 0 THEN "refunded" ELSE "partially_refunded"

(* A receipt exists for every captured payment of an order that can be     *)
(* documented, and only for those.                                         *)
ReceiptsMatchCaptures ==
  \A p \in Payments :
    <<"RECEIPT", p>> \in documents <=> payment[p].captured > 0 /\ Subject[p] \in Documentable

(* No serialised unit is handed to two orders.                             *)
UnitSoldOnce ==
  \A o1, o2 \in Orders : o1 # o2 => order[o1].serials \cap order[o2].serials = {}

(* What customers hold or take away they paid for, alone: the three        *)
(* together, however cancellations, captures and dispatches interleave.    *)
GoodsGoToPayers == CancelledHoldsNothing /\ StockGoesToPayers /\ UnitSoldOnce

(* And money taken for an order is taken once, with its receipt where the  *)
(* order can have one.                                                     *)
CapturedOnce == AtMostOneCapture /\ ReceiptsMatchCaptures

(* Payments, refunds, orders and cases tell one story about the money.     *)
BooksAgree == PaymentTotalsExact /\ NeverDisagrees /\ OrderMirrorsPayments

(* A reservation moves only forward: the expiry job and a failed payment   *)
(* never touch what was shipped, and an allocation is never expired.       *)
ReservationMoves ==
  {<<"ABSENT", "RESERVED">>, <<"RESERVED", "ALLOCATED">>, <<"RESERVED", "RELEASED">>,
   <<"RESERVED", "EXPIRED">>, <<"ALLOCATED", "RELEASED">>, <<"ALLOCATED", "CONSUMED">>}
ReservationsMoveForward ==
  [][\A o \in Orders, v \in Variants :
       reservation'[o][v] # reservation[o][v]
         => <<reservation[o][v], reservation'[o][v]>> \in ReservationMoves]_vars

(* Goods leave only while the payment still stands whole: the gate reads   *)
(* the order, the money is on the payment.                                 *)
ShipsOnlyFullyPaid ==
  [][\A o \in Orders, v \in Variants :
       reservation'[o][v] = "CONSUMED" /\ reservation[o][v] # "CONSUMED"
         => \E p \in PaymentsOf(o) : payment[p].net = OrderTotal[o]]_vars

(* Under this mapping the store keeps the promises of StockShelf: what the *)
(* handlers do to reservations and stock is taking, giving back and        *)
(* shipping, each line once.                                               *)
Claim(s) ==
  CASE s = "ABSENT"   -> "none"
    [] s \in {"RESERVED", "ALLOCATED"} -> "held"
    [] s = "CONSUMED" -> "gone"
    [] s \in {"RELEASED", "EXPIRED"} -> "back"
Claims == [o \in Orders |-> [v \in Variants |-> Claim(reservation[o][v])]]

Shelf == INSTANCE StockShelf WITH shelf <- inStock, claim <- Claims
ShelfSpec == Shelf!ShelfSpec

(* And those of RefundLedger: callbacks in any order, repeated or late,    *)
(* capture an order once and settle each refund once.                      *)
Fate(s) ==
  CASE s = "ABSENT"    -> "none"
    [] s \in {"RESERVED", "PROVIDER_PENDING"} -> "open"
    [] s = "SUCCEEDED" -> "paid"
    [] s \in {"FAILED", "CANCELLED"} -> "dropped"
Ledger == INSTANCE RefundLedger WITH
  captured <- [p \in Payments |-> payment[p].captured],
  claimed <- RefundAmount,
  fate <- [r \in Refunds |-> Fate(refund[r].status)]
LedgerSpec == Ledger!LedgerSpec

(* The expiry job is run again and again and clocks advance.               *)
Fairness ==
  /\ WF_vars(ExpireReservations)
  /\ \A o \in Orders, v \in Variants : WF_vars(LineLapses(o, v))

FairSpec == Spec /\ Fairness

(* An unpaid hold ends: no reservation keeps stock from others for ever.   *)
HoldsEnd ==
  \A o \in Orders, v \in Variants :
    reservation[o][v] = "RESERVED" ~> reservation[o][v] # "RESERVED"
=============================================================================
