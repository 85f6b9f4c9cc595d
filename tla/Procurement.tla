---------------------------- MODULE Procurement ----------------------------
(***************************************************************************)
(* Purchase orders of one variant from one supplier, and the receipts that *)
(* put what arrives into the stock of InventoryDesk: loose goods at once,  *)
(* serialised units in quarantine.                                         *)
(***************************************************************************)
EXTENDS InventoryDesk

CONSTANTS
  PurchaseOrders,  \* purchase orders that may be created
  Ordered,         \* units each of them orders
  ReceiptKeys      \* idempotency keys of receipts

ASSUME ProcurementAssumption == Ordered \in Nat \ {0}

VARIABLES
  supplier,   \* Supplier.active
  po,         \* PurchaseOrder documents
  arrivals    \* receipt requests whose key was looked up and not found

procurementVars == <<supplier, po, arrivals>>
supplyVars == <<inventoryVars, procurementVars>>

PurchaseOrderStatus ==
  {"ABSENT", "DRAFT", "PENDING_APPROVAL", "APPROVED", "RECEIVING", "CLOSED", "CANCELLED"}

(* A receipt is of loose goods or of serialised units.                     *)
Receipts ==
  {r \in [op : {"receive"}, po : PurchaseOrders, quantity : 1..Ordered, serials : SUBSET Units] :
     r.serials = {} \/ Cardinality(r.serials) = r.quantity}

(* receipts holds one pair per receipt: its key and what it received.      *)
PurchaseOrderDocument ==
  [status : PurchaseOrderStatus, received : Nat, receipts : SUBSET (ReceiptKeys \X Receipts)]

ProcurementInit ==
  /\ supplier = TRUE
  /\ po = [o \in PurchaseOrders |-> [status |-> "ABSENT", received |-> 0, receipts |-> {}]]
  /\ arrivals = {}

WithStatus(o, status) == [po EXCEPT ![o].status = status]

-----------------------------------------------------------------------------
CreatePurchaseOrder(o) ==
  /\ po[o].status = "ABSENT" /\ supplier
  /\ po' = WithStatus(o, "DRAFT")
  /\ UNCHANGED <<inventoryVars, supplier, arrivals>>

(* Drafts do not keep their supplier active.                               *)
DeactivateSupplier ==
  /\ supplier
  /\ \A o \in PurchaseOrders : po[o].status \notin {"PENDING_APPROVAL", "APPROVED", "RECEIVING"}
  /\ supplier' = FALSE
  /\ UNCHANGED <<inventoryVars, po, arrivals>>

TransitionPurchaseOrder(o, from, to) ==
  /\ po[o].status = from
  /\ po' = WithStatus(o, to)
  /\ UNCHANGED <<inventoryVars, supplier, arrivals>>

SubmitPurchaseOrder(o) == TransitionPurchaseOrder(o, "DRAFT", "PENDING_APPROVAL")
ApprovePurchaseOrder(o) == TransitionPurchaseOrder(o, "PENDING_APPROVAL", "APPROVED")

Cancellable_Bug(o) == po[o].status \in {"DRAFT", "PENDING_APPROVAL", "APPROVED", "RECEIVING"}
Cancellable(o) ==
  po[o].status \in {"DRAFT", "PENDING_APPROVAL", "APPROVED"} /\ po[o].received = 0

CancelPurchaseOrder(o) ==
  /\ Cancellable(o)
  /\ po' = WithStatus(o, "CANCELLED")
  /\ UNCHANGED <<inventoryVars, supplier, arrivals>>

ClosePurchaseOrder(o) ==
  /\ po[o].status \in {"APPROVED", "RECEIVING"}
  /\ po[o].received = Ordered
  /\ po' = WithStatus(o, "CLOSED")
  /\ UNCHANGED <<inventoryVars, supplier, arrivals>>

-----------------------------------------------------------------------------
KeysOf(o) == {receipt[1] : receipt \in po[o].receipts}

BeginReceipt(key, r) ==
  /\ Cardinality(arrivals) < MaxPending
  /\ \A o \in PurchaseOrders : key \notin KeysOf(o)
  /\ arrivals' = arrivals \cup {[key |-> key, request |-> r]}
  /\ UNCHANGED <<inventoryVars, supplier, po>>

(* The unique index on receipts.idempotencyKey compares documents: it does *)
(* not keep two receipts of one purchase order from sharing a key.         *)
ReceiptIndexAdmits(o, key) == \A x \in PurchaseOrders \ {o} : key \notin KeysOf(x)

Fits_Bug(o, quantity) == po[o].received < Ordered
Fits(o, quantity) == po[o].received + quantity <= Ordered

(* A serialised purchase order waits in RECEIVING for an explicit closure. *)
StatusAfterReceipt(o, r) ==
  IF po[o].received + r.quantity >= Ordered /\ r.serials = {} THEN "CLOSED" ELSE "RECEIVING"

(* Serial numbers are unique, and each unit gets a ledger entry of its own *)
(* that moves no stock.                                                    *)
ReceiveSerials(key, r) ==
  /\ \A u \in r.serials : unit[u].state = "ABSENT" /\ KeyFree(<<"unit", key, u>>)
  /\ unit' = [u \in Units |-> IF u \in r.serials
                              THEN [state |-> "QUARANTINED", inspection |-> "PENDING"]
                              ELSE unit[u]]
  /\ ledger' = ledger \cup {[key |-> <<"unit", key, u>>, request |-> r, delta |-> 0] : u \in r.serials}
  /\ UNCHANGED inStock

ReceiveLoose(key, r) ==
  /\ Movement(<<"receipt", key>>, r, r.quantity)
  /\ UNCHANGED unit

ReceivePurchaseOrderLine(a) ==
  LET r == a.request
      o == r.po IN
  /\ po[o].status \in {"APPROVED", "RECEIVING"}
  /\ Fits(o, r.quantity)
  /\ ReceiptIndexAdmits(o, a.key)
  /\ IF r.serials = {} THEN ReceiveLoose(a.key, r) ELSE ReceiveSerials(a.key, r)
  /\ po' = [po EXCEPT ![o].status = StatusAfterReceipt(o, r), ![o].received = @ + r.quantity,
                      ![o].receipts = @ \cup {<<a.key, r>>}]
  /\ arrivals' = arrivals \ {a}
  /\ UNCHANGED <<supplier, sold, unrecorded, count, pending>>

FailReceipt(a) ==
  /\ arrivals' = arrivals \ {a}
  /\ UNCHANGED <<inventoryVars, supplier, po>>

ProcurementNext ==
  \/ \E o \in PurchaseOrders : \/ CreatePurchaseOrder(o)
                               \/ SubmitPurchaseOrder(o)
                               \/ ApprovePurchaseOrder(o)
                               \/ CancelPurchaseOrder(o)
                               \/ ClosePurchaseOrder(o)
  \/ DeactivateSupplier
  \/ \E key \in ReceiptKeys, r \in Receipts : BeginReceipt(key, r)
  \/ \E a \in arrivals : ReceivePurchaseOrderLine(a) \/ FailReceipt(a)

SupplyInit == InventoryInit /\ ProcurementInit
SupplyNext == (InventoryNext /\ UNCHANGED procurementVars) \/ ProcurementNext
SupplySpec == SupplyInit /\ [][SupplyNext]_supplyVars

-----------------------------------------------------------------------------
(* Properties                                                              *)

(* Documents and ledger entries have the shapes their schemas give them.   *)
SupplyTypeOK ==
  /\ inStock \in 0..MaxStock
  /\ sold \in Int /\ unrecorded \in Int
  /\ \A e \in ledger : e.delta \in Int
  /\ unit \in [Units -> UnitDocument]
  /\ count \in [Counts -> CountDocument]
  /\ pending \subseteq [key : Keys, request : Requested]
  /\ supplier \in BOOLEAN
  /\ po \in [PurchaseOrders -> PurchaseOrderDocument]
  /\ arrivals \subseteq [key : ReceiptKeys, request : Receipts]

EntriesOf(o) == {e \in ledger : e.request.op = "receive" /\ e.request.po = o}
LooseReceived(o) == NetDelta(EntriesOf(o))
SerialsReceived(o) == Cardinality({e \in EntriesOf(o) : e.delta = 0})

(* receivePurchaseOrderLine: what a purchase order says it received is     *)
(* what the ledger put into stock or quarantine for it, and never more     *)
(* than was ordered.                                                       *)
ReceiptsReachStock ==
  \A o \in PurchaseOrders :
    /\ po[o].received = LooseReceived(o) + SerialsReceived(o)
    /\ po[o].received <= Ordered

(* README.md:536: a purchase order is closed only when everything arrived, *)
(* and cancelled only before anything did, although receipts already on    *)
(* their way keep arriving.                                                *)
EndsMatchReceipts ==
  \A o \in PurchaseOrders :
    /\ po[o].status = "CLOSED" => po[o].received = Ordered
    /\ po[o].status = "CANCELLED" => po[o].receipts = {}

(* The ledger's entries for a receipt: one of the quantity for loose       *)
(* goods, one of no stock for each serialised unit.                        *)
EntriesOfReceipt(key, r) ==
  IF r.serials = {}
  THEN {[key |-> <<"receipt", key>>, request |-> r, delta |-> r.quantity]}
  ELSE {[key |-> <<"unit", key, u>>, request |-> r, delta |-> 0] : u \in r.serials}

(* procurementService.js:261-319 writes the receipt, the entries and the   *)
(* units in one transaction: the entries of a purchase order are those of  *)
(* the receipts it lists, and no others.                                   *)
ReceiptsHaveEntries ==
  \A o \in PurchaseOrders :
    EntriesOf(o) = UNION {EntriesOfReceipt(x[1], x[2]) : x \in po[o].receipts}

(* PurchaseOrder.js:38 and StockMovement's unique key: a key is used by    *)
(* one purchase order, and there by one receipt of loose goods.  Receipts  *)
(* of units, and one of loose goods beside them, may share it.             *)
KeysNameReceipts ==
  \A o, p \in PurchaseOrders : \A x \in po[o].receipts, y \in po[p].receipts :
    x[1] = y[1] => o = p /\ (x[2].serials = {} /\ y[2].serials = {} => x = y)

(* What was bought from a supplier, what arrived and how the purchase      *)
(* order ended agree.                                                      *)
OrdersAreReceived ==
  ReceiptsReachStock /\ ReceiptsHaveEntries /\ KeysNameReceipts /\ EndsMatchReceipts
=============================================================================
