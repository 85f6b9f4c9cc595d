--------------------------- MODULE InventoryDesk ---------------------------
(***************************************************************************)
(* The stock of one variant as the inventory desk sees it: the number on   *)
(* the Variant document, the append-only StockLedger that explains it,     *)
(* serialised units, stock counts and the discrepancies they open.         *)
(*                                                                         *)
(* A desk operation first looks its idempotency key up and only then       *)
(* starts its transaction, whose inserts meet the unique indexes: two      *)
(* actions, with every other request in between.                           *)
(***************************************************************************)
EXTENDS Integers, FiniteSets, Tally

CONSTANTS
  Keys,          \* idempotency keys clients send
  Units,         \* serialised units
  Counts,        \* stock counts that may be recorded
  OpeningStock,  \* stock before the ledger existed
  MaxStock,      \* bound on the stock
  MaxSold,       \* bound on what orders hold of it at once
  Requested,     \* the requests staff make
  Levels,        \* stock levels typed into the catalogue form
  MaxPending     \* bound on the requests in flight

ASSUME InventoryAssumption ==
  /\ MaxStock \in Nat /\ OpeningStock \in 0..MaxStock /\ MaxPending \in Nat
  /\ MaxSold \in Nat /\ Levels \subseteq 0..MaxStock
  /\ IsFiniteSet(Units)

VARIABLES
  inStock,     \* Variant.inStock
  ledger,      \* StockLedger entries with an idempotency key
  sold,        \* net of the entries without one: sales and their reversals
  unrecorded,  \* stock written with no ledger entry since the last migration
  unit,        \* InventoryUnit documents
  count,       \* StockCount and StockDiscrepancy documents
  pending      \* requests whose key was looked up and not found

inventoryVars == <<inStock, ledger, sold, unrecorded, unit, count, pending>>

-----------------------------------------------------------------------------
Adjustments == [op : {"adjust"}, delta : Int \ {0}]
Releases == [op : {"release"}, unit : Units]
CountRequests == [op : {"count"}, count : Counts, counted : 0..MaxStock]
Resolutions ==
  [op : {"resolve"}, count : Counts, resolution : {"ADJUST_STOCK", "ACCEPT_NO_CHANGE"}]

(* The request digest binds a key to everything the request says.          *)
Requests == Adjustments \cup Releases \cup CountRequests \cup Resolutions

ASSUME RequestAssumption == \A r \in Requested : r \in Requests

UnitDocument ==
  [state : {"ABSENT", "QUARANTINED", "RETURNED", "SELLABLE"},
   inspection : {"PENDING", "PASSED", "FAILED"}]

CountDocument ==
  [status : {"ABSENT", "MATCHED", "DISCREPANCY", "RECONCILED"},
   discrepancy : {"NONE", "OPEN", "RESOLVED"},
   variance : -MaxStock..MaxStock, key : Keys \cup {"NONE"},
   resolutionKey : Keys \cup {"NONE"}]

InventoryInit ==
  /\ inStock = OpeningStock
  /\ ledger = {}
  /\ sold = 0
  /\ unrecorded = OpeningStock
  /\ unit = [u \in Units |-> [state |-> "ABSENT", inspection |-> "PENDING"]]
  /\ count = [c \in Counts |-> [status |-> "ABSENT", discrepancy |-> "NONE", variance |-> 0,
                                key |-> "NONE", resolutionKey |-> "NONE"]]
  /\ pending = {}

LedgerTotal == sold + NetDelta(ledger)

(* recordStockMovement: the stock may not go below zero, and the unique    *)
(* index on the key admits one entry.                                      *)
KeyFree_Bug(key) == TRUE
KeyFree(key) == \A e \in ledger : e.key # key

Movement(key, request, delta) ==
  /\ inStock + delta \in 0..MaxStock
  /\ KeyFree(key)
  /\ inStock' = inStock + delta
  /\ ledger' = ledger \cup {[key |-> key, request |-> request, delta |-> delta]}

-----------------------------------------------------------------------------
(* Which lookup a request makes before its transaction.                    *)
SeenBefore(key, r) ==
  CASE r.op \in {"adjust", "release"} -> \E e \in ledger : e.key = key
    [] r.op = "count"   -> \E c \in Counts : count[c].key = key
    [] r.op = "resolve" -> \E c \in Counts : count[c].resolutionKey = key

BeginRequest(key, r) ==
  /\ Cardinality(pending) < MaxPending
  /\ ~SeenBefore(key, r)
  /\ pending' = pending \cup {[key |-> key, request |-> r]}
  /\ UNCHANGED <<inStock, ledger, sold, unrecorded, unit, count>>

AdjustStock(p) ==
  /\ p.request.op = "adjust"
  /\ Movement(p.key, p.request, p.request.delta)
  /\ UNCHANGED <<sold, unrecorded, unit, count>>

Releasable_Bug(u) == unit[u].state # "ABSENT" /\ unit[u].inspection = "PASSED"
Releasable(u) ==
  unit[u].state \in {"QUARANTINED", "RETURNED"} /\ unit[u].inspection = "PASSED"

(* return-to-stock and release-quarantine; a transfer moves no stock.      *)
TransitionInventoryUnit(p) ==
  /\ p.request.op = "release"
  /\ Releasable(p.request.unit)
  /\ Movement(p.key, p.request, 1)
  /\ unit' = [unit EXCEPT ![p.request.unit].state = "SELLABLE"]
  /\ UNCHANGED <<sold, unrecorded, count>>

CreateStockCount(p) ==
  LET c == p.request.count
      variance == p.request.counted - inStock IN
  /\ p.request.op = "count"
  /\ count[c].status = "ABSENT"
  /\ \A d \in Counts : count[d].key # p.key
  /\ count' = [count EXCEPT ![c].status = IF variance = 0 THEN "MATCHED" ELSE "DISCREPANCY",
                            ![c].discrepancy = IF variance = 0 THEN "NONE" ELSE "OPEN",
                            ![c].variance = variance, ![c].key = p.key]
  /\ UNCHANGED <<inStock, ledger, sold, unrecorded, unit>>

Open_Bug(c) == count[c].discrepancy # "NONE"
Open(c) == count[c].discrepancy = "OPEN"

(* The variance is the one found when the stock was counted, whatever has  *)
(* moved since.                                                            *)
ResolveStockDiscrepancy(p) ==
  LET c == p.request.count IN
  /\ p.request.op = "resolve"
  /\ Open(c)
  /\ \A d \in Counts \ {c} : count[d].resolutionKey # p.key
  /\ IF p.request.resolution = "ADJUST_STOCK"
     THEN Movement(p.key, p.request, count[c].variance)
     ELSE UNCHANGED <<inStock, ledger>>
  /\ count' = [count EXCEPT ![c].status = "RECONCILED", ![c].discrepancy = "RESOLVED",
                            ![c].resolutionKey = p.key]
  /\ UNCHANGED <<sold, unrecorded, unit>>

(* A duplicate key, a failed precondition or an aborted transaction: the   *)
(* caller gets the winner's result or an error, and nothing is written.    *)
FailRequest ==
  UNCHANGED <<inStock, ledger, sold, unrecorded, unit, count>>

EndRequest(p) ==
  /\ pending' = pending \ {p}
  /\ \/ AdjustStock(p)
     \/ TransitionInventoryUnit(p)
     \/ CreateStockCount(p)
     \/ ResolveStockDiscrepancy(p)
     \/ FailRequest

-----------------------------------------------------------------------------
(* Movements of orders, sales and their reversals, which carry no key.     *)
RecordOrderMovement_Bug(delta) ==
  /\ sold + delta \in -MaxSold..0
  /\ inStock' = inStock + delta
  /\ sold' = sold + delta
  /\ UNCHANGED <<ledger, unrecorded, unit, count, pending>>
RecordOrderMovement(delta) ==
  /\ inStock + delta \in 0..MaxStock /\ sold + delta \in -MaxSold..0
  /\ inStock' = inStock + delta
  /\ sold' = sold + delta
  /\ UNCHANGED <<ledger, unrecorded, unit, count, pending>>

(* The catalogue form writes the level it shows, with no ledger entry.     *)
UpdateVariant(level) ==
  /\ level # inStock
  /\ inStock' = level
  /\ unrecorded' = unrecorded + level - inStock
  /\ UNCHANGED <<ledger, sold, unit, count, pending>>

OpeningKey == <<"opening">>

(* The opening-balance migration: an entry for whatever the ledger does    *)
(* not explain, under a key the variant has once.                          *)
RunInventoryMigration ==
  /\ inStock # LedgerTotal
  /\ KeyFree(OpeningKey)
  /\ ledger' = ledger \cup {[key |-> OpeningKey, request |-> [op |-> "migrate"],
                             delta |-> inStock - LedgerTotal]}
  /\ unrecorded' = 0
  /\ UNCHANGED <<inStock, sold, unit, count, pending>>

(* No code of the repository writes inspectionState: staff do it directly. *)
RecordInspection(u, outcome) ==
  /\ unit[u].state # "ABSENT" /\ unit[u].inspection = "PENDING"
  /\ unit' = [unit EXCEPT ![u].inspection = outcome]
  /\ UNCHANGED <<inStock, ledger, sold, unrecorded, count, pending>>

InventoryNext ==
  \/ \E key \in Keys, r \in Requested : BeginRequest(key, r)
  \/ \E p \in pending : EndRequest(p)
  \/ \E delta \in {-1, 1} : RecordOrderMovement(delta)
  \/ \E level \in Levels : UpdateVariant(level)
  \/ RunInventoryMigration
  \/ \E u \in Units, outcome \in {"PASSED", "FAILED"} : RecordInspection(u, outcome)

-----------------------------------------------------------------------------
(* Properties                                                              *)

(* recordStockMovement, runInventoryMigration: every unit of stock is      *)
(* explained by the ledger, apart from what the catalogue form wrote since *)
(* the migration; a key that is retried or raced moves the stock once.     *)
LedgerExplainsStock == inStock = LedgerTotal + unrecorded

EntriesFor(op, field, x) == {e \in ledger : e.request.op = op /\ e.request[field] = x}

(* transitionInventoryUnit: however many requests race, under whatever     *)
(* keys, a unit enters the sellable stock once, and has an entry for it.   *)
UnitReleasedOnce ==
  \A u \in Units :
    Cardinality(EntriesFor("release", "unit", u)) = IF unit[u].state = "SELLABLE" THEN 1 ELSE 0

(* resolveStockDiscrepancy: two managers who resolve one discrepancy under *)
(* keys of their own correct the stock once.                               *)
DiscrepancyAppliedOnce ==
  \A c \in Counts :
    /\ Cardinality(EntriesFor("resolve", "count", c)) <= 1
    /\ EntriesFor("resolve", "count", c) # {} => count[c].status = "RECONCILED"

(* A movement of stock happens once and leaves its entry, whoever retries. *)
StockIsExplained == LedgerExplainsStock /\ UnitReleasedOnce /\ DiscrepancyAppliedOnce
=============================================================================
