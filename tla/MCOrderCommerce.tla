-------------------------- MODULE MCOrderCommerce --------------------------
(* Instances of OrderCommerce small enough for TLC.                        *)
EXTENDS OrderClaims, TLC

CONSTANTS o1, o2, v1, v2, u1, p1, p2, b1, r1, r2, e1, e2

(* Two orders compete for v1 and the first also takes a v2.  A provider    *)
(* attempt and a bank transfer race for the first; the second has an       *)
(* attempt of its own.                                                     *)
StockQuantity == (o1 :> (v1 :> 1 @@ v2 :> 1)) @@ (o2 :> (v1 :> 2 @@ v2 :> 0))
StockOpening  == v1 :> 2 @@ v2 :> 1
StockTotals   == o1 :> 1 @@ o2 :> 1
StockSubject  == p1 :> o1 @@ b1 :> o1 @@ p2 :> o2
NoRefunds     == [r \in {} |-> r]

(* One order of total 2, its attempt, and two refunds of 1 or 2 asked of   *)
(* the attempt.                                                            *)
MoneyQuantity == o1 :> (v1 :> 1)
MoneyOpening  == v1 :> 1
MoneyTotals   == o1 :> 2
MoneySubject  == p1 :> o1
MoneyRefundOf == r1 :> p1 @@ r2 :> p1

(* A shop order and an order converted from a quotation, each with an      *)
(* attempt, while the inventory desk corrects the stock.                   *)
DeskQuantity == o1 :> (v1 :> 1) @@ o2 :> (v1 :> 0)
DeskTotals   == o1 :> 1 @@ o2 :> 1
DeskSubject  == p1 :> o1 @@ p2 :> o2

(* Event ids carry no meaning and the refunds of MoneyRefundOf are of one  *)
(* payment: each set may be permuted in a run of safety properties.        *)
EventSymmetry == Permutations(EventIds)
MoneySymmetry == Permutations(EventIds) \cup Permutations(Refunds)
=============================================================================
