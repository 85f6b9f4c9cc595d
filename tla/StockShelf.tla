----------------------------- MODULE StockShelf -----------------------------
(***************************************************************************)
(* What the reservation service promises about stock, without saying who   *)
(* asks for it: every unit is on the shelf, held for one order, or gone    *)
(* with one; an order takes all of its lines or none; and what a line      *)
(* held goes back to the shelf at most once and never after it has gone.   *)
(***************************************************************************)
EXTENDS Integers, FiniteSets, Tally

CONSTANTS Orders, Variants, Quantity, MaxQuantity, OpeningStock

VARIABLES
  shelf,   \* shelf[v]: units of v that can be sold
  claim    \* claim[o][v]: what became of the line of o for v

shelfVars == <<shelf, claim>>

Weight(v) == [o \in Orders |-> Quantity[o][v]]

ShelfInit ==
  /\ shelf = OpeningStock
  /\ claim = [o \in Orders |-> [v \in Variants |-> "none"]]

(* All the lines of an order are taken together.                           *)
Take(o) ==
  /\ \A v \in Variants : claim[o][v] = "none" /\ Quantity[o][v] <= shelf[v]
  /\ claim' = [claim EXCEPT ![o] =
                 [v \in Variants |-> IF Quantity[o][v] > 0 THEN "held" ELSE "none"]]
  /\ shelf' = [v \in Variants |-> shelf[v] - Quantity[o][v]]

(* Held lines, of any orders, go back.                                     *)
GiveBack(L) ==
  /\ \A l \in L : claim[l[1]][l[2]] = "held"
  /\ claim' = [o \in Orders |-> [v \in Variants |->
                 IF <<o, v>> \in L THEN "back" ELSE claim[o][v]]]
  /\ shelf' = [v \in Variants |->
                 shelf[v] + Total(Weight(v), {o \in Orders : <<o, v>> \in L}, MaxQuantity)]

(* Held lines of one order leave the store.                                *)
Ship(o, W) ==
  /\ \A v \in W : claim[o][v] = "held"
  /\ claim' = [claim EXCEPT ![o] = [v \in Variants |-> IF v \in W THEN "gone" ELSE @[v]]]
  /\ UNCHANGED shelf

(* The inventory desk puts the shelf right; claims are not its business.   *)
Correct(v) ==
  /\ shelf'[v] \in Nat
  /\ shelf' = [shelf EXCEPT ![v] = shelf'[v]]
  /\ UNCHANGED claim

ShelfNext ==
  \/ \E o \in Orders : Take(o)
  \/ \E L \in SUBSET (Orders \X Variants) : GiveBack(L)
  \/ \E o \in Orders, W \in SUBSET Variants : Ship(o, W)
  \/ \E v \in Variants : Correct(v)

ShelfSpec == ShelfInit /\ [][ShelfNext]_shelfVars
=============================================================================
