--------------------------- MODULE CatalogueSearch ---------------------------
(***************************************************************************)
(* What a shopper finds in the catalogue: a search keeps the active        *)
(* products one variant of which meets every condition, sorts them and     *)
(* returns a page.  The availability a shopper filters by and the one that *)
(* is shown are computed by different code.  Pages are separate requests,  *)
(* between which stock, prices and publications change.                    *)
(***************************************************************************)
EXTENDS Integers, Sequences, FiniteSets, SequencesExt, Ranking

CONSTANTS
  Products,             \* products, numbered in the order of their creation
  Goods,                \* variants
  ProductOf,            \* the product of a variant
  Sourced,              \* the variants in sourcing mode
  MaxPrice, MaxGoods,   \* bounds on prices and stock
  LOW_STOCK_THRESHOLD,  \* 5 in constants.js
  MaxLimit,             \* 100 in searchCatalogue
  Limits                \* the page sizes shoppers ask for

ASSUME SearchAssumption ==
  /\ Products \subseteq Nat /\ IsFiniteSet(Products)
  /\ ProductOf \in [Goods -> Products] /\ Sourced \subseteq Goods
  /\ \A p \in Products : \E g \in Goods : ProductOf[g] = p
  /\ MaxPrice \in Nat \ {0} /\ MaxGoods \in Nat
  /\ LOW_STOCK_THRESHOLD \in Nat /\ MaxLimit \in Nat \ {0} /\ Limits \subseteq Nat

VARIABLES
  listed,  \* the products that are active
  good,    \* Variant documents: price and stock
  walk     \* a shopper who asks for one page after the other

searchVars == <<listed, good, walk>>

Availability == {"in_stock", "low_stock", "out_of_stock", "sourcing"}
Sorts == {"price_asc", "price_desc", "newest"}

(* unchanged: nothing changed in the catalogue since the walk began.       *)
Walk ==
  [availability : Availability \cup {"any"}, maxPrice : 1..MaxPrice, sort : Sorts,
   limit : 1..MaxLimit, page : Nat, found : Seq(Products), ended : BOOLEAN, unchanged : BOOLEAN]

NoWalk ==
  [availability |-> "any", maxPrice |-> 1, sort |-> "newest", limit |-> 1,
   page |-> 0, found |-> <<>>, ended |-> TRUE, unchanged |-> FALSE]

SearchInit ==
  /\ listed = Products
  /\ good = [g \in Goods |-> [price |-> 1, stock |-> IF g \in Sourced THEN 0 ELSE MaxGoods]]
  /\ walk = NoWalk

-----------------------------------------------------------------------------
VariantsOf(p) == {g \in Goods : ProductOf[g] = p}

(* deriveAvailability: what is shown of a variant.  A variant in sourcing  *)
(* mode has no stock.                                                      *)
ShownAs(g) ==
  CASE g \in Sourced -> "sourcing"
    [] g \notin Sourced /\ good[g].stock = 0 -> "out_of_stock"
    [] g \notin Sourced /\ good[g].stock \in 1..LOW_STOCK_THRESHOLD -> "low_stock"
    [] OTHER -> "in_stock"

(* The condition on inStock and sourcing that a filter stands for.         *)
Available_Bug(g, a) ==   \* low stock begins at nothing
  CASE a = "low_stock" -> g \notin Sourced /\ good[g].stock <= LOW_STOCK_THRESHOLD
    [] OTHER -> a = "any" \/ ShownAs(g) = a
Available(g, a) ==
  CASE a = "sourcing" -> g \in Sourced
    [] a = "out_of_stock" -> g \notin Sourced /\ good[g].stock <= 0
    [] a = "low_stock" ->
         g \notin Sourced /\ good[g].stock > 0 /\ good[g].stock <= LOW_STOCK_THRESHOLD
    [] a = "in_stock" -> g \notin Sourced /\ good[g].stock > LOW_STOCK_THRESHOLD
    [] OTHER -> TRUE

(* $elemMatch: one variant meets every condition.                          *)
Matches(w) ==
  {p \in listed :
     \E g \in VariantsOf(p) : Available(g, w.availability) /\ good[g].price <= w.maxPrice}

(* The lowest price of all variants, those that match or not.              *)
SortPrice(p) ==
  CHOOSE n \in 1..MaxPrice :
    /\ \E g \in VariantsOf(p) : good[g].price = n
    /\ \A g \in VariantsOf(p) : good[g].price >= n

(* Products of one price follow in the order of their creation.            *)
Precedes(sort, p, q) ==
  LET same == SortPrice(p) = SortPrice(q) /\ p < q
  IN  CASE sort = "price_asc" -> SortPrice(p) < SortPrice(q) \/ same
        [] sort = "price_desc" -> SortPrice(p) > SortPrice(q) \/ same
        [] OTHER -> p > q

Sorted(w) ==
  LET found == Matches(w)
  IN InOrder({pq \in found \X found : Precedes(w.sort, pq[1], pq[2])}, found)

PageSize_Bug(asked) == IF asked = 0 THEN 1 ELSE asked
PageSize(asked) == IF asked = 0 THEN 1 ELSE IF asked > MaxLimit THEN MaxLimit ELSE asked

Skip_Bug(w) == w.page * w.limit - w.page
Skip(w) == (w.page - 1) * w.limit

Least(m, n) == IF m < n THEN m ELSE n

PageOf(w, s) == SubSeq(s, Skip(w) + 1, Least(Skip(w) + w.limit, Len(s)))

(* As many pages as it takes, none for an empty list.                      *)
Pages(w, s) ==
  CHOOSE n \in 0..Len(s) : (n - 1) * w.limit < Len(s) /\ Len(s) <= n * w.limit

-----------------------------------------------------------------------------
(* The shopper                                                             *)

BeginWalk(a, price, sort, asked) ==
  /\ walk = NoWalk
  /\ walk' = [availability |-> a, maxPrice |-> price, sort |-> sort, limit |-> PageSize(asked),
              page |-> 0, found |-> <<>>, ended |-> FALSE, unchanged |-> TRUE]
  /\ UNCHANGED <<listed, good>>

SearchPage ==
  LET w == [walk EXCEPT !.page = @ + 1]
      s == Sorted(w)
  IN  /\ ~walk.ended
      /\ walk' = [w EXCEPT !.found = @ \o PageOf(w, s), !.ended = w.page >= Pages(w, s)]
      /\ UNCHANGED <<listed, good>>

LeaveShop ==
  /\ walk # NoWalk
  /\ walk' = NoWalk
  /\ UNCHANGED <<listed, good>>

-----------------------------------------------------------------------------
(* The store: one change during a walk.                                    *)

Changes == (walk = NoWalk \/ walk.unchanged) /\ walk' = [walk EXCEPT !.unchanged = FALSE]

MoveGoods(g, n) ==
  /\ g \notin Sourced
  /\ good[g].stock + n \in 0..MaxGoods
  /\ good' = [good EXCEPT ![g].stock = @ + n]
  /\ Changes
  /\ UNCHANGED listed

Reprice(g, price) ==
  /\ good[g].price # price
  /\ good' = [good EXCEPT ![g].price = price]
  /\ Changes
  /\ UNCHANGED listed

Relist(p) ==
  /\ listed' = IF p \in listed THEN listed \ {p} ELSE listed \cup {p}
  /\ Changes
  /\ UNCHANGED good

-----------------------------------------------------------------------------
SearchStep ==
  \/ \E a \in Availability \cup {"any"}, price \in 1..MaxPrice, sort \in Sorts, n \in Limits :
       BeginWalk(a, price, sort, n)
  \/ SearchPage \/ LeaveShop
  \/ \E g \in Goods : \/ \E n \in {-1, 1} : MoveGoods(g, n)
                      \/ \E price \in 1..MaxPrice : Reprice(g, price)
  \/ \E p \in Products : Relist(p)

SearchSpec == SearchInit /\ [][SearchStep]_searchVars

-----------------------------------------------------------------------------
(* Properties                                                              *)

(* searchCatalogue: pages have 1 to MaxLimit products, whatever is asked.  *)
SearchTypeOK ==
  /\ listed \subseteq Products
  /\ good \in [Goods -> [price : 1..MaxPrice, stock : 0..MaxGoods]]
  /\ walk \in Walk

(* README.md:345-349: what availability means.                             *)
Meets(p, w) ==
  \E g \in VariantsOf(p) :
    (w.availability = "any" \/ ShownAs(g) = w.availability) /\ good[g].price <= w.maxPrice

(* searchCatalogue and projectVariantPublic: a page returns active         *)
(* products that show a variant as available as the shopper asked, at a    *)
(* price he asked for, even when the store changed between two pages.      *)
FoundAsShown ==
  \A i \in DOMAIN walk'.found :
    \/ i \in DOMAIN walk.found
    \/ walk'.found[i] \in listed /\ Meets(walk'.found[i], walk')

(* The pages of a store that does not change show every product that meets *)
(* the conditions exactly once, the cheapest first when that was asked.    *)
PagesShowEachOnce ==
  walk.ended /\ walk.unchanged =>
    /\ IsInjective(walk.found)
    /\ {p \in listed : Meets(p, walk)} \subseteq ToSet(walk.found)
    /\ walk.sort = "price_asc" =>
         \A i, j \in DOMAIN walk.found :
           i < j => SortPrice(walk.found[i]) <= SortPrice(walk.found[j])

(* Nothing else is found and, while nothing changes, nothing is missed.    *)
SearchIsTrue == [][FoundAsShown /\ PagesShowEachOnce']_searchVars
=============================================================================
