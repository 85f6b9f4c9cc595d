------------------------------ MODULE CartDesk ------------------------------
(***************************************************************************)
(* The cart of one customer: lines added, set, removed and merged by       *)
(* several devices at once, and the checkout that turns it into an order.  *)
(*                                                                         *)
(* Adding and setting load the cart and save it with the version they      *)
(* loaded, and try again when it changed.  Removing is one update that     *)
(* leaves the version alone.  Merging and checkout are transactions.       *)
(***************************************************************************)
EXTENDS Integers, FiniteSets, Sequences, SequencesExt, Tally, Ranking

CONSTANTS
  Skus,              \* variants that may be put into the cart
  Amounts,           \* quantities a request may ask for
  MaxCalls,          \* bound on the requests that add, set or merge
  MaxAttempts,       \* bound on the checkout requests
  CheckoutKeys,      \* their idempotency keys
  MaxOnShelf,        \* stock of a variant at the start
  CART_WRITE_RETRIES

ASSUME CartAssumption ==
  /\ {MaxCalls, MaxAttempts, MaxOnShelf} \subseteq Nat /\ CART_WRITE_RETRIES \in Nat \ {0}
  /\ IsFiniteSet(Skus) /\ "none" \notin Skus
  /\ Amounts \subseteq 1..MaxOnShelf

VARIABLES
  cart,      \* the Cart document of the customer
  shop,      \* shop[s]: price and stock of variant s
  calling,   \* calling[c]: how far request c is
  paying,    \* paying[a]: the transaction of checkout request a
  orders     \* orders made from the cart

cartVars == <<cart, shop, calling, paying, orders>>

(* Requests are numbered as they begin.                                    *)
Calls == 1..MaxCalls
Attempts == 1..MaxAttempts
Begins(i, requests) ==
  requests[i].step = "new" /\ \A j \in DOMAIN requests : j < i => requests[j].step # "new"

Prices == 1..2

(* A save may leave a line that has no SKU, see Written.                   *)
Line == [sku : Skus \cup {"none"}, quantity : 1..MaxOnShelf, price : Prices]

(* generation tells the carts of the customer apart: checkout deletes the  *)
(* document and the next request inserts another.                          *)
Cart ==
  [exists : BOOLEAN, generation : 0..MaxCalls, version : 0..MaxCalls,
   lines : Seq(Line)]

CallKinds == {"add", "set"}

(* price and stock are those of the variant when the request read it.      *)
(* generation and version are those of the cart that was loaded, 0 for one *)
(* yet to insert; at is the line to change, 0 for a new one.               *)
CartCall ==
  [step : {"new", "load", "save", "done"}, kind : CallKinds,
   sku : Skus \cup {"none"},
   amount : 0..MaxOnShelf, result : 0..MaxOnShelf, price : Prices, stock : 0..MaxOnShelf,
   tries : 0..CART_WRITE_RETRIES,
   generation : 0..MaxCalls, version : 0..MaxCalls, at : Nat]

Payment ==
  [step : {"new", "commit", "done"}, key : CheckoutKeys \cup {"none"}, lines : Seq(Line),
   clean : BOOLEAN]

NoCall(step) ==
  [step |-> step, kind |-> "add", sku |-> "none", amount |-> 0, result |-> 0, price |-> 1,
   stock |-> 0, tries |-> 0, generation |-> 0, version |-> 0, at |-> 0]
NoPayment(step) == [step |-> step, key |-> "none", lines |-> <<>>, clean |-> FALSE]

CartInit ==
  /\ cart = [exists |-> FALSE, generation |-> 0, version |-> 0, lines |-> <<>>]
  /\ shop = [s \in Skus |-> [price |-> 1, stock |-> MaxOnShelf]]
  /\ calling = [c \in Calls |-> NoCall("new")]
  /\ paying = [a \in Attempts |-> NoPayment("new")]
  /\ orders = {}

-----------------------------------------------------------------------------
LineOf(s) == SelectInSeq(cart.lines, LAMBDA l : l.sku = s)
InCart(s) == IF LineOf(s) = 0 THEN 0 ELSE cart.lines[LineOf(s)].quantity

(* A write of the cart or of a variant aborts the checkouts that read it.  *)
Disturb == [a \in Attempts |-> [paying[a] EXCEPT !.clean = FALSE]]

-----------------------------------------------------------------------------
(* Add and set                                                             *)

(* The variant is read once, before the first attempt to write.            *)
BeginAdd(c, s, amount) ==
  /\ Begins(c, calling)
  /\ calling' = [calling EXCEPT ![c] = [@ EXCEPT !.step = "load", !.kind = "add", !.sku = s,
       !.amount = amount, !.price = shop[s].price, !.stock = shop[s].stock]]
  /\ UNCHANGED <<cart, shop, paying, orders>>

BeginSet(c, s, amount) ==
  /\ Begins(c, calling)
  /\ InCart(s) > 0
  /\ amount <= shop[s].stock
  /\ calling' = [calling EXCEPT ![c] = [@ EXCEPT !.step = "load", !.kind = "set", !.sku = s,
       !.amount = amount, !.price = shop[s].price, !.stock = shop[s].stock]]
  /\ UNCHANGED <<cart, shop, paying, orders>>

Resulting(c) ==
  IF calling[c].kind = "add" THEN InCart(calling[c].sku) + calling[c].amount
                             ELSE calling[c].amount

(* The stock must cover the resulting quantity.  Setting a quantity was    *)
(* checked before.                                                         *)
Purchasable_Bug(c) == calling[c].amount <= calling[c].stock
Purchasable(c) == Resulting(c) <= calling[c].stock

LineFound(c) == calling[c].kind = "add" \/ InCart(calling[c].sku) > 0

(* The change is computed again for every attempt.                         *)
LoadCart(c) ==
  /\ calling[c].step = "load"
  /\ Purchasable(c) /\ LineFound(c)
  /\ calling' = [calling EXCEPT ![c] = [@ EXCEPT !.step = "save", !.result = Resulting(c),
       !.generation = IF cart.exists THEN cart.generation ELSE 0,
       !.version = cart.version, !.at = LineOf(calling[c].sku)]]
  /\ UNCHANGED <<cart, shop, paying, orders>>

RefuseCall(c) ==
  /\ calling[c].step = "load"
  /\ ~(Purchasable(c) /\ LineFound(c))
  /\ calling' = [calling EXCEPT ![c] = NoCall("done")]
  /\ UNCHANGED <<cart, shop, paying, orders>>

(* What a save writes: a new line, or quantity and price of the line at a  *)
(* position.  Lines may have moved since the cart was loaded.              *)
Written(lines, l, at) ==
  CASE at = 0 -> Append(lines, l)
    [] at \in DOMAIN lines -> [lines EXCEPT ![at] = [@ EXCEPT !.quantity = l.quantity, !.price = l.price]]
    [] OTHER -> Append(lines, [l EXCEPT !.sku = "none"])

(* optimisticConcurrency: the version that was loaded is part of the       *)
(* filter; a second insert for the customer meets the unique index.        *)
Unmoved_Bug(c) == calling[c].generation = (IF cart.exists THEN cart.generation ELSE 0)
Unmoved(c) ==
  IF calling[c].generation = 0
  THEN ~cart.exists
  ELSE /\ cart.exists
       /\ cart.generation = calling[c].generation
       /\ cart.version = calling[c].version

CartWith(lines) ==
  [exists |-> TRUE,
   generation |-> IF cart.exists THEN cart.generation ELSE cart.generation + 1,
   version |-> IF cart.exists THEN cart.version + 1 ELSE 0,
   lines |-> lines]

SaveCart(c) ==
  /\ calling[c].step = "save"
  /\ Unmoved(c)
  /\ cart' = CartWith(Written(cart.lines,
       [sku |-> calling[c].sku, quantity |-> calling[c].result, price |-> calling[c].price],
       calling[c].at))
  /\ calling' = [calling EXCEPT ![c] = NoCall("done")]
  /\ paying' = Disturb
  /\ UNCHANGED <<shop, orders>>

(* VersionError or a duplicate key: try again, or give up.                 *)
RetryCall(c) ==
  /\ calling[c].step = "save"
  /\ ~Unmoved(c)
  /\ calling' = [calling EXCEPT ![c] =
       IF @.tries + 1 = CART_WRITE_RETRIES THEN NoCall("done")
       ELSE [@ EXCEPT !.step = "load", !.tries = calling[c].tries + 1]]
  /\ UNCHANGED <<cart, shop, paying, orders>>

-----------------------------------------------------------------------------
(* Remove and merge                                                        *)

(* The lines that are not of s, in the order they have.                    *)
Without(lines, s) ==
  LET kept == {i \in DOMAIN lines : lines[i].sku # s}
      places == InOrder({ij \in kept \X kept : ij[1] < ij[2]}, kept)
  IN [n \in DOMAIN places |-> lines[places[n]]]

(* $pull in one update, which does not count as a version.                 *)
RemoveItem(s) ==
  /\ InCart(s) > 0
  /\ cart' = [cart EXCEPT !.lines = Without(@, s)]
  /\ paying' = Disturb
  /\ UNCHANGED <<shop, calling, orders>>

(* A line of the cart grows by the guest's, at the price of now.           *)
Grown(i, guest) ==
  LET l == cart.lines[i] IN
  IF l.sku \in guest /\ LineOf(l.sku) = i
  THEN [l EXCEPT !.quantity = @ + 1, !.price = shop[l.sku].price]
  ELSE l

(* A line of one, for what the cart has none of.                           *)
NewLine(s) == [sku |-> s, quantity |-> 1, price |-> shop[s].price]

(* A transaction over the whole guest cart: every line fits or none is     *)
(* merged.  A guest has one of each item; new ones come in some order.     *)
MergeCart(c, guest) ==
  /\ Begins(c, calling)
  /\ guest # {}
  /\ \A s \in guest : InCart(s) + 1 <= shop[s].stock
  /\ \E added \in SetToSeqs({s \in guest : LineOf(s) = 0}) :
       cart' = CartWith([i \in DOMAIN cart.lines |-> Grown(i, guest)]
                          \o [i \in DOMAIN added |-> NewLine(added[i])])
  /\ calling' = [calling EXCEPT ![c] = NoCall("done")]
  /\ paying' = Disturb
  /\ UNCHANGED <<shop, orders>>

-----------------------------------------------------------------------------
(* Checkout                                                                *)

Confirmed_Bug(l) == l.sku # "none"
Confirmed(l) == l.sku # "none" /\ l.price = shop[l.sku].price

KeyUsed(k) == \E o \in orders : o.key = k

(* The snapshot: an order of the same key is answered again, a line whose  *)
(* price or stock changed refuses the whole cart.                          *)
BeginCheckout(a, k) ==
  /\ Begins(a, paying)
  /\ ~KeyUsed(k)
  /\ cart.exists /\ cart.lines # <<>>
  /\ \A i \in DOMAIN cart.lines :
       /\ Confirmed(cart.lines[i])
       /\ cart.lines[i].quantity <= shop[cart.lines[i].sku].stock
  /\ paying' = [paying EXCEPT ![a] =
       [step |-> "commit", key |-> k, lines |-> cart.lines, clean |-> TRUE]]
  /\ UNCHANGED <<cart, shop, calling, orders>>

(* What the transaction read and writes, the cart and the variants, has    *)
(* not been written by another one.                                        *)
Undisturbed_Bug(a) == paying[a].clean \/ ~cart.exists
Undisturbed(a) == paying[a].clean

Taken(lines, s) ==
  Total([i \in DOMAIN lines |-> lines[i].quantity],
        {i \in DOMAIN lines : lines[i].sku = s}, MaxOnShelf)

CommitCheckout(a) ==
  /\ paying[a].step = "commit"
  /\ Undisturbed(a)
  /\ ~KeyUsed(paying[a].key)
  /\ orders' = orders \cup
       {[key |-> paying[a].key, generation |-> cart.generation, lines |-> paying[a].lines,
         charged |-> [s \in Skus |-> shop[s].price]]}
  /\ shop' = [s \in Skus |-> [shop[s] EXCEPT !.stock = @ - Taken(paying[a].lines, s)]]
  /\ cart' = [cart EXCEPT !.exists = FALSE, !.version = 0, !.lines = <<>>]
  /\ paying' = [Disturb EXCEPT ![a] = NoPayment("done")]
  /\ UNCHANGED calling

(* A conflict: the transaction starts over, or the request ends.           *)
AbortCheckout(a) ==
  /\ paying[a].step = "commit"
  /\ \E step \in {"new", "done"} : paying' = [paying EXCEPT ![a] = NoPayment(step)]
  /\ UNCHANGED <<cart, shop, calling, orders>>

(* updateVariant.                                                          *)
RaisePrice(s) ==
  /\ shop[s].price = 1
  /\ shop' = [shop EXCEPT ![s].price = 2]
  /\ paying' = Disturb
  /\ UNCHANGED <<cart, calling, orders>>

-----------------------------------------------------------------------------
CartStep ==
  \/ \E c \in Calls :
       \/ \E s \in Skus, amount \in Amounts : BeginAdd(c, s, amount) \/ BeginSet(c, s, amount)
       \/ LoadCart(c) \/ RefuseCall(c) \/ SaveCart(c) \/ RetryCall(c)
       \/ \E guest \in SUBSET Skus : MergeCart(c, guest)
  \/ \E s \in Skus : RemoveItem(s) \/ RaisePrice(s)
  \/ \E a \in Attempts : \/ \E k \in CheckoutKeys : BeginCheckout(a, k)
                         \/ CommitCheckout(a) \/ AbortCheckout(a)

CartSpec == CartInit /\ [][CartStep]_cartVars

-----------------------------------------------------------------------------
(* Properties                                                              *)

(* Documents have the shapes the schema of Cart gives them; no line asks   *)
(* for more than the stock its request saw.                                *)
CartTypeOK ==
  /\ cart \in Cart
  /\ shop \in [Skus -> [price : Prices, stock : 0..MaxOnShelf]]
  /\ calling \in [Calls -> CartCall]
  /\ paying \in [Attempts -> Payment]
  /\ orders \subseteq [key : CheckoutKeys, generation : 1..MaxCalls,
                       lines : Seq(Line), charged : [Skus -> Prices]]

(* addItem, mergeCart: devices that put one variant into the cart at the   *)
(* same time end up with one line for it, which checkout prices and        *)
(* reserves once.                                                          *)
OneLinePerSku ==
  \A i, j \in DOMAIN cart.lines :
    cart.lines[i].sku = cart.lines[j].sku /\ cart.lines[i].sku # "none" => i = j

(* createCheckout: a cart becomes one order, and a key stands for one      *)
(* order, whatever devices and retries race.                               *)
CheckedOutOnce ==
  \A o, p \in orders : o.generation = p.generation \/ o.key = p.key => o = p

(* createCheckout: an order is charged at the prices the customer saw in   *)
(* the cart, also when a price changes or a line moves meanwhile.          *)
ChargedAsShown ==
  \A o \in orders : \A i \in DOMAIN o.lines : o.lines[i].price = o.charged[o.lines[i].sku]

(* A cart ends as one order for what it held at the prices it showed.      *)
CartBecomesItsOrder == OneLinePerSku /\ CheckedOutOnce /\ ChargedAsShown
=============================================================================
