-------------------------- MODULE Shopping_proofs --------------------------
(***************************************************************************)
(* Proofs about the customer's cart (CartDesk) and the search of the store *)
(* (CatalogueSearch).  The cart needs an invariant of its requests: one    *)
(* that is about to write still has the version it read, or will fail.  A  *)
(* search needs that sorting returns everything that matches, once, and    *)
(* that one more page of a list continues what the pages before it showed. *)
(***************************************************************************)
EXTENDS CartDesk, CatalogueSearch, Tally_proofs, SequenceTheorems

(* The line a request writes is the first of its variant, or none is.      *)
LEMMA LineOfSku ==
  ASSUME NEW s, cart.lines \in Seq(Line)
  PROVE  IF \E i \in DOMAIN cart.lines : cart.lines[i].sku = s
         THEN LineOf(s) \in DOMAIN cart.lines /\ cart.lines[LineOf(s)].sku = s
         ELSE LineOf(s) = 0
<1> DEFINE I == {i \in 1..Len(cart.lines) : cart.lines[i].sku = s}
<1>1. LineOf(s) = IF I # {} THEN Min(I) ELSE 0
  BY DEF LineOf, SelectInSeq
<1>2. I \in SUBSET Nat /\ DOMAIN cart.lines = 1..Len(cart.lines)
  OBVIOUS
<1> HIDE DEF I
<1>3. I # {} => Min(I) \in I
  BY <1>2, LeastNumber DEF Min
<1> QED
  BY <1>1, <1>2, <1>3 DEF I

(* At most one line of each variant.                                       *)
Distinct(lines) ==
  \A i, j \in DOMAIN lines : lines[i].sku = lines[j].sku /\ lines[i].sku # "none" => i = j

(* Some line is of variant s.                                              *)
Holds(lines, s) == \E i \in DOMAIN lines : lines[i].sku = s

(* What a save writes is a list of lines; only a line of a variant that    *)
(* the cart holds already could be the second of its kind.                 *)
LEMMA WrittenLines ==
  ASSUME NEW lines \in Seq(Line), NEW l \in Line, NEW at \in Nat
  PROVE  /\ Written(lines, l, at) \in Seq(Line)
         /\ Distinct(lines) /\ (at = 0 => ~Holds(lines, l.sku)) => Distinct(Written(lines, l, at))
<1>0. "none" \notin Skus
  BY CartAssumption DEF CartAssumption
<1>1. ASSUME NEW m \in Line
      PROVE  /\ Append(lines, m) \in Seq(Line)
             /\ Distinct(lines) /\ (m.sku = "none" \/ ~Holds(lines, m.sku)) =>
                  Distinct(Append(lines, m))
  <2>1. /\ Append(lines, m) \in Seq(Line) /\ DOMAIN lines = 1..Len(lines)
        /\ DOMAIN Append(lines, m) = 1..(Len(lines) + 1) /\ Len(lines) \in Nat
        /\ \A i \in 1..(Len(lines) + 1) :
             Append(lines, m)[i] = IF i = Len(lines) + 1 THEN m ELSE lines[i]
    OBVIOUS
  <2>2. ASSUME Distinct(lines), m.sku = "none" \/ ~Holds(lines, m.sku)
        PROVE  Distinct(Append(lines, m))
    BY <2>1, <2>2 DEF Distinct, Holds
  <2> QED
    BY <2>1, <2>2
<1>2. CASE at = 0
  <2>1. Written(lines, l, at) = Append(lines, l)
    BY <1>2 DEF Written
  <2> QED
    BY <1>1, <1>2, <2>1
<1>3. CASE at \in DOMAIN lines
  <2> DEFINE m == [lines[at] EXCEPT !.quantity = l.quantity, !.price = l.price]
             new == [lines EXCEPT ![at] = m]
  <2>0. at # 0 /\ lines[at] \in Line
    BY <1>3
  <2>1. Written(lines, l, at) = new
    BY <1>3, <2>0 DEF Written
  <2>2. m \in Line /\ m.sku = lines[at].sku
    BY <2>0 DEF Line
  <2> HIDE DEF m
  <2>3. /\ new \in Seq(Line) /\ DOMAIN new = DOMAIN lines
        /\ \A i \in DOMAIN lines : new[i] = IF i = at THEN m ELSE lines[i]
    BY <1>3, <2>2
  <2>4. \A i \in DOMAIN lines : new[i].sku = lines[i].sku
    BY <2>2, <2>3
  <2> QED
    BY <2>0, <2>1, <2>3, <2>4 DEF Distinct
<1>4. CASE at # 0 /\ at \notin DOMAIN lines
  <2> DEFINE m == [l EXCEPT !.sku = "none"]
  <2>1. Written(lines, l, at) = Append(lines, m)
    BY <1>4 DEF Written
  <2>2. m \in Line /\ m.sku = "none"
    BY DEF Line
  <2> QED
    BY <1>1, <2>1, <2>2
<1> QED
  BY <1>2, <1>3, <1>4

(* Taking lines out leaves the others once each.                           *)
LEMMA WithoutLines ==
  ASSUME NEW lines \in Seq(Line), NEW s
  PROVE  /\ Without(lines, s) \in Seq(Line)
         /\ Distinct(lines) => Distinct(Without(lines, s))
         /\ \A x : ~Holds(lines, x) => ~Holds(Without(lines, s), x)
<1> DEFINE kept == {i \in DOMAIN lines : lines[i].sku # s}
           earlier == {ij \in kept \X kept : ij[1] < ij[2]}
           places == InOrder(earlier, kept)
           n == Cardinality(kept)
<1>1. kept \in SUBSET (1..Len(lines)) /\ Len(lines) \in Nat /\ DOMAIN lines = 1..Len(lines)
  OBVIOUS
<1>2. IsFiniteSet(kept) /\ n \in Nat
  <2>1. IsFiniteSet(1..Len(lines))
    BY <1>1, FS_Interval
  <2> HIDE DEF kept
  <2> QED
    BY <1>1, <2>1, FS_Subset, FS_CardinalityType
<1>3. \A i, j \in kept : <<i, j>> \in earlier <=> i < j
  <2> SUFFICES ASSUME NEW i \in kept, NEW j \in kept PROVE <<i, j>> \in earlier <=> i < j
    OBVIOUS
  <2>1. <<i, j>> \in kept \X kept /\ <<i, j>>[1] = i /\ <<i, j>>[2] = j
    OBVIOUS
  <2> HIDE DEF kept
  <2> QED
    BY <2>1
<1>4. Without(lines, s) = [k \in DOMAIN places |-> lines[places[k]]]
  BY DEF Without
<1> HIDE DEF earlier
<1>5. IsOrder(earlier, kept)
  <2>1. \A i \in kept : i \in Int
    BY <1>1
  <2> HIDE DEF kept
  <2> QED
    BY <1>3, <2>1 DEF IsOrder
<1>6. /\ places \in [1..n -> kept]
      /\ \A i, j \in 1..n : i < j => <<places[i], places[j]>> \in earlier
  BY <1>2, <1>5, RankedInOrder
<1>7. \A i, j \in 1..n : places[i] = places[j] => i = j
  <2>1. \A i, j \in 1..n : i < j => places[i] < places[j]
    BY <1>3, <1>6
  <2>2. \A i \in 1..n : places[i] \in Int
    BY <1>1, <1>6
  <2> HIDE DEF places, n
  <2> QED
    BY <1>2, <2>1, <2>2
<1>8. \A k \in 1..n : places[k] \in DOMAIN lines
  BY <1>6
<1> HIDE DEF places, n, kept
<1>9. /\ DOMAIN Without(lines, s) = 1..n
      /\ \A k \in 1..n : Without(lines, s)[k] = lines[places[k]]
  BY <1>4, <1>6
<1>10. Without(lines, s) \in Seq(Line)
  <2>1. [k \in 1..n |-> lines[places[k]]] \in Seq(Line)
    BY <1>2, <1>8
  <2> QED
    BY <1>4, <1>6, <2>1
<1> QED
  BY <1>7, <1>8, <1>9, <1>10 DEF Distinct, Holds

(* What the store keeps of its variants.                                   *)
ShopDocument == [Skus -> [price : Prices, stock : 0..MaxOnShelf]]

(* How much of a variant is in the cart.                                   *)
LEMMA CartQuantity ==
  ASSUME NEW s, cart.lines \in Seq(Line)
  PROVE  /\ MaxOnShelf \in Nat /\ InCart(s) \in 0..MaxOnShelf
         /\ InCart(s) > 0 <=> Holds(cart.lines, s)
         /\ LineOf(s) \in Nat /\ (LineOf(s) = 0 <=> ~Holds(cart.lines, s))
<1>1. MaxOnShelf \in Nat
  BY CartAssumption DEF CartAssumption
<1>2. \A i \in DOMAIN cart.lines : cart.lines[i].quantity \in 1..MaxOnShelf /\ i \in Nat \ {0}
  <2>1. \A i \in DOMAIN cart.lines : cart.lines[i] \in Line /\ i \in Nat \ {0}
    OBVIOUS
  <2> QED
    BY <2>1 DEF Line
<1> QED
  BY <1>1, <1>2, LineOfSku DEF InCart, Holds

(* Merging adds to the lines there are and appends lines for the others.   *)
LEMMA MergedLines ==
  ASSUME cart.lines \in Seq(Line), shop \in ShopDocument, NEW guest \in SUBSET Skus,
         \A s \in guest : InCart(s) + 1 <= shop[s].stock,
         NEW added \in SetToSeqs({s \in guest : LineOf(s) = 0})
  PROVE  LET lines == [i \in DOMAIN cart.lines |-> Grown(i, guest)]
                        \o [i \in DOMAIN added |-> NewLine(added[i])]
         IN  lines \in Seq(Line) /\ (Distinct(cart.lines) => Distinct(lines))
<1> DEFINE S == {s \in guest : LineOf(s) = 0}
           k == Cardinality(S)
           n == Len(cart.lines)
           old == [i \in DOMAIN cart.lines |-> Grown(i, guest)]
           new == [i \in DOMAIN added |-> NewLine(added[i])]
           lines == old \o new
<1>1. k \in Nat /\ MaxOnShelf \in Nat /\ "none" \notin Skus
  <2>1. S \in SUBSET Skus /\ IsFiniteSet(Skus)
    BY CartAssumption DEF CartAssumption
  <2> HIDE DEF S
  <2> QED
    BY <2>1, FS_Subset, FS_CardinalityType, CartAssumption DEF CartAssumption
<1>2. added \in [1..k -> S] /\ \A i, j \in 1..k : added[i] = added[j] => i = j
  BY DEF SetToSeqs
<1>3. n \in Nat /\ DOMAIN cart.lines = 1..n
  OBVIOUS
<1>4. \A i \in 1..n : Grown(i, guest) \in Line /\ Grown(i, guest).sku = cart.lines[i].sku
  <2> SUFFICES ASSUME NEW i \in 1..n
               PROVE  Grown(i, guest) \in Line /\ Grown(i, guest).sku = cart.lines[i].sku
    OBVIOUS
  <2> DEFINE l == cart.lines[i]
             m == [l EXCEPT !.quantity = @ + 1, !.price = shop[l.sku].price]
  <2>1. l \in Line
    BY <1>3
  <2>2. CASE l.sku \in guest /\ LineOf(l.sku) = i
    <3>1. Grown(i, guest) = m
      BY <2>2 DEF Grown
    <3>2. shop[l.sku].price \in Prices /\ shop[l.sku].stock \in 0..MaxOnShelf
      BY <2>2 DEF ShopDocument
    <3>3. InCart(l.sku) = l.quantity
      BY <1>3, <2>2 DEF InCart
    <3>4. l.quantity + 1 <= shop[l.sku].stock /\ l.quantity \in 1..MaxOnShelf
      BY <2>1, <2>2, <3>3 DEF Line
    <3>5. l.quantity + 1 \in 1..MaxOnShelf
      BY <1>1, <3>2, <3>4
    <3> HIDE DEF l
    <3>6. m \in Line /\ m.sku = l.sku
      BY <2>1, <3>2, <3>5 DEF Line
    <3> QED
      BY <3>1, <3>6 DEF l
  <2>3. CASE ~(l.sku \in guest /\ LineOf(l.sku) = i)
    BY <2>1, <2>3 DEF Grown
  <2> QED
    BY <2>2, <2>3
<1>5. \A s \in S : NewLine(s) \in Line /\ NewLine(s).sku = s
  <2> SUFFICES ASSUME NEW s \in S PROVE NewLine(s) \in Line /\ NewLine(s).sku = s
    OBVIOUS
  <2>1. shop[s].price \in Prices /\ shop[s].stock \in 0..MaxOnShelf /\ s \in Skus
    BY DEF ShopDocument
  <2>2. InCart(s) \in Nat /\ InCart(s) + 1 <= shop[s].stock
    BY CartQuantity
  <2>3. 1 \in 1..MaxOnShelf
    BY <1>1, <2>1, <2>2
  <2> QED
    BY <2>1, <2>3 DEF NewLine, Line
<1>6. \A s \in S : s # "none" /\ ~Holds(cart.lines, s)
  BY <1>1, CartQuantity
<1>7. DOMAIN added = 1..k
  BY <1>2
<1> HIDE DEF S, k
<1>8. old \in Seq(Line) /\ Len(old) = n /\ new \in Seq(Line) /\ Len(new) = k
  <2>1. old = [i \in 1..n |-> Grown(i, guest)] /\ new = [i \in 1..k |-> NewLine(added[i])]
    BY <1>3, <1>7
  <2>2. \A i \in 1..k : NewLine(added[i]) \in Line
    BY <1>2, <1>5
  <2> HIDE DEF n
  <2> QED
    BY <1>1, <1>3, <1>4, <2>1, <2>2
<1>9. /\ \A i \in 1..n : old[i].sku = cart.lines[i].sku
      /\ \A i \in 1..k : new[i].sku = added[i]
  BY <1>2, <1>3, <1>4, <1>5, <1>7
<1> HIDE DEF old, new, n
<1>10. /\ lines \in Seq(Line) /\ DOMAIN lines = 1..(n + k)
       /\ \A i \in 1..(n + k) : lines[i] = IF i <= n THEN old[i] ELSE new[i - n]
  BY <1>1, <1>3, <1>8
<1>11. \A i \in 1..(n + k) :
         IF i <= n THEN lines[i].sku = cart.lines[i].sku ELSE lines[i].sku = added[i - n] /\ i - n \in 1..k
  <2> HIDE DEF lines
  <2>1. \A i \in 1..(n + k) : i <= n => i \in 1..n /\ lines[i] = old[i]
    BY <1>1, <1>3, <1>10
  <2>2. \A i \in 1..(n + k) : ~(i <= n) => i - n \in 1..k /\ lines[i] = new[i - n]
    BY <1>1, <1>3, <1>10
  <2> QED
    BY <1>9, <2>1, <2>2
<1> HIDE DEF lines
<1>12. ASSUME Distinct(cart.lines) PROVE Distinct(lines)
  <2> SUFFICES ASSUME NEW i \in 1..(n + k), NEW j \in 1..(n + k),
                      lines[i].sku = lines[j].sku, lines[i].sku # "none"
               PROVE  i = j
    BY <1>10 DEF Distinct
  <2>1. i \in Int /\ j \in Int /\ n \in Int /\ k \in Int
    BY <1>1, <1>3
  <2>2. CASE i <= n /\ j <= n
    BY <1>3, <1>11, <1>12, <2>1, <2>2 DEF Distinct
  <2>3. CASE i > n /\ j > n
    BY <1>2, <1>11, <2>1, <2>3
  <2>4. \A a, b \in 1..(n + k) : a <= n /\ b > n => lines[a].sku # lines[b].sku
    <3> SUFFICES ASSUME NEW a \in 1..(n + k), NEW b \in 1..(n + k), a <= n, b > n
                 PROVE  lines[a].sku # lines[b].sku
      OBVIOUS
    <3>1. a \in DOMAIN cart.lines /\ lines[a].sku = cart.lines[a].sku
      BY <1>1, <1>3, <1>11
    <3>2. lines[b].sku = added[b - n] /\ b - n \in 1..k
      BY <1>1, <1>3, <1>11
    <3>3. ~Holds(cart.lines, added[b - n])
      BY <1>2, <1>6, <3>2
    <3> QED
      BY <3>1, <3>2, <3>3 DEF Holds
  <2> QED
    BY <2>1, <2>2, <2>3, <2>4
<1> QED
  BY <1>10, <1>12 DEF lines, old, new

(* Checkout takes no more of a variant than its one line has.              *)
LEMMA TakenOnce ==
  ASSUME NEW lines \in Seq(Line), Distinct(lines), NEW s, s # "none",
         NEW n \in Nat, \A i \in DOMAIN lines : lines[i].sku = s => lines[i].quantity <= n
  PROVE  Taken(lines, s) \in 0..n
<1> DEFINE weight == [i \in DOMAIN lines |-> lines[i].quantity]
           S == {i \in DOMAIN lines : lines[i].sku = s}
<1>1. MaxOnShelf \in Nat
  BY CartAssumption DEF CartAssumption
<1>2. Taken(lines, s) = Total(weight, S, MaxOnShelf)
  BY DEF Taken
<1>3. CASE S = {}
  <2> HIDE DEF S, weight
  <2> QED
    BY <1>1, <1>2, <1>3, TotalEmpty
<1>4. CASE S # {}
  <2>1. PICK i \in S : TRUE
    BY <1>4
  <2>2. S = {i}
    BY <2>1 DEF Distinct
  <2>3. weight[i] \in 0..MaxOnShelf /\ weight[i] <= n
    <3>1. lines[i] \in Line /\ weight[i] = lines[i].quantity /\ lines[i].quantity <= n
      BY <2>1
    <3> QED
      BY <1>1, <3>1 DEF Line
  <2> HIDE DEF S, weight
  <2>4. Total(weight, {i}, MaxOnShelf) = weight[i]
    BY <1>1, <2>3, TotalSingleton
  <2> QED
    BY <1>1, <1>2, <2>2, <2>3, <2>4
<1> QED
  BY <1>3, <1>4

(* Requests that wrote, or gave up.                                        *)
Ended == {c \in Calls : calling[c].step = "done"}

(* A cart has as many versions and generations as requests wrote it.       *)
WritesCounted == cart.generation <= Cardinality(Ended) /\ cart.version <= Cardinality(Ended)

EmptyWhenGone ==
  /\ ~cart.exists => cart.lines = <<>>
  /\ cart.exists => cart.generation > 0

(* What a request that is under way knows.  As long as the cart has the    *)
(* version it loaded, a variant it found no line of still has none.        *)
Underway(c) ==
  /\ calling[c].tries < CART_WRITE_RETRIES
  /\ calling[c].step \in {"load", "save"} => calling[c].sku \in Skus /\ calling[c].amount > 0
  /\ calling[c].step = "save" =>
       /\ calling[c].result > 0 /\ calling[c].generation <= cart.generation
       /\ cart.exists /\ calling[c].generation = cart.generation =>
            calling[c].version <= cart.version
       /\ Unmoved(c) /\ calling[c].at = 0 => ~Holds(cart.lines, calling[c].sku)

(* A checkout that can still commit has the cart and the shop as they are. *)
Sellable(l) == Confirmed(l) /\ l.quantity <= shop[l.sku].stock

SnapshotHolds(a) ==
  /\ paying[a].step = "commit" => paying[a].key \in CheckoutKeys
  /\ paying[a].clean => /\ cart.exists /\ paying[a].lines = cart.lines
                        /\ \A i \in DOMAIN cart.lines : Sellable(cart.lines[i])

(* Orders are of carts that are gone.                                      *)
OrdersBehind ==
  \A o \in orders : o.generation <= cart.generation /\ (cart.exists => o.generation < cart.generation)

CartInv ==
  /\ CartTypeOK /\ CartBecomesItsOrder
  /\ WritesCounted /\ EmptyWhenGone /\ OrdersBehind
  /\ \A c \in Calls : Underway(c)
  /\ \A a \in Attempts : SnapshotHolds(a)

(* The bounds of the cart are numbers, and at least one write is tried.    *)
LEMMA CartNumbers ==
  /\ MaxCalls \in Nat /\ MaxAttempts \in Nat /\ MaxOnShelf \in Nat
  /\ CART_WRITE_RETRIES \in Nat \ {0} /\ "none" \notin Skus /\ Amounts \subseteq 1..MaxOnShelf
  /\ IsFiniteSet(Calls) /\ Cardinality(Calls) = MaxCalls
<1>1. /\ MaxCalls \in Nat /\ MaxAttempts \in Nat /\ MaxOnShelf \in Nat
      /\ CART_WRITE_RETRIES \in Nat \ {0} /\ "none" \notin Skus /\ Amounts \subseteq 1..MaxOnShelf
  BY CartAssumption DEF CartAssumption
<1> QED
  BY <1>1, FS_Interval DEF Calls

(* More requests have ended, and never more than there are.                *)
LEMMA EndedGrows ==
  ASSUME \A c \in Calls : calling[c].step = "done" => calling'[c].step = "done"
  PROVE  /\ Cardinality(Ended) \in Nat /\ Cardinality(Ended') \in Nat
         /\ Cardinality(Ended) <= Cardinality(Ended') /\ Cardinality(Ended') <= MaxCalls
         /\ \A c \in Calls : calling[c].step # "done" /\ calling'[c].step = "done" =>
              Cardinality(Ended) + 1 <= Cardinality(Ended')
<1>1. Ended \in SUBSET Calls /\ Ended' \in SUBSET Calls /\ Ended \in SUBSET (Ended')
  BY DEF Ended
<1>2. IsFiniteSet(Ended) /\ IsFiniteSet(Ended') /\ Cardinality(Ended') <= MaxCalls
  BY <1>1, CartNumbers, FS_Subset
<1>3. Cardinality(Ended) \in Nat /\ Cardinality(Ended') \in Nat
  BY <1>2, FS_CardinalityType
<1>4. Cardinality(Ended) <= Cardinality(Ended')
  BY <1>1, <1>2, FS_Subset
<1>5. ASSUME NEW c \in Calls, calling[c].step # "done", calling'[c].step = "done"
      PROVE  Cardinality(Ended) + 1 <= Cardinality(Ended')
  <2>1. c \notin Ended /\ Ended \cup {c} \in SUBSET (Ended')
    BY <1>1, <1>5 DEF Ended
  <2>2. Cardinality(Ended \cup {c}) = Cardinality(Ended) + 1
    BY <1>2, <2>1, FS_AddElement
  <2>3. Cardinality(Ended \cup {c}) <= Cardinality(Ended')
    BY <1>2, <2>1, FS_Subset
  <2> QED
    BY <2>2, <2>3
<1> QED
  BY <1>2, <1>3, <1>4, <1>5

(* Steps of the requests that write nothing.                               *)
LEMMA CallsAlone ==
  ASSUME CartInv, UNCHANGED <<cart, shop, paying, orders>>,
         NEW c \in Calls, NEW d \in CartCall, calling' = [calling EXCEPT ![c] = d],
         calling[c].step # "done", Underway(c)'
  PROVE  CartInv'
<1>1. calling \in [Calls -> CartCall]
  BY DEF CartInv, CartTypeOK
<1>2. /\ calling' \in [Calls -> CartCall]
      /\ \A b \in Calls : b # c => calling'[b] = calling[b]
  BY <1>1
<1>3. CartTypeOK'
  BY <1>2 DEF CartInv, CartTypeOK
<1>4. WritesCounted'
  <2>1. /\ Cardinality(Ended) \in Nat /\ Cardinality(Ended') \in Nat
        /\ Cardinality(Ended) <= Cardinality(Ended')
    BY <1>2, EndedGrows
  <2>2. cart.generation \in Int /\ cart.version \in Int
    BY CartNumbers DEF CartInv, CartTypeOK, Cart
  <2> QED
    BY <2>1, <2>2 DEF CartInv, WritesCounted
<1>5. \A b \in Calls : Underway(b)'
  <2> SUFFICES ASSUME NEW b \in Calls, b # c PROVE Underway(b)'
    OBVIOUS
  <2>1. calling'[b] = calling[b] /\ Underway(b)
    BY <1>2 DEF CartInv
  <2> QED
    BY <2>1 DEF Underway, Unmoved
<1>6. \A a \in Attempts : SnapshotHolds(a)'
  BY DEF CartInv, SnapshotHolds, Sellable, Confirmed
<1>7. CartBecomesItsOrder' /\ EmptyWhenGone' /\ OrdersBehind'
  BY DEF CartInv, CartBecomesItsOrder, OneLinePerSku, CheckedOutOnce, ChargedAsShown,
         EmptyWhenGone, OrdersBehind
<1> QED
  BY <1>3, <1>4, <1>5, <1>6, <1>7 DEF CartInv

(* Every write of the cart ends the checkouts that read it.                *)
LEMMA CheckoutsDisturbed ==
  ASSUME CartInv, paying' = Disturb
  PROVE  /\ paying' \in [Attempts -> Payment]
         /\ \A a \in Attempts : SnapshotHolds(a)'
<1>1. paying \in [Attempts -> Payment]
  BY DEF CartInv, CartTypeOK
<1>2. \A a \in Attempts : /\ paying'[a] = [paying[a] EXCEPT !.clean = FALSE]
                          /\ paying[a] \in Payment
  BY <1>1 DEF Disturb
<1>3. ASSUME NEW a \in Attempts
      PROVE  /\ paying'[a] \in Payment /\ ~paying'[a].clean
             /\ paying'[a].step = paying[a].step /\ paying'[a].key = paying[a].key
  BY <1>2 DEF Payment
<1>4. paying' = [a \in Attempts |-> paying'[a]]
  BY DEF Disturb
<1>5. paying' \in [Attempts -> Payment]
  BY <1>3, <1>4
<1>6. \A a \in Attempts : SnapshotHolds(a)'
  BY <1>3 DEF CartInv, SnapshotHolds
<1> QED
  BY <1>5, <1>6

(* Saves and merges.                                                       *)
LEMMA CartWritten ==
  ASSUME CartInv, UNCHANGED <<shop, orders>>, paying' = Disturb,
         NEW c \in Calls, calling[c].step # "done",
         calling' = [calling EXCEPT ![c] = NoCall("done")],
         NEW lines \in Seq(Line), Distinct(lines), cart' = CartWith(lines)
  PROVE  CartInv'
<1>0. /\ calling \in [Calls -> CartCall] /\ cart \in Cart
      /\ cart.generation \in Nat /\ cart.version \in Nat /\ cart.exists \in BOOLEAN
  BY CartNumbers DEF CartInv, CartTypeOK, Cart
<1>1. /\ \A b \in Calls : b # c => calling'[b] = calling[b]
      /\ calling'[c].step = "done" /\ calling' \in [Calls -> CartCall]
  <2>1. NoCall("done") \in CartCall /\ NoCall("done").step = "done"
    BY CartNumbers DEF NoCall, CartCall, CallKinds, Prices
  <2> QED
    BY <1>0, <2>1
<1>2. /\ Cardinality(Ended) \in Nat /\ Cardinality(Ended') \in Nat
      /\ Cardinality(Ended) + 1 <= Cardinality(Ended') /\ Cardinality(Ended') <= MaxCalls
  BY <1>1, EndedGrows
<1>3. /\ cart'.exists /\ cart'.lines = lines
      /\ cart'.generation = IF cart.exists THEN cart.generation ELSE cart.generation + 1
      /\ cart'.version = IF cart.exists THEN cart.version + 1 ELSE 0
      /\ cart' = [exists |-> TRUE, generation |-> cart'.generation,
                  version |-> cart'.version, lines |-> lines]
  BY DEF CartWith
<1>4. WritesCounted' /\ cart'.generation \in Nat /\ cart'.version \in Nat
  BY <1>0, <1>2, <1>3 DEF CartInv, WritesCounted
<1>5. cart' \in Cart
  <2>1. cart'.generation \in 0..MaxCalls /\ cart'.version \in 0..MaxCalls
    BY <1>2, <1>4, CartNumbers DEF WritesCounted
  <2> QED
    BY <1>3, <2>1 DEF Cart
<1>6. CartTypeOK'
  BY <1>1, <1>5, CheckoutsDisturbed DEF CartInv, CartTypeOK
<1>7. CartBecomesItsOrder'
  BY <1>3 DEF CartInv, CartBecomesItsOrder, OneLinePerSku, CheckedOutOnce, ChargedAsShown, Distinct
<1>8. EmptyWhenGone' /\ OrdersBehind'
  <2>1. EmptyWhenGone'
    BY <1>0, <1>3 DEF CartInv, EmptyWhenGone
  <2>2. \A o \in orders : o.generation \in Nat
    BY CartNumbers DEF CartInv, CartTypeOK
  <2>3. OrdersBehind'
    BY <1>0, <1>3, <2>2 DEF CartInv, OrdersBehind
  <2> QED
    BY <2>1, <2>3
<1>9. \A b \in Calls : Underway(b)'
  <2> SUFFICES ASSUME NEW b \in Calls PROVE Underway(b)'
    OBVIOUS
  <2>1. CASE b = c
    BY <1>0, <1>1, <2>1, CartNumbers DEF Underway, NoCall
  <2>2. CASE b # c
    <3>1. /\ calling'[b] = calling[b] /\ Underway(b) /\ calling[b] \in CartCall
      BY <1>0, <1>1, <2>2 DEF CartInv
    <3>2. calling[b].generation \in Nat /\ calling[b].version \in Nat
      BY <3>1, CartNumbers DEF CartCall
    <3>3. calling[b].step = "save" =>
            /\ calling[b].generation <= cart'.generation
            /\ calling[b].generation = cart'.generation =>
                 calling[b].version < cart'.version
      BY <1>0, <1>3, <3>1, <3>2 DEF Underway
    <3>4. calling[b].step = "save" => ~Unmoved(b)'
      BY <1>3, <1>4, <3>1, <3>2, <3>3 DEF Unmoved
    <3> QED
      BY <1>4, <3>1, <3>2, <3>3, <3>4 DEF Underway
  <2> QED
    BY <2>1, <2>2
<1> QED
  BY <1>4, <1>6, <1>7, <1>8, <1>9, CheckoutsDisturbed DEF CartInv

(* A removal leaves the other lines, once each.                            *)
LEMMA RemoveSafe ==
  ASSUME CartInv, NEW s \in Skus, RemoveItem(s)
  PROVE  CartInv'
<1>0. /\ calling \in [Calls -> CartCall] /\ cart \in Cart /\ cart.lines \in Seq(Line)
  BY DEF CartInv, CartTypeOK, Cart
<1> DEFINE lines == Without(cart.lines, s)
<1>1. /\ lines \in Seq(Line) /\ (Distinct(cart.lines) => Distinct(lines))
      /\ \A x : ~Holds(cart.lines, x) => ~Holds(lines, x)
  BY <1>0, WithoutLines
<1> HIDE DEF lines
<1>2. /\ cart' = [cart EXCEPT !.lines = lines] /\ paying' = Disturb
      /\ UNCHANGED <<shop, calling, orders>> /\ Holds(cart.lines, s)
  BY <1>0, CartQuantity DEF RemoveItem, lines
<1>3. /\ cart'.lines = lines /\ cart'.exists = cart.exists
      /\ cart'.generation = cart.generation /\ cart'.version = cart.version /\ cart' \in Cart
  BY <1>0, <1>1, <1>2 DEF Cart
<1>4. cart.exists
  BY <1>2 DEF CartInv, EmptyWhenGone, Holds
<1>5. CartTypeOK'
  BY <1>2, <1>3, CheckoutsDisturbed DEF CartInv, CartTypeOK
<1>6. CartBecomesItsOrder'
  <2>1. Distinct(lines)
    BY <1>1 DEF CartInv, CartBecomesItsOrder, OneLinePerSku, Distinct
  <2> QED
    BY <1>2, <1>3, <2>1
       DEF CartInv, CartBecomesItsOrder, OneLinePerSku, CheckedOutOnce, ChargedAsShown, Distinct
<1>7. WritesCounted' /\ EmptyWhenGone' /\ OrdersBehind'
  BY <1>2, <1>3, <1>4 DEF CartInv, WritesCounted, EmptyWhenGone, OrdersBehind, Ended
<1>8. \A c \in Calls : Underway(c)'
  <2> SUFFICES ASSUME NEW c \in Calls PROVE Underway(c)'
    OBVIOUS
  <2>1. Underway(c) /\ (Unmoved(c)' <=> Unmoved(c))
    BY <1>2, <1>3 DEF CartInv, Unmoved
  <2> QED
    BY <1>1, <1>2, <1>3, <2>1 DEF Underway
<1> QED
  BY <1>2, <1>5, <1>6, <1>7, <1>8, CheckoutsDisturbed DEF CartInv

(* Steps of one checkout that write nothing else.                          *)
LEMMA PayingAlone ==
  ASSUME CartInv, UNCHANGED <<cart, shop, calling, orders>>,
         NEW a \in Attempts, NEW d \in Payment, paying' = [paying EXCEPT ![a] = d],
         SnapshotHolds(a)'
  PROVE  CartInv'
<1>0. paying \in [Attempts -> Payment]
  BY DEF CartInv, CartTypeOK
<1>1. paying' \in [Attempts -> Payment] /\ \A b \in Attempts : b # a => paying'[b] = paying[b]
  BY <1>0
<1>2. CartTypeOK'
  BY <1>1 DEF CartInv, CartTypeOK
<1>3. \A b \in Attempts : SnapshotHolds(b)'
  <2> SUFFICES ASSUME NEW b \in Attempts, b # a PROVE SnapshotHolds(b)'
    OBVIOUS
  <2>1. paying'[b] = paying[b] /\ SnapshotHolds(b)
    BY <1>1 DEF CartInv
  <2> QED
    BY <2>1 DEF SnapshotHolds, Sellable, Confirmed
<1>4. \A c \in Calls : Underway(c)'
  BY DEF CartInv, Underway, Unmoved
<1>5. CartBecomesItsOrder' /\ WritesCounted' /\ EmptyWhenGone' /\ OrdersBehind'
  BY DEF CartInv, CartBecomesItsOrder, OneLinePerSku, CheckedOutOnce, ChargedAsShown,
         WritesCounted, Ended, EmptyWhenGone, OrdersBehind
<1> QED
  BY <1>2, <1>3, <1>4, <1>5 DEF CartInv

(* A payment begins with the lines its snapshot confirms.                  *)
LEMMA CheckoutSafe ==
  ASSUME CartInv, NEW a \in Attempts,
         (\E k \in CheckoutKeys : BeginCheckout(a, k)) \/ AbortCheckout(a)
  PROVE  CartInv'
<1>0. cart \in Cart /\ cart.lines \in Seq(Line) /\ paying \in [Attempts -> Payment]
  BY DEF CartInv, CartTypeOK, Cart
<1>1. ASSUME NEW k \in CheckoutKeys, BeginCheckout(a, k) PROVE CartInv'
  <2> DEFINE d == [step |-> "commit", key |-> k, lines |-> cart.lines, clean |-> TRUE]
  <2>1. /\ cart.exists /\ paying' = [paying EXCEPT ![a] = d]
        /\ UNCHANGED <<cart, shop, calling, orders>>
        /\ \A i \in DOMAIN cart.lines : Sellable(cart.lines[i])
    BY <1>1 DEF BeginCheckout, Sellable
  <2>2. d \in Payment /\ d.lines = cart.lines /\ d.key \in CheckoutKeys
    BY <1>0 DEF Payment
  <2> HIDE DEF d
  <2>3. paying'[a] = d
    BY <1>0, <2>1
  <2>4. SnapshotHolds(a)'
    BY <2>1, <2>2, <2>3 DEF SnapshotHolds, Sellable, Confirmed
  <2> QED
    BY <2>1, <2>2, <2>4, PayingAlone
<1>2. CASE AbortCheckout(a)
  <2>1. PICK step \in {"new", "done"} : paying' = [paying EXCEPT ![a] = NoPayment(step)]
    BY <1>2 DEF AbortCheckout
  <2>2. /\ NoPayment(step) \in Payment /\ NoPayment(step).step # "commit"
        /\ ~NoPayment(step).clean
    BY DEF NoPayment, Payment
  <2>3. UNCHANGED <<cart, shop, calling, orders>> /\ paying'[a] = NoPayment(step)
    BY <1>0, <1>2, <2>1 DEF AbortCheckout
  <2>4. SnapshotHolds(a)'
    BY <2>2, <2>3 DEF SnapshotHolds
  <2> QED
    BY <2>1, <2>2, <2>3, <2>4, PayingAlone
<1> QED
  BY <1>1, <1>2

(* The commit of a checkout: what it takes was on the shelf.               *)
LEMMA CommitSafe ==
  ASSUME CartInv, NEW a \in Attempts, CommitCheckout(a)
  PROVE  CartInv'
<1>0. /\ cart \in Cart /\ cart.lines \in Seq(Line) /\ paying \in [Attempts -> Payment]
      /\ shop \in ShopDocument /\ calling \in [Calls -> CartCall]
      /\ cart.generation \in 0..MaxCalls /\ cart.version \in Nat
  BY CartNumbers DEF CartInv, CartTypeOK, Cart, ShopDocument
<1> DEFINE lines == cart.lines
           o == [key |-> paying[a].key, generation |-> cart.generation, lines |-> lines,
                 charged |-> [s \in Skus |-> shop[s].price]]
<1>1. /\ paying[a].clean /\ paying[a].step = "commit" /\ paying[a].lines = lines
      /\ paying[a].key \in CheckoutKeys /\ cart.exists
      /\ \A i \in DOMAIN lines : Sellable(lines[i])
  BY DEF CommitCheckout, Undisturbed, CartInv, SnapshotHolds
<1>2. /\ orders' = orders \cup {o} /\ ~KeyUsed(paying[a].key)
      /\ shop' = [s \in Skus |-> [shop[s] EXCEPT !.stock = @ - Taken(lines, s)]]
      /\ cart' = [cart EXCEPT !.exists = FALSE, !.version = 0, !.lines = <<>>]
      /\ paying' = [Disturb EXCEPT ![a] = NoPayment("done")]
      /\ UNCHANGED calling
  BY <1>1 DEF CommitCheckout
<1>3. shop' \in ShopDocument
  <2>1. Distinct(lines)
    BY DEF CartInv, CartBecomesItsOrder, OneLinePerSku, Distinct
  <2>2. ASSUME NEW s \in Skus
        PROVE  /\ shop[s].stock - Taken(lines, s) \in 0..MaxOnShelf
               /\ shop[s] \in [price : Prices, stock : 0..MaxOnShelf]
    <3>1. /\ shop[s].stock \in 0..MaxOnShelf /\ shop[s].stock \in Nat /\ s # "none"
          /\ shop[s] \in [price : Prices, stock : 0..MaxOnShelf]
      BY <1>0, CartNumbers DEF ShopDocument
    <3>2. \A i \in DOMAIN lines : lines[i].sku = s => lines[i].quantity <= shop[s].stock
      BY <1>1 DEF Sellable
    <3>3. PICK n \in Nat : n = shop[s].stock
      BY <3>1
    <3>4. Taken(lines, s) \in 0..n
      BY <1>0, <2>1, <3>1, <3>2, <3>3, TakenOnce
    <3> QED
      BY <3>1, <3>3, <3>4, CartNumbers
  <2> QED
    BY <1>2, <2>2 DEF ShopDocument
<1>4. /\ ~cart'.exists /\ cart'.generation = cart.generation /\ cart'.version = 0
      /\ cart'.lines = <<>> /\ cart' \in Cart
  <2>1. cart = [exists |-> cart.exists, generation |-> cart.generation,
                version |-> cart.version, lines |-> cart.lines]
    BY <1>0 DEF Cart
  <2>2. cart' = [exists |-> FALSE, generation |-> cart.generation,
                 version |-> 0, lines |-> <<>>]
    BY <1>2, <2>1
  <2>3. 0 \in 0..MaxCalls /\ <<>> \in Seq(Line)
    BY CartNumbers
  <2> QED
    BY <1>0, <2>2, <2>3 DEF Cart
<1>5. cart.generation \in 1..MaxCalls
  BY <1>0, <1>1 DEF CartInv, EmptyWhenGone
<1>6. o \in [key : CheckoutKeys, generation : 1..MaxCalls,
             lines : Seq(Line), charged : [Skus -> Prices]]
  <2>1. [s \in Skus |-> shop[s].price] \in [Skus -> Prices]
    BY <1>0 DEF ShopDocument
  <2> QED
    BY <1>0, <1>1, <1>5, <2>1
<1>7. paying' \in [Attempts -> Payment] /\ \A b \in Attempts : SnapshotHolds(b)'
  <2>1. NoPayment("done") \in Payment /\ ~NoPayment("done").clean /\ NoPayment("done").step = "done"
    BY DEF NoPayment, Payment
  <2>2. \A b \in Attempts : /\ paying[b] \in Payment
                            /\ Disturb[b] = [paying[b] EXCEPT !.clean = FALSE]
    BY <1>0 DEF Disturb
  <2>3. ASSUME NEW b \in Attempts
        PROVE  /\ Disturb[b] \in Payment /\ ~Disturb[b].clean
               /\ Disturb[b].step = paying[b].step /\ Disturb[b].key = paying[b].key
    BY <2>2 DEF Payment
  <2>4. Disturb = [b \in Attempts |-> Disturb[b]]
    BY DEF Disturb
  <2>5. \A b \in Attempts : paying'[b] = IF b = a THEN NoPayment("done") ELSE Disturb[b]
    BY <1>2, <2>4
  <2>6. paying' \in [Attempts -> Payment]
    BY <1>2, <2>1, <2>3, <2>4
  <2>7. \A b \in Attempts : SnapshotHolds(b)'
    BY <2>1, <2>3, <2>5 DEF CartInv, SnapshotHolds
  <2> QED
    BY <2>6, <2>7
<1>8. CartTypeOK'
  BY <1>2, <1>3, <1>4, <1>6, <1>7 DEF CartInv, CartTypeOK, ShopDocument
<1>9. CartBecomesItsOrder'
  <2>1. OneLinePerSku'
    BY <1>4 DEF OneLinePerSku
  <2>2. CheckedOutOnce'
    <3>1. \A p \in orders : p.generation < cart.generation /\ p.generation \in Int /\ p.key # paying[a].key
      BY <1>1, <1>2 DEF CartInv, OrdersBehind, KeyUsed, CartTypeOK
    <3>2. o.key = paying[a].key /\ o.generation = cart.generation /\ cart.generation \in Int
      BY <1>0
    <3> HIDE DEF o
    <3> QED
      BY <1>2, <3>1, <3>2 DEF CartInv, CartBecomesItsOrder, CheckedOutOnce
  <2>3. ChargedAsShown'
    <3>1. ASSUME NEW i \in DOMAIN o.lines PROVE o.lines[i].price = o.charged[o.lines[i].sku]
      <4>1. lines[i] \in Line /\ Sellable(lines[i])
        BY <1>0, <1>1
      <4>2. lines[i].sku \in Skus /\ lines[i].price = shop[lines[i].sku].price
        BY <4>1 DEF Sellable, Confirmed, Line
      <4> QED
        BY <4>2
    <3> HIDE DEF o
    <3> QED
      BY <1>2, <3>1 DEF CartInv, CartBecomesItsOrder, ChargedAsShown
  <2> QED
    BY <2>1, <2>2, <2>3 DEF CartBecomesItsOrder
<1>10. WritesCounted' /\ EmptyWhenGone' /\ OrdersBehind'
  <2>1. Cardinality(Ended) \in Nat /\ Cardinality(Ended') = Cardinality(Ended)
    BY <1>2, EndedGrows DEF Ended
  <2>2. WritesCounted' /\ EmptyWhenGone'
    BY <1>4, <2>1 DEF CartInv, WritesCounted, EmptyWhenGone
  <2>3. o.generation = cart.generation
    OBVIOUS
  <2> HIDE DEF o
  <2>4. OrdersBehind'
    BY <1>0, <1>2, <1>4, <2>3 DEF CartInv, OrdersBehind
  <2> QED
    BY <2>2, <2>4
<1>11. \A c \in Calls : Underway(c)'
  <2>1. \A x : ~Holds(cart'.lines, x)
    BY <1>4 DEF Holds
  <2> QED
    BY <1>2, <1>4, <2>1 DEF CartInv, Underway
<1> QED
  BY <1>7, <1>8, <1>9, <1>10, <1>11 DEF CartInv

(* A price that rises ends what a payment's snapshot says.                 *)
LEMMA RaisePriceSafe ==
  ASSUME CartInv, NEW s \in Skus, RaisePrice(s)
  PROVE  CartInv'
<1>1. /\ shop' = [shop EXCEPT ![s].price = 2] /\ paying' = Disturb
      /\ UNCHANGED <<cart, calling, orders>> /\ shop \in ShopDocument
  BY DEF RaisePrice, CartInv, CartTypeOK, ShopDocument
<1>2. shop' \in ShopDocument
  BY <1>1 DEF ShopDocument, Prices
<1>3. CartTypeOK'
  BY <1>1, <1>2, CheckoutsDisturbed DEF CartInv, CartTypeOK, ShopDocument
<1>4. \A c \in Calls : Underway(c)'
  BY <1>1 DEF CartInv, Underway, Unmoved
<1>5. CartBecomesItsOrder' /\ WritesCounted' /\ EmptyWhenGone' /\ OrdersBehind'
  BY <1>1 DEF CartInv, CartBecomesItsOrder, OneLinePerSku, CheckedOutOnce, ChargedAsShown,
         WritesCounted, Ended, EmptyWhenGone, OrdersBehind
<1> QED
  BY <1>1, <1>3, <1>4, <1>5, CheckoutsDisturbed DEF CartInv

(* Requests that add or set, up to the write.                              *)
LEMMA BeginCallSafe ==
  ASSUME CartInv, NEW c \in Calls, NEW s \in Skus, NEW amount \in Amounts,
         BeginAdd(c, s, amount) \/ BeginSet(c, s, amount)
  PROVE  CartInv'
<1>0. /\ calling \in [Calls -> CartCall] /\ calling[c] \in CartCall /\ calling[c].step = "new"
      /\ shop \in ShopDocument /\ amount \in 1..MaxOnShelf /\ Underway(c)
  BY CartNumbers DEF CartInv, CartTypeOK, ShopDocument, BeginAdd, BeginSet, Begins
<1>1. shop[s].price \in Prices /\ shop[s].stock \in 0..MaxOnShelf
  BY <1>0 DEF ShopDocument
<1>2. PICK kind \in CallKinds :
        calling' = [calling EXCEPT ![c] = [@ EXCEPT !.step = "load", !.kind = kind, !.sku = s,
          !.amount = amount, !.price = shop[s].price, !.stock = shop[s].stock]]
  BY DEF BeginAdd, BeginSet, CallKinds
<1> DEFINE d == [calling[c] EXCEPT !.step = "load", !.kind = kind, !.sku = s,
                   !.amount = amount, !.price = shop[s].price, !.stock = shop[s].stock]
<1>3. /\ d \in CartCall /\ d.step = "load" /\ d.sku \in Skus /\ d.amount > 0
      /\ d.tries = calling[c].tries
  <2>1. amount \in 0..MaxOnShelf /\ amount > 0
    BY <1>0, CartNumbers
  <2> QED
    BY <1>0, <1>1, <2>1 DEF CartCall
<1>4. calling' = [calling EXCEPT ![c] = d]
  BY <1>0, <1>2
<1> HIDE DEF d
<1>5. UNCHANGED <<cart, shop, paying, orders>> /\ calling'[c] = d
  BY <1>0, <1>4 DEF BeginAdd, BeginSet
<1>6. Underway(c)'
  BY <1>0, <1>3, <1>5 DEF Underway
<1> QED
  BY <1>0, <1>3, <1>4, <1>5, <1>6, CallsAlone

(* A request that read the cart has its version and the place of its line. *)
LEMMA LoadSafe ==
  ASSUME CartInv, NEW c \in Calls, LoadCart(c)
  PROVE  CartInv'
<1>0. /\ calling \in [Calls -> CartCall] /\ calling[c] \in CartCall /\ calling[c].step = "load"
      /\ cart \in Cart /\ cart.lines \in Seq(Line)
      /\ Underway(c) /\ calling[c].sku \in Skus /\ calling[c].amount > 0
  BY DEF CartInv, CartTypeOK, Cart, LoadCart, Underway
<1> DEFINE seen == IF cart.exists THEN cart.generation ELSE 0
           at == LineOf(calling[c].sku)
           d == [calling[c] EXCEPT !.step = "save", !.result = Resulting(c),
                   !.generation = seen, !.version = cart.version, !.at = at]
<1>1. /\ cart.generation \in 0..MaxCalls /\ cart.version \in 0..MaxCalls /\ 0 \in 0..MaxCalls
      /\ seen \in 0..MaxCalls /\ seen <= cart.generation
  BY <1>0, CartNumbers DEF Cart
<1>2. /\ at \in Nat /\ (at = 0 => ~Holds(cart.lines, calling[c].sku))
      /\ InCart(calling[c].sku) \in 0..MaxOnShelf
  BY <1>0, CartQuantity
<1>3. Resulting(c) \in 0..MaxOnShelf /\ Resulting(c) > 0
  <2>1. /\ calling[c].amount \in 0..MaxOnShelf /\ calling[c].stock \in 0..MaxOnShelf
        /\ Resulting(c) <= calling[c].stock
    BY <1>0 DEF CartCall, LoadCart, Purchasable
  <2> QED
    BY <1>0, <1>2, <2>1, CartNumbers DEF Resulting
<1>4. /\ d \in CartCall /\ d.step = "save" /\ d.sku = calling[c].sku /\ d.amount = calling[c].amount
      /\ d.tries = calling[c].tries /\ d.result > 0 /\ d.generation = seen
      /\ d.version = cart.version /\ d.at = at
  <2> HIDE DEF seen, at
  <2> QED
    BY <1>0, <1>1, <1>2, <1>3 DEF CartCall
<1>5. calling' = [calling EXCEPT ![c] = d] /\ UNCHANGED <<cart, shop, paying, orders>>
  BY DEF LoadCart
<1> HIDE DEF d, seen, at
<1>6. calling'[c] = d
  BY <1>0, <1>5
<1>7. Underway(c)'
  <2>1. cart.version \in Int
    BY <1>1, CartNumbers
  <2> QED
    BY <1>0, <1>1, <1>2, <1>4, <1>5, <1>6, <2>1 DEF Underway
<1> QED
  BY <1>0, <1>4, <1>5, <1>7, CallsAlone

(* A request that is refused, or that tries again.                         *)
LEMMA EndCallSafe ==
  ASSUME CartInv, NEW c \in Calls, RefuseCall(c) \/ RetryCall(c)
  PROVE  CartInv'
<1>0. /\ calling \in [Calls -> CartCall] /\ calling[c] \in CartCall
      /\ calling[c].step \in {"load", "save"} /\ Underway(c)
      /\ UNCHANGED <<cart, shop, paying, orders>>
  BY DEF CartInv, CartTypeOK, RefuseCall, RetryCall
<1>1. ASSUME calling' = [calling EXCEPT ![c] = NoCall("done")] PROVE CartInv'
  <2>1. NoCall("done") \in CartCall /\ NoCall("done").step = "done" /\ NoCall("done").tries = 0
    BY CartNumbers DEF NoCall, CartCall, CallKinds, Prices
  <2>2. calling'[c] = NoCall("done")
    BY <1>0, <1>1
  <2>3. Underway(c)'
    BY <2>1, <2>2, CartNumbers DEF Underway
  <2> QED
    BY <1>0, <1>1, <2>1, <2>3, CallsAlone
<1>2. ASSUME RetryCall(c), calling[c].tries + 1 # CART_WRITE_RETRIES PROVE CartInv'
  <2> DEFINE d == [calling[c] EXCEPT !.step = "load", !.tries = calling[c].tries + 1]
  <2>1. /\ d \in CartCall /\ d.step = "load" /\ d.sku = calling[c].sku
        /\ d.amount = calling[c].amount /\ d.tries < CART_WRITE_RETRIES
    <3>1. calling[c].tries \in 0..CART_WRITE_RETRIES
      BY <1>0 DEF CartCall
    <3>2. calling[c].tries + 1 \in 0..CART_WRITE_RETRIES /\ calling[c].tries + 1 < CART_WRITE_RETRIES
      BY <1>0, <1>2, <3>1, CartNumbers DEF Underway
    <3> QED
      BY <1>0, <3>2 DEF CartCall
  <2>2. calling' = [calling EXCEPT ![c] = d]
    <3>1. calling' = [calling EXCEPT ![c] =
            IF calling[c].tries + 1 = CART_WRITE_RETRIES THEN NoCall("done") ELSE d]
      BY <1>2 DEF RetryCall
    <3> QED
      BY <1>2, <3>1
  <2> HIDE DEF d
  <2>3. calling'[c] = d
    BY <1>0, <2>2
  <2>4. Underway(c)'
    BY <1>0, <2>1, <2>3 DEF Underway
  <2> QED
    BY <1>0, <2>1, <2>2, <2>4, CallsAlone
<1>3. \/ calling' = [calling EXCEPT ![c] = NoCall("done")]
      \/ RetryCall(c) /\ calling[c].tries + 1 # CART_WRITE_RETRIES
  BY <1>0 DEF RefuseCall, RetryCall
<1> QED
  BY <1>1, <1>2, <1>3

(* A write that the version lets through is of the cart the request read.  *)
LEMMA SaveSafe ==
  ASSUME CartInv, NEW c \in Calls, SaveCart(c)
  PROVE  CartInv'
<1>0. /\ calling[c] \in CartCall /\ calling[c].step = "save"
      /\ cart.lines \in Seq(Line) /\ Underway(c) /\ Distinct(cart.lines)
  BY DEF CartInv, CartTypeOK, Cart, SaveCart, CartBecomesItsOrder, OneLinePerSku, Distinct
<1> DEFINE l == [sku |-> calling[c].sku, quantity |-> calling[c].result, price |-> calling[c].price]
           lines == Written(cart.lines, l, calling[c].at)
<1>1. l \in Line /\ l.sku = calling[c].sku /\ calling[c].at \in Nat
  <2>1. /\ calling[c].result \in 0..MaxOnShelf /\ calling[c].result > 0
        /\ calling[c].price \in Prices /\ calling[c].at \in Nat /\ calling[c].sku \in Skus
    BY <1>0 DEF CartCall, Underway
  <2>2. calling[c].result \in 1..MaxOnShelf
    BY <2>1, CartNumbers
  <2> QED
    BY <2>1, <2>2 DEF Line
<1>2. calling[c].at = 0 => ~Holds(cart.lines, l.sku)
  BY <1>0, <1>1 DEF Underway, SaveCart
<1>3. /\ cart' = CartWith(lines) /\ paying' = Disturb /\ UNCHANGED <<shop, orders>>
      /\ calling' = [calling EXCEPT ![c] = NoCall("done")]
  BY DEF SaveCart
<1> HIDE DEF l
<1>4. lines \in Seq(Line) /\ Distinct(lines)
  BY <1>0, <1>1, <1>2, WrittenLines
<1> HIDE DEF lines
<1> QED
  BY <1>0, <1>3, <1>4, CartWritten

(* A guest's items are merged into their lines or become new ones.         *)
LEMMA MergeSafe ==
  ASSUME CartInv, NEW c \in Calls, NEW guest \in SUBSET Skus, MergeCart(c, guest)
  PROVE  CartInv'
<1>0. /\ calling[c].step = "new" /\ cart.lines \in Seq(Line) /\ Distinct(cart.lines)
      /\ shop \in ShopDocument
  BY DEF CartInv, CartTypeOK, Cart, MergeCart, Begins, CartBecomesItsOrder, OneLinePerSku,
         Distinct, ShopDocument
<1>1. \A s \in guest : InCart(s) + 1 <= shop[s].stock
  BY DEF MergeCart
<1>2. PICK added \in SetToSeqs({s \in guest : LineOf(s) = 0}) :
        cart' = CartWith([i \in DOMAIN cart.lines |-> Grown(i, guest)]
                           \o [i \in DOMAIN added |-> NewLine(added[i])])
  BY DEF MergeCart
<1> DEFINE lines == [i \in DOMAIN cart.lines |-> Grown(i, guest)]
                      \o [i \in DOMAIN added |-> NewLine(added[i])]
<1>3. lines \in Seq(Line) /\ Distinct(lines)
  BY <1>0, <1>1, MergedLines
<1>4. /\ cart' = CartWith(lines) /\ paying' = Disturb /\ UNCHANGED <<shop, orders>>
      /\ calling' = [calling EXCEPT ![c] = NoCall("done")]
  BY <1>2 DEF MergeCart
<1> HIDE DEF lines
<1> QED
  BY <1>0, <1>3, <1>4, CartWritten

(* The invariant holds of the cart, its requests and its payments.         *)
LEMMA CartInvariant == CartSpec => []CartInv
<1>1. CartInit => CartInv
  <2> SUFFICES ASSUME CartInit PROVE CartInv
    OBVIOUS
  <2>1. /\ ~cart.exists /\ cart.generation = 0 /\ cart.version = 0 /\ cart.lines = <<>>
        /\ cart \in Cart /\ orders = {}
    <3>1. 0 \in 0..MaxCalls /\ <<>> \in Seq(Line)
      BY CartNumbers
    <3> QED
      BY <3>1 DEF CartInit, Cart
  <2>2. shop \in [Skus -> [price : Prices, stock : 0..MaxOnShelf]]
    BY CartNumbers DEF CartInit, Prices
  <2>3. NoCall("new") \in CartCall /\ NoCall("new").step = "new" /\ NoCall("new").tries = 0
    BY CartNumbers DEF NoCall, CartCall, CallKinds, Prices
  <2>4. NoPayment("new") \in Payment /\ ~NoPayment("new").clean /\ NoPayment("new").step = "new"
    BY DEF NoPayment, Payment
  <2>5. /\ calling \in [Calls -> CartCall] /\ \A c \in Calls : calling[c] = NoCall("new")
        /\ paying \in [Attempts -> Payment] /\ \A a \in Attempts : paying[a] = NoPayment("new")
    BY <2>3, <2>4 DEF CartInit
  <2>6. CartTypeOK
    BY <2>1, <2>2, <2>5 DEF CartTypeOK
  <2>7. CartBecomesItsOrder /\ EmptyWhenGone /\ OrdersBehind
    BY <2>1 DEF CartBecomesItsOrder, OneLinePerSku, CheckedOutOnce, ChargedAsShown,
                EmptyWhenGone, OrdersBehind
  <2>8. WritesCounted
    <3>1. Ended \in SUBSET Calls
      BY DEF Ended
    <3>2. Cardinality(Ended) \in Nat
      BY <3>1, CartNumbers, FS_Subset, FS_CardinalityType
    <3> QED
      BY <2>1, <3>2 DEF WritesCounted
  <2>9. \A c \in Calls : Underway(c)
    BY <2>3, <2>5, CartNumbers DEF Underway
  <2>10. \A a \in Attempts : SnapshotHolds(a)
    BY <2>4, <2>5 DEF SnapshotHolds
  <2> QED
    BY <2>6, <2>7, <2>8, <2>9, <2>10 DEF CartInv
<1>2. CartInv /\ [CartStep]_cartVars => CartInv'
  <2> SUFFICES ASSUME CartInv, [CartStep]_cartVars PROVE CartInv'
    OBVIOUS
  <2>1. CASE CartStep
    BY <2>1, BeginCallSafe, LoadSafe, EndCallSafe, SaveSafe, MergeSafe, RemoveSafe,
       RaisePriceSafe, CheckoutSafe, CommitSafe DEF CartStep
  <2>2. CASE UNCHANGED cartVars
    <3>1. UNCHANGED <<cart, shop, calling, paying, orders>>
      BY <2>2 DEF cartVars
    <3>2. CartTypeOK' /\ CartBecomesItsOrder'
      BY <3>1 DEF CartInv, CartTypeOK, CartBecomesItsOrder, OneLinePerSku, CheckedOutOnce, ChargedAsShown
    <3>3. WritesCounted' /\ EmptyWhenGone' /\ OrdersBehind'
      BY <3>1 DEF CartInv, WritesCounted, Ended, EmptyWhenGone, OrdersBehind
    <3>4. \A c \in Calls : Underway(c)'
      BY <3>1 DEF CartInv, Underway, Unmoved
    <3>5. \A a \in Attempts : SnapshotHolds(a)'
      BY <3>1 DEF CartInv, SnapshotHolds, Sellable, Confirmed
    <3> QED
      BY <3>2, <3>3, <3>4, <3>5 DEF CartInv
  <2> QED
    BY <2>1, <2>2
<1> QED
  BY <1>1, <1>2, PTL DEF CartSpec

(* A cart has one line of a variant, is checked out at most once, and the  *)
(* order it becomes charges what the cart showed, whatever requests,       *)
(* removals, merges and payments run at once (customerOpsModule.js and     *)
(* checkoutController.js).                                                 *)
THEOREM CartEndsAsItsOrder == CartSpec => [](CartTypeOK /\ CartBecomesItsOrder)
<1>1. CartInv => CartTypeOK /\ CartBecomesItsOrder
  BY DEF CartInv
<1> QED
  BY <1>1, CartInvariant, PTL

-----------------------------------------------------------------------------
(* What the store keeps of its goods.                                      *)
Stock == [Goods -> [price : 1..MaxPrice, stock : 0..MaxGoods]]

(* The bounds of a search, and every product has a variant.                *)
LEMMA SearchNumbers ==
  /\ Products \in SUBSET Nat /\ IsFiniteSet(Products)
  /\ MaxPrice \in Nat \ {0} /\ MaxGoods \in Nat /\ LOW_STOCK_THRESHOLD \in Nat
  /\ MaxLimit \in Nat \ {0} /\ Limits \subseteq Nat
  /\ \A p \in Products : VariantsOf(p) \in SUBSET Goods /\ VariantsOf(p) # {}
BY SearchAssumption DEF SearchAssumption, VariantsOf

(* The cheapest variant has a price.                                       *)
LEMMA CheapestVariant ==
  ASSUME good \in Stock, NEW p \in Products
  PROVE  /\ SortPrice(p) \in 1..MaxPrice
         /\ \A g \in VariantsOf(p) : SortPrice(p) <= good[g].price
<1> DEFINE prices == {good[g].price : g \in VariantsOf(p)}
<1>1. \A g \in VariantsOf(p) : good[g].price \in 1..MaxPrice
  BY SearchNumbers DEF Stock
<1>2. prices \in SUBSET Nat /\ prices # {}
  BY <1>1, SearchNumbers
<1>3. \E m \in prices : \A n \in prices : m <= n
  <2> HIDE DEF prices
  <2> QED
    BY <1>2, LeastNumber
<1>4. \E n \in 1..MaxPrice : /\ \E g \in VariantsOf(p) : good[g].price = n
                             /\ \A g \in VariantsOf(p) : good[g].price >= n
  <2>1. PICK g \in VariantsOf(p) : \A h \in VariantsOf(p) : good[g].price <= good[h].price
    BY <1>3
  <2>2. good[g].price \in 1..MaxPrice /\ \A h \in VariantsOf(p) : good[h].price >= good[g].price
    BY <1>1, <2>1, SearchNumbers
  <2> QED
    BY <2>2
<1>5. /\ SortPrice(p) \in 1..MaxPrice
      /\ \A g \in VariantsOf(p) : good[g].price >= SortPrice(p)
  BY <1>4 DEF SortPrice
<1> QED
  BY <1>1, <1>5, SearchNumbers

(* A filter finds what is shown, though other code computes it.            *)
LEMMA AvailableAsShown ==
  ASSUME good \in Stock, NEW g \in Goods, NEW a \in Availability \cup {"any"}
  PROVE  Available(g, a) <=> (a = "any" \/ ShownAs(g) = a)
<1>1. PICK n \in Nat : n = good[g].stock
  BY SearchNumbers DEF Stock
<1>2. n \in 1..LOW_STOCK_THRESHOLD <=> n > 0 /\ n <= LOW_STOCK_THRESHOLD
  BY SearchNumbers
<1> QED
  BY <1>1, <1>2, SearchNumbers DEF Available, ShownAs, Availability

(* The filters of a search find what meets its conditions.                 *)
LEMMA MatchesMeet ==
  ASSUME good \in Stock, listed \subseteq Products, NEW w \in Walk
  PROVE  Matches(w) = {p \in listed : Meets(p, w)} /\ Matches(w) \in SUBSET Products
<1>1. w.availability \in Availability \cup {"any"}
  BY DEF Walk
<1>2. \A p \in listed : VariantsOf(p) \in SUBSET Goods
  BY SearchNumbers
<1> QED
  BY <1>1, <1>2, AvailableAsShown DEF Matches, Meets

(* Every sort is an order, ties being broken by the product's id.          *)
LEMMA PrecedesOrders ==
  ASSUME good \in Stock, NEW sort, NEW M \in SUBSET Products
  PROVE  IsOrder({pq \in M \X M : Precedes(sort, pq[1], pq[2])}, M)
<1> DEFINE before == {pq \in M \X M : Precedes(sort, pq[1], pq[2])}
<1>1. \A p \in M : SortPrice(p) \in Int /\ p \in Int
  BY SearchNumbers, CheapestVariant
<1>2. \A p, q \in M : <<p, q>> \in before <=> Precedes(sort, p, q)
  OBVIOUS
<1>3. \A p \in M : ~Precedes(sort, p, p)
  BY <1>1 DEF Precedes
<1>4. \A p, q \in M : p # q => Precedes(sort, p, q) \/ Precedes(sort, q, p)
  BY <1>1 DEF Precedes
<1>5. \A p, q, r \in M : Precedes(sort, p, q) /\ Precedes(sort, q, r) => Precedes(sort, p, r)
  BY <1>1 DEF Precedes
<1> HIDE DEF before
<1>6. IsOrder(before, M)
  BY <1>2, <1>3, <1>4, <1>5 DEF IsOrder
<1> QED
  BY <1>6 DEF before

(* A search returns everything that meets the conditions once, in order.   *)
LEMMA SortedSearch ==
  ASSUME good \in Stock, listed \subseteq Products, NEW w \in Walk
  PROVE  /\ Sorted(w) \in Seq(Products)
         /\ \A i \in DOMAIN Sorted(w) : Sorted(w)[i] \in listed /\ Meets(Sorted(w)[i], w)
         /\ \A p \in listed : Meets(p, w) => \E i \in DOMAIN Sorted(w) : Sorted(w)[i] = p
         /\ \A i, j \in DOMAIN Sorted(w) : i < j => Precedes(w.sort, Sorted(w)[i], Sorted(w)[j])
         /\ \A i, j \in DOMAIN Sorted(w) : Sorted(w)[i] = Sorted(w)[j] => i = j
<1> DEFINE M == Matches(w)
           before == {pq \in M \X M : Precedes(w.sort, pq[1], pq[2])}
           n == Cardinality(M)
           s == Sorted(w)
<1>1. M = {p \in listed : Meets(p, w)} /\ M \in SUBSET Products /\ IsFiniteSet(M)
  BY MatchesMeet, SearchNumbers, FS_Subset
<1>2. IsOrder(before, M)
  BY <1>1, PrecedesOrders
<1>3. s = InOrder(before, M)
  BY DEF Sorted
<1>4. n \in Nat
  BY <1>1, FS_CardinalityType
<1>5. \A p, q \in M : <<p, q>> \in before => Precedes(w.sort, p, q) /\ p # q
  BY <1>2 DEF IsOrder
<1> HIDE DEF M, before, n, s
<1>6. /\ s \in [1..n -> M] /\ \A p \in M : \E i \in 1..n : s[i] = p
      /\ \A i, j \in 1..n : i < j <=> <<s[i], s[j]>> \in before
  <2>1. /\ InOrder(before, M) \in [1..Cardinality(M) -> M]
        /\ \A x \in M : \E i \in 1..Cardinality(M) : InOrder(before, M)[i] = x
        /\ \A i, j \in 1..Cardinality(M) :
             i < j <=> <<InOrder(before, M)[i], InOrder(before, M)[j]>> \in before
    <3>1. PICK b, T : b = before /\ T = M
      OBVIOUS
    <3>2. IsFiniteSet(T) /\ IsOrder(b, T)
      BY <1>1, <1>2, <3>1
    <3>3. /\ InOrder(b, T) \in [1..Cardinality(T) -> T]
          /\ \A x \in T : \E i \in 1..Cardinality(T) : InOrder(b, T)[i] = x
          /\ \A i, j \in 1..Cardinality(T) :
               i < j <=> <<InOrder(b, T)[i], InOrder(b, T)[j]>> \in b
      BY <3>2, RankedInOrder
    <3> QED
      BY <3>1, <3>3
  <2> QED
    BY <1>3, <2>1 DEF n
<1>7. s \in Seq(Products) /\ DOMAIN s = 1..n
  <2>1. s \in [1..n -> Products] /\ DOMAIN s = 1..n
    BY <1>1, <1>6
  <2> QED
    BY <1>4, <2>1
<1>8. \A i, j \in 1..n : (i < j => Precedes(w.sort, s[i], s[j])) /\ (s[i] = s[j] => i = j)
  <2> SUFFICES ASSUME NEW i \in 1..n, NEW j \in 1..n
               PROVE  (i < j => Precedes(w.sort, s[i], s[j])) /\ (s[i] = s[j] => i = j)
    OBVIOUS
  <2>1. s[i] \in M /\ s[j] \in M /\ i \in Int /\ j \in Int
    BY <1>4, <1>6
  <2>2. i < j => Precedes(w.sort, s[i], s[j]) /\ s[i] # s[j]
    BY <1>5, <1>6, <2>1
  <2>3. j < i => s[i] # s[j]
    BY <1>5, <1>6, <2>1
  <2> QED
    BY <2>1, <2>2, <2>3
<1> QED
  BY <1>1, <1>6, <1>7, <1>8 DEF s

(* The pages of a list have room for it.                                   *)
LEMMA EnoughPages ==
  ASSUME NEW S, NEW s \in Seq(S), NEW w, w.limit \in Nat \ {0}
  PROVE  Pages(w, s) \in 0..Len(s) /\ Len(s) <= Pages(w, s) * w.limit
<1>1. PICK n \in Nat, l \in Nat \ {0} : n = Len(s) /\ l = w.limit
  OBVIOUS
<1> DEFINE enough == {m \in 0..n : n <= m * l}
<1>2. enough \in SUBSET Nat /\ n \in enough
  <2>1. n <= n * l
    BY <1>1
  <2> QED
    BY <2>1
<1> HIDE DEF enough
<1>3. PICK m \in enough : \A k \in enough : m <= k
  BY <1>2, LeastNumber
<1> USE DEF enough
<1>4. (m - 1) * l < n
  <2>1. CASE m = 0
    <3>1. (0 - 1) * l < 0
      BY <1>1
    <3> QED
      BY <1>1, <2>1, <3>1
  <2>2. CASE m # 0
    <3>1. m - 1 \in 0..n /\ m - 1 \notin enough
      BY <1>3, <2>2
    <3>2. (m - 1) * l \in Int
      BY <3>1
    <3> QED
      BY <3>1, <3>2
  <2> QED
    BY <2>1, <2>2
<1>5. \E k \in 0..Len(s) : (k - 1) * w.limit < Len(s) /\ Len(s) <= k * w.limit
  BY <1>1, <1>3, <1>4
<1> QED
  BY <1>5 DEF Pages

(* A page is part of the list.                                             *)
LEMMA PageTaken ==
  ASSUME NEW S, NEW s \in Seq(S), NEW w, w.page \in Nat \ {0}, w.limit \in Nat \ {0}
  PROVE  /\ PageOf(w, s) \in Seq(S)
         /\ \A i \in DOMAIN PageOf(w, s) : \E j \in DOMAIN s : PageOf(w, s)[i] = s[j]
<1>1. PICK k \in Nat, n \in Nat, l \in Nat \ {0} :
        k = (w.page - 1) * w.limit /\ n = Len(s) /\ l = w.limit
  <2>1. \A a \in Nat \ {0}, b \in Nat \ {0} : (a - 1) * b \in Nat
    OBVIOUS
  <2> QED
    BY <2>1
<1> DEFINE last == Least(k + l, n)
           page == SubSeq(s, k + 1, last)
<1>2. PageOf(w, s) = page
  BY <1>1 DEF PageOf, Skip
<1>3. last \in Int /\ last <= n /\ k + 1 \in Int
  BY <1>1 DEF Least
<1> HIDE DEF last
<1>4. \A i \in (k + 1)..last : i \in DOMAIN s /\ s[i] \in S
  BY <1>1, <1>3
<1>5. /\ page \in Seq(S) /\ Len(page) = IF k + 1 <= last THEN last - (k + 1) + 1 ELSE 0
      /\ \A i \in 1..(last - (k + 1) + 1) : page[i] = s[(k + 1) + i - 1]
  BY <1>3, <1>4, SubSeqProperties
<1> HIDE DEF page
<1>6. ASSUME NEW i \in DOMAIN page PROVE \E j \in DOMAIN s : page[i] = s[j]
  <2>1. i \in 1..Len(page)
    BY <1>5
  <2>2. i \in 1..(last - (k + 1) + 1) /\ (k + 1) + i - 1 \in (k + 1)..last
    BY <1>3, <1>5, <2>1
  <2> QED
    BY <1>4, <1>5, <2>2
<1> QED
  BY <1>2, <1>5, <1>6

(* One more page of a list continues what the pages before it showed.      *)
LEMMA PageContinues ==
  ASSUME NEW S, NEW s \in Seq(S), NEW found \in Seq(S), NEW w, w.page \in Nat \ {0},
         w.limit \in Nat \ {0},
         Len(found) = Least((w.page - 1) * w.limit, Len(s)),
         \A i \in DOMAIN found : found[i] = s[i]
  PROVE  /\ Len(found \o PageOf(w, s)) = Least(w.page * w.limit, Len(s))
         /\ \A i \in DOMAIN (found \o PageOf(w, s)) : (found \o PageOf(w, s))[i] = s[i]
         /\ w.page >= Pages(w, s) => Len(found \o PageOf(w, s)) = Len(s)
<1>1. PICK k \in Nat, n \in Nat, l \in Nat \ {0}, p \in Nat \ {0} :
        k = (w.page - 1) * w.limit /\ n = Len(s) /\ l = w.limit /\ p = w.page
  <2>1. PICK l \in Nat \ {0}, p \in Nat \ {0} : l = w.limit /\ p = w.page
    OBVIOUS
  <2>2. \A a, b \in Nat : a * b \in Nat
    OBVIOUS
  <2>3. p - 1 \in Nat /\ (p - 1) * l \in Nat
    BY <2>2
  <2> QED
    BY <2>1, <2>3
<1>2. w.page * w.limit = k + l
  <2>1. \A a \in Nat \ {0}, b \in Nat \ {0} : a * b = (a - 1) * b + b
    OBVIOUS
  <2> QED
    BY <1>1, <2>1
<1> DEFINE last == Least(k + l, n)
           page == SubSeq(s, k + 1, last)
<1>3. PageOf(w, s) = page
  BY <1>1 DEF PageOf, Skip
<1>4. last \in Int /\ last <= n /\ last <= k + l /\ (last = k + l \/ last = n)
  BY <1>1 DEF Least
<1> HIDE DEF last
<1>5. \A i \in (k + 1)..last : s[i] \in S
  BY <1>1, <1>4
<1>6. /\ page \in Seq(S) /\ Len(page) = IF k + 1 <= last THEN last - (k + 1) + 1 ELSE 0
      /\ \A i \in 1..(last - (k + 1) + 1) : page[i] = s[(k + 1) + i - 1]
  BY <1>4, <1>5, SubSeqProperties, k + 1 \in Int
<1> HIDE DEF page
<1> DEFINE longer == found \o page
<1>7. /\ longer \in Seq(S) /\ Len(longer) = Len(found) + Len(page)
      /\ \A i \in 1..(Len(found) + Len(page)) :
           longer[i] = IF i <= Len(found) THEN found[i] ELSE page[i - Len(found)]
  BY <1>6, ConcatProperties
<1>8. Len(found) = IF k < n THEN k ELSE n
  BY <1>1 DEF Least
<1>9. Len(longer) = last
  <2> HIDE DEF longer
  <2>1. PICK f \in Nat, g \in Nat : f = Len(found) /\ g = Len(page)
    BY <1>6
  <2>2. /\ f = IF k < n THEN k ELSE n
        /\ g = IF k + 1 <= last THEN last - (k + 1) + 1 ELSE 0
    BY <1>6, <1>8, <2>1
  <2>3. last \in Int /\ last <= n /\ last <= k + l /\ (last = k + l \/ last = n)
    BY <1>4
  <2>4. f + g = last
    <3>1. CASE k < n
      BY <2>2, <2>3, <3>1
    <3>2. CASE ~(k < n)
      BY <2>2, <2>3, <3>2
    <3> QED
      BY <3>1, <3>2
  <2> QED
    BY <1>7, <2>1, <2>4
<1>10. \A i \in DOMAIN longer : longer[i] = s[i]
  <2> HIDE DEF longer
  <2> SUFFICES ASSUME NEW i \in 1..Len(longer) PROVE longer[i] = s[i]
    BY <1>7
  <2>1. i \in 1..(Len(found) + Len(page)) /\ Len(found) \in Nat /\ Len(page) \in Nat
    BY <1>6, <1>7
  <2>2. CASE i <= Len(found)
    <3>1. i \in DOMAIN found
      BY <2>1, <2>2
    <3> QED
      BY <1>7, <2>1, <2>2, <3>1
  <2>3. CASE i > Len(found)
    <3>1. Len(found) = k /\ i - k \in 1..(last - (k + 1) + 1)
      <4>1. i \in Int /\ i <= last /\ i > Len(found)
        BY <1>9, <2>1, <2>3
      <4>2. k < n
        BY <1>1, <1>4, <1>8, <4>1
      <4>3. Len(found) = k /\ i - k \in Int /\ i - k >= 1 /\ i - k <= last - k
        BY <1>4, <1>8, <4>1, <4>2
      <4>4. last - k \in Int /\ last - (k + 1) + 1 = last - k
        BY <1>4
      <4> QED
        BY <4>3, <4>4
    <3>2. page[i - k] = s[(k + 1) + (i - k) - 1]
      BY <1>6, <3>1
    <3>3. i \in Nat /\ ~(i <= Len(found))
      BY <2>1, <2>3
    <3>4. longer[i] = page[i - Len(found)]
      BY <1>7, <2>1, <3>3
    <3>5. (k + 1) + (i - k) - 1 = i
      BY <1>1, <3>3
    <3> QED
      BY <3>1, <3>2, <3>4, <3>5
  <2> QED
    BY <2>1, <2>2, <2>3
<1>11. w.page >= Pages(w, s) => k + l >= n
  <2>1. Pages(w, s) \in 0..n /\ n <= Pages(w, s) * l
    BY <1>1, EnoughPages
  <2>2. \A a, b \in Nat : a <= b => a * l <= b * l
    BY <1>1
  <2>3. PICK q \in Nat : q = Pages(w, s)
    BY <1>1, <2>1
  <2>4. p >= q => q * l <= p * l
    BY <1>1, <2>2
  <2>5. \A x, y \in Nat : x * y \in Nat
    OBVIOUS
  <2>6. PICK a \in Nat : a = q * l
    BY <2>5
  <2>7. p * l = k + l
    BY <1>1, <1>2
  <2>8. p >= q => a <= k + l
    BY <2>4, <2>6, <2>7
  <2>9. n <= a
    BY <2>1, <2>3, <2>6
  <2>10. p >= q => k + l >= n
    BY <2>8, <2>9
  <2> QED
    BY <1>1, <2>3, <2>10
<1>12. /\ Len(longer) = Least(w.page * w.limit, Len(s))
       /\ w.page >= Pages(w, s) => Len(longer) = Len(s)
  <2>1. Len(longer) = Least(w.page * w.limit, Len(s))
    BY <1>1, <1>2, <1>9 DEF last
  <2>2. k + l >= n => last = n
    BY <1>1 DEF last, Least
  <2> QED
    BY <1>1, <1>9, <1>11, <2>1, <2>2
<1> QED
  BY <1>3, <1>6, <1>7, <1>10, <1>12

(* What a shopper was shown begins the list of what meets his conditions,  *)
(* as long as the store stays as it is.                                    *)
ShownSoFar ==
  walk.unchanged =>
    /\ Len(walk.found) = Least(walk.page * walk.limit, Len(Sorted(walk)))
    /\ \A i \in DOMAIN walk.found : walk.found[i] = Sorted(walk)[i]
    /\ walk.ended => Len(walk.found) = Len(Sorted(walk))

(* The invariant of a walk over the pages.                                 *)
SearchInv == SearchTypeOK /\ ShownSoFar

(* The next page shows what is true as it is read, and continues the list. *)
LEMMA PageSafe ==
  ASSUME SearchInv, SearchPage
  PROVE  SearchInv' /\ FoundAsShown
<1>1. good \in Stock /\ listed \subseteq Products /\ walk \in Walk
  BY DEF SearchInv, SearchTypeOK, Stock
<1>2. PICK w, s, f : w = [walk EXCEPT !.page = @ + 1] /\ s = Sorted(w) /\ f = walk.found
  OBVIOUS
<1>3. /\ w \in Walk /\ w.page = walk.page + 1 /\ w.limit = walk.limit /\ w.sort = walk.sort
      /\ w.availability = walk.availability /\ w.maxPrice = walk.maxPrice
      /\ w.found = f /\ w.unchanged = walk.unchanged
  BY <1>1, <1>2 DEF Walk
<1>4. /\ walk.page \in Nat /\ w.page \in Nat \ {0} /\ w.limit \in Nat \ {0}
      /\ f \in Seq(Products)
  BY <1>1, <1>3, SearchNumbers DEF Walk
<1>5. s \in Seq(Products) /\ \A i \in DOMAIN s : s[i] \in listed /\ Meets(s[i], w)
  BY <1>1, <1>2, <1>3, SortedSearch
<1>6. s = Sorted(walk)
  BY <1>2, <1>3 DEF Sorted, Matches
<1> DEFINE page == PageOf(w, s)
           longer == f \o page
           last == w.page >= Pages(w, s)
<1>7. /\ page \in Seq(Products)
      /\ \A i \in DOMAIN page : \E j \in DOMAIN s : page[i] = s[j]
  BY <1>4, <1>5, PageTaken
<1>8. /\ longer \in Seq(Products) /\ Len(longer) = Len(f) + Len(page)
      /\ \A i \in 1..(Len(f) + Len(page)) :
           longer[i] = IF i <= Len(f) THEN f[i] ELSE page[i - Len(f)]
  BY <1>4, <1>7, ConcatProperties
<1>9. /\ walk' = [w EXCEPT !.found = @ \o page, !.ended = last] /\ UNCHANGED <<listed, good>>
  BY <1>2 DEF SearchPage
<1>10. last \in BOOLEAN
  OBVIOUS
<1>11. ASSUME walk.unchanged
       PROVE  /\ Len(longer) = Least(w.page * w.limit, Len(s))
              /\ \A i \in DOMAIN longer : longer[i] = s[i]
              /\ last => Len(longer) = Len(s)
  <2>1. w.page - 1 = walk.page
    BY <1>3, <1>4
  <2>2. /\ Len(f) = Least((w.page - 1) * w.limit, Len(s))
        /\ \A i \in DOMAIN f : f[i] = s[i]
    BY <1>2, <1>3, <1>6, <1>11, <2>1 DEF SearchInv, ShownSoFar
  <2> QED
    BY <1>4, <1>5, <2>2, PageContinues
<1> HIDE DEF longer, page, last
<1>12. walk' = [w EXCEPT !.found = longer, !.ended = last]
  BY <1>3, <1>9 DEF longer
<1>13. /\ walk' \in Walk /\ walk'.found = longer /\ walk'.page = w.page
       /\ walk'.limit = w.limit /\ walk'.sort = w.sort /\ walk'.availability = w.availability
       /\ walk'.maxPrice = w.maxPrice /\ walk'.unchanged = walk.unchanged /\ walk'.ended = last
  BY <1>3, <1>8, <1>10, <1>12 DEF Walk
<1>14. Sorted(walk)' = s
  <2>1. Matches(walk)' = Matches(walk)
    BY <1>3, <1>9, <1>13 DEF Matches, Available, VariantsOf
  <2>2. \A p : SortPrice(p)' = SortPrice(p)
    BY <1>9 DEF SortPrice, VariantsOf
  <2>3. \A p, q : Precedes(walk.sort, p, q)' <=> Precedes(walk.sort, p, q)
    BY <1>3, <1>13, <2>2 DEF Precedes
  <2>4. Sorted(walk)' = Sorted(walk)
    BY <2>1, <2>3 DEF Sorted
  <2> QED
    BY <1>6, <2>4
<1>15. SearchTypeOK'
  BY <1>1, <1>9, <1>13 DEF SearchTypeOK, Stock
<1>16. ShownSoFar'
  BY <1>11, <1>13, <1>14 DEF ShownSoFar
<1>17. FoundAsShown
  <2> SUFFICES ASSUME NEW i \in DOMAIN longer, i \notin DOMAIN f
               PROVE  longer[i] \in listed /\ Meets(longer[i], walk')
    BY <1>2, <1>13 DEF FoundAsShown
  <2>1. /\ i \in 1..(Len(f) + Len(page)) /\ i \notin 1..Len(f)
        /\ Len(f) \in Nat /\ Len(page) \in Nat
    BY <1>4, <1>7, <1>8
  <2>2. longer[i] = page[i - Len(f)] /\ i - Len(f) \in 1..Len(page)
    BY <1>8, <2>1
  <2>3. \E j \in DOMAIN s : longer[i] = s[j]
    BY <1>7, <2>2
  <2>4. longer[i] \in listed /\ Meets(longer[i], w)
    BY <1>5, <2>3
  <2> QED
    BY <1>13, <2>4 DEF Meets
<1> QED
  BY <1>15, <1>16, <1>17 DEF SearchInv

(* What a walk goes over is a list of products,                            *)
LEMMA SortedWalk == SearchTypeOK => Sorted(walk) \in Seq(Products)
<1> SUFFICES ASSUME SearchTypeOK PROVE Sorted(walk) \in Seq(Products)
  OBVIOUS
<1>1. PICK w \in Walk : w = walk
  BY DEF SearchTypeOK
<1> QED
  BY <1>1, SortedSearch DEF SearchTypeOK, Stock

(* and still is after a step.                                              *)
LEMMA SortedNext == (SearchTypeOK => Sorted(walk) \in Seq(Products))'
BY SortedWalk, PTL

(* A walk that begins has shown nothing.                                   *)
LEMMA BeginWalkSafe ==
  ASSUME SearchInv,
         NEW a \in Availability \cup {"any"}, NEW price \in 1..MaxPrice, NEW sort \in Sorts,
         NEW n \in Limits, BeginWalk(a, price, sort, n)
  PROVE  SearchInv' /\ FoundAsShown
<1>1. /\ walk' = [availability |-> a, maxPrice |-> price, sort |-> sort, limit |-> PageSize(n),
                  page |-> 0, found |-> <<>>, ended |-> FALSE, unchanged |-> TRUE]
      /\ UNCHANGED <<listed, good>>
  BY DEF BeginWalk
<1>2. PageSize(n) \in 1..MaxLimit /\ PageSize(n) \in Nat
  <2>1. n \in Nat
    BY SearchNumbers
  <2> QED
    BY <2>1, SearchNumbers DEF PageSize
<1>3. <<>> \in Seq(Products) /\ 0 \in Nat
  OBVIOUS
<1>4. walk' \in Walk /\ good' \in Stock /\ listed' \subseteq Products
  BY <1>1, <1>2, <1>3 DEF SearchInv, SearchTypeOK, Stock, Walk
<1>5. PICK s : s = Sorted(walk)'
  OBVIOUS
<1>6. s \in Seq(Products)
  <2>1. SearchTypeOK' => Sorted(walk)' \in Seq(Products)
    BY SortedNext
  <2> QED
    BY <1>4, <1>5, <2>1 DEF SearchTypeOK, Stock
<1>7. ShownSoFar'
  <2>1. Least(0 * PageSize(n), Len(s)) = 0
    <3>1. 0 * PageSize(n) = 0 /\ Len(s) \in Nat
      BY <1>2, <1>6
    <3> QED
      BY <3>1 DEF Least
  <2>2. walk'.page = 0 /\ walk'.limit = PageSize(n) /\ walk'.found = <<>> /\ ~walk'.ended
    BY <1>1
  <2> QED
    BY <1>5, <2>1, <2>2 DEF ShownSoFar
<1> QED
  BY <1>1, <1>4, <1>7 DEF SearchInv, SearchTypeOK, Stock, FoundAsShown

(* The other steps end a walk or mark it as one during which the store     *)
(* changed, and show nothing.                                              *)
LEMMA StoreSafe ==
  ASSUME SearchInv, good' \in Stock, listed' \subseteq Products, walk' = NoWalk \/ Changes
  PROVE  SearchInv' /\ FoundAsShown
<1>1. walk \in Walk
  BY DEF SearchInv, SearchTypeOK
<1>2. NoWalk \in Walk /\ ~NoWalk.unchanged /\ NoWalk.found = <<>>
  <2>1. 1 \in 1..MaxPrice /\ 1 \in 1..MaxLimit /\ <<>> \in Seq(Products)
    BY SearchNumbers
  <2> QED
    BY <2>1 DEF NoWalk, Walk, Sorts
<1>3. /\ walk' \in Walk /\ ~walk'.unchanged
      /\ DOMAIN walk'.found \subseteq DOMAIN walk.found
  <2>1. CASE walk' = NoWalk
    BY <1>2, <2>1
  <2>2. CASE Changes
    <3>1. walk' = [walk EXCEPT !.unchanged = FALSE]
      BY <2>2 DEF Changes
    <3> QED
      BY <1>1, <3>1 DEF Walk
  <2> QED
    BY <2>1, <2>2
<1> QED
  BY <1>3 DEF SearchInv, SearchTypeOK, Stock, ShownSoFar, FoundAsShown

(* Every step keeps the invariant and shows only what is true.             *)
LEMMA SearchStepSafe ==
  ASSUME SearchInv, SearchStep
  PROVE  SearchInv' /\ FoundAsShown
<1>0. good \in Stock /\ listed \subseteq Products
  BY DEF SearchInv, SearchTypeOK, Stock
<1>1. ASSUME NEW g \in Goods, NEW n \in {-1, 1}, MoveGoods(g, n)
      PROVE  SearchInv' /\ FoundAsShown
  <2>1. /\ good' = [good EXCEPT ![g].stock = @ + n] /\ good[g].stock + n \in 0..MaxGoods
        /\ Changes /\ listed' = listed
    BY <1>1 DEF MoveGoods
  <2>2. good' \in Stock
    BY <1>0, <2>1 DEF Stock
  <2> QED
    BY <1>0, <2>1, <2>2, StoreSafe
<1>2. ASSUME NEW g \in Goods, NEW price \in 1..MaxPrice, Reprice(g, price)
      PROVE  SearchInv' /\ FoundAsShown
  <2>1. good' = [good EXCEPT ![g].price = price] /\ Changes /\ listed' = listed
    BY <1>2 DEF Reprice
  <2>2. good' \in Stock
    BY <1>0, <2>1 DEF Stock
  <2> QED
    BY <1>0, <2>1, <2>2, StoreSafe
<1>3. ASSUME NEW p \in Products, Relist(p) PROVE SearchInv' /\ FoundAsShown
  BY <1>0, <1>3, StoreSafe DEF Relist
<1>4. CASE LeaveShop
  BY <1>0, <1>4, StoreSafe DEF LeaveShop
<1> QED
  BY <1>1, <1>2, <1>3, <1>4, PageSafe, BeginWalkSafe DEF SearchStep

(* A walk that saw every page of an unchanged store saw its whole list.    *)
LEMMA WholeListShown == SearchInv => PagesShowEachOnce
<1> SUFFICES ASSUME SearchInv, walk.ended, walk.unchanged PROVE PagesShowEachOnce
  BY DEF PagesShowEachOnce
<1>1. good \in Stock /\ listed \subseteq Products /\ walk \in Walk
  BY DEF SearchInv, SearchTypeOK, Stock
<1>2. PICK s, f : s = Sorted(walk) /\ f = walk.found
  OBVIOUS
<1>3. /\ s \in Seq(Products)
      /\ \A i \in DOMAIN s : s[i] \in listed /\ Meets(s[i], walk)
      /\ \A p \in listed : Meets(p, walk) => \E i \in DOMAIN s : s[i] = p
      /\ \A i, j \in DOMAIN s : i < j => Precedes(walk.sort, s[i], s[j])
      /\ \A i, j \in DOMAIN s : s[i] = s[j] => i = j
  BY <1>1, <1>2, SortedSearch
<1>4. /\ f \in Seq(Products) /\ Len(f) = Len(s) /\ \A i \in DOMAIN f : f[i] = s[i]
  BY <1>1, <1>2 DEF SearchInv, ShownSoFar, Walk
<1>5. DOMAIN f = DOMAIN s
  BY <1>3, <1>4
<1>6. IsInjective(f)
  BY <1>3, <1>4, <1>5 DEF IsInjective
<1>7. {p \in listed : Meets(p, walk)} \subseteq ToSet(f)
  BY <1>3, <1>4, <1>5 DEF ToSet
<1>8. ASSUME walk.sort = "price_asc", NEW i \in DOMAIN f, NEW j \in DOMAIN f, i < j
      PROVE  SortPrice(f[i]) <= SortPrice(f[j])
  <2>1. Precedes(walk.sort, s[i], s[j]) /\ s[i] \in Products /\ s[j] \in Products
    BY <1>3, <1>5, <1>8
  <2>2. SortPrice(s[i]) \in Int /\ SortPrice(s[j]) \in Int
    <3>1. SortPrice(s[i]) \in 1..MaxPrice /\ SortPrice(s[j]) \in 1..MaxPrice
      BY <1>1, <2>1, CheapestVariant
    <3> QED
      BY <3>1, SearchNumbers
  <2>3. SortPrice(s[i]) <= SortPrice(s[j])
    BY <1>8, <2>1, <2>2 DEF Precedes
  <2> QED
    BY <1>4, <2>3
<1> QED
  BY <1>2, <1>6, <1>7, <1>8 DEF PagesShowEachOnce

(* The invariant holds of every walk.                                      *)
LEMMA SearchInvariant == SearchSpec => []SearchInv
<1>1. SearchInit => SearchInv
  <2> SUFFICES ASSUME SearchInit PROVE SearchInv
    OBVIOUS
  <2>1. NoWalk \in Walk /\ ~NoWalk.unchanged
    <3>1. 1 \in 1..MaxPrice /\ 1 \in 1..MaxLimit /\ <<>> \in Seq(Products)
      BY SearchNumbers
    <3> QED
      BY <3>1 DEF NoWalk, Walk, Sorts
  <2>2. good \in Stock
    BY SearchNumbers DEF SearchInit, Stock
  <2> QED
    BY <2>1, <2>2 DEF SearchInit, SearchInv, SearchTypeOK, ShownSoFar, Stock
<1>2. SearchInv /\ [SearchStep]_searchVars => SearchInv'
  <2>1. SearchInv /\ UNCHANGED searchVars => SearchInv'
    <3> SUFFICES ASSUME SearchInv, UNCHANGED <<listed, good, walk>> PROVE SearchInv'
      BY DEF searchVars
    <3>1. Sorted(walk)' = Sorted(walk)
      <4>1. Matches(walk)' = Matches(walk)
        BY DEF Matches, Available, VariantsOf
      <4>2. \A p : SortPrice(p)' = SortPrice(p)
        BY DEF SortPrice, VariantsOf
      <4>3. \A p, q : Precedes(walk.sort, p, q)' <=> Precedes(walk.sort, p, q)
        BY <4>2 DEF Precedes
      <4> QED
        BY <4>1, <4>3 DEF Sorted
    <3> QED
      BY <3>1 DEF SearchInv, SearchTypeOK, ShownSoFar
  <2> QED
    BY <2>1, SearchStepSafe
<1> QED
  BY <1>1, <1>2, PTL DEF SearchSpec

(* Every product a page adds is listed and meets the filters as the page   *)
(* is read, and a walk over all pages of a store that did not change shows *)
(* everything that meets them once, in order of price where that is asked  *)
(* for, though different code filters, labels and sorts                    *)
(* (catalogueSearchService.js).                                            *)
THEOREM SearchShowsWhatIsTrue == SearchSpec => SearchIsTrue
<1>1. SearchInv /\ [SearchStep]_searchVars => [FoundAsShown]_searchVars
  BY SearchStepSafe
<1>2. SearchInv => PagesShowEachOnce
  BY WholeListShown
<1>3. PagesShowEachOnce' /\ [FoundAsShown]_searchVars
        => [FoundAsShown /\ PagesShowEachOnce']_searchVars
  OBVIOUS
<1> QED
  BY <1>1, <1>2, <1>3, SearchInvariant, PTL DEF SearchSpec, SearchIsTrue
=============================================================================
