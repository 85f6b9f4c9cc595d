------------------------------ MODULE Ranking ------------------------------
(***************************************************************************)
(* The elements of a finite set as a sequence.  An element's place is how  *)
(* many others come before it, which can be reasoned about where a sort    *)
(* that recurs over the set cannot.                                        *)
(***************************************************************************)
EXTENDS Integers, FiniteSets

(* An order on S, as the set of pairs <<x, y>> in which x comes before y.  *)
IsOrder(before, S) ==
  /\ \A x \in S : <<x, x>> \notin before
  /\ \A x, y \in S : x # y => <<x, y>> \in before \/ <<y, x>> \in before
  /\ \A x, y, z \in S : <<x, y>> \in before /\ <<y, z>> \in before => <<x, z>> \in before

Place(before, S, x) == Cardinality({y \in S : <<y, x>> \in before})

InOrder(before, S) ==
  [i \in 1..Cardinality(S) |-> CHOOSE x \in S : Place(before, S, x) = i - 1]
=============================================================================
