------------------------------- MODULE Tally -------------------------------
(***************************************************************************)
(* Sums over a finite set, stated as the size of a set of pieces.  Stock   *)
(* quantities, refund amounts and ledger entries are added this way        *)
(* because facts about Cardinality can be cited in a proof, and facts      *)
(* about a fold cannot.                                                    *)
(***************************************************************************)
EXTENDS Integers, FiniteSets

(* A weight of n at s contributes the pieces <<s, 1>>, ..., <<s, n>>.      *)
(* Weights above max would be cut off: every use bounds them by max.       *)
Pieces(weight, S, max) == {x \in S \X (1..max) : x[2] <= weight[x[1]]}

Total(weight, S, max) == Cardinality(Pieces(weight, S, max))

(* Entries with a signed field delta: what they add less what they take.   *)
Gains(S) == UNION {{e} \X (1..e.delta) : e \in S}
Losses(S) == UNION {{e} \X (1..(-e.delta)) : e \in S}

NetDelta(S) == Cardinality(Gains(S)) - Cardinality(Losses(S))
=============================================================================
