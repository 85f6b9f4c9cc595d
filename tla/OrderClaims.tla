---------------------------- MODULE OrderClaims ----------------------------
(***************************************************************************)
(* What the repository's documents claim of payments and the code does not *)
(* do.  A run refutes it.                                                  *)
(***************************************************************************)
EXTENDS OrderCommerce

(* README, "contradictory terminal events reconcile without regression":   *)
(* once money was captured, a late failure callback does not turn the      *)
(* payment into a failed one.  The code's set of terminal payment states   *)
(* omits PARTIALLY_REFUNDED, so after a partial refund it does.            *)
CapturedNeverFails ==
  [][\A p \in Payments : payment[p].captured > 0 => payment'[p].status # "FAILED"]_vars
=============================================================================
