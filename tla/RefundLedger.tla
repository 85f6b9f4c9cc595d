---------------------------- MODULE RefundLedger ----------------------------
(***************************************************************************)
(* What the payment service promises about money: an order is captured at  *)
(* most once, every refund is promised out of one capture, the promises    *)
(* that stand never exceed it, and a refund ends paid or dropped, once.    *)
(***************************************************************************)
EXTENDS Integers, FiniteSets, Tally

CONSTANTS Orders, Payments, Refunds, Subject, RefundOf, OrderTotal, MaxTotal

VARIABLES
  captured,  \* captured[p]: what payment p took
  claimed,   \* claimed[r]: what refund r asks for
  fate       \* fate[r]: where refund r stands

ledgerVars == <<captured, claimed, fate>>

LedgerInit ==
  /\ captured = [p \in Payments |-> 0]
  /\ claimed = [r \in Refunds |-> 0]
  /\ fate = [r \in Refunds |-> "none"]

(* Promises that still bind the money of payment p.                        *)
Promised(p) == {r \in Refunds : RefundOf[r] = p /\ fate[r] \in {"open", "paid"}}

CaptureMoney(p) ==
  /\ \A q \in Payments : Subject[q] = Subject[p] => captured[q] = 0
  /\ captured' = [captured EXCEPT ![p] = OrderTotal[Subject[p]]]
  /\ UNCHANGED <<claimed, fate>>

Promise(r, a) ==
  /\ fate[r] = "none"
  /\ a + Total(claimed, Promised(RefundOf[r]), MaxTotal) <= captured[RefundOf[r]]
  /\ claimed' = [claimed EXCEPT ![r] = a]
  /\ fate' = [fate EXCEPT ![r] = "open"]
  /\ UNCHANGED captured

Close(r, end) ==
  /\ fate[r] = "open"
  /\ fate' = [fate EXCEPT ![r] = end]
  /\ UNCHANGED <<captured, claimed>>

LedgerNext ==
  \/ \E p \in Payments : CaptureMoney(p)
  \/ \E r \in Refunds, a \in 1..MaxTotal : Promise(r, a)
  \/ \E r \in Refunds, end \in {"paid", "dropped"} : Close(r, end)

LedgerSpec == LedgerInit /\ [][LedgerNext]_ledgerVars
=============================================================================
