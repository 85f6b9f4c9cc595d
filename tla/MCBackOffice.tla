---------------------------- MODULE MCBackOffice ----------------------------
(***************************************************************************)
(* Repairing, buying from suppliers and selling by quotation share no      *)
(* document: one of the three desks is at work and the others stay as they *)
(* began, so that their states add up instead of multiplying.              *)
(***************************************************************************)
EXTENDS BackOffice, TLC

CONSTANTS p1, p2, r1, k1, k2, g1, g2, u1, c1, owner, mate, s1, s2

VARIABLE desk  \* the desk that is at work

OneDeskInit ==
  /\ Init /\ SupplyInit /\ QuotationsInit
  /\ desk \in {"repairs", "buying", "quotations"}

OneDeskNext ==
  /\ UNCHANGED desk
  /\ \/ desk = "repairs" /\ Next /\ UNCHANGED <<supplyVars, quotationVars>>
     \/ desk = "buying" /\ SupplyNext /\ UNCHANGED <<vars, quotationVars>>
     \/ desk = "quotations" /\ QuotationsNext /\ UNCHANGED <<vars, supplyVars>>

OneDeskSpec ==
  OneDeskInit /\ [][OneDeskNext]_<<desk, vars, supplyVars, quotationVars>>

-----------------------------------------------------------------------------
(* Bounds                                                                  *)

(* The refund is of the first deposit attempt.                             *)
OneRefund == r1 :> p1

(* Two of these at once: deposit attempts, overrides, a request of staff.  *)
RepairBound ==
  Cardinality({p \in Payments : payment[p].status # "ABSENT"})
    + Cardinality(override) + Cardinality(request) <= 2

(* One correction, the release of a unit, a count that finds nothing, and  *)
(* a resolution of the discrepancy it opens.                               *)
StaffRequests ==
  {[op |-> "adjust", delta |-> 1], [op |-> "release", unit |-> u1],
   [op |-> "count", count |-> c1, counted |-> 0],
   [op |-> "resolve", count |-> c1, resolution |-> "ADJUST_STOCK"]}

(* Two of these at once: requests in flight over stock and supply, a sale. *)
SupplyBound ==
  Cardinality(pending) + Cardinality(arrivals) + (IF sold = 0 THEN 0 ELSE 1) <= 2

(* Two of these at once: requests in flight over the organisation's        *)
(* request, quotations that lapsed.  The founder and one other member.     *)
QuotationsBound ==
  /\ Cardinality(calls) + Cardinality(conversions)
       + Cardinality({s \in Officers : issuing[s].step # "idle"})
       + Cardinality({v \in QuotationVersions : quotation[v].lapsed}) <= 2
  /\ member[owner] \in {"NONE", "OWNER"} /\ member[mate] \in {"NONE", "ADMIN"}

BackOfficeSymmetry ==
  Permutations(Keys) \cup Permutations(ReceiptKeys) \cup Permutations(Officers)
=============================================================================
