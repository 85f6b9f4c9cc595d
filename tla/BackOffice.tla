----------------------------- MODULE BackOffice -----------------------------
(***************************************************************************)
(* Repairing, buying from suppliers and selling by quotation, all at work: *)
(* they share no document, so each desk takes its own steps and leaves the *)
(* documents of the others alone.                                          *)
(***************************************************************************)
EXTENDS RepairDesk, Procurement, Quotations

BackOfficeSpec == Spec /\ SupplySpec /\ QuotationsSpec

(* All three desks keep their documents within their schemas.              *)
BackOfficeTypeOK == TypeOK /\ SupplyTypeOK /\ QuotationsTypeOK
=============================================================================
