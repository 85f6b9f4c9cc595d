----------------------------- MODULE Operations -----------------------------
(***************************************************************************)
(* The desks that share no document, all at work: each takes its own steps *)
(* and leaves the documents of the others alone.                           *)
(***************************************************************************)
EXTENDS AfterSales, ServiceDesk, ContentDesk, CartDesk, CatalogueDesk, CatalogueSearch,
        AccessLinks, StaffAuthority, GuidanceDesk, EvidenceAccess

OperationsSpec ==
  /\ AfterSalesSpec /\ DeskSpec /\ ContentSpec /\ CartSpec /\ CatalogueSpec
  /\ SearchSpec /\ AccessSpec /\ StaffSpec /\ GuidanceSpec /\ EvidenceAccessSpec

(* All desks keep their documents within their schemas.                    *)
OperationsTypeOK ==
  /\ AfterSalesTypeOK /\ DeskTypeOK /\ ContentTypeOK /\ CartTypeOK
  /\ CatalogueTypeOK /\ AccessTypeOK /\ SearchTypeOK /\ StaffTypeOK
  /\ GuidanceTypeOK /\ EvidenceAccessTypeOK
=============================================================================
