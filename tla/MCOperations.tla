--------------------------- MODULE MCOperations ---------------------------
(***************************************************************************)
(* Desks that share no document, checked in one run: one of them is at     *)
(* work and the others stay as they began, so that their states add up     *)
(* instead of multiplying.                                                 *)
(***************************************************************************)
EXTENDS Operations, TLC

CONSTANTS
  d1, d2,      \* what comes in pairs and may be exchanged on every desk
  t1, t2, t3,  \* what comes in threes
  Desks        \* the desks one of which is at work

ASSUME DesksAssumption ==
  Desks \subseteq {"claims", "returns", "tickets", "services", "plans", "content", "cart",
                   "catalogue", "search", "invitations", "links", "staff", "guidance", "evidence"}

VARIABLE running  \* the desk that is at work

OneDeskInit ==
  /\ AfterSalesInit /\ DeskInit
  /\ ContentInit /\ CartInit /\ CatalogueInit /\ AccessInit
  /\ SearchInit /\ StaffInit /\ GuidanceInit
  /\ EvidenceAccessInit
  /\ running \in Desks
  /\ running # "evidence" => domain = "order"   \* any domain, only for its own desk

OneDeskNext ==
  /\ UNCHANGED running
  /\ \/ /\ \/ running = "claims" /\ ClaimStep
           \/ running = "returns" /\ ReturnStep
           \/ running = "tickets" /\ TicketStep
        /\ UNCHANGED <<deskVars, contentVars, cartVars, catalogueVars,
                       searchVars, accessVars, staffVars, guidanceVars,
                       evidenceAccessVars>>
     \/ /\ \/ running = "services" /\ ServiceStep
           \/ running = "plans" /\ PlanStep
        /\ UNCHANGED <<afterSalesVars, contentVars, cartVars, catalogueVars,
                       searchVars, accessVars, staffVars, guidanceVars,
                       evidenceAccessVars>>
     \/ /\ running = "content" /\ ContentStep
        /\ UNCHANGED <<afterSalesVars, deskVars, cartVars, catalogueVars,
                       searchVars, accessVars, staffVars, guidanceVars,
                       evidenceAccessVars>>
     \/ /\ running = "cart" /\ CartStep
        /\ UNCHANGED <<afterSalesVars, deskVars, contentVars, catalogueVars,
                       searchVars, accessVars, staffVars, guidanceVars,
                       evidenceAccessVars>>
     \/ /\ running = "catalogue" /\ CatalogueStep
        /\ UNCHANGED <<afterSalesVars, deskVars, contentVars, cartVars,
                       searchVars, accessVars, staffVars, guidanceVars,
                       evidenceAccessVars>>
     \/ /\ running = "search" /\ SearchStep
        /\ UNCHANGED <<afterSalesVars, deskVars, contentVars, cartVars,
                       catalogueVars, accessVars, staffVars, guidanceVars,
                       evidenceAccessVars>>
     \/ /\ \/ running = "invitations" /\ InviteStep
           \/ running = "links" /\ LinkStep
        /\ UNCHANGED <<afterSalesVars, deskVars, contentVars, cartVars,
                       catalogueVars, searchVars, staffVars, guidanceVars,
                       evidenceAccessVars>>
     \/ /\ running = "staff" /\ StaffStep
        /\ UNCHANGED <<afterSalesVars, deskVars, contentVars, cartVars,
                       catalogueVars, searchVars, accessVars, guidanceVars,
                       evidenceAccessVars>>
     \/ /\ running = "guidance" /\ GuidanceStep
        /\ UNCHANGED <<afterSalesVars, deskVars, contentVars, cartVars,
                       catalogueVars, searchVars, accessVars, staffVars,
                       evidenceAccessVars>>
     \/ /\ running = "evidence" /\ EvidenceAccessStep
        /\ UNCHANGED <<afterSalesVars, deskVars, contentVars, cartVars,
                       catalogueVars, searchVars, accessVars, staffVars,
                       guidanceVars>>

OneDeskSpec ==
  OneDeskInit /\ [][OneDeskNext]_<<running, afterSalesVars,
    deskVars, contentVars, cartVars, catalogueVars, searchVars,
    accessVars, staffVars, guidanceVars, evidenceAccessVars>>

-----------------------------------------------------------------------------
(* Bounds                                                                  *)

(* Publish, withdraw, and replace the images by none or by some.           *)
ProductPatches ==
  {[status |-> "active", content |-> "keep"], [status |-> "draft", content |-> "keep"],
   [status |-> "keep", content |-> "partial"], [status |-> "keep", content |-> "complete"]}

(* Two of these at once: members of staff at work on the service request,  *)
(* quotations that lapsed, an execution.                                   *)
ServiceBound ==
  Cardinality(assessing) + Cardinality(scheduling)
    + (IF quoting.step = "idle" THEN 0 ELSE 1)
    + Cardinality({v \in OfferVersions : offer[v].lapsed})
    + (IF execution.status = "ABSENT" THEN 0 ELSE 1) <= 2

(* Two requests in flight over the policy.  Versions are interchangeable,   *)
(* so they are made in one order.                                          *)
ContentBound ==
  LET Made == {e \in Editions : edition[e].status # "absent"} IN
  /\ Cardinality(publishing) + Cardinality(deleting) + Cardinality(capturing) <= 2
  /\ Made \in {{}, {t1}, {t1, t2}, Editions}

(* Two requests in flight over the cart; one price that is raised or one   *)
(* variant that was sold.  Requests are interchangeable and begin in order.*)
CartBound ==
  /\ \A c \in Calls \ {1} : calling[c].step # "new" => calling[c - 1].step # "new"
  /\ \A a \in Attempts \ {1} : paying[a].step # "new" => paying[a - 1].step # "new"
  /\ Cardinality({c \in Calls : calling[c].step \in {"load", "save"}})
       + Cardinality({a \in Attempts : paying[a].step = "commit"}) <= 2
  /\ Cardinality({s \in Skus : shop[s].price = 2})
       + Cardinality({s \in Skus : shop[s].stock # MaxOnShelf}) <= 1

(* Two edits at once, one of a product that was archived.                  *)
CatalogueBound == product.status = "archived" => Cardinality(editing) <= 1

(* Three products: the first has two variants, one is sourced.             *)
GoodsOf == [g1 |-> 1, g2 |-> 1, g3 |-> 2, g4 |-> 3]

(* One product withdrawn or one variant repriced.                          *)
SearchBound ==
  Cardinality(Products \ listed)
    + Cardinality({g \in Goods : good[g].price = 2}) <= 1

(* Customers, and the roles a repair treats differently.                   *)
RoleOfAccount ==
  [owner |-> "customer", stranger |-> "customer", tech1 |-> "technician",
   tech2 |-> "technician", qc |-> "qc_officer", store |-> "store_operator",
   sales |-> "sales_advisor", ops |-> "ops_manager"]

(* Two requests at once, one of them a download, for the intake evidence of*)
(* a repair, which most accounts may see; one for any other.  Two records  *)
(* in the audit log, three while a request is under way, are continued,    *)
(* more are checked.  The technicians are interchangeable.                 *)
EvidenceBound ==
  LET Requests == Cardinality(opening) + Cardinality(removing)
      Shared == domain = "repair" /\ \E f \in Files : file[f].purpose = "repair_intake"
  IN
  /\ Cardinality(opening) <= 1 /\ Requests <= IF Shared THEN 2 ELSE 1
  /\ Cardinality(trail) <= IF Requests = 0 THEN 2 ELSE 3
  /\ Requests + Cardinality(trail) <= 4
  /\ "tech2" \in assigned => "tech1" \in assigned

(* The desks use the same two values where they need two of a kind, so     *)
(* that one exchange is a symmetry of all of them.                         *)
DeskSymmetry == Permutations({d1, d2})
=============================================================================
