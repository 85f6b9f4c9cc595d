----------------------------- MODULE Quotations -----------------------------
(***************************************************************************)
(* One procurement request of an organisation, the quotations staff issue  *)
(* for it, the customer's decisions and the conversion of an approved      *)
(* quotation into an order.                                                *)
(*                                                                         *)
(* Decisions run in one transaction that writes all they read.  Issuing a  *)
(* quotation is five database calls with no transaction.  A conversion     *)
(* reads a snapshot and commits only if nobody wrote the quotation or the  *)
(* request since: what else it read may have changed.                      *)
(***************************************************************************)
EXTENDS Integers, FiniteSets, FiniteSetsExt

CONSTANTS
  Users,           \* people who may become members
  Founder,         \* who creates the organisation
  Officers,        \* staff issuing quotations
  MaxQuotations,   \* bound on the versions of a quotation
  MaxEdits         \* bound on the version of the request

ASSUME QuotationsAssumption ==
  MaxQuotations \in Nat /\ MaxEdits \in Nat /\ Founder \in Users

VARIABLES
  organisation,  \* Organisation.status
  member,        \* OrganisationMember.role of a user, all of them ACTIVE
  inquiry,       \* the ProcurementRequest document
  quotation,     \* quotation[v]: the ProcurementQuotation of version v
  b2bOrder,      \* orders with a procurementSnapshot
  issuing,       \* where each officer is in createStaffQuotation
  calls,         \* customer calls that read the request and did not write it
  conversions    \* transactions of convertQuotationToOrder

quotationVars ==
  <<organisation, member, inquiry, quotation, b2bOrder, issuing, calls, conversions>>

QuotationVersions == 1..MaxQuotations
Roles == {"NONE", "OWNER", "ADMIN", "BUYER", "VIEWER"}
Buyers == {u \in Users : member[u] \in {"OWNER", "ADMIN", "BUYER"}}

InquiryStatus ==
  {"ABSENT", "SUBMITTED", "UNDER_REVIEW", "CLARIFICATION_REQUIRED", "AWAITING_DECISION",
   "DECLINED", "CONVERSION_PENDING", "CONVERTED_TO_ORDER"}

QuotationStatus == {"ABSENT", "ISSUED", "APPROVED", "DECLINED", "SUPERSEDED"}

QuotationDocument ==
  [status : QuotationStatus, actionable : BOOLEAN, lapsed : BOOLEAN, converted : BOOLEAN]

(* step is the next database call, seen the status the request had, next   *)
(* the version to issue.                                                   *)
Issuing ==
  [step : {"idle", "version", "supersede", "create", "save"},
   seen : InquiryStatus, next : 0..(MaxQuotations + 1)]

(* An edit remembers the version it read, an answer whether the document   *)
(* is still the one it read.                                               *)
Call == [kind : {"edit"}, version : Nat] \cup [kind : {"answer"}, current : BOOLEAN]

Idle == [step |-> "idle", seen |-> "ABSENT", next |-> 0]

QuotationsInit ==
  /\ organisation = "ABSENT"
  /\ member = [u \in Users |-> "NONE"]
  /\ inquiry = [status |-> "ABSENT", version |-> 1]
  /\ quotation = [v \in QuotationVersions |-> [status |-> "ABSENT", actionable |-> FALSE,
                                               lapsed |-> FALSE, converted |-> FALSE]]
  /\ b2bOrder = {}
  /\ issuing = [s \in Officers |-> Idle]
  /\ calls = {}
  /\ conversions = {}

-----------------------------------------------------------------------------
(* The organisation                                                        *)

CreateOrganisation ==
  /\ organisation = "ABSENT"
  /\ organisation' = "ACTIVE"
  /\ member' = [member EXCEPT ![Founder] = "OWNER"]
  /\ UNCHANGED <<inquiry, quotation, b2bOrder, issuing, calls, conversions>>

(* An ADMIN may give any role but OWNER to anybody, an OWNER included.     *)
AddOrUpdateMember(actor, user, role) ==
  /\ member[actor] \in {"OWNER", "ADMIN"}
  /\ role = "OWNER" => member[actor] = "OWNER"
  /\ organisation = "ACTIVE"
  /\ member' = [member EXCEPT ![user] = role]
  /\ UNCHANGED <<organisation, inquiry, quotation, b2bOrder, issuing, calls, conversions>>

(* No handler suspends an organisation: operators do, in the database.     *)
SuspendOrganisation ==
  /\ organisation = "ACTIVE"
  /\ organisation' = "SUSPENDED"
  /\ UNCHANGED <<member, inquiry, quotation, b2bOrder, issuing, calls, conversions>>

-----------------------------------------------------------------------------
(* The request                                                             *)

(* A write of the request aborts the conversions that read it.             *)
Spoiled == {[c EXCEPT !.clean = FALSE] : c \in conversions}

(* A push to the timeline by save() moves the document version that an     *)
(* answer checks.                                                          *)
Overtaken(cs) == {IF c.kind = "answer" THEN [c EXCEPT !.current = FALSE] ELSE c : c \in cs}

SubmitInquiry ==
  /\ inquiry.status = "ABSENT" /\ organisation = "ACTIVE" /\ Buyers # {}
  /\ inquiry' = [inquiry EXCEPT !.status = "SUBMITTED"]
  /\ UNCHANGED <<organisation, member, quotation, b2bOrder, issuing, calls, conversions>>

(* No handler asks for a clarification: operators do, in the database.     *)
AskClarification ==
  /\ inquiry.status = "SUBMITTED"
  /\ inquiry' = [inquiry EXCEPT !.status = "CLARIFICATION_REQUIRED"]
  /\ conversions' = Spoiled
  /\ UNCHANGED <<organisation, member, quotation, b2bOrder, issuing, calls>>

ReadInquiry(call) ==
  /\ calls = {}
  /\ calls' = {call}
  /\ UNCHANGED <<organisation, member, inquiry, quotation, b2bOrder, issuing, conversions>>

BeginUpdate ==
  /\ inquiry.status \in {"SUBMITTED", "CLARIFICATION_REQUIRED"}
  /\ ReadInquiry([kind |-> "edit", version |-> inquiry.version])

BeginAnswer ==
  /\ inquiry.status = "CLARIFICATION_REQUIRED"
  /\ ReadInquiry([kind |-> "answer", current |-> TRUE])

(* Matches on the version only: the status may have moved on.              *)
UpdateRequest(c) ==
  /\ c.kind = "edit" /\ c.version = inquiry.version /\ inquiry.version < MaxEdits
  /\ inquiry' = [inquiry EXCEPT !.version = @ + 1]
  /\ calls' = calls \ {c}
  /\ conversions' = Spoiled
  /\ UNCHANGED <<organisation, member, quotation, b2bOrder, issuing>>

RespondClarification(c) ==
  /\ c.kind = "answer" /\ c.current
  /\ inquiry' = [inquiry EXCEPT !.status = "UNDER_REVIEW"]
  /\ calls' = Overtaken(calls \ {c})
  /\ conversions' = Spoiled
  /\ UNCHANGED <<organisation, member, quotation, b2bOrder, issuing>>

FailCall(c) ==
  /\ calls' = calls \ {c}
  /\ UNCHANGED <<organisation, member, inquiry, quotation, b2bOrder, issuing, conversions>>

-----------------------------------------------------------------------------
(* createStaffQuotation, call by call                                      *)

Latest == Max({v \in QuotationVersions : quotation[v].status # "ABSENT"} \cup {0})

At(s, step) == issuing[s].step = step
Goto(s, step) == [issuing EXCEPT ![s].step = step]

FindRequest_Bug(s) ==
  /\ At(s, "idle")
  /\ issuing' = [issuing EXCEPT ![s] = [step |-> "version", seen |-> inquiry.status, next |-> 0]]
  /\ UNCHANGED <<organisation, member, inquiry, quotation, b2bOrder, calls, conversions>>

FindRequest(s) ==
  /\ At(s, "idle") /\ inquiry.status # "ABSENT"
  /\ issuing' = [issuing EXCEPT ![s] = [step |-> "version", seen |-> inquiry.status, next |-> 0]]
  /\ UNCHANGED <<organisation, member, inquiry, quotation, b2bOrder, calls, conversions>>

FindVersion(s) ==
  /\ At(s, "version")
  /\ issuing' = [issuing EXCEPT ![s].step = "supersede", ![s].next = Latest + 1]
  /\ UNCHANGED <<organisation, member, inquiry, quotation, b2bOrder, calls, conversions>>

Superseded_Bug(q) ==
  IF q.status = "ABSENT" THEN q ELSE [q EXCEPT !.status = "SUPERSEDED", !.actionable = FALSE]
Superseded_StillActionable(q) == IF q.actionable THEN [q EXCEPT !.status = "SUPERSEDED"] ELSE q
Superseded(q) ==
  IF q.actionable THEN [q EXCEPT !.status = "SUPERSEDED", !.actionable = FALSE] ELSE q

SupersedeActionable(s) ==
  /\ At(s, "supersede")
  /\ quotation' = [v \in QuotationVersions |-> Superseded(quotation[v])]
  /\ conversions' = {[c EXCEPT !.clean = @ /\ ~quotation[c.version].actionable] : c \in conversions}
  /\ issuing' = Goto(s, "create")
  /\ UNCHANGED <<organisation, member, inquiry, b2bOrder, calls>>

(* The unique indexes: one quotation per version, one that is actionable.  *)
IndexesAdmit(v) ==
  quotation[v].status = "ABSENT" /\ \A w \in QuotationVersions : ~quotation[w].actionable

CreateQuotation(s) ==
  LET v == issuing[s].next IN
  /\ At(s, "create") /\ v <= MaxQuotations
  /\ IndexesAdmit(v)
  /\ quotation' = [quotation EXCEPT ![v].status = "ISSUED", ![v].actionable = TRUE]
  /\ issuing' = Goto(s, "save")
  /\ UNCHANGED <<organisation, member, inquiry, b2bOrder, calls, conversions>>

(* save() leaves the status out if it is the one that was read.            *)
SaveAwaitingDecision(s) ==
  /\ At(s, "save")
  /\ inquiry' = IF issuing[s].seen = "AWAITING_DECISION" THEN inquiry
                ELSE [inquiry EXCEPT !.status = "AWAITING_DECISION"]
  /\ issuing' = [issuing EXCEPT ![s] = Idle]
  /\ calls' = Overtaken(calls)
  /\ conversions' = Spoiled
  /\ UNCHANGED <<organisation, member, quotation, b2bOrder>>

(* A duplicate key, or a crash, between any two of the calls.              *)
AbandonQuotation(s) ==
  /\ ~At(s, "idle")
  /\ issuing' = [issuing EXCEPT ![s] = Idle]
  /\ UNCHANGED <<organisation, member, inquiry, quotation, b2bOrder, calls, conversions>>

LapseQuotation(v) ==
  /\ quotation[v].status # "ABSENT" /\ ~quotation[v].lapsed
  /\ quotation' = [quotation EXCEPT ![v].lapsed = TRUE]
  /\ UNCHANGED <<organisation, member, inquiry, b2bOrder, issuing, calls, conversions>>

-----------------------------------------------------------------------------
Undecided(v) ==
  quotation[v].status = "ISSUED" /\ quotation[v].actionable /\ ~quotation[v].lapsed

(* On a quotation past its date the transaction writes EXPIRED and then    *)
(* throws, which undoes the write: there is no step for it.                *)
DecideQuotation(v, decision) ==
  /\ Undecided(v)
  /\ quotation' = [quotation EXCEPT ![v].status = decision, ![v].actionable = FALSE]
  /\ inquiry' = [inquiry EXCEPT !.status =
                   IF decision = "APPROVED" THEN "CONVERSION_PENDING" ELSE "DECLINED"]
  /\ calls' = Overtaken(calls)
  /\ conversions' = Spoiled
  /\ UNCHANGED <<organisation, member, b2bOrder, issuing>>

HasOrder(v) == \E o \in b2bOrder : o.version = v

Convertible(u, v) ==
  /\ u \in Buyers /\ organisation = "ACTIVE"
  /\ ~HasOrder(v)
  /\ quotation[v].status = "APPROVED" /\ ~quotation[v].lapsed /\ ~quotation[v].converted
  /\ v = Latest

BeginConversion(u, v) ==
  /\ \A c \in conversions : c.by # u
  /\ Convertible(u, v)
  /\ conversions' = conversions \cup {[by |-> u, version |-> v, clean |-> TRUE]}
  /\ UNCHANGED <<organisation, member, inquiry, quotation, b2bOrder, issuing, calls>>

(* quotation.save and procurementRequest.save: a write conflict aborts the *)
(* transaction if one of the two was written since it began.               *)
NoConflict(c) == c.clean

Converted_Bug(q) == q
Converted(q) == [q EXCEPT !.converted = TRUE]

(* The unique index on procurementSnapshot.quotationId is checked too.     *)
CommitConversion(c) ==
  /\ NoConflict(c) /\ ~HasOrder(c.version)
  /\ b2bOrder' = b2bOrder \cup {[version |-> c.version, by |-> c.by]}
  /\ quotation' = [quotation EXCEPT ![c.version] = Converted(@)]
  /\ inquiry' = [inquiry EXCEPT !.status = "CONVERTED_TO_ORDER"]
  /\ calls' = Overtaken(calls)
  /\ conversions' = {[d EXCEPT !.clean = FALSE] : d \in conversions \ {c}}
  /\ UNCHANGED <<organisation, member, issuing>>

AbortConversion(c) ==
  /\ conversions' = conversions \ {c}
  /\ UNCHANGED <<organisation, member, inquiry, quotation, b2bOrder, issuing, calls>>

-----------------------------------------------------------------------------
OrganisationStep ==
  \/ CreateOrganisation
  \/ \E actor, user \in Users, role \in Roles \ {"NONE"} : AddOrUpdateMember(actor, user, role)
  \/ SuspendOrganisation

InquiryStep ==
  \/ SubmitInquiry
  \/ AskClarification
  \/ BeginUpdate
  \/ BeginAnswer
  \/ \E c \in calls : UpdateRequest(c) \/ RespondClarification(c) \/ FailCall(c)

IssueStep(s) ==
  \/ FindRequest(s)
  \/ FindVersion(s)
  \/ SupersedeActionable(s)
  \/ CreateQuotation(s)
  \/ SaveAwaitingDecision(s)
  \/ AbandonQuotation(s)

ConversionStep ==
  \/ \E u \in Users, v \in QuotationVersions : BeginConversion(u, v)
  \/ \E c \in conversions : CommitConversion(c) \/ AbortConversion(c)

QuotationsNext ==
  \/ OrganisationStep
  \/ InquiryStep
  \/ \E s \in Officers : IssueStep(s)
  \/ \E v \in QuotationVersions :
       LapseQuotation(v) \/ \E d \in {"APPROVED", "DECLINED"} : DecideQuotation(v, d)
  \/ ConversionStep

QuotationsSpec == QuotationsInit /\ [][QuotationsNext]_quotationVars

-----------------------------------------------------------------------------
(* Properties                                                              *)

(* Documents have the shapes the schemas of Organisation,                  *)
(* OrganisationMember, ProcurementRequest and ProcurementQuotation give,   *)
(* and only a request that was submitted is quoted.                        *)
QuotationsTypeOK ==
  /\ organisation \in {"ABSENT", "ACTIVE", "SUSPENDED"}
  /\ member \in [Users -> Roles]
  /\ inquiry \in [status : InquiryStatus, version : Nat]
  /\ quotation \in [QuotationVersions -> QuotationDocument]
  /\ inquiry.status = "ABSENT" => \A v \in QuotationVersions : quotation[v].status = "ABSENT"
  /\ b2bOrder \subseteq [version : QuotationVersions, by : Users]
  /\ issuing \in [Officers -> Issuing]
  /\ calls \subseteq Call
  /\ conversions \subseteq [by : Users, version : QuotationVersions, clean : BOOLEAN]

(* createStaffQuotation and decideQuotation: however officers interleave,  *)
(* what the customer can decide on is one quotation, undecided, and no     *)
(* later version has been issued.                                          *)
OnlyLatestActionable ==
  \A v \in QuotationVersions :
    quotation[v].actionable => quotation[v].status = "ISSUED" /\ v = Latest

(* convertQuotationToOrder: a quotation says it was converted exactly when *)
(* one order carries its snapshot, and only a quotation the customer       *)
(* approved ever gets one.                                                 *)
OneOrderPerQuotation ==
  \A v \in QuotationVersions :
    LET orders == {o \in b2bOrder : o.version = v} IN
    /\ Cardinality(orders) = IF quotation[v].converted THEN 1 ELSE 0
    /\ orders # {} => quotation[v].status = "APPROVED"

(* decideQuotation: a decision is final; issuing another version, racing   *)
(* officers or a conversion never take it back.                            *)
DecisionsAreFinal ==
  \A v \in QuotationVersions :
    quotation[v].status \in {"APPROVED", "DECLINED"} =>
      quotation'[v].status = quotation[v].status

(* One offer to decide on, one decision, one order: the parts that speak   *)
(* of one state are primed, they hold where a step leads.                  *)
QuotationsAgree ==
  [][OnlyLatestActionable' /\ OneOrderPerQuotation' /\ DecisionsAreFinal]_quotationVars
=============================================================================
