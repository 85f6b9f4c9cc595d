----------------------------- MODULE ServiceDesk -----------------------------
(***************************************************************************)
(* One service request: its compatibility assessment, its quotations, the  *)
(* execution of the work and its history; and the maintenance plans of a   *)
(* customer.                                                               *)
(*                                                                         *)
(* Assessments and staff quotations are read and saved with no             *)
(* transaction.  Scheduling is a transaction that writes the request and   *)
(* only reads the quotation.  Everything else writes all it reads.         *)
(***************************************************************************)
EXTENDS Integers, FiniteSets, FiniteSetsExt

CONSTANTS
  MaxServiceQuotes,  \* bound on the versions of a quotation
  Plans              \* maintenance plans that may be created

ASSUME ServiceAssumption == MaxServiceQuotes \in Nat /\ "none" \notin Plans

VARIABLES
  service,     \* the ServiceRequest document
  offer,       \* offer[v]: the ServiceQuotation of version v
  quoting,     \* where a member of staff is in createStaffServiceQuote
  assessing,   \* assessments read and not saved
  scheduling,  \* transactions of scheduleService
  execution,   \* the ServiceExecution document
  history,     \* ServiceHistoryEntry documents of this execution
  plan         \* MaintenancePlan documents

serviceVars == <<service, offer, quoting, assessing, scheduling, execution, history>>
deskVars == <<serviceVars, plan>>

OfferVersions == 1..MaxServiceQuotes
Results == {"COMPATIBLE", "PARTIALLY_COMPATIBLE", "INCOMPATIBLE"}
ExecutionStatus == {"ABSENT", "SCHEDULED", "IN_PROGRESS", "COMPLETED", "CANCELLED"}

ServiceStatus ==
  {"ABSENT", "ASSESSMENT_REQUIRED", "AWAITING_DECISION", "APPROVED", "DECLINED"}
    \cup Results \cup (ExecutionStatus \ {"ABSENT"})

ServiceRequest == [status : ServiceStatus, assessment : Results \cup {"NONE"}]

(* deposit: a deposit is due before work.  No handler ever writes that it  *)
(* was confirmed.                                                          *)
ServiceQuotation ==
  [status : {"ABSENT", "ISSUED", "APPROVED", "DECLINED", "SUPERSEDED"},
   actionable : BOOLEAN, lapsed : BOOLEAN, deposit : BOOLEAN]

PlanDocument ==
  [status : {"ABSENT", "UPCOMING", "ACTIVE", "EXPIRED", "CANCELLED"},
   manual : BOOLEAN,                     \* renewalModel is manual_renewal
   renewedFrom : Plans \cup {"none"}]

(* seen is the status the request had, next the version to issue.          *)
QuotingProgress ==
  [step : {"idle", "version", "supersede", "create", "save"},
   seen : ServiceStatus, next : 0..(MaxServiceQuotes + 1)]

NotQuoting == [step |-> "idle", seen |-> "ABSENT", next |-> 0]

ServiceInit ==
  /\ service = [status |-> "ABSENT", assessment |-> "NONE"]
  /\ offer = [v \in OfferVersions |->
                [status |-> "ABSENT", actionable |-> FALSE, lapsed |-> FALSE, deposit |-> FALSE]]
  /\ quoting = NotQuoting
  /\ assessing = {}
  /\ scheduling = {}
  /\ execution = [status |-> "ABSENT", version |-> 0]
  /\ history = 0

PlansInit ==
  plan = [p \in Plans |-> [status |-> "ABSENT", manual |-> FALSE, renewedFrom |-> "none"]]

DeskInit == ServiceInit /\ PlansInit

-----------------------------------------------------------------------------
(* Request and assessment                                                  *)

(* A save of the request aborts the transactions that read it.             *)
Stale == {[s EXCEPT !.clean = FALSE] : s \in scheduling}

CreateServiceRequest ==
  /\ service.status = "ABSENT"
  /\ service' = [service EXCEPT !.status = "ASSESSMENT_REQUIRED"]
  /\ UNCHANGED <<offer, quoting, assessing, scheduling, execution, history, plan>>

(* No status forbids an assessment: a completed service may be assessed.   *)
ReadForAssessment(result) ==
  /\ service.status # "ABSENT" /\ assessing = {}
  /\ assessing' = {[result |-> result, seen |-> service.status]}
  /\ UNCHANGED <<service, offer, quoting, scheduling, execution, history, plan>>

(* save() leaves the status out if it is the one that was read.            *)
RecordAssessment(a) ==
  /\ service' = [status |-> IF a.seen = a.result THEN service.status ELSE a.result,
                 assessment |-> a.result]
  /\ scheduling' = Stale
  /\ assessing' = assessing \ {a}
  /\ UNCHANGED <<offer, quoting, execution, history, plan>>

LoseAssessment(a) ==
  /\ assessing' = assessing \ {a}
  /\ UNCHANGED <<service, offer, quoting, scheduling, execution, history, plan>>

-----------------------------------------------------------------------------
(* Quotations                                                              *)

LatestOffer_Bug == Max({v \in OfferVersions : offer[v].status # "ABSENT"} \cup {0}) + 1
LatestOffer == Max({v \in OfferVersions : offer[v].status # "ABSENT"} \cup {0})

FindService ==
  /\ quoting.step = "idle"
  /\ service.status # "ABSENT" /\ service.assessment # "INCOMPATIBLE"
  /\ quoting' = [step |-> "version", seen |-> service.status, next |-> 0]
  /\ UNCHANGED <<service, offer, assessing, scheduling, execution, history, plan>>

FindOfferVersion ==
  /\ quoting.step = "version"
  /\ quoting' = [quoting EXCEPT !.step = "supersede", !.next = LatestOffer + 1]
  /\ UNCHANGED <<service, offer, assessing, scheduling, execution, history, plan>>

SupersedeOffers ==
  /\ quoting.step = "supersede"
  /\ offer' = [v \in OfferVersions |->
                 IF offer[v].actionable
                 THEN [offer[v] EXCEPT !.status = "SUPERSEDED", !.actionable = FALSE]
                 ELSE offer[v]]
  /\ quoting' = [quoting EXCEPT !.step = "create"]
  /\ UNCHANGED <<service, assessing, scheduling, execution, history, plan>>

CreateOffer(deposit) ==
  LET v == quoting.next IN
  /\ quoting.step = "create" /\ v <= MaxServiceQuotes
  /\ offer[v].status = "ABSENT" /\ \A w \in OfferVersions : ~offer[w].actionable
  /\ offer' = [offer EXCEPT ![v] = [status |-> "ISSUED", actionable |-> TRUE, lapsed |-> FALSE,
                                    deposit |-> deposit]]
  /\ quoting' = [quoting EXCEPT !.step = "save"]
  /\ UNCHANGED <<service, assessing, scheduling, execution, history, plan>>

SaveOffered ==
  /\ quoting.step = "save"
  /\ service' = [service EXCEPT !.status =
                   IF quoting.seen = "AWAITING_DECISION" THEN @ ELSE "AWAITING_DECISION"]
  /\ scheduling' = Stale
  /\ quoting' = NotQuoting
  /\ UNCHANGED <<offer, assessing, execution, history, plan>>

AbandonOffer ==
  /\ quoting.step # "idle"
  /\ quoting' = NotQuoting
  /\ UNCHANGED <<service, offer, assessing, scheduling, execution, history, plan>>

LapseOffer(v) ==
  /\ offer[v].status # "ABSENT" /\ ~offer[v].lapsed
  /\ offer' = [offer EXCEPT ![v].lapsed = TRUE]
  /\ UNCHANGED <<service, quoting, assessing, scheduling, execution, history, plan>>

OfferDecidable(v) ==
  /\ offer[v].status = "ISSUED" /\ offer[v].actionable /\ ~offer[v].lapsed
  /\ service.assessment # "INCOMPATIBLE"

DecideServiceQuote(v, decision) ==
  /\ OfferDecidable(v)
  /\ offer' = [offer EXCEPT ![v].status = decision, ![v].actionable = FALSE]
  /\ service' = [service EXCEPT !.status = decision]
  /\ scheduling' = Stale
  /\ UNCHANGED <<quoting, assessing, execution, history, plan>>

-----------------------------------------------------------------------------
(* Execution                                                               *)

Schedulable(v) ==
  /\ execution.status = "ABSENT"
  /\ service.status = "APPROVED" /\ service.assessment # "INCOMPATIBLE"
  /\ v = LatestOffer /\ v # 0 /\ offer[v].status = "APPROVED" /\ ~offer[v].lapsed
  /\ ~offer[v].deposit

BeginSchedule(v) ==
  /\ scheduling = {}
  /\ Schedulable(v)
  /\ scheduling' = {[version |-> v, clean |-> TRUE]}
  /\ UNCHANGED <<service, offer, quoting, assessing, execution, history, plan>>

(* serviceRequest.save meets a write conflict if the request was saved     *)
(* since the transaction began.                                            *)
NotOverwritten_Bug(s) == TRUE
NotOverwritten(s) == s.clean

ScheduleService(s) ==
  /\ NotOverwritten(s)
  /\ execution.status = "ABSENT"
  /\ execution' = [status |-> "SCHEDULED", version |-> s.version]
  /\ service' = [service EXCEPT !.status = "SCHEDULED"]
  /\ scheduling' = {}
  /\ UNCHANGED <<offer, quoting, assessing, history, plan>>

AbortSchedule ==
  /\ scheduling # {}
  /\ scheduling' = {}
  /\ UNCHANGED <<service, offer, quoting, assessing, execution, history, plan>>

TransitionExecution(from, to) ==
  /\ execution.status \in from
  /\ execution' = [execution EXCEPT !.status = to]
  /\ service' = [service EXCEPT !.status = to]
  /\ scheduling' = Stale
  /\ UNCHANGED <<offer, quoting, assessing, history, plan>>

StartService == TransitionExecution({"SCHEDULED"}, "IN_PROGRESS")

CancellableExecutions_Bug == {"SCHEDULED", "IN_PROGRESS", "COMPLETED"}
CancellableExecutions == {"SCHEDULED", "IN_PROGRESS"}
CancelService == TransitionExecution(CancellableExecutions, "CANCELLED")

CompleteService ==
  /\ execution.status = "IN_PROGRESS"
  /\ execution' = [execution EXCEPT !.status = "COMPLETED"]
  /\ service' = [service EXCEPT !.status = "COMPLETED"]
  /\ history' = history + 1
  /\ scheduling' = Stale
  /\ UNCHANGED <<offer, quoting, assessing, plan>>

-----------------------------------------------------------------------------
(* Maintenance plans: each handler is a transaction on the plan it writes  *)

CreatePlan(p, status, manual) ==
  /\ plan[p].status = "ABSENT"
  /\ plan' = [plan EXCEPT ![p] = [status |-> status, manual |-> manual, renewedFrom |-> "none"]]
  /\ UNCHANGED serviceVars

CancelPlan(p) ==
  /\ plan[p].status \in {"ACTIVE", "UPCOMING"}
  /\ plan' = [plan EXCEPT ![p].status = "CANCELLED"]
  /\ UNCHANGED serviceVars

Successors(p) == {q \in Plans : plan[q].renewedFrom = p}

Renewable(p) ==
  plan[p].manual /\ plan[p].status \in {"ACTIVE", "EXPIRED"} /\ Successors(p) = {}

AfterRenewal_Bug(document) == document
AfterRenewal(document) == [document EXCEPT !.status = "EXPIRED"]

(* The old term ends now, though the new one may only begin later.         *)
RenewPlan(p, q, status) ==
  /\ Renewable(p) /\ plan[q].status = "ABSENT"
  /\ plan' = [plan EXCEPT ![p] = AfterRenewal(@),
                          ![q] = [status |-> status, manual |-> TRUE, renewedFrom |-> p]]
  /\ UNCHANGED serviceVars

-----------------------------------------------------------------------------
OfferStep ==
  \/ FindService
  \/ FindOfferVersion
  \/ SupersedeOffers
  \/ \E deposit \in BOOLEAN : CreateOffer(deposit)
  \/ SaveOffered
  \/ AbandonOffer

ExecutionStep ==
  \/ \E v \in OfferVersions : BeginSchedule(v)
  \/ \E s \in scheduling : ScheduleService(s)
  \/ AbortSchedule
  \/ StartService
  \/ CancelService
  \/ CompleteService

ServiceStep ==
  \/ CreateServiceRequest
  \/ \E result \in Results : ReadForAssessment(result)
  \/ \E a \in assessing : RecordAssessment(a) \/ LoseAssessment(a)
  \/ OfferStep
  \/ \E v \in OfferVersions :
       LapseOffer(v) \/ \E d \in {"APPROVED", "DECLINED"} : DecideServiceQuote(v, d)
  \/ ExecutionStep

PlanStep ==
  \E p \in Plans :
    \/ \E status \in {"ACTIVE", "UPCOMING"}, manual \in BOOLEAN : CreatePlan(p, status, manual)
    \/ CancelPlan(p)
    \/ \E q \in Plans, status \in {"ACTIVE", "UPCOMING"} : RenewPlan(p, q, status)

DeskNext == ServiceStep \/ PlanStep

DeskSpec == DeskInit /\ [][DeskNext]_deskVars

-----------------------------------------------------------------------------
(* Properties                                                              *)

(* Documents have the shapes the schemas of ServiceRequest,                *)
(* ServiceQuotation, ServiceExecution and MaintenancePlan give them.       *)
DeskTypeOK ==
  /\ service \in ServiceRequest
  /\ offer \in [OfferVersions -> ServiceQuotation]
  /\ quoting \in QuotingProgress
  /\ assessing \subseteq [result : Results, seen : ServiceStatus]
  /\ scheduling \subseteq [version : OfferVersions, clean : BOOLEAN]
  /\ execution \in [status : ExecutionStatus, version : 0..MaxServiceQuotes]
  /\ history \in Nat
  /\ plan \in [Plans -> PlanDocument]

(* scheduleService: work is only ever put on the calendar for a request    *)
(* that is not assessed as incompatible and for a quotation the customer   *)
(* approved, whatever staff record or issue while it is being scheduled.   *)
ScheduledWorkIsAgreed ==
  execution.status = "ABSENT" /\ execution'.status # "ABSENT" =>
    /\ service'.assessment # "INCOMPATIBLE"
    /\ offer'[execution'.version].status = "APPROVED"

Lifecycle == INSTANCE ServiceLifecycle WITH stage <- execution.status, entries <- history

(* README.md:647: the execution implements the lifecycle that only goes    *)
(* forward, with one history entry when it completes; the status of the    *)
(* request, which anything may overwrite, is left out on purpose.          *)
ExecutionFollowsLifecycle == Lifecycle!Spec

(* renewPlan: a renewed term is never live beside its successor, and has   *)
(* one successor only.                                                     *)
OneLiveTerm ==
  \A p \in Plans :
    Successors(p) # {} => plan[p].status = "EXPIRED" /\ Cardinality(Successors(p)) = 1

(* Work and terms of a plan stand on one agreement that is in force.       *)
ServiceIsAgreed == [][ScheduledWorkIsAgreed /\ OneLiveTerm']_deskVars
=============================================================================
