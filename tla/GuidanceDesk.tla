---------------------------- MODULE GuidanceDesk ----------------------------
(***************************************************************************)
(* One guidance session: recommendations a customer or a guest resumes     *)
(* later, the questions a customer puts to an advisor, and the advisors'   *)
(* answers.  No handler has a transaction: an archive, a question and an   *)
(* answer each read, and write later.  The session is removed by a TTL     *)
(* index when its resume token expires; its questions stay.                *)
(***************************************************************************)
EXTENDS Integers, FiniteSets

CONSTANTS
  Escalations,  \* GuidanceEscalation documents
  Advisors      \* advisors, each answering one question at a time

ASSUME GuidanceAssumption == "none" \notin Advisors

VARIABLES
  guidance,    \* the GuidanceSession document
  escalation,  \* GuidanceEscalation documents
  archiving,   \* archive requests that found the session not archived
  asking,      \* questions whose session was found and not archived
  answering,   \* answers under way
  notices      \* notices[e]: notifications of the answer to e

guidanceVars == <<guidance, escalation, archiving, asking, answering, notices>>

GuidanceStatus == {"absent", "ACTIVE", "NO_MATCH", "ARCHIVED", "removed"}
GuidanceSession ==
  [owner : {"guest", "customer"}, status : GuidanceStatus, revoked : BOOLEAN, expired : BOOLEAN]

EscalationStatus == {"absent", "submitted", "responded"}
Escalation ==
  [status : EscalationStatus, active : BOOLEAN, response : Advisors \cup {"none"}]

(* overtaken: the session was archived after the question had found it.    *)
Question == [id : Escalations, overtaken : BOOLEAN]
Answer == [advisor : Advisors, id : Escalations, step : {"read", "saved"}]

GuidanceInit ==
  /\ guidance = [owner |-> "guest", status |-> "absent", revoked |-> FALSE, expired |-> FALSE]
  /\ escalation = [e \in Escalations |->
                     [status |-> "absent", active |-> FALSE, response |-> "none"]]
  /\ archiving = 0
  /\ asking = {}
  /\ answering = {}
  /\ notices = [e \in Escalations |-> 0]

-----------------------------------------------------------------------------
(* The session                                                             *)

Found == guidance.status \notin {"absent", "removed"}
FoundByOwner == Found /\ guidance.owner = "customer"

(* No recommendation, or some: the catalogue is not followed.              *)
CreateGuidance(owner, status) ==
  /\ guidance.status = "absent"
  /\ guidance' = [guidance EXCEPT !.owner = owner, !.status = status]
  /\ UNCHANGED <<escalation, archiving, asking, answering, notices>>

(* The resume token expires, then the index removes the session.           *)
SessionAges ==
  /\ Found
  /\ guidance' = IF guidance.expired THEN [guidance EXCEPT !.status = "removed"]
                 ELSE [guidance EXCEPT !.expired = TRUE]
  /\ UNCHANGED <<escalation, archiving, asking, answering, notices>>

MaxArchiving == 2

BeginArchive ==
  /\ FoundByOwner /\ guidance.status # "ARCHIVED"
  /\ archiving < MaxArchiving
  /\ archiving' = archiving + 1
  /\ UNCHANGED <<guidance, escalation, asking, answering, notices>>

Archived_Bug(s) == [s EXCEPT !.status = "ARCHIVED"]   \* the token is forgotten
Archived(s) == [s EXCEPT !.status = "ARCHIVED", !.revoked = TRUE]

(* A session that was removed meanwhile cannot be saved.                   *)
ArchiveGuidance ==
  /\ archiving > 0
  /\ archiving' = archiving - 1
  /\ IF Found
     THEN /\ guidance' = Archived(guidance)
          /\ asking' = {[q EXCEPT !.overtaken = TRUE] : q \in asking}
     ELSE UNCHANGED <<guidance, asking>>
  /\ UNCHANGED <<escalation, answering, notices>>

-----------------------------------------------------------------------------
(* Questions                                                               *)

MayAsk_Bug == FoundByOwner
MayAsk == FoundByOwner /\ guidance.status # "ARCHIVED"

BeginAsk(e) ==
  /\ MayAsk
  /\ escalation[e].status = "absent" /\ \A q \in asking : q.id # e
  /\ asking' = asking \cup {[id |-> e, overtaken |-> FALSE]}
  /\ UNCHANGED <<guidance, escalation, archiving, answering, notices>>

(* The partial unique index one_active_guidance_escalation.                *)
NoneActive_Bug == \A e \in Escalations : escalation[e].status # "responded"
NoneActive == \A e \in Escalations : ~escalation[e].active

CreateGuidanceEscalation(q) ==
  /\ NoneActive
  /\ escalation' = [escalation EXCEPT ![q.id] =
                      [status |-> "submitted", active |-> TRUE, response |-> "none"]]
  /\ asking' = asking \ {q}
  /\ UNCHANGED <<guidance, archiving, answering, notices>>

(* 409 by the index, or the server dies.                                   *)
AskFails(q) ==
  /\ asking' = asking \ {q}
  /\ UNCHANGED <<guidance, escalation, archiving, answering, notices>>

-----------------------------------------------------------------------------
(* Answers                                                                 *)

AnswerGoes(as, bs) == answering' = (answering \ as) \cup bs

(* findById: also a question that was answered is found.                   *)
BeginAnswer(a, e) ==
  /\ escalation[e].status # "absent"
  /\ \A b \in answering : b.advisor # a
  /\ AnswerGoes({}, {[advisor |-> a, id |-> e, step |-> "read"]})
  /\ UNCHANGED <<guidance, escalation, archiving, asking, notices>>

RecordGuidanceAdvisorResponse(b) ==
  /\ b.step = "read"
  /\ escalation' = [escalation EXCEPT ![b.id] =
                      [status |-> "responded", active |-> FALSE, response |-> b.advisor]]
  /\ AnswerGoes({b}, {[b EXCEPT !.step = "saved"]})
  /\ UNCHANGED <<guidance, archiving, asking, notices>>

(* eventKey is unique for the recipient: one notification per question,    *)
(* and none when the customer declined them.                               *)
Notified_Bug(e) == notices[e] + 1
Notified(e) == 1

NotifyAnswer(b) ==
  /\ b.step = "saved"
  /\ \E declined \in BOOLEAN :
       notices' = IF declined THEN notices ELSE [notices EXCEPT ![b.id] = Notified(b.id)]
  /\ AnswerGoes({b}, {})
  /\ UNCHANGED <<guidance, escalation, archiving, asking>>

(* The answer is refused or the server dies.                               *)
AnswerDies(b) ==
  /\ AnswerGoes({b}, {})
  /\ UNCHANGED <<guidance, escalation, archiving, asking, notices>>

-----------------------------------------------------------------------------
GuidanceStep ==
  \/ \E owner \in {"guest", "customer"}, status \in {"ACTIVE", "NO_MATCH"} :
       CreateGuidance(owner, status)
  \/ SessionAges \/ BeginArchive \/ ArchiveGuidance
  \/ \E e \in Escalations : BeginAsk(e) \/ \E a \in Advisors : BeginAnswer(a, e)
  \/ \E q \in asking : CreateGuidanceEscalation(q) \/ AskFails(q)
  \/ \E b \in answering :
       RecordGuidanceAdvisorResponse(b) \/ NotifyAnswer(b) \/ AnswerDies(b)

GuidanceSpec == GuidanceInit /\ [][GuidanceStep]_guidanceVars

-----------------------------------------------------------------------------
(* Properties                                                              *)

(* Documents have the shapes GuidanceSession and GuidanceEscalation give   *)
(* them; the token of an archived session opens nothing.                   *)
GuidanceTypeOK ==
  /\ guidance \in GuidanceSession
  /\ escalation \in [Escalations -> Escalation]
  /\ archiving \in 0..MaxArchiving
  /\ asking \subseteq Question
  /\ answering \subseteq Answer
  /\ notices \in [Escalations -> Nat]
  /\ guidance.status = "ARCHIVED" => guidance.revoked

(* createGuidanceEscalation: however many questions found the session at   *)
(* the same time, and whatever answers are written late, at most one waits *)
(* for an advisor.                                                         *)
OneActiveEscalation ==
  Cardinality({e \in Escalations : escalation[e].active}) <= 1

(* archiveGuidance: once it is done, the only questions that still arrive  *)
(* are those that were under way.                                          *)
ArchiveEndsQuestions ==
  \A e \in Escalations :
    guidance.status = "ARCHIVED" /\ escalation[e].status # escalation'[e].status
      => \/ escalation'[e].status = "responded"
         \/ [id |-> e, overtaken |-> TRUE] \in asking

(* recordGuidanceAdvisorResponse: two advisors who answer one question     *)
(* overwrite each other, but the customer is notified once, and of an      *)
(* answer that is there.                                                   *)
OneNoticePerQuestion ==
  \A e \in Escalations :
    /\ notices[e] <= 1
    /\ notices[e] = 1 => escalation[e].response # "none"

(* One question at a time, one notice for it, none after the end.          *)
QuestionsAreSettled ==
  [][OneActiveEscalation' /\ OneNoticePerQuestion' /\ ArchiveEndsQuestions]_guidanceVars
=============================================================================
