--------------------------- MODULE EvidenceStore ---------------------------
(***************************************************************************)
(* Private evidence: the document is in MongoDB, the object in an          *)
(* S3-compatible store, and no transaction spans the two.  Uploads write   *)
(* the object first and compensate; deletions mark, remove and finalise;   *)
(* what a request could not remove is left to a task of the cleanup job.   *)
(*                                                                         *)
(* Requests and jobs may die between any two steps; a call to the object   *)
(* store may fail although it took effect; a transaction may abort.        *)
(*                                                                         *)
(* An operator named X_Bug is a plausible bug in X, kept beside it to show *)
(* that a property would catch it; nothing uses it.                        *)
(***************************************************************************)
EXTENDS Integers, FiniteSets

CONSTANTS
  Files,        \* uploads, each with an object key of its own
  Holdable,     \* files an operator may put under legal hold
  Requests,     \* concurrent deletion requests
  Workers,      \* cleanup jobs
  MaxAttempts,  \* EvidenceCleanupTask.maxAttempts
  MaxCrashes    \* bound on the number of cleanup jobs that die

ASSUME EvidenceAssumption ==
  /\ Holdable \subseteq Files
  /\ MaxAttempts \in Nat \ {0} /\ MaxCrashes \in Nat

VARIABLES
  upload,    \* progress of uploadEvidence
  retention, \* Evidence.retentionState
  objects,   \* files whose object is stored
  request,   \* progress of deleteEvidence
  task,      \* EvidenceCleanupTask documents
  worker,    \* cleanup jobs
  leaked,    \* files whose upload left an object nobody recorded
  crashes    \* number of cleanup jobs that died

vars == <<upload, retention, objects, request, task, worker, leaked, crashes>>

TaskTypes == {"DELETE_ORPHAN", "FINALIZE_DELETION"}
Tasks == TaskTypes \X Files       \* unique by deduplicationKey
NoTask == <<"none", "none">>
NoFile == "none"

RetentionState == {"ABSENT", "ACTIVE", "DELETE_PENDING", "DELETED", "LEGAL_HOLD"}
TaskStatus == {"ABSENT", "PENDING", "PROCESSING", "COMPLETED", "EXHAUSTED"}
UploadPhase == {"new", "stored", "compensating", "queueing", "ended"}
RequestPhase == {"idle", "marking", "deleting", "finalizing", "accepting", "queueing"}
WorkerPhase == {"idle", "claimed", "removed", "failed"}

TaskDocument == [status : TaskStatus, attempts : Nat, due : BOOLEAN]

RequestProgress == [phase : RequestPhase, file : Files \cup {NoFile}]
WorkerProgress == [phase : WorkerPhase, task : Tasks \cup {NoTask}, attempt : Nat]

IdleRequest == [phase |-> "idle", file |-> NoFile]
IdleWorker == [phase |-> "idle", task |-> NoTask, attempt |-> 0]

Init ==
  /\ upload = [f \in Files |-> "new"]
  /\ retention = [f \in Files |-> "ABSENT"]
  /\ objects = {}
  /\ request = [r \in Requests |-> IdleRequest]
  /\ task = [t \in Tasks |-> [status |-> "ABSENT", attempts |-> 0, due |-> FALSE]]
  /\ worker = [w \in Workers |-> IdleWorker]
  /\ leaked = {}
  /\ crashes = 0

(* The call to the store fails, before or after it took effect.            *)
Without(f, taken) == IF taken THEN objects \ {f} ELSE objects

(* queueEvidenceCleanup: an upsert that leaves an existing task alone.     *)
Queued(t) ==
  IF task[t].status = "ABSENT"
    THEN [task EXCEPT ![t] = [status |-> "PENDING", attempts |-> 0, due |-> TRUE]]
    ELSE task

-----------------------------------------------------------------------------
(* Uploads                                                                 *)

UploadGoesTo(f, phase) == upload' = [upload EXCEPT ![f] = phase]

PutObject(f) ==
  /\ upload[f] = "new"
  /\ UploadGoesTo(f, "stored")
  /\ objects' = objects \cup {f}
  /\ UNCHANGED <<retention, request, task, worker, leaked, crashes>>

(* The put stands before the try block: its failure compensates nothing.   *)
PutFails(f) ==
  /\ upload[f] = "new"
  /\ UploadGoesTo(f, "ended")
  /\ \/ UNCHANGED <<objects, leaked>>
     \/ objects' = objects \cup {f} /\ leaked' = leaked \cup {f}
  /\ UNCHANGED <<retention, request, task, worker, crashes>>

CommitMetadata(f) ==
  /\ upload[f] = "stored"
  /\ UploadGoesTo(f, "ended")
  /\ retention' = [retention EXCEPT ![f] = "ACTIVE"]
  /\ UNCHANGED <<objects, request, task, worker, leaked, crashes>>

CommitFails_Bug(f) ==   \* the document is created outside the transaction
  /\ upload[f] = "stored"
  /\ UploadGoesTo(f, "compensating")
  /\ retention' = [retention EXCEPT ![f] = "ACTIVE"]
  /\ UNCHANGED <<objects, request, task, worker, leaked, crashes>>

CommitFails(f) ==
  /\ upload[f] = "stored"
  /\ UploadGoesTo(f, "compensating")
  /\ UNCHANGED <<retention, objects, request, task, worker, leaked, crashes>>

Compensate(f) ==
  /\ upload[f] = "compensating"
  /\ UploadGoesTo(f, "ended")
  /\ objects' = objects \ {f}
  /\ UNCHANGED <<retention, request, task, worker, leaked, crashes>>

CompensationFails_Bug(f) ==   \* the failure is swallowed
  /\ upload[f] = "compensating"
  /\ UploadGoesTo(f, "ended")
  /\ \E taken \in BOOLEAN : objects' = Without(f, taken)
  /\ UNCHANGED <<retention, request, task, worker, leaked, crashes>>

CompensationFails(f) ==
  /\ upload[f] = "compensating"
  /\ UploadGoesTo(f, "queueing")
  /\ \E taken \in BOOLEAN : objects' = Without(f, taken)
  /\ UNCHANGED <<retention, request, task, worker, leaked, crashes>>

QueueOrphan(f) ==
  /\ upload[f] = "queueing"
  /\ UploadGoesTo(f, "ended")
  /\ task' = Queued(<<"DELETE_ORPHAN", f>>)
  /\ UNCHANGED <<retention, objects, request, worker, leaked, crashes>>

(* The server dies during an upload, or the queue cannot be written: the   *)
(* error is swallowed and nobody knows of the object any more.             *)
UploadDies(f) ==
  /\ upload[f] \in {"stored", "compensating", "queueing"}
  /\ UploadGoesTo(f, "ended")
  /\ leaked' = leaked \cup {f}
  /\ UNCHANGED <<retention, objects, request, task, worker, crashes>>

-----------------------------------------------------------------------------
(* Deletions                                                               *)

RequestGoesTo(r, phase) == request' = [request EXCEPT ![r] = [@ EXCEPT !.phase = phase]]
RequestEnds(r) == request' = [request EXCEPT ![r] = IdleRequest]

(* A deleted file is answered at once and a held one refused.              *)
Deletable == {"ACTIVE", "DELETE_PENDING"}

BeginDelete(r, f) ==
  /\ request[r].phase = "idle"
  /\ retention[f] \in Deletable
  /\ request' = [request EXCEPT ![r] = [phase |-> "marking", file |-> f]]
  /\ UNCHANGED <<upload, retention, objects, task, worker, leaked, crashes>>

(* The update names ACTIVE but nobody looks whether it matched.            *)
MarkPending(r) ==
  /\ request[r].phase = "marking"
  /\ retention' = [f \in Files |->
       IF f = request[r].file /\ retention[f] = "ACTIVE" THEN "DELETE_PENDING" ELSE retention[f]]
  /\ RequestGoesTo(r, "deleting")
  /\ UNCHANGED <<upload, objects, task, worker, leaked, crashes>>

DeleteObject(r) ==
  /\ request[r].phase = "deleting"
  /\ objects' = objects \ {request[r].file}
  /\ RequestGoesTo(r, "finalizing")
  /\ UNCHANGED <<upload, retention, task, worker, leaked, crashes>>

DeleteObjectFails(r) ==
  /\ request[r].phase = "deleting"
  /\ \E taken \in BOOLEAN : objects' = Without(request[r].file, taken)
  /\ RequestGoesTo(r, "accepting")
  /\ UNCHANGED <<upload, retention, task, worker, leaked, crashes>>

FinalizeDelete(r) ==
  /\ request[r].phase = "finalizing"
  /\ retention' = [f \in Files |->
       IF f = request[r].file /\ retention[f] = "DELETE_PENDING" THEN "DELETED" ELSE retention[f]]
  /\ RequestEnds(r)
  /\ UNCHANGED <<upload, objects, task, worker, leaked, crashes>>

FinalizeFails(r) ==
  /\ request[r].phase = "finalizing"
  /\ RequestGoesTo(r, "queueing")
  /\ UNCHANGED <<upload, retention, objects, task, worker, leaked, crashes>>

(* From "accepting" the client is answered 202, from "queueing" an error.   *)
QueueFinalize(r) ==
  /\ request[r].phase \in {"accepting", "queueing"}
  /\ task' = Queued(<<"FINALIZE_DELETION", request[r].file>>)
  /\ RequestEnds(r)
  /\ UNCHANGED <<upload, retention, objects, worker, leaked, crashes>>

(* A transaction aborts, the queue cannot be written or the server dies.   *)
RequestDies(r) ==
  /\ request[r].phase # "idle"
  /\ RequestEnds(r)
  /\ UNCHANGED <<upload, retention, objects, task, worker, leaked, crashes>>

-----------------------------------------------------------------------------
(* The cleanup job                                                         *)

Claimable_Bug(t) == task[t].status = "PENDING" /\ task[t].due

(* Pending and past its time, or processing for more than five minutes.    *)
Claimable(t) == task[t].status \in {"PENDING", "PROCESSING"} /\ task[t].due

ClaimTask(w, t) ==
  /\ worker[w].phase = "idle"
  /\ Claimable(t)
  /\ task' = [task EXCEPT ![t] =
       [status |-> "PROCESSING", attempts |-> task[t].attempts + 1, due |-> FALSE]]
  /\ worker' = [worker EXCEPT ![w] =
       [phase |-> "claimed", task |-> t, attempt |-> task[t].attempts + 1]]
  /\ UNCHANGED <<upload, retention, objects, request, leaked, crashes>>

WorkerGoesTo(w, phase) == worker' = [worker EXCEPT ![w] = [@ EXCEPT !.phase = phase]]

(* headEvidenceObject and deleteEvidenceObject; an absent object is fine.  *)
RemoveObject(w) ==
  /\ worker[w].phase = "claimed"
  /\ objects' = objects \ {worker[w].task[2]}
  /\ WorkerGoesTo(w, "removed")
  /\ UNCHANGED <<upload, retention, request, task, leaked, crashes>>

RemoveFails_Bug(w) ==   \* the failure is swallowed
  /\ worker[w].phase = "claimed"
  /\ \E taken \in BOOLEAN : objects' = Without(worker[w].task[2], taken)
  /\ WorkerGoesTo(w, "removed")
  /\ UNCHANGED <<upload, retention, request, task, leaked, crashes>>

RemoveFails(w) ==
  /\ worker[w].phase = "claimed"
  /\ \E taken \in BOOLEAN : objects' = Without(worker[w].task[2], taken)
  /\ WorkerGoesTo(w, "failed")
  /\ UNCHANGED <<upload, retention, request, task, leaked, crashes>>

RetentionAfter(t) ==
  [f \in Files |->
     IF t = <<"FINALIZE_DELETION", f>> /\ retention[f] \in {"DELETE_PENDING", "ACTIVE"}
       THEN "DELETED" ELSE retention[f]]

WithStatus_Bug(t, status) == [task EXCEPT ![t] = [@ EXCEPT !.status = status, !.due = FALSE]]

(* Both completing updates ask only that someone processes the task.       *)
WithStatus(t, status) ==
  IF task[t].status = "PROCESSING"
    THEN [task EXCEPT ![t] = [@ EXCEPT !.status = status, !.due = FALSE]]
    ELSE task

CompleteTask(w) ==
  /\ worker[w].phase = "removed"
  /\ retention' = RetentionAfter(worker[w].task)
  /\ task' = WithStatus(worker[w].task, "COMPLETED")
  /\ worker' = [worker EXCEPT ![w] = IdleWorker]
  /\ UNCHANGED <<upload, objects, request, leaked, crashes>>

CompleteFails(w) ==
  /\ worker[w].phase = "removed"
  /\ WorkerGoesTo(w, "failed")
  /\ UNCHANGED <<upload, retention, objects, request, task, leaked, crashes>>

Exhausted(w) == worker[w].attempt >= MaxAttempts

StatusAfterFailure_Bug(w) ==   \* a status the schema does not list
  IF Exhausted(w) THEN "EXHAUSTED" ELSE "RETRY_SCHEDULED"

StatusAfterFailure(w) == IF Exhausted(w) THEN "EXHAUSTED" ELSE "PENDING"

RetryTask(w) ==
  /\ worker[w].phase = "failed"
  /\ task' = WithStatus(worker[w].task, StatusAfterFailure(w))
  /\ worker' = [worker EXCEPT ![w] = IdleWorker]
  /\ UNCHANGED <<upload, retention, objects, request, leaked, crashes>>

WorkerDies(w) ==
  /\ worker[w].phase # "idle"
  /\ crashes < MaxCrashes
  /\ crashes' = crashes + 1
  /\ worker' = [worker EXCEPT ![w] = IdleWorker]
  /\ UNCHANGED <<upload, retention, objects, request, task, leaked>>

-----------------------------------------------------------------------------
(* The environment                                                         *)

(* The retry delay of a pending task, or the five minutes of a claim, pass.*)
TaskFallsDue(t) ==
  /\ task[t].status \in {"PENDING", "PROCESSING"} /\ ~task[t].due
  /\ task' = [task EXCEPT ![t] = [@ EXCEPT !.due = TRUE]]
  /\ UNCHANGED <<upload, retention, objects, request, worker, leaked, crashes>>

PlaceHold(f) ==
  /\ f \in Holdable /\ retention[f] = "ACTIVE"
  /\ retention' = [retention EXCEPT ![f] = "LEGAL_HOLD"]
  /\ UNCHANGED <<upload, objects, request, task, worker, leaked, crashes>>

UploadStep(f) ==
  \/ PutObject(f) \/ PutFails(f) \/ CommitMetadata(f) \/ CommitFails(f)
  \/ Compensate(f) \/ CompensationFails(f) \/ QueueOrphan(f) \/ UploadDies(f)

RequestStep(r) ==
  \/ \E f \in Files : BeginDelete(r, f)
  \/ MarkPending(r) \/ DeleteObject(r) \/ DeleteObjectFails(r)
  \/ FinalizeDelete(r) \/ FinalizeFails(r) \/ QueueFinalize(r) \/ RequestDies(r)

WorkerStep(w) ==
  \/ \E t \in Tasks : ClaimTask(w, t)
  \/ RemoveObject(w) \/ RemoveFails(w) \/ CompleteTask(w) \/ CompleteFails(w) \/ RetryTask(w)

Next ==
  \/ \E f \in Files : UploadStep(f) \/ PlaceHold(f)
  \/ \E r \in Requests : RequestStep(r)
  \/ \E w \in Workers : WorkerStep(w) \/ WorkerDies(w)
  \/ \E t \in Tasks : TaskFallsDue(t)

Spec == Init /\ [][Next]_vars

(* Clocks advance and the cleanup job is run again and again.              *)
Fairness ==
  /\ \A t \in Tasks : WF_vars(TaskFallsDue(t))
  /\ \A w \in Workers : WF_vars(WorkerStep(w))

FairSpec == Spec /\ Fairness

-----------------------------------------------------------------------------
(* Properties                                                              *)

\* Documents, requests and jobs stay within their schemas.
TypeOK ==
  /\ upload \in [Files -> UploadPhase]
  /\ retention \in [Files -> RetentionState]
  /\ objects \subseteq Files
  /\ request \in [Requests -> RequestProgress]
  /\ task \in [Tasks -> TaskDocument]
  /\ worker \in [Workers -> WorkerProgress]
  /\ leaked \subseteq Files
  /\ crashes \in Nat

\* Evidence that can be downloaded has its object, whatever deletions,
\* compensations and cleanup jobs run beside it.
ActiveHasObject == \A f \in Files : retention[f] = "ACTIVE" => f \in objects

\* Evidence is called deleted only once its object is gone for good.
DeletedHasNoObject == \A f \in Files : retention[f] = "DELETED" => f \notin objects

\* A document never says more than the store has, in either direction.
ObjectsFollowDocuments == ActiveHasObject /\ DeletedHasNoObject

\* An object that no document points to is known to a cleanup task that is
\* not completed, unless its upload died or the store took a put it refused.
OrphansAreKnown ==
  \A f \in Files \ leaked :
    f \in objects /\ retention[f] = "ABSENT" /\ upload[f] = "ended"
      => task[<<"DELETE_ORPHAN", f>>].status \in {"PENDING", "PROCESSING", "EXHAUSTED"}

\* A completed or exhausted task stays so, whatever a job whose claim went
\* stale writes afterwards.
TaskOutcomeIsFinal ==
  [][\A t \in Tasks :
       task[t].status \in {"COMPLETED", "EXHAUSTED"} => task'[t] = task[t]]_vars

\* A task a request left behind is completed or given up in the end.
TasksFinish ==
  \A t \in Tasks :
    (task[t].status = "PENDING") ~> (task[t].status \in {"COMPLETED", "EXHAUSTED"})

\* Said by src/README.md:446-448: "A storage failure returns 202 and leaves an
\* explicit retry task instead of concealing a partial result."
AcceptedHasRetryTask ==
  [][\A r \in Requests :
       QueueFinalize(r) /\ request[r].phase = "accepting" /\ retention[request[r].file] # "DELETED"
         => task'[<<"FINALIZE_DELETION", request[r].file>>].status
              \in {"PENDING", "PROCESSING"}]_vars

=============================================================================
