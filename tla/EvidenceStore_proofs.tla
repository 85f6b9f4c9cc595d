------------------------ MODULE EvidenceStore_proofs ------------------------
(***************************************************************************)
(* Theorems about EvidenceStore, for any files, requests and cleanup jobs. *)
(***************************************************************************)
EXTENDS EvidenceStore, TLAPS

-----------------------------------------------------------------------------
(* Types                                                                   *)

(* The writes to a request, a job and a task stay within their types.      *)
LEMMA Writes ==
  ASSUME TypeOK
  PROVE  /\ \A r \in Requests, p \in RequestPhase :
              RequestGoesTo(r, p) => request' \in [Requests -> RequestProgress]
         /\ \A r \in Requests : RequestEnds(r) => request' \in [Requests -> RequestProgress]
         /\ \A w \in Workers, p \in WorkerPhase :
              WorkerGoesTo(w, p) => worker' \in [Workers -> WorkerProgress]
         /\ IdleWorker \in WorkerProgress
         /\ \A t \in Tasks : Queued(t) \in [Tasks -> TaskDocument]
         /\ \A t \in Tasks, s \in TaskStatus : WithStatus(t, s) \in [Tasks -> TaskDocument]
<1>1. ASSUME NEW r \in Requests, NEW p \in RequestPhase, RequestGoesTo(r, p)
      PROVE  request' \in [Requests -> RequestProgress]
  <2>1. [request[r] EXCEPT !.phase = p] \in RequestProgress
    BY DEF TypeOK, RequestProgress
  <2> QED
    BY <1>1, <2>1 DEF TypeOK, RequestGoesTo
<1>2. IdleRequest \in RequestProgress
  BY DEF IdleRequest, RequestProgress, RequestPhase
<1>3. ASSUME NEW r \in Requests, RequestEnds(r)
      PROVE  request' \in [Requests -> RequestProgress]
  BY <1>2, <1>3 DEF TypeOK, RequestEnds
<1>4. ASSUME NEW w \in Workers, NEW p \in WorkerPhase, WorkerGoesTo(w, p)
      PROVE  worker' \in [Workers -> WorkerProgress]
  <2>1. [worker[w] EXCEPT !.phase = p] \in WorkerProgress
    BY DEF TypeOK, WorkerProgress
  <2> QED
    BY <1>4, <2>1 DEF TypeOK, WorkerGoesTo
<1>5. IdleWorker \in WorkerProgress
  BY DEF IdleWorker, WorkerProgress, WorkerPhase
<1>6. ASSUME NEW t \in Tasks PROVE Queued(t) \in [Tasks -> TaskDocument]
  <2>1. [status |-> "PENDING", attempts |-> 0, due |-> TRUE] \in TaskDocument
    BY DEF TaskDocument, TaskStatus
  <2> QED
    BY <2>1 DEF TypeOK, Queued
<1>7. ASSUME NEW t \in Tasks, NEW s \in TaskStatus
      PROVE  WithStatus(t, s) \in [Tasks -> TaskDocument]
  <2>1. [task[t] EXCEPT !.status = s, !.due = FALSE] \in TaskDocument
    BY DEF TypeOK, TaskDocument
  <2> QED
    BY <2>1 DEF TypeOK, WithStatus
<1> QED
  BY <1>1, <1>3, <1>4, <1>5, <1>6, <1>7

(* A request or job that is under way has a file or a task.                *)
InHand ==
  /\ \A r \in Requests : request[r].phase # "idle" => request[r].file \in Files
  /\ \A w \in Workers : worker[w].phase # "idle" => worker[w].task \in Tasks

Typed == TypeOK /\ InHand

LEMMA UploadType ==
  ASSUME Typed, NEW f \in Files, UploadStep(f) \/ PlaceHold(f)
  PROVE  Typed'
<1> USE DEF Typed, TypeOK, UploadGoesTo, UploadPhase
<1>0. CASE PlaceHold(f)
  BY <1>0 DEF PlaceHold, InHand, RetentionState
<1>1. CASE PutObject(f)
  BY <1>1 DEF PutObject, InHand
<1>2. CASE PutFails(f)
  BY <1>2 DEF PutFails, InHand
<1>3. CASE CommitMetadata(f)
  BY <1>3 DEF CommitMetadata, InHand, RetentionState
<1>4. CASE CommitFails(f)
  BY <1>4 DEF CommitFails, InHand
<1>5. CASE Compensate(f)
  BY <1>5 DEF Compensate, InHand
<1>6. CASE CompensationFails(f)
  BY <1>6 DEF CompensationFails, InHand, Without
<1>7. CASE QueueOrphan(f)
  <2>1. task' \in [Tasks -> TaskDocument]
    BY <1>7, Writes DEF QueueOrphan, Tasks, TaskTypes
  <2> QED
    BY <1>7, <2>1 DEF QueueOrphan, InHand
<1>8. CASE UploadDies(f)
  BY <1>8 DEF UploadDies, InHand
<1> QED
  BY <1>0, <1>1, <1>2, <1>3, <1>4, <1>5, <1>6, <1>7, <1>8 DEF UploadStep

LEMMA RequestType ==
  ASSUME Typed, NEW r \in Requests, RequestStep(r)
  PROVE  Typed'
<1>0. Typed
  OBVIOUS
<1>1. ASSUME NEW f \in Files, BeginDelete(r, f) PROVE Typed'
  <2>1. [phase |-> "marking", file |-> f] \in RequestProgress
    BY DEF RequestProgress, RequestPhase
  <2>2. request' \in [Requests -> RequestProgress]
    BY <1>1, <2>1 DEF Typed, TypeOK, BeginDelete
  <2> QED
    BY <1>1, <2>2 DEF Typed, TypeOK, InHand, BeginDelete
\* every other step keeps the file of the request or ends it
<1>2. ASSUME request[r].phase # "idle",
             \/ \E p \in RequestPhase : RequestGoesTo(r, p)
             \/ RequestEnds(r),
             UNCHANGED worker
      PROVE  request' \in [Requests -> RequestProgress] /\ InHand'
  <2>1. request' \in [Requests -> RequestProgress]
    BY <1>2, Writes DEF Typed
  <2>2. request[r].file \in Files
    BY <1>2 DEF Typed, InHand
  <2>3. InHand'
    <3>1. CASE RequestEnds(r)
      BY <1>2, <3>1 DEF Typed, TypeOK, InHand, RequestEnds, IdleRequest
    <3>2. ASSUME NEW p \in RequestPhase, RequestGoesTo(r, p) PROVE InHand'
      <4>1. [request[r] EXCEPT !.phase = p].file = request[r].file
        BY DEF Typed, TypeOK, RequestProgress
      <4> QED
        BY <1>2, <2>2, <3>2, <4>1 DEF Typed, TypeOK, InHand, RequestGoesTo
    <3> QED
      BY <1>2, <3>1, <3>2
  <2> QED
    BY <2>1, <2>3
<1>3. CASE MarkPending(r)
  <2>1. "deleting" \in RequestPhase
    BY DEF RequestPhase
  <2> QED
    BY <1>2, <1>3, <2>1 DEF MarkPending, Typed, TypeOK, RetentionState
<1>4. CASE DeleteObject(r)
  <2>1. "finalizing" \in RequestPhase
    BY DEF RequestPhase
  <2> QED
    BY <1>2, <1>4, <2>1 DEF DeleteObject, Typed, TypeOK
<1>5. CASE DeleteObjectFails(r)
  <2>1. "accepting" \in RequestPhase
    BY DEF RequestPhase
  <2> QED
    BY <1>2, <1>5, <2>1 DEF DeleteObjectFails, Without, Typed, TypeOK
<1>6. CASE FinalizeDelete(r)
  BY <1>2, <1>6 DEF FinalizeDelete, Typed, TypeOK, RetentionState
<1>7. CASE FinalizeFails(r)
  <2>1. "queueing" \in RequestPhase
    BY DEF RequestPhase
  <2> QED
    BY <1>2, <1>7, <2>1 DEF FinalizeFails, Typed, TypeOK
<1>8. CASE QueueFinalize(r)
  <2>1. request[r].file \in Files
    BY <1>8 DEF QueueFinalize, Typed, InHand
  <2>2. <<"FINALIZE_DELETION", request[r].file>> \in Tasks
    BY <2>1 DEF Tasks, TaskTypes
  <2>3. task' \in [Tasks -> TaskDocument]
    BY <1>8, <2>2, Writes DEF QueueFinalize, Typed
  <2> QED
    BY <1>2, <1>8, <2>3 DEF QueueFinalize, Typed, TypeOK
<1>9. CASE RequestDies(r)
  BY <1>2, <1>9 DEF RequestDies, Typed, TypeOK
<1> QED
  BY <1>1, <1>3, <1>4, <1>5, <1>6, <1>7, <1>8, <1>9 DEF RequestStep

LEMMA WorkerType ==
  ASSUME Typed, NEW w \in Workers, WorkerStep(w) \/ WorkerDies(w)
  PROVE  Typed'
<1>1. ASSUME NEW t \in Tasks, ClaimTask(w, t) PROVE Typed'
  <2>1. task[t].attempts + 1 \in Nat
    BY DEF Typed, TypeOK, TaskDocument
  <2>2. /\ [phase |-> "claimed", task |-> t, attempt |-> task[t].attempts + 1] \in WorkerProgress
        /\ [status |-> "PROCESSING", attempts |-> task[t].attempts + 1, due |-> FALSE]
             \in TaskDocument
    BY <2>1 DEF WorkerProgress, WorkerPhase, TaskDocument, TaskStatus
  <2>3. worker' \in [Workers -> WorkerProgress] /\ task' \in [Tasks -> TaskDocument]
    BY <1>1, <2>2 DEF Typed, TypeOK, ClaimTask
  <2>4. InHand'
    BY <1>1 DEF Typed, TypeOK, InHand, ClaimTask
  <2> QED
    BY <1>1, <2>3, <2>4 DEF Typed, TypeOK, ClaimTask
\* every other step keeps the task of the job or ends it
<1>2. ASSUME worker[w].phase # "idle",
             \/ \E p \in WorkerPhase : WorkerGoesTo(w, p)
             \/ worker' = [worker EXCEPT ![w] = IdleWorker],
             UNCHANGED request
      PROVE  worker' \in [Workers -> WorkerProgress] /\ InHand' /\ worker[w].task \in Tasks
  <2>1. worker' \in [Workers -> WorkerProgress]
    BY <1>2, Writes DEF Typed, TypeOK
  <2>2. worker[w].task \in Tasks
    BY <1>2 DEF Typed, InHand
  <2>3. InHand'
    <3>1. CASE worker' = [worker EXCEPT ![w] = IdleWorker]
      BY <1>2, <3>1 DEF Typed, TypeOK, InHand, IdleWorker
    <3>2. ASSUME NEW p \in WorkerPhase, WorkerGoesTo(w, p) PROVE InHand'
      <4>1. [worker[w] EXCEPT !.phase = p].task = worker[w].task
        BY DEF Typed, TypeOK, WorkerProgress
      <4> QED
        BY <1>2, <2>2, <3>2, <4>1 DEF Typed, TypeOK, InHand, WorkerGoesTo
    <3> QED
      BY <1>2, <3>1, <3>2
  <2> QED
    BY <2>1, <2>2, <2>3
<1>3. "removed" \in WorkerPhase /\ "failed" \in WorkerPhase
  BY DEF WorkerPhase
<1>4. "COMPLETED" \in TaskStatus /\ StatusAfterFailure(w) \in TaskStatus
  BY DEF TaskStatus, StatusAfterFailure
<1>5. CASE RemoveObject(w)
  BY <1>2, <1>3, <1>5 DEF RemoveObject, Typed, TypeOK
<1>6. CASE RemoveFails(w)
  BY <1>2, <1>3, <1>6 DEF RemoveFails, Without, Typed, TypeOK
<1>7. CASE CompleteTask(w)
  <2>1. retention' \in [Files -> RetentionState]
    BY <1>7 DEF CompleteTask, RetentionAfter, Typed, TypeOK, RetentionState
  <2>2. worker' \in [Workers -> WorkerProgress] /\ InHand' /\ worker[w].task \in Tasks
    BY <1>2, <1>7 DEF CompleteTask
  <2>3. task' \in [Tasks -> TaskDocument]
    BY <1>4, <1>7, <2>2, Writes DEF CompleteTask, Typed
  <2> QED
    BY <1>7, <2>1, <2>2, <2>3 DEF CompleteTask, Typed, TypeOK
<1>8. CASE CompleteFails(w)
  BY <1>2, <1>3, <1>8 DEF CompleteFails, Typed, TypeOK
<1>9. CASE RetryTask(w)
  <2>1. worker' \in [Workers -> WorkerProgress] /\ InHand' /\ worker[w].task \in Tasks
    BY <1>2, <1>9 DEF RetryTask
  <2>2. task' \in [Tasks -> TaskDocument]
    BY <1>4, <1>9, <2>1, Writes DEF RetryTask, Typed
  <2> QED
    BY <1>9, <2>1, <2>2 DEF RetryTask, Typed, TypeOK
<1>10. CASE WorkerDies(w)
  BY <1>2, <1>10 DEF WorkerDies, Typed, TypeOK
<1> QED
  BY <1>1, <1>5, <1>6, <1>7, <1>8, <1>9, <1>10 DEF WorkerStep

LEMMA InitTyped == Init => Typed
BY DEF Init, Typed, TypeOK, InHand, UploadPhase, RetentionState, RequestProgress, RequestPhase,
   TaskDocument, TaskStatus, WorkerProgress, WorkerPhase, IdleRequest, IdleWorker

LEMMA NextTyped == Typed /\ [Next]_vars => Typed'
<1> SUFFICES ASSUME Typed, [Next]_vars PROVE Typed'
  OBVIOUS
<1>1. CASE UNCHANGED vars
  BY <1>1 DEF vars, Typed, TypeOK, InHand
<1>2. ASSUME NEW t \in Tasks, TaskFallsDue(t) PROVE Typed'
  <2>1. [task[t] EXCEPT !.due = TRUE] \in TaskDocument
    BY DEF Typed, TypeOK, TaskDocument
  <2>2. task' \in [Tasks -> TaskDocument]
    BY <1>2, <2>1 DEF TaskFallsDue, Typed, TypeOK
  <2> QED
    BY <1>2, <2>2 DEF TaskFallsDue, Typed, TypeOK, InHand
<1> QED
  BY <1>1, <1>2, UploadType, RequestType, WorkerType DEF Next

(* Documents, requests and jobs stay within their schemas.                 *)
THEOREM TypeCorrect == Spec => []TypeOK
BY InitTyped, NextTyped, PTL DEF Spec, Typed

-----------------------------------------------------------------------------
(* Objects follow documents                                                *)

(* No upload will store the object any more, and nobody may download it.   *)
Closed(f) == upload[f] = "ended" /\ retention[f] # "ACTIVE"

UploadsFirst ==
  /\ \A f \in Files : upload[f] # "ended" => retention[f] = "ABSENT"
  /\ \A f \in Files : upload[f] = "stored" => f \in objects

RequestsOwnFiles ==
  \A r \in Requests :
    /\ request[r].phase # "idle" => upload[request[r].file] = "ended"
    /\ request[r].phase \notin {"idle", "marking"} => Closed(request[r].file)
    /\ request[r].phase = "finalizing" => request[r].file \notin objects

TasksAreClosed == \A t \in Tasks : task[t].status # "ABSENT" => Closed(t[2])

WorkersOwnTasks ==
  \A w \in Workers :
    /\ worker[w].phase # "idle" => Closed(worker[w].task[2])
    /\ worker[w].phase = "removed" => worker[w].task[2] \notin objects

(* Whoever removes an object has closed its document before, and whoever   *)
(* calls a document deleted has seen the object removed.                   *)
ObjectInv ==
  /\ Typed
  /\ UploadsFirst /\ RequestsOwnFiles /\ TasksAreClosed /\ WorkersOwnTasks
  /\ ActiveHasObject /\ DeletedHasNoObject

LEMMA UploadSafe ==
  ASSUME ObjectInv, NEW f \in Files, UploadStep(f) \/ PlaceHold(f)
  PROVE  ObjectInv'
<1>0. Typed'
  BY UploadType DEF ObjectInv
<1> USE <1>0 DEF ObjectInv, Typed, TypeOK, InHand, UploadsFirst, RequestsOwnFiles, TasksAreClosed,
     WorkersOwnTasks, ActiveHasObject, DeletedHasNoObject, Closed, UploadGoesTo
<1>T. \A t \in Tasks : t[2] \in Files
  BY DEF Tasks
<1>1. CASE PlaceHold(f)
  BY <1>1, <1>T DEF PlaceHold
<1>2. CASE PutObject(f)
  BY <1>2, <1>T DEF PutObject
<1>3. CASE PutFails(f)
  BY <1>3, <1>T DEF PutFails
<1>4. CASE CommitMetadata(f)
  BY <1>4, <1>T DEF CommitMetadata
<1>5. CASE CommitFails(f)
  BY <1>5, <1>T DEF CommitFails
<1>6. CASE Compensate(f)
  BY <1>6, <1>T DEF Compensate
<1>7. CASE CompensationFails(f)
  BY <1>7, <1>T DEF CompensationFails, Without
<1>8. CASE QueueOrphan(f)
  BY <1>8, <1>T DEF QueueOrphan, Queued
<1>9. CASE UploadDies(f)
  BY <1>9, <1>T DEF UploadDies
<1> QED
  BY <1>1, <1>2, <1>3, <1>4, <1>5, <1>6, <1>7, <1>8, <1>9 DEF UploadStep

LEMMA RequestSafe ==
  ASSUME ObjectInv, NEW r \in Requests, RequestStep(r)
  PROVE  ObjectInv'
<1>0. Typed'
  BY RequestType DEF ObjectInv
<1> USE <1>0 DEF ObjectInv, Typed, TypeOK, InHand, UploadsFirst, RequestsOwnFiles, TasksAreClosed,
     WorkersOwnTasks, ActiveHasObject, DeletedHasNoObject, Closed, RequestGoesTo, RequestEnds,
     RequestProgress, IdleRequest
<1>T. \A t \in Tasks : t[2] \in Files
  BY DEF Tasks
<1>1. ASSUME NEW f \in Files, BeginDelete(r, f) PROVE ObjectInv'
  BY <1>1, <1>T DEF BeginDelete, Deletable
<1>2. CASE MarkPending(r)
  BY <1>2, <1>T DEF MarkPending
<1>3. CASE DeleteObject(r)
  BY <1>3, <1>T DEF DeleteObject
<1>4. CASE DeleteObjectFails(r)
  BY <1>4, <1>T DEF DeleteObjectFails, Without
<1>5. CASE FinalizeDelete(r)
  BY <1>5, <1>T DEF FinalizeDelete
<1>6. CASE FinalizeFails(r)
  BY <1>6, <1>T DEF FinalizeFails
<1>7. CASE QueueFinalize(r)
  BY <1>7, <1>T DEF QueueFinalize, Queued
<1>8. CASE RequestDies(r)
  BY <1>8, <1>T DEF RequestDies
<1> QED
  BY <1>1, <1>2, <1>3, <1>4, <1>5, <1>6, <1>7, <1>8 DEF RequestStep

LEMMA WorkerSafe ==
  ASSUME ObjectInv, NEW w \in Workers, WorkerStep(w) \/ WorkerDies(w)
  PROVE  ObjectInv'
<1>0. Typed'
  BY WorkerType DEF ObjectInv
<1> USE <1>0 DEF ObjectInv, Typed, TypeOK, InHand, UploadsFirst, RequestsOwnFiles, TasksAreClosed,
     WorkersOwnTasks, ActiveHasObject, DeletedHasNoObject, Closed, WorkerGoesTo, WorkerProgress,
     IdleWorker
<1>T. \A t \in Tasks : t[2] \in Files
  BY DEF Tasks
<1>1. ASSUME NEW t \in Tasks, ClaimTask(w, t) PROVE ObjectInv'
  BY <1>1, <1>T DEF ClaimTask, Claimable
<1>2. CASE RemoveObject(w)
  BY <1>2, <1>T DEF RemoveObject
<1>3. CASE RemoveFails(w)
  BY <1>3, <1>T DEF RemoveFails, Without
<1>4. CASE CompleteTask(w)
  BY <1>4, <1>T DEF CompleteTask, RetentionAfter, WithStatus
<1>5. CASE CompleteFails(w)
  BY <1>5, <1>T DEF CompleteFails
<1>6. CASE RetryTask(w)
  BY <1>6, <1>T DEF RetryTask, WithStatus
<1>7. CASE WorkerDies(w)
  BY <1>7, <1>T DEF WorkerDies
<1> QED
  BY <1>1, <1>2, <1>3, <1>4, <1>5, <1>6, <1>7 DEF WorkerStep

LEMMA ObjectInvariant == Spec => []ObjectInv
<1>1. Init => ObjectInv
  <2>1. Init => Typed
    BY InitTyped
  <2> QED
    BY <2>1 DEF Init, ObjectInv, UploadsFirst, RequestsOwnFiles, TasksAreClosed, WorkersOwnTasks,
       ActiveHasObject, DeletedHasNoObject, Closed, IdleRequest, IdleWorker
<1>2. ObjectInv /\ [Next]_vars => ObjectInv'
  <2> SUFFICES ASSUME ObjectInv, [Next]_vars PROVE ObjectInv'
    OBVIOUS
  <2>0. Typed'
    BY NextTyped DEF ObjectInv
  <2>1. CASE UNCHANGED vars
    BY <2>0, <2>1 DEF vars, ObjectInv, UploadsFirst, RequestsOwnFiles, TasksAreClosed,
       WorkersOwnTasks, ActiveHasObject, DeletedHasNoObject, Closed
  <2>2. ASSUME NEW t \in Tasks, TaskFallsDue(t) PROVE ObjectInv'
    BY <2>0, <2>2 DEF TaskFallsDue, ObjectInv, Typed, TypeOK, UploadsFirst, RequestsOwnFiles,
       TasksAreClosed, WorkersOwnTasks, ActiveHasObject, DeletedHasNoObject, Closed
  <2> QED
    BY <2>1, <2>2, UploadSafe, RequestSafe, WorkerSafe DEF Next
<1> QED
  BY <1>1, <1>2, PTL DEF Spec

(* Evidence that can be downloaded has its object and deleted evidence has *)
(* none, whatever uploads, deletions and cleanup jobs run, fail and die.   *)
THEOREM EvidenceIsBacked == Spec => []ObjectsFollowDocuments
<1>1. ObjectInv => ObjectsFollowDocuments
  BY DEF ObjectInv, ObjectsFollowDocuments
<1> QED
  BY <1>1, ObjectInvariant, PTL

-----------------------------------------------------------------------------
(* Cleanup tasks                                                           *)

(* What one step may do to a task: a task is completed only by a job that  *)
(* has seen its object gone.                                               *)
TaskMove(t) ==
  \/ task'[t] = task[t]
  \/ task[t].status = "ABSENT" /\ task'[t].status = "PENDING"
  \/ /\ task[t].status \in {"PENDING", "PROCESSING"}
     /\ task'[t].status \in {"PENDING", "PROCESSING", "EXHAUSTED"}
  \/ /\ task[t].status = "PROCESSING" /\ task'[t].status = "COMPLETED"
     /\ t[2] \notin objects /\ objects' = objects

LEMMA TaskMoves ==
  ASSUME ObjectInv, [Next]_vars, NEW t \in Tasks
  PROVE  TaskMove(t)
<1> USE DEF TaskMove
<1>0. Typed /\ task \in [Tasks -> TaskDocument]
  BY DEF ObjectInv, Typed, TypeOK
<1>1. ASSUME NEW x \in Tasks, task' = Queued(x) PROVE TaskMove(t)
  BY <1>0, <1>1 DEF Queued
<1>2. ASSUME NEW x \in Tasks, NEW s, task' = WithStatus(x, s)
      PROVE  \/ task'[t] = task[t]
             \/ t = x /\ task[t].status = "PROCESSING" /\ task'[t].status = s
  <2> DEFINE doc == [task[x] EXCEPT !.status = s, !.due = FALSE]
  <2>1. doc.status = s
    BY <1>0 DEF TaskDocument
  <2>2. task[x].status = "PROCESSING" => task' = [task EXCEPT ![x] = doc]
    BY <1>2 DEF WithStatus
  <2>3. task[x].status # "PROCESSING" => task' = task
    BY <1>2 DEF WithStatus
  <2> HIDE DEF doc
  <2> QED
    BY <1>0, <2>1, <2>2, <2>3
<1>3. ASSUME NEW f \in Files, UploadStep(f) \/ PlaceHold(f) PROVE TaskMove(t)
  <2>1. <<"DELETE_ORPHAN", f>> \in Tasks
    BY DEF Tasks, TaskTypes
  <2>2. CASE QueueOrphan(f)
    BY <1>1, <2>1, <2>2 DEF QueueOrphan
  <2> QED
    BY <1>3, <2>2 DEF UploadStep, PutObject, PutFails, CommitMetadata, CommitFails, Compensate,
       CompensationFails, UploadDies, PlaceHold
<1>4. ASSUME NEW r \in Requests, RequestStep(r) PROVE TaskMove(t)
  <2>1. CASE QueueFinalize(r)
    <3>1. <<"FINALIZE_DELETION", request[r].file>> \in Tasks
      BY <1>0, <2>1 DEF QueueFinalize, Typed, InHand, Tasks, TaskTypes
    <3> QED
      BY <1>1, <2>1, <3>1 DEF QueueFinalize
  <2> QED
    BY <1>4, <2>1 DEF RequestStep, BeginDelete, MarkPending, DeleteObject, DeleteObjectFails,
       FinalizeDelete, FinalizeFails, RequestDies
<1>5. ASSUME NEW w \in Workers, WorkerStep(w) \/ WorkerDies(w) PROVE TaskMove(t)
  <2>1. ASSUME NEW x \in Tasks, ClaimTask(w, x) PROVE TaskMove(t)
    BY <1>0, <2>1 DEF ClaimTask, Claimable
  <2>2. worker[w].phase # "idle" => worker[w].task \in Tasks
    BY <1>0 DEF Typed, InHand
  <2>3. CASE CompleteTask(w)
    <3>1. worker[w].task[2] \notin objects
      BY <2>3 DEF CompleteTask, ObjectInv, WorkersOwnTasks
    <3> QED
      BY <1>2, <2>2, <2>3, <3>1 DEF CompleteTask
  <2>4. CASE RetryTask(w)
    BY <1>2, <2>2, <2>4 DEF RetryTask, StatusAfterFailure
  <2> QED
    BY <1>5, <2>1, <2>3, <2>4 DEF WorkerStep, RemoveObject, RemoveFails, CompleteFails, WorkerDies
<1>6. ASSUME NEW x \in Tasks, TaskFallsDue(x) PROVE TaskMove(t)
  <2>1. [task[x] EXCEPT !.due = TRUE].status = task[x].status
    BY <1>0 DEF TaskDocument
  <2> QED
    BY <1>0, <1>6, <2>1 DEF TaskFallsDue
<1>7. CASE UNCHANGED vars
  BY <1>7 DEF vars
<1> QED
  BY <1>3, <1>4, <1>5, <1>6, <1>7 DEF Next

(* A job whose claim went stale changes no outcome: what is completed or   *)
(* exhausted stays so.                                                     *)
THEOREM OutcomesAreFinal == Spec => TaskOutcomeIsFinal
<1>1. ObjectInv /\ [Next]_vars =>
        [\A t \in Tasks :
           task[t].status \in {"COMPLETED", "EXHAUSTED"} => task'[t] = task[t]]_vars
  BY TaskMoves DEF TaskMove
<1> QED
  BY <1>1, ObjectInvariant, PTL DEF Spec, TaskOutcomeIsFinal

-----------------------------------------------------------------------------
(* Orphans                                                                 *)

(* An upload stores its object once, and an upload that has ended without  *)
(* a document has queued the removal, seen it done or leaked the object.   *)
NothingBeforePut == \A f \in Files : upload[f] = "new" => f \notin objects

OrphanInv == ObjectInv /\ NothingBeforePut /\ OrphansAreKnown

(* What a step must do to leave an orphan of f behind.                     *)
LEMMA NewOrphans ==
  ASSUME OrphanInv, [Next]_vars, NEW f \in Files, f \notin leaked', f \in objects',
         retention'[f] = "ABSENT", upload'[f] = "ended"
  PROVE  /\ f \notin leaked /\ f \in objects /\ retention[f] = "ABSENT"
         /\ \/ upload[f] = "ended"
            \/ upload[f] = "queueing" /\ task' = Queued(<<"DELETE_ORPHAN", f>>)
<1>0. TypeOK
  BY DEF OrphanInv, ObjectInv, Typed
<1>1. ASSUME NEW g \in Files, UploadStep(g) \/ PlaceHold(g)
      PROVE  /\ f \notin leaked /\ f \in objects /\ retention[f] = "ABSENT"
             /\ \/ upload[f] = "ended"
                \/ upload[f] = "queueing" /\ task' = Queued(<<"DELETE_ORPHAN", f>>)
  <2> USE <1>0 DEF TypeOK, UploadGoesTo
  <2>1. CASE PutObject(g)
    BY <2>1 DEF PutObject
  <2>2. CASE PutFails(g)
    BY <2>2 DEF PutFails, OrphanInv, NothingBeforePut
  <2>3. CASE CommitMetadata(g)
    BY <2>3 DEF CommitMetadata
  <2>4. CASE CommitFails(g)
    BY <2>4 DEF CommitFails
  <2>5. CASE Compensate(g)
    BY <2>5 DEF Compensate
  <2>6. CASE CompensationFails(g)
    BY <2>6 DEF CompensationFails, Without
  <2>7. CASE QueueOrphan(g)
    BY <2>7 DEF QueueOrphan
  <2>8. CASE UploadDies(g)
    BY <2>8 DEF UploadDies
  <2>9. CASE PlaceHold(g)
    BY <2>9 DEF PlaceHold
  <2> QED
    BY <1>1, <2>1, <2>2, <2>3, <2>4, <2>5, <2>6, <2>7, <2>8, <2>9 DEF UploadStep
<1>2. ASSUME upload' = upload, leaked' = leaked, objects' \subseteq objects,
             retention'[f] = retention[f] \/ retention'[f] # "ABSENT"
      PROVE  /\ f \notin leaked /\ f \in objects /\ retention[f] = "ABSENT"
             /\ upload[f] = "ended"
  BY <1>2
<1>3. ASSUME NEW r \in Requests, RequestStep(r)
      PROVE  /\ upload' = upload /\ leaked' = leaked /\ objects' \subseteq objects
             /\ retention'[f] = retention[f] \/ retention'[f] # "ABSENT"
  BY <1>3 DEF RequestStep, BeginDelete, MarkPending, DeleteObject, DeleteObjectFails, Without,
     FinalizeDelete, FinalizeFails, QueueFinalize, RequestDies
<1>4. ASSUME NEW w \in Workers, WorkerStep(w) \/ WorkerDies(w)
      PROVE  /\ upload' = upload /\ leaked' = leaked /\ objects' \subseteq objects
             /\ retention'[f] = retention[f] \/ retention'[f] # "ABSENT"
  BY <1>4 DEF WorkerStep, ClaimTask, RemoveObject, RemoveFails, Without, CompleteTask,
     RetentionAfter, CompleteFails, RetryTask, WorkerDies
<1>5. CASE UNCHANGED vars
  BY <1>2, <1>5 DEF vars
<1>6. ASSUME NEW t \in Tasks, TaskFallsDue(t)
      PROVE  /\ upload' = upload /\ leaked' = leaked /\ objects' = objects
             /\ retention' = retention
  BY <1>6 DEF TaskFallsDue
<1> QED
  BY <1>1, <1>2, <1>3, <1>4, <1>5, <1>6 DEF Next

LEMMA NothingBeforePutStep ==
  ASSUME OrphanInv, [Next]_vars
  PROVE  NothingBeforePut'
<1>0. TypeOK /\ NothingBeforePut
  BY DEF OrphanInv, ObjectInv, Typed
<1> USE <1>0 DEF NothingBeforePut
<1>1. ASSUME NEW f \in Files, UploadStep(f) \/ PlaceHold(f) PROVE NothingBeforePut'
  BY <1>1 DEF UploadStep, PutObject, PutFails, CommitMetadata, CommitFails, Compensate,
     CompensationFails, Without, QueueOrphan, UploadDies, PlaceHold, UploadGoesTo, TypeOK
<1>2. ASSUME upload' = upload, objects' \subseteq objects PROVE NothingBeforePut'
  BY <1>2
<1>3. ASSUME NEW r \in Requests, RequestStep(r) PROVE NothingBeforePut'
  BY <1>2, <1>3 DEF RequestStep, BeginDelete, MarkPending, DeleteObject, DeleteObjectFails, Without,
     FinalizeDelete, FinalizeFails, QueueFinalize, RequestDies
<1>4. ASSUME NEW w \in Workers, WorkerStep(w) \/ WorkerDies(w) PROVE NothingBeforePut'
  BY <1>2, <1>4 DEF WorkerStep, ClaimTask, RemoveObject, RemoveFails, Without, CompleteTask,
     CompleteFails, RetryTask, WorkerDies
<1>5. CASE UNCHANGED vars
  BY <1>2, <1>5 DEF vars
<1>6. ASSUME NEW t \in Tasks, TaskFallsDue(t) PROVE NothingBeforePut'
  BY <1>2, <1>6 DEF TaskFallsDue
<1> QED
  BY <1>1, <1>3, <1>4, <1>5, <1>6 DEF Next

(* An object that no document points to is known to a task that will still *)
(* remove it or has given up loudly, unless its upload died or the store   *)
(* kept a put it refused.                                                  *)
THEOREM OrphansHaveTasks == Spec => []OrphansAreKnown
<1>1. Init => NothingBeforePut /\ OrphansAreKnown
  BY DEF Init, NothingBeforePut, OrphansAreKnown
<1>2. ObjectInv' /\ OrphanInv /\ [Next]_vars => OrphanInv'
  <2> SUFFICES ASSUME OrphanInv, ObjectInv', [Next]_vars PROVE OrphanInv'
    OBVIOUS
  <2>1. ASSUME NEW f \in Files, f \notin leaked', f \in objects', retention'[f] = "ABSENT",
               upload'[f] = "ended"
        PROVE  task'[<<"DELETE_ORPHAN", f>>].status \in {"PENDING", "PROCESSING", "EXHAUSTED"}
    <3> DEFINE t == <<"DELETE_ORPHAN", f>>
    <3>1. t \in Tasks /\ t[2] = f
      BY DEF Tasks, TaskTypes
    <3>2. /\ f \notin leaked /\ f \in objects /\ retention[f] = "ABSENT"
          /\ upload[f] = "ended" \/ (upload[f] = "queueing" /\ task' = Queued(t))
      BY <2>1, NewOrphans
    <3>3. CASE upload[f] = "ended"
      <4>1. task[t].status \in {"PENDING", "PROCESSING", "EXHAUSTED"}
        BY <3>2, <3>3 DEF OrphanInv, OrphansAreKnown
      <4>2. TaskMove(t)
        BY <3>1, TaskMoves DEF OrphanInv
      <4> QED
        BY <3>1, <3>2, <4>1, <4>2 DEF TaskMove
    <3>4. CASE upload[f] = "queueing" /\ task' = Queued(t)
      <4>1. task[t].status = "ABSENT"
        BY <3>1, <3>4 DEF OrphanInv, ObjectInv, TasksAreClosed, Closed
      <4>2. task \in [Tasks -> TaskDocument]
        BY DEF OrphanInv, ObjectInv, Typed, TypeOK
      <4> HIDE DEF t
      <4>3. task' = [task EXCEPT ![t] = [status |-> "PENDING", attempts |-> 0, due |-> TRUE]]
        BY <3>4, <4>1 DEF Queued
      <4>4. task'[t].status = "PENDING"
        BY <3>1, <4>2, <4>3
      <4> QED
        BY <4>4 DEF t
    <3> QED
      BY <3>2, <3>3, <3>4
  <2> QED
    BY <2>1, NothingBeforePutStep DEF OrphanInv, OrphansAreKnown
<1>3. OrphanInv => OrphansAreKnown
  BY DEF OrphanInv
<1> QED
  BY <1>1, <1>2, <1>3, ObjectInvariant, PTL DEF Spec, OrphanInv
=============================================================================
