--------------------- MODULE NotificationOutbox_proofs ---------------------
(***************************************************************************)
(* Theorems about NotificationOutbox, for any notices, workers, devices,   *)
(* tokens, registrations, lease, backoff and budget of attempts.           *)
(***************************************************************************)
EXTENDS NotificationOutbox, TLAPS

(* A worker with a record in its hands has counted an attempt on it, and   *)
(* one that was told of a success has been told so by a provider.          *)
InHand ==
  \A w \in Workers :
    /\ worker[w].phase \in {"claimed", "answered"} =>
         worker[w].job \in Deliveries /\ worker[w].attempt # 0
    /\ worker[w].phase = "answered" /\ worker[w].answer = "sent" => worker[w].job \in accepted

(* The deliveries of a notice are created with it.                         *)
CreatedTogether == \A d \in Deliveries : d[1] \notin inbox => delivery[d].status = "ABSENT"

OutboxInv == TypeOK /\ InHand /\ CreatedTogether /\ DeliveredWasAccepted

LEMMA IdleIsWorker == Idle \in Worker
BY OutboxAssumption DEF Idle, Worker, Answers

-----------------------------------------------------------------------------
(* The recipient and the environment leave the workers alone.              *)

LEMMA RecipientSafe ==
  ASSUME OutboxInv,
         \/ \E n \in Notices : CreateCustomerNotification(n)
         \/ \E choice \in Choices : UpdatePreferences(choice)
         \/ \E q \in Registrations : RegisterPushDevice(q)
         \/ \E i \in Devices : RevokePushDevice(i)
  PROVE  OutboxInv'
<1> USE DEF OutboxInv, TypeOK, InHand, CreatedTogether, DeliveredWasAccepted
<1>1. ASSUME NEW n \in Notices, CreateCustomerNotification(n) PROVE OutboxInv'
  <2>1. \A d \in Deliveries : [delivery[d] EXCEPT !.status = "PENDING"] \in DeliveryDocument
    BY DEF DeliveryDocument, DeliveryStatus
  <2>2. delivery' \in [Deliveries -> DeliveryDocument]
    BY <1>1, <2>1 DEF CreateCustomerNotification
  <2>3. CreatedTogether'
    BY <1>1 DEF CreateCustomerNotification
  <2>4. DeliveredWasAccepted'
    BY <1>1 DEF CreateCustomerNotification, DeliveryDocument
  <2> QED
    BY <1>1, <2>2, <2>3, <2>4 DEF CreateCustomerNotification
<1>2. ASSUME NEW choice \in Choices, UpdatePreferences(choice) PROVE OutboxInv'
  BY <1>2, OutboxAssumption DEF UpdatePreferences
<1>3. ASSUME NEW q \in Registrations, RegisterPushDevice(q) PROVE OutboxInv'
  <2>1. NoRequest \in Request
    BY DEF NoRequest, Request
  <2>2. CASE BeginRegistration(q)
    <3>1. [registering[q] EXCEPT !.step = "asked"] \in Request
      BY DEF Request
    <3> QED
      BY <2>2, <3>1 DEF BeginRegistration
  <2>3. CASE ReadDevice(q)
    <3>1. \A b, c, e \in BOOLEAN :
            [step |-> "read", exists |-> b, active |-> c, keyed |-> e] \in Request
      BY DEF Request
    <3>2. device[DeviceOf[q]].active \in BOOLEAN
      BY OutboxAssumption DEF DeviceDocument
    <3> QED
      BY <2>3, <3>1, <3>2 DEF ReadDevice
  <2>4. CASE SaveDevice(q)
    <3>1. device[DeviceOf[q]] \in DeviceDocument
      BY OutboxAssumption
    <3>2. SavedDevice(q) \in DeviceDocument
      BY <3>1, OutboxAssumption DEF SavedDevice, DeviceDocument
    <3> QED
      BY <2>1, <2>4, <3>2 DEF SaveDevice
  <2>5. CASE FailRegistration(q)
    BY <2>1, <2>5 DEF FailRegistration
  <2> QED
    BY <1>3, <2>2, <2>3, <2>4, <2>5 DEF RegisterPushDevice
<1>4. ASSUME NEW i \in Devices, RevokePushDevice(i) PROVE OutboxInv'
  <2>1. [device[i] EXCEPT !.active = FALSE] \in DeviceDocument
    BY DEF DeviceDocument
  <2> QED
    BY <1>4, <2>1 DEF RevokePushDevice
<1> QED
  BY <1>1, <1>2, <1>3, <1>4

LEMMA EnvironmentSafe ==
  ASSUME OutboxInv,
         \/ \E w \in Workers : Crash(w)
         \/ Tick \/ AccountStatusChanges
         \/ \E t \in Tokens : RetireToken(t)
  PROVE  OutboxInv'
<1> USE DEF OutboxInv, TypeOK, InHand, CreatedTogether, DeliveredWasAccepted
<1>1. ASSUME NEW w \in Workers, Crash(w) PROVE OutboxInv'
  BY <1>1, IdleIsWorker DEF Crash, Idle
<1>2. CASE Tick
  <2>1. ASSUME NEW w \in Workers, worker[w].age < MaxAge
        PROVE  [worker[w] EXCEPT !.age = worker[w].age + 1] \in Worker
    <3>1. worker[w] \in Worker
      OBVIOUS
    <3>2. worker[w].age + 1 \in 0..MaxAge
      BY <2>1, <3>1, OutboxAssumption DEF Worker
    <3> QED
      BY <3>1, <3>2 DEF Worker
  <2>2. worker' \in [Workers -> Worker]
    BY <1>2, <2>1 DEF Tick
  <2>3. \A d \in Deliveries : Elapsed(d) \in Int
    BY DEF Elapsed, DeliveryDocument
  <2>4. \A d \in Deliveries : [delivery[d] EXCEPT !.wait = Elapsed(d)] \in DeliveryDocument
    BY <2>3 DEF DeliveryDocument
  <2>5. delivery' \in [Deliveries -> DeliveryDocument]
    BY <1>2, <2>4 DEF Tick
  <2>6. \A d \in Deliveries : delivery'[d].status = delivery[d].status
    BY <1>2 DEF Tick, DeliveryDocument
  <2>7. \A w \in Workers : /\ worker'[w].phase = worker[w].phase
                           /\ worker'[w].job = worker[w].job
                           /\ worker'[w].attempt = worker[w].attempt
                           /\ worker'[w].answer = worker[w].answer
    BY <1>2 DEF Tick, Worker
  <2>8. TypeOK'
    BY <1>2, <2>2, <2>5 DEF Tick
  <2>9. UNCHANGED <<inbox, accepted>>
    BY <1>2 DEF Tick
  <2>10. InHand'
    BY <2>7, <2>9
  <2>11. CreatedTogether' /\ DeliveredWasAccepted'
    BY <2>6, <2>9
  <2> QED
    BY <2>8, <2>10, <2>11
<1>3. CASE AccountStatusChanges
  BY <1>3 DEF AccountStatusChanges
<1>4. ASSUME NEW t \in Tokens, RetireToken(t) PROVE OutboxInv'
  BY <1>4 DEF RetireToken
<1> QED
  BY <1>1, <1>2, <1>3, <1>4

-----------------------------------------------------------------------------
(* The worker                                                              *)

LEMMA ClaimSafe ==
  ASSUME OutboxInv, NEW w \in Workers, NEW d \in Deliveries, ClaimOne(w, d)
  PROVE  OutboxInv'
<1> DEFINE document == [status |-> "PROCESSING", attempts |-> delivery[d].attempts + 1,
                        wait |-> LockSpan - worker[w].age]
           progress == [worker[w] EXCEPT !.phase = "claimed", !.left = worker[w].left - 1,
                          !.job = d, !.attempt = delivery[d].attempts + 1]
<1>1. delivery[d].attempts \in Nat /\ worker[w].age \in Nat /\ delivery[d].status # "ABSENT"
  BY OutboxAssumption DEF OutboxInv, TypeOK, DeliveryDocument, Worker, ClaimOne, Due
<1>2. document \in DeliveryDocument
  BY <1>1, OutboxAssumption DEF DeliveryDocument, DeliveryStatus
<1>3. progress \in Worker
  <2>1. worker[w] \in Worker
    BY DEF OutboxInv, TypeOK
  <2>2. worker[w].left \in 0..BatchLimit /\ worker[w].left > 0
    BY <2>1 DEF ClaimOne, Worker
  <2>3. worker[w].left - 1 \in 0..BatchLimit /\ delivery[d].attempts + 1 \in Nat
    BY <1>1, <2>2, OutboxAssumption
  <2> QED
    BY <2>1, <2>3 DEF Worker
<1>4. progress.job = d /\ progress.attempt # 0 /\ progress.answer = worker[w].answer
  BY <1>1 DEF OutboxInv, TypeOK, Worker
<1>5. document.status = "PROCESSING"
  OBVIOUS
<1>6. delivery' = [delivery EXCEPT ![d] = document] /\ worker' = [worker EXCEPT ![w] = progress]
  BY DEF ClaimOne
<1> HIDE DEF document, progress
<1>7. \A v \in Workers : v # w => worker'[v] = worker[v]
  BY <1>6 DEF OutboxInv, TypeOK
<1>8. worker'[w] = progress /\ progress.phase = "claimed"
  BY <1>6 DEF OutboxInv, TypeOK, Worker, progress
<1>9. InHand'
  <2>1. accepted' = accepted
    BY DEF ClaimOne
  <2> QED
    BY <1>4, <1>7, <1>8, <2>1 DEF OutboxInv, InHand
<1>10. TypeOK'
  BY <1>2, <1>3, <1>6 DEF OutboxInv, TypeOK, ClaimOne
<1>11. CreatedTogether' /\ DeliveredWasAccepted'
  BY <1>1, <1>5, <1>6 DEF OutboxInv, TypeOK, CreatedTogether, DeliveredWasAccepted, ClaimOne
<1> QED
  BY <1>9, <1>10, <1>11 DEF OutboxInv

LEMMA AnswerSafe ==
  ASSUME OutboxInv, NEW w \in Workers, NEW answer \in Answers, NEW taken \in BOOLEAN,
         Claimed(w), Answer(w, answer, taken), answer = "sent" => taken
  PROVE  OutboxInv'
<1> DEFINE told == IF answer = "sent" /\ worker[w].job[2] = "push" THEN ActiveTokens \cap retired ELSE {}
           progress == [worker[w] EXCEPT !.phase = "answered", !.answer = answer, !.invalid = told]
<1>1. told \in SUBSET Tokens
  BY DEF OutboxInv, TypeOK
<1>2. progress \in Worker
  BY <1>1 DEF OutboxInv, TypeOK, Worker
<1>3. /\ progress.job = worker[w].job /\ progress.attempt = worker[w].attempt
      /\ progress.answer = answer
  BY DEF OutboxInv, TypeOK, Worker
<1>4. worker' = [worker EXCEPT ![w] = progress]
  BY DEF Answer
<1> HIDE DEF progress
<1>5. worker[w].job \in Deliveries /\ worker[w].attempt # 0
  BY DEF OutboxInv, InHand, Claimed
<1>6. accepted \subseteq accepted' /\ accepted' \subseteq Deliveries
  BY <1>5 DEF Answer, OutboxInv, TypeOK
<1>7. answer = "sent" => worker[w].job \in accepted'
  BY DEF Answer
<1>8. InHand'
  BY <1>3, <1>4, <1>5, <1>6, <1>7 DEF OutboxInv, TypeOK, InHand
<1>9. TypeOK'
  BY <1>2, <1>4, <1>6 DEF OutboxInv, TypeOK, Answer
<1> QED
  BY <1>6, <1>8, <1>9 DEF OutboxInv, CreatedTogether, DeliveredWasAccepted, Answer

LEMMA CompleteSafe ==
  ASSUME OutboxInv, NEW w \in Workers, Complete(w)
  PROVE  OutboxInv'
<1> DEFINE d == worker[w].job
           document == WithOutcome(d, w)
           progress == [Idle EXCEPT !.phase = "looking", !.age = worker[w].age, !.left = worker[w].left]
<1>1. d \in Deliveries /\ worker[w].attempt # 0 /\ worker[w].attempt \in Nat /\ worker[w].age \in Nat
  BY OutboxAssumption DEF Complete, OutboxInv, TypeOK, InHand, Worker
<1>2. Outcome(w) \in DeliveryStatus
  BY DEF Outcome, DeliveryStatus
<1>3. Outcome(w) = "RETRY_SCHEDULED" => worker[w].attempt \in 1..MaxAttempts
  BY <1>1, OutboxAssumption DEF Outcome, Dead
<1>4. document \in DeliveryDocument /\ document.status = Outcome(w)
  <2>1. Outcome(w) = "RETRY_SCHEDULED" => Backoff[worker[w].attempt] - worker[w].age \in Int
    BY <1>1, <1>3, OutboxAssumption
  <2>2. delivery[d] \in DeliveryDocument
    BY <1>1 DEF OutboxInv, TypeOK
  <2> DEFINE wait == IF Outcome(w) = "RETRY_SCHEDULED" THEN Backoff[worker[w].attempt] - worker[w].age ELSE 0
  <2>3. wait \in Int
    BY <2>1
  <2>4. document = [delivery[d] EXCEPT !.status = Outcome(w), !.wait = wait]
    BY DEF WithOutcome
  <2> HIDE DEF d, wait, document
  <2> QED
    BY <1>2, <2>2, <2>3, <2>4 DEF DeliveryDocument
<1>5. progress \in Worker /\ progress.phase = "looking"
  BY IdleIsWorker DEF Worker, OutboxInv, TypeOK, Idle
<1>6. Outcome(w) = "DELIVERED" => d \in accepted
  BY DEF Outcome, Complete, OutboxInv, InHand
<1>7. worker' = [worker EXCEPT ![w] = progress]
  BY DEF Complete
<1>8. \/ delivery' = delivery
      \/ delivery[d].status = "PROCESSING" /\ delivery' = [delivery EXCEPT ![d] = document]
  BY DEF Complete, Completable
<1> HIDE DEF d, document, progress
<1>9. TypeOK'
  BY <1>1, <1>4, <1>5, <1>7, <1>8 DEF OutboxInv, TypeOK, Complete
<1>10. InHand'
  BY <1>5, <1>7 DEF OutboxInv, TypeOK, InHand, Complete
<1>11. CreatedTogether'
  BY <1>1, <1>4, <1>8 DEF OutboxInv, TypeOK, CreatedTogether, Complete
<1>12. DeliveredWasAccepted'
  BY <1>1, <1>4, <1>6, <1>8 DEF OutboxInv, TypeOK, DeliveredWasAccepted, Complete
<1> QED
  BY <1>9, <1>10, <1>11, <1>12 DEF OutboxInv

LEMMA WorkerSafe ==
  ASSUME OutboxInv, NEW w \in Workers, WorkerStep(w)
  PROVE  OutboxInv'
<1>1. CASE BeginBatch(w)
  <2>0. BatchLimit \in 0..BatchLimit
    BY OutboxAssumption
  <2>1. [Idle EXCEPT !.phase = "looking", !.left = BatchLimit] \in Worker
    BY <2>0, IdleIsWorker DEF Worker
  <2>2. TypeOK'
    BY <1>1, <2>1 DEF BeginBatch, OutboxInv, TypeOK
  <2> QED
    BY <1>1, <2>2 DEF BeginBatch, Idle, OutboxInv, TypeOK, InHand, CreatedTogether, DeliveredWasAccepted
<1>2. CASE EndBatch(w)
  <2>1. TypeOK'
    BY <1>2, IdleIsWorker DEF EndBatch, OutboxInv, TypeOK
  <2> QED
    BY <1>2, <2>1 DEF EndBatch, Idle, OutboxInv, TypeOK, InHand, CreatedTogether, DeliveredWasAccepted
<1>3. CASE NoRecipient(w) \/ Sent(w) \/ SendFails(w) \/ SendRejected(w)
  <2>1. {"sent", "recipient_unavailable", "provider_unavailable", "provider_rejected"} \subseteq Answers
    BY DEF Answers
  <2> QED
    BY <1>3, <2>1, AnswerSafe DEF NoRecipient, Sent, SendFails, SendRejected, Sending
<1>4. CASE InvalidateDevices(w)
  <2>1. [worker[w] EXCEPT !.invalid = {}] \in Worker
    BY DEF OutboxInv, TypeOK, Worker
  <2>2. \A i \in Devices : [device[i] EXCEPT !.active = FALSE] \in DeviceDocument
    BY DEF OutboxInv, TypeOK, DeviceDocument
  <2>3. TypeOK'
    BY <1>4, <2>1, <2>2 DEF InvalidateDevices, OutboxInv, TypeOK
  <2> QED
    BY <1>4, <2>3 DEF InvalidateDevices, OutboxInv, TypeOK, Worker, InHand, CreatedTogether,
       DeliveredWasAccepted
<1>5. CASE ResultLost(w)
  <2>1. [worker[w] EXCEPT !.answer = "provider_unavailable", !.invalid = {}] \in Worker
    BY DEF OutboxInv, TypeOK, Worker, Answers
  <2>2. TypeOK'
    BY <1>5, <2>1 DEF ResultLost, OutboxInv, TypeOK
  <2> QED
    BY <1>5, <2>2 DEF ResultLost, OutboxInv, TypeOK, Worker, InHand, CreatedTogether,
       DeliveredWasAccepted
<1> QED
  BY <1>1, <1>2, <1>3, <1>4, <1>5, ClaimSafe, CompleteSafe DEF WorkerStep

-----------------------------------------------------------------------------
(* Theorems                                                                *)

LEMMA OutboxInvariant == Spec => []OutboxInv
<1>1. Init => OutboxInv
  <2>1. [status |-> "ABSENT", attempts |-> 0, wait |-> 0] \in DeliveryDocument
    BY DEF DeliveryDocument, DeliveryStatus
  <2>2. [active |-> FALSE, token |-> "none", key |-> "none"] \in DeviceDocument
    BY DEF DeviceDocument
  <2>3. [optional |-> TRUE, channels |-> {}] \in Consent
    BY DEF Consent
  <2>4. NoRequest \in Request
    BY DEF NoRequest, Request
  <2>5. Init => TypeOK
    BY <2>1, <2>2, <2>3, <2>4, IdleIsWorker DEF Init, TypeOK
  <2> QED
    BY <2>5 DEF Init, Idle, OutboxInv, InHand, CreatedTogether, DeliveredWasAccepted
<1>2. OutboxInv /\ [Next]_vars => OutboxInv'
  <2> SUFFICES ASSUME OutboxInv, [Next]_vars PROVE OutboxInv'
    OBVIOUS
  <2>1. CASE UNCHANGED vars
    BY <2>1 DEF vars, OutboxInv, TypeOK, InHand, CreatedTogether, DeliveredWasAccepted
  <2> QED
    BY <2>1, RecipientSafe, EnvironmentSafe, WorkerSafe DEF Next
<1> QED
  BY <1>1, <1>2, PTL DEF Spec

(* Documents and workers stay within their schemas, whatever the lease and *)
(* the length of a batch.                                                  *)
THEOREM TypeCorrect == Spec => []TypeOK
BY OutboxInvariant, PTL DEF OutboxInv

(* A record says DELIVERED only if a provider took its message, with any   *)
(* number of workers whose leases overlap.                                 *)
THEOREM DeliveriesAreHonest == Spec => []DeliveredWasAccepted
BY OutboxInvariant, PTL DEF OutboxInv

(* A record that was delivered, suppressed or given up is never touched    *)
(* again.                                                                  *)
THEOREM OutcomesAreFinal == Spec => OutcomeIsFinal
<1> DEFINE Kept == \A d \in Deliveries : delivery[d].status \in Settled => delivery'[d] = delivery[d]
<1>1. ASSUME OutboxInv, Next PROVE Kept
  <2> SUFFICES ASSUME NEW d \in Deliveries, delivery[d].status \in Settled
               PROVE  delivery'[d] = delivery[d]
    OBVIOUS
  <2>1. delivery \in [Deliveries -> DeliveryDocument]
    BY <1>1 DEF OutboxInv, TypeOK
  <2>2. ASSUME NEW n \in Notices, CreateCustomerNotification(n) PROVE delivery'[d] = delivery[d]
    BY <1>1, <2>1, <2>2 DEF CreateCustomerNotification, OutboxInv, CreatedTogether, Settled
  <2>3. ASSUME NEW w \in Workers, NEW e \in Deliveries, ClaimOne(w, e) PROVE delivery'[d] = delivery[d]
    BY <2>1, <2>3 DEF ClaimOne, Due, Settled
  <2>4. ASSUME NEW w \in Workers, Complete(w) PROVE delivery'[d] = delivery[d]
    BY <2>1, <2>4 DEF Complete, Completable, Settled
  <2>5. CASE Tick
    BY <2>1, <2>5 DEF Tick
  <2>6. CASE UNCHANGED delivery
    BY <2>6
  <2> QED
    BY <1>1, <2>2, <2>3, <2>4, <2>5, <2>6 DEF Next, WorkerStep, UpdatePreferences, RegisterPushDevice,
       BeginRegistration, ReadDevice, SaveDevice, FailRegistration, RevokePushDevice, BeginBatch, EndBatch, NoRecipient, Sent, SendFails, SendRejected, Sending,
       Answer, InvalidateDevices, ResultLost, Crash, AccountStatusChanges, RetireToken
<1>2. OutboxInv /\ [Next]_vars => [Kept]_vars
  BY <1>1
<1> QED
  BY <1>2, OutboxInvariant, PTL DEF Spec, OutcomeIsFinal

-----------------------------------------------------------------------------
(* What a worker was told of a token stays true while it holds the report: *)
(* a token that is no longer served is never served again.                 *)
ReportsAreTrue == \A w \in Workers : worker[w].invalid \subseteq retired

LEMMA ReportSafe ==
  ASSUME TypeOK, ReportsAreTrue, [Next]_vars
  PROVE  ReportsAreTrue'
<1>1. worker \in [Workers -> Worker]
  BY DEF TypeOK
<1>2. retired \subseteq retired'
  BY DEF Next, vars, CreateCustomerNotification, UpdatePreferences, RegisterPushDevice,
     BeginRegistration, ReadDevice, SaveDevice, FailRegistration, RevokePushDevice, WorkerStep, BeginBatch, EndBatch, ClaimOne, NoRecipient, Sent, SendFails,
     SendRejected, Sending, Answer, InvalidateDevices, ResultLost, Complete, Crash, Tick,
     AccountStatusChanges, RetireToken
<1>3. ASSUME NEW w \in Workers, NEW progress, worker' = [worker EXCEPT ![w] = progress],
             progress.invalid \subseteq retired
      PROVE  ReportsAreTrue'
  BY <1>1, <1>2, <1>3 DEF ReportsAreTrue
<1>4. CASE worker' = worker
  BY <1>2, <1>4 DEF ReportsAreTrue
<1>5. CASE Tick
  BY <1>1, <1>2, <1>5 DEF Tick, Worker, ReportsAreTrue
<1>6. ASSUME NEW w \in Workers, WorkerStep(w) \/ Crash(w) PROVE ReportsAreTrue'
  <2>1. worker[w] \in Worker /\ worker[w].invalid \subseteq retired
    BY <1>1 DEF ReportsAreTrue
  <2>2. CASE BeginBatch(w) \/ EndBatch(w) \/ Crash(w)
    <3>1. /\ Idle.invalid = {}
          /\ [Idle EXCEPT !.phase = "looking", !.left = BatchLimit].invalid = {}
      BY DEF Idle
    <3>2. CASE EndBatch(w) \/ Crash(w)
      BY <1>3, <3>1, <3>2 DEF EndBatch, Crash
    <3> DEFINE progress == [Idle EXCEPT !.phase = "looking", !.left = BatchLimit]
    <3>3. CASE BeginBatch(w)
      <4>1. worker' = [worker EXCEPT ![w] = progress]
        BY <3>3 DEF BeginBatch
      <4>2. progress.invalid \subseteq retired
        BY <3>1
      <4> HIDE DEF progress
      <4> QED
        BY <1>3, <4>1, <4>2
    <3> QED
      BY <2>2, <3>2, <3>3
  <2>3. CASE Complete(w)
    <3> DEFINE age == worker[w].age
               left == worker[w].left
               progress == [Idle EXCEPT !.phase = "looking", !.age = age, !.left = left]
    <3>1. worker' = [worker EXCEPT ![w] = progress]
      BY <2>3 DEF Complete
    <3> HIDE DEF age, left
    <3>2. progress.invalid = {}
      BY DEF Idle
    <3> HIDE DEF progress
    <3> QED
      BY <1>3, <3>1, <3>2
  <2>4. ASSUME NEW d \in Deliveries, ClaimOne(w, d) PROVE ReportsAreTrue'
    <3> DEFINE n == delivery[d].attempts + 1
               left == worker[w].left - 1
               progress == [worker[w] EXCEPT !.phase = "claimed", !.left = left, !.job = d,
                                             !.attempt = n]
    <3>1. worker' = [worker EXCEPT ![w] = progress]
      BY <2>4 DEF ClaimOne
    <3> HIDE DEF n, left
    <3>2. progress.invalid = worker[w].invalid
      BY <2>1 DEF Worker
    <3> HIDE DEF progress
    <3> QED
      BY <1>3, <2>1, <3>1, <3>2
  <2>5. ASSUME NEW answer, NEW taken, Answer(w, answer, taken) PROVE ReportsAreTrue'
    <3> DEFINE told == IF answer = "sent" /\ worker[w].job[2] = "push"
                         THEN ActiveTokens \cap retired ELSE {}
               progress == [worker[w] EXCEPT !.phase = "answered", !.answer = answer,
                                             !.invalid = told]
    <3>1. worker' = [worker EXCEPT ![w] = progress]
      BY <2>5 DEF Answer
    <3>2. told \subseteq retired
      OBVIOUS
    <3> HIDE DEF told
    <3>3. progress.invalid = told
      BY <2>1 DEF Worker
    <3> HIDE DEF progress
    <3> QED
      BY <1>3, <3>1, <3>2, <3>3
  <2>6. CASE InvalidateDevices(w)
    <3> DEFINE progress == [worker[w] EXCEPT !.invalid = {}]
    <3>1. worker' = [worker EXCEPT ![w] = progress] /\ progress.invalid = {}
      BY <2>1, <2>6 DEF InvalidateDevices, Worker
    <3> HIDE DEF progress
    <3> QED
      BY <1>3, <3>1
  <2>7. CASE ResultLost(w)
    <3> DEFINE progress == [worker[w] EXCEPT !.answer = "provider_unavailable", !.invalid = {}]
    <3>1. worker' = [worker EXCEPT ![w] = progress] /\ progress.invalid = {}
      BY <2>1, <2>7 DEF ResultLost, Worker
    <3> HIDE DEF progress
    <3> QED
      BY <1>3, <3>1
  <2> QED
    BY <1>6, <2>2, <2>3, <2>4, <2>5, <2>6, <2>7 DEF WorkerStep, NoRecipient, Sent, SendFails, SendRejected
<1>7. CASE \/ \E n \in Notices : CreateCustomerNotification(n)
           \/ \E choice \in Choices : UpdatePreferences(choice)
           \/ \E q \in Registrations : RegisterPushDevice(q)
           \/ \E i \in Devices : RevokePushDevice(i)
           \/ AccountStatusChanges
           \/ \E t \in Tokens : RetireToken(t)
  BY <1>4, <1>7 DEF CreateCustomerNotification, UpdatePreferences, RegisterPushDevice,
     BeginRegistration, ReadDevice, SaveDevice, FailRegistration, RevokePushDevice, AccountStatusChanges, RetireToken
<1> QED
  BY <1>4, <1>5, <1>6, <1>7 DEF Next, vars

(* A report may come back after the installation was registered again, and *)
(* a registration may save what it read before: an installation that is on *)
(* with a token still served is switched off by its owner alone, whatever  *)
(* registrations, revocations and batches came in between.                 *)
THEOREM TokensAreSpared == Spec => ServedTokenStaysOn
<1> DEFINE Spared == \A i \in Devices :
                       device[i].active /\ device[i].token \notin retired
                         => device'[i].active \/ RevokePushDevice(i)
<1>1. Init => ReportsAreTrue
  BY DEF Init, Idle, ReportsAreTrue
<1>2. OutboxInv /\ ReportsAreTrue /\ [Next]_vars => ReportsAreTrue'
  BY ReportSafe DEF OutboxInv
<1>3. OutboxInv /\ ReportsAreTrue /\ Next => Spared
  <2> SUFFICES ASSUME OutboxInv, ReportsAreTrue, Next, NEW i \in Devices,
                      device[i].active, device[i].token \notin retired
               PROVE  device'[i].active \/ RevokePushDevice(i)
    OBVIOUS
  <2>0. device \in [Devices -> DeviceDocument]
    BY DEF OutboxInv, TypeOK
  <2>1. ASSUME NEW w \in Workers, InvalidateDevices(w) PROVE device'[i].active
    <3>1. i \notin InvalidatedBy(w)
      BY DEF ReportsAreTrue, InvalidatedBy
    <3> QED
      BY <2>1, <3>1 DEF InvalidateDevices
  <2>2. ASSUME NEW q \in Registrations, SaveDevice(q) PROVE device'[i].active
    <3>1. CASE i = DeviceOf[q]
      BY <2>0, <2>2, <3>1 DEF SaveDevice, SavedDevice
    <3>2. CASE i # DeviceOf[q]
      BY <2>0, <2>2, <3>2 DEF SaveDevice
    <3> QED
      BY <3>1, <3>2
  <2>3. ASSUME NEW j \in Devices, RevokePushDevice(j)
        PROVE  device'[i].active \/ RevokePushDevice(i)
    BY <2>0, <2>3 DEF RevokePushDevice
  <2>4. CASE UNCHANGED device
    BY <2>4
  <2> QED
    BY <2>1, <2>2, <2>3, <2>4 DEF Next, WorkerStep, CreateCustomerNotification, UpdatePreferences,
       RegisterPushDevice, BeginRegistration, ReadDevice, FailRegistration, BeginBatch, EndBatch,
       ClaimOne, NoRecipient, Sent, SendFails, SendRejected, Sending, Answer, ResultLost, Complete,
       Crash, Tick, AccountStatusChanges, RetireToken
<1>4. OutboxInv /\ ReportsAreTrue /\ [Next]_vars => [Spared]_vars
  BY <1>3
<1> QED
  BY <1>1, <1>2, <1>4, OutboxInvariant, PTL DEF Spec, ServedTokenStaysOn
=============================================================================
