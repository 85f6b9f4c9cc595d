------------------------- MODULE NotificationOutbox -------------------------
(***************************************************************************)
(* The notification outbox: notices and their delivery records are written *)
(* in one transaction; worker processes (pnpm notification:process) claim  *)
(* records with a lease, call a provider and write the outcome back.       *)
(*                                                                         *)
(* A worker computes its "now" once per batch, so leases and retry times   *)
(* it writes are counted from the start of the batch.  Time is a number of *)
(* ticks, kept relative to the present: wait is how far in the future the  *)
(* nextAttemptAt (or lockedUntil) of a record lies, age how far in the     *)
(* past the "now" of a batch lies.  A wait is not followed below -MaxAge,  *)
(* which no batch can tell from -MaxAge.                                   *)
(*                                                                         *)
(* An operator named X_Bug is a plausible bug in X, kept beside it to show *)
(* that a property would catch it; nothing uses it.                        *)
(***************************************************************************)
EXTENDS Integers, FiniteSets

CONSTANTS
  Notices,       \* notices that may be raised, by event key
  Mandatory,     \* those of a security, payment or order event
  Choices,       \* preferences the recipient may set
  Workers,       \* worker processes
  Devices,       \* push installations of the recipient
  Tokens,        \* push tokens
  Registrations, \* registration requests
  Keys,          \* idempotency keys
  KeyOf,         \* KeyOf[q]: the Idempotency-Key of request q
  DeviceOf,      \* DeviceOf[q]: the installation request q registers
  TokenOf,       \* TokenOf[q]: the token it carries
  MaxAttempts,   \* MAX_ATTEMPTS
  LockSpan,      \* LOCK_MS, in ticks
  Backoff,       \* Backoff[a]: the delay after attempt a, in ticks
  BatchLimit,    \* records a worker may claim in one batch
  MaxAge,        \* bound on the length of a batch, in ticks
  MaxCrashes     \* bound on the number of workers that die

Channels == {"email", "push"}
Consent == [optional : BOOLEAN, channels : SUBSET Channels]

ASSUME OutboxAssumption ==
  /\ Mandatory \subseteq Notices /\ Choices \subseteq Consent
  /\ DeviceOf \in [Registrations -> Devices] /\ TokenOf \in [Registrations -> Tokens]
  /\ KeyOf \in [Registrations -> Keys]
  /\ MaxAttempts \in Nat \ {0} /\ LockSpan \in Nat \ {0}
  /\ Backoff \in [1..MaxAttempts -> Nat]
  /\ BatchLimit \in Nat /\ MaxAge \in Nat /\ MaxCrashes \in Nat

VARIABLES
  inbox,     \* notices created
  consent,   \* NotificationPreference of the recipient
  delivery,  \* NotificationDelivery documents
  device,    \* PushDevice documents
  registering, \* registration requests under way, with what they read
  active,    \* whether the recipient's account is ACTIVE
  worker,    \* worker processes
  accepted,  \* deliveries a provider accepted
  retired,   \* tokens the push provider no longer serves
  crashes    \* number of workers that died

vars == <<inbox, consent, delivery, device, registering, active, worker, accepted, retired, crashes>>

Deliveries == Notices \X Channels
NoJob == <<"none", "none">>

DeliveryStatus ==
  {"ABSENT", "PENDING", "PROCESSING", "RETRY_SCHEDULED", "DELIVERED", "SUPPRESSED", "DEAD_LETTER"}
Settled == {"DELIVERED", "SUPPRESSED", "DEAD_LETTER"}

DeliveryDocument == [status : DeliveryStatus, attempts : Nat, wait : Int]

DeviceDocument ==
  [active : BOOLEAN, token : Tokens \cup {"none"}, key : Keys \cup {"none"}]

\* Whether the request found its installation, active and carrying its key.
Request == [step : {"idle", "asked", "read"}, exists : BOOLEAN, active : BOOLEAN, keyed : BOOLEAN]
NoRequest == [step |-> "idle", exists |-> FALSE, active |-> FALSE, keyed |-> FALSE]

\* What a worker learns from a provider; "recipient_unavailable" is the null result.
Answers == {"none", "sent", "recipient_unavailable", "provider_unavailable", "provider_rejected"}

Worker ==
  [phase : {"idle", "looking", "claimed", "answered"}, age : 0..MaxAge, left : 0..BatchLimit,
   job : Deliveries \cup {NoJob}, attempt : Nat, answer : Answers, invalid : SUBSET Tokens]

Idle == [phase |-> "idle", age |-> 0, left |-> 0, job |-> NoJob, attempt |-> 0,
         answer |-> "none", invalid |-> {}]

Init ==
  /\ inbox = {}
  /\ consent = [optional |-> TRUE, channels |-> {}]
  /\ delivery = [d \in Deliveries |-> [status |-> "ABSENT", attempts |-> 0, wait |-> 0]]
  /\ device = [i \in Devices |-> [active |-> FALSE, token |-> "none", key |-> "none"]]
  /\ registering = [q \in Registrations |-> NoRequest]
  /\ active = TRUE
  /\ worker = [w \in Workers |-> Idle]
  /\ accepted = {}
  /\ retired = {}
  /\ crashes = 0

-----------------------------------------------------------------------------
(* Notices and preferences                                                 *)

ChannelsFor(n) == IF n \in Mandatory THEN Channels ELSE consent.channels

(* A replayed event key finds the notice and changes nothing; an optional  *)
(* notice without consent creates neither record.                          *)
CreateCustomerNotification(n) ==
  /\ n \notin inbox
  /\ n \in Mandatory \/ consent.optional
  /\ inbox' = inbox \cup {n}
  /\ delivery' = [d \in Deliveries |->
       IF d[1] = n /\ d[2] \in ChannelsFor(n)
         THEN [delivery[d] EXCEPT !.status = "PENDING"] ELSE delivery[d]]
  /\ UNCHANGED <<consent, device, registering, active, worker, accepted, retired, crashes>>

UpdatePreferences(choice) ==
  /\ consent' = choice
  /\ UNCHANGED <<inbox, delivery, device, registering, active, worker, accepted, retired, crashes>>

-----------------------------------------------------------------------------
(* Push devices                                                            *)

(* A registration is no transaction: it looks its key up, then reads the   *)
(* installation, then saves.  A key some device still carries is a replay  *)
(* and changes nothing.                                                    *)
BeginRegistration(q) ==
  /\ registering[q].step = "idle"
  /\ \A i \in Devices : device[i].key # KeyOf[q]
  /\ registering' = [registering EXCEPT ![q].step = "asked"]
  /\ UNCHANGED <<inbox, consent, delivery, device, active, worker, accepted, retired, crashes>>

ReadDevice(q) ==
  LET doc == device[DeviceOf[q]] IN
  /\ registering[q].step = "asked"
  /\ registering' = [registering EXCEPT ![q] =
       [step |-> "read", exists |-> doc.token # "none", active |-> doc.active,
        keyed |-> doc.key = KeyOf[q]]]
  /\ UNCHANGED <<inbox, consent, delivery, device, active, worker, accepted, retired, crashes>>

(* The three unique indexes: push_owner_device against a second insert,    *)
(* push_token_digest, and push_registration_idempotency when the key is    *)
(* written.                                                                *)
Savable(q) ==
  /\ registering[q].exists \/ device[DeviceOf[q]].token = "none"
  /\ \A i \in Devices \ {DeviceOf[q]} :
       /\ device[i].token # TokenOf[q]
       /\ registering[q].keyed \/ device[i].key # KeyOf[q]

(* A save writes the paths that differ from what was read.  The token was  *)
(* not selected and is always written; active is written only if it was    *)
(* read as false, so an installation switched off since stays so.          *)
SavedDevice(q) ==
  [active |-> registering[q].active => device[DeviceOf[q]].active,
   token |-> TokenOf[q],
   key |-> IF registering[q].keyed THEN device[DeviceOf[q]].key ELSE KeyOf[q]]

SaveDevice(q) ==
  /\ registering[q].step = "read" /\ Savable(q)
  /\ device' = [device EXCEPT ![DeviceOf[q]] = SavedDevice(q)]
  /\ registering' = [registering EXCEPT ![q] = NoRequest]
  /\ UNCHANGED <<inbox, consent, delivery, active, worker, accepted, retired, crashes>>

(* An index refuses the save, or the server dies before it.                *)
FailRegistration(q) ==
  /\ registering[q].step # "idle"
  /\ registering' = [registering EXCEPT ![q] = NoRequest]
  /\ UNCHANGED <<inbox, consent, delivery, device, active, worker, accepted, retired, crashes>>

RegisterPushDevice(q) ==
  BeginRegistration(q) \/ ReadDevice(q) \/ SaveDevice(q) \/ FailRegistration(q)

RevokePushDevice(i) ==
  /\ device[i].active
  /\ device' = [device EXCEPT ![i] = [@ EXCEPT !.active = FALSE]]
  /\ UNCHANGED <<inbox, consent, delivery, registering, active, worker, accepted, retired, crashes>>

-----------------------------------------------------------------------------
(* The worker                                                              *)

BeginBatch(w) ==
  /\ worker[w].phase = "idle"
  /\ worker' = [worker EXCEPT ![w] = [Idle EXCEPT !.phase = "looking", !.left = BatchLimit]]
  /\ UNCHANGED <<inbox, consent, delivery, device, registering, active, accepted, retired, crashes>>

Due_Bug(d, w) ==   \* a claim is never taken over
  delivery[d].status \in {"PENDING", "RETRY_SCHEDULED"} /\ delivery[d].wait <= -worker[w].age

\* the filter of claimOne: nextAttemptAt or lockedUntil at or before the batch's now
Due(d, w) ==
  /\ delivery[d].status \in {"PENDING", "RETRY_SCHEDULED", "PROCESSING"}
  /\ delivery[d].wait <= -worker[w].age

(* The code takes the oldest record that is due; here any of them.         *)
ClaimOne(w, d) ==
  /\ worker[w].phase = "looking" /\ worker[w].left > 0
  /\ Due(d, w)
  /\ delivery' = [delivery EXCEPT ![d] =
       [status |-> "PROCESSING", attempts |-> delivery[d].attempts + 1,
        wait |-> LockSpan - worker[w].age]]
  /\ worker' = [worker EXCEPT ![w] =
       [@ EXCEPT !.phase = "claimed", !.left = worker[w].left - 1, !.job = d,
                 !.attempt = delivery[d].attempts + 1]]
  /\ UNCHANGED <<inbox, consent, device, registering, active, accepted, retired, crashes>>

EndBatch(w) ==
  /\ worker[w].phase = "looking"
  /\ worker[w].left = 0 \/ \A d \in Deliveries : ~Due(d, w)
  /\ worker' = [worker EXCEPT ![w] = Idle]
  /\ UNCHANGED <<inbox, consent, delivery, device, registering, active, accepted, retired, crashes>>

ActiveTokens == {device[i].token : i \in {j \in Devices : device[j].active}}

Reachable(d) == IF d[2] = "email" THEN active ELSE ActiveTokens # {}

(* The provider's answer.  It may have accepted a message whose answer was *)
(* lost or timed out.                                                      *)
Answer(w, answer, taken) ==
  /\ worker' = [worker EXCEPT ![w] = [@ EXCEPT !.phase = "answered", !.answer = answer,
       !.invalid = IF answer = "sent" /\ worker[w].job[2] = "push"
                     THEN ActiveTokens \cap retired ELSE {}]]
  /\ accepted' = IF taken THEN accepted \cup {worker[w].job} ELSE accepted
  /\ UNCHANGED <<inbox, consent, delivery, device, registering, active, retired, crashes>>

Claimed(w) == worker[w].phase = "claimed"
Sending(w) == Claimed(w) /\ Reachable(worker[w].job)

NoRecipient(w) ==
  Claimed(w) /\ ~Reachable(worker[w].job) /\ Answer(w, "recipient_unavailable", FALSE)
Sent(w) == Sending(w) /\ Answer(w, "sent", TRUE)

(* A lookup before the call, or the call itself, fails.                    *)
SendFails(w) ==
  /\ Claimed(w)
  /\ \E taken \in BOOLEAN :
       (taken => Reachable(worker[w].job)) /\ Answer(w, "provider_unavailable", taken)

SendRejected(w) == Sending(w) /\ Answer(w, "provider_rejected", FALSE)

InvalidatedBy_Bug(w) == {i \in Devices : device[i].active}

(* Devices are found again by the digest of the token that was reported.   *)
InvalidatedBy(w) == {i \in Devices : device[i].active /\ device[i].token \in worker[w].invalid}

InvalidateDevices(w) ==
  /\ worker[w].phase = "answered" /\ worker[w].invalid # {}
  /\ device' = [i \in Devices |->
       IF i \in InvalidatedBy(w) THEN [device[i] EXCEPT !.active = FALSE] ELSE device[i]]
  /\ worker' = [worker EXCEPT ![w] = [@ EXCEPT !.invalid = {}]]
  /\ UNCHANGED <<inbox, consent, delivery, registering, active, accepted, retired, crashes>>

(* Writing a result fails inside the try block: the catch block takes over *)
(* and the delivery counts as unavailable.                                 *)
ResultLost(w) ==
  /\ worker[w].phase = "answered" /\ worker[w].answer \in {"sent", "recipient_unavailable"}
  /\ worker' = [worker EXCEPT ![w] = [@ EXCEPT !.answer = "provider_unavailable", !.invalid = {}]]
  /\ UNCHANGED <<inbox, consent, delivery, device, registering, active, accepted, retired, crashes>>

Dead(w) == worker[w].answer = "provider_rejected" \/ worker[w].attempt >= MaxAttempts

OutcomeUnlisted_Bug(w) ==   \* updateOne does not validate against the schema
  CASE worker[w].answer = "sent" -> "DELIVERED"
    [] worker[w].answer = "recipient_unavailable" -> "SUPPRESSED"
    [] OTHER -> IF Dead(w) THEN "EXHAUSTED" ELSE "RETRY_SCHEDULED"

Outcome_Bug(w) ==   \* the null result is taken for a success
  CASE worker[w].answer \in {"sent", "recipient_unavailable"} -> "DELIVERED"
    [] OTHER -> IF Dead(w) THEN "DEAD_LETTER" ELSE "RETRY_SCHEDULED"

Outcome(w) ==
  CASE worker[w].answer = "sent" -> "DELIVERED"
    [] worker[w].answer = "recipient_unavailable" -> "SUPPRESSED"
    [] OTHER -> IF Dead(w) THEN "DEAD_LETTER" ELSE "RETRY_SCHEDULED"

(* The outcome as a document; a retry is due Backoff after the batch's now. *)
WithOutcome(d, w) ==
  [delivery[d] EXCEPT
     !.status = Outcome(w),
     !.wait = IF Outcome(w) = "RETRY_SCHEDULED" THEN Backoff[worker[w].attempt] - worker[w].age ELSE 0]

Completable_Bug(d) == delivery[d].status # "PENDING"

\* the filter of the completing updates: whoever holds the record
Completable(d) == delivery[d].status = "PROCESSING"

Complete(w) ==
  /\ worker[w].phase = "answered" /\ worker[w].invalid = {}
  /\ delivery' = IF Completable(worker[w].job)
       THEN [delivery EXCEPT ![worker[w].job] = WithOutcome(worker[w].job, w)]
       ELSE delivery
  /\ worker' = [worker EXCEPT ![w] =
       [Idle EXCEPT !.phase = "looking", !.age = worker[w].age, !.left = worker[w].left]]
  /\ UNCHANGED <<inbox, consent, device, registering, active, accepted, retired, crashes>>

-----------------------------------------------------------------------------
(* The environment                                                         *)

Crash(w) ==
  /\ worker[w].phase # "idle"
  /\ crashes < MaxCrashes
  /\ crashes' = crashes + 1
  /\ worker' = [worker EXCEPT ![w] = Idle]
  /\ UNCHANGED <<inbox, consent, delivery, device, registering, active, accepted, retired>>

Elapsed(d) ==
  IF delivery[d].wait > -MaxAge THEN delivery[d].wait - 1 ELSE delivery[d].wait

Tick ==
  /\ \A w \in Workers : worker[w].phase # "idle" => worker[w].age < MaxAge
  /\ worker' = [w \in Workers |-> IF worker[w].phase = "idle" THEN worker[w]
                                  ELSE [worker[w] EXCEPT !.age = worker[w].age + 1]]
  /\ delivery' = [d \in Deliveries |->
       IF delivery[d].status \in Settled \cup {"ABSENT"} THEN delivery[d]
       ELSE [delivery[d] EXCEPT !.wait = Elapsed(d)]]
  /\ UNCHANGED <<inbox, consent, device, registering, active, accepted, retired, crashes>>

AccountStatusChanges ==
  /\ active' = ~active
  /\ UNCHANGED <<inbox, consent, delivery, device, registering, worker, accepted, retired, crashes>>

RetireToken(t) ==
  /\ retired' = retired \cup {t}
  /\ UNCHANGED <<inbox, consent, delivery, device, registering, active, worker, accepted, crashes>>

WorkerStep(w) ==
  \/ BeginBatch(w) \/ EndBatch(w)
  \/ \E d \in Deliveries : ClaimOne(w, d)
  \/ NoRecipient(w) \/ Sent(w) \/ SendFails(w) \/ SendRejected(w)
  \/ InvalidateDevices(w) \/ ResultLost(w) \/ Complete(w)

Next ==
  \/ \E n \in Notices : CreateCustomerNotification(n)
  \/ \E choice \in Choices : UpdatePreferences(choice)
  \/ \E q \in Registrations : RegisterPushDevice(q)
  \/ \E i \in Devices : RevokePushDevice(i)
  \/ \E w \in Workers : WorkerStep(w) \/ Crash(w)
  \/ Tick \/ AccountStatusChanges
  \/ \E t \in Tokens : RetireToken(t)

Spec == Init /\ [][Next]_vars

(* The job is started again and again, providers answer or time out, and   *)
(* clocks advance.  Nothing is assumed of the recipient.                   *)
Fairness == WF_vars(Tick) /\ \A w \in Workers : WF_vars(WorkerStep(w))

FairSpec == Spec /\ Fairness

-----------------------------------------------------------------------------
(* Properties                                                              *)

\* Documents and workers stay within their schemas.
TypeOK ==
  /\ inbox \subseteq Notices
  /\ consent \in Consent
  /\ delivery \in [Deliveries -> DeliveryDocument]
  /\ device \in [Devices -> DeviceDocument]
  /\ registering \in [Registrations -> Request]
  /\ active \in BOOLEAN
  /\ worker \in [Workers -> Worker]
  /\ accepted \subseteq Deliveries
  /\ retired \subseteq Tokens
  /\ crashes \in Nat

\* A delivered, suppressed or dead-lettered record stays as it is, whatever
\* a slow worker that lost its lease writes afterwards.
OutcomeIsFinal ==
  [][\A d \in Deliveries :
       delivery[d].status \in Settled => delivery'[d] = delivery[d]]_vars

\* A record says DELIVERED only if a provider took the message, even when
\* workers that held it at the same time learned different things.
DeliveredWasAccepted ==
  \A d \in Deliveries : delivery[d].status = "DELIVERED" => d \in accepted

\* Once saved as active, an installation whose token the provider still serves
\* is switched off by its owner alone: neither by a report about a token it had
\* before nor by a registration that read it earlier.  (A report applied between
\* the reading and the saving of a registration does leave the new token off:
\* the installation is then saved as inactive as it was found to be.)
ServedTokenStaysOn ==
  [][\A i \in Devices :
       device[i].active /\ device[i].token \notin retired
         => device'[i].active \/ RevokePushDevice(i)]_vars

\* Every record is delivered, suppressed or given up in the end, although
\* workers die with records in their hands.
DeliveriesSettle ==
  \A d \in Deliveries : (delivery[d].status = "PENDING") ~> (delivery[d].status \in Settled)

=============================================================================
