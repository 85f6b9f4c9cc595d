-------------------------- MODULE EvidenceAccess --------------------------
(***************************************************************************)
(* Who may attach, open and remove private evidence of one domain record:  *)
(* its owner for some categories, staff by their role, and on a repair by  *)
(* their duty and its present technician.  A download is checked, signed   *)
(* and audited one after the other while the technician changes and the    *)
(* evidence is removed, by its requesters or by the cleanup job for one of *)
(* them.  What becomes of the object is in EvidenceStore.                  *)
(***************************************************************************)
EXTENDS Naturals

CONSTANTS
  Accounts,  \* users and members of staff
  RoleOf,    \* RoleOf[a]: the role of account a
  Owner,     \* the customer the record belongs to
  Files      \* Evidence documents

ASSUME AccessAssumption == "none" \notin Accounts /\ Accounts \subseteq DOMAIN RoleOf

VARIABLES
  domain,      \* subjectType of the record
  technician,  \* the technician of the record, if it is a repair
  file,        \* Evidence documents
  opening,     \* downloads under way
  removing,    \* deletions under way
  cleanup,     \* createdBy of the FINALIZE_DELETION task of a file
  opened,      \* <<a, f>>: account a was given a signed URL of f
  trail,       \* the audit log
  assigned     \* technicians the record was ever assigned to

evidenceAccessVars ==
  <<domain, technician, file, opening, removing, cleanup, opened, trail, assigned>>

Managers == {"ops_manager", "super_admin"}

DomainConfig ==
  [order |->
     [purposes |-> {"order_receipt", "dispatch", "handover"},
      customer |-> {"order_receipt", "dispatch", "handover"},
      staff    |-> Managers \cup {"store_operator", "finance_officer"}],
   repair |->
     [purposes |-> {"repair_intake", "custody", "qc", "handover", "warranty"},
      customer |-> {"repair_intake", "warranty"},
      staff    |-> Managers \cup {"store_operator", "technician", "qc_officer"}],
   claim |->
     [purposes |-> {"warranty"}, customer |-> {"warranty"},
      staff    |-> Managers \cup {"support_officer"}],
   return_request |->
     [purposes |-> {"return"}, customer |-> {"return"},
      staff    |-> Managers \cup {"store_operator", "support_officer"}],
   support_ticket |->
     [purposes |-> {"support"}, customer |-> {"support"},
      staff    |-> Managers \cup {"support_officer"}],
   procurement_request |->
     [purposes |-> {"procurement"}, customer |-> {"procurement"},
      staff    |-> Managers \cup {"sales_advisor"}],
   procurement_quotation |->
     [purposes |-> {"procurement"}, customer |-> {},
      staff    |-> Managers \cup {"sales_advisor"}],
   service_request |->
     [purposes |-> {"service"}, customer |-> {"service"},
      staff    |-> Managers \cup {"technician", "sales_advisor"}],
   purchase_order |->
     [purposes |-> {"procurement"}, customer |-> {},
      staff    |-> Managers \cup {"inventory_officer"}]]

Purposes == UNION {DomainConfig[d].purposes : d \in DOMAIN DomainConfig}

(* Evidence.purpose: the schema lists every category but dispatch.         *)
StorablePurposes == Purposes \ {"dispatch"}

FileState == {"absent", "put", "ACTIVE", "DELETE_PENDING", "DELETED"}
NoFile == [state |-> "absent", purpose |-> "none", uploader |-> "none"]
EvidenceDocument ==
  [state : FileState \ {"absent"}, purpose : Purposes, uploader : Accounts] \cup {NoFile}

Actions ==
  {"EVIDENCE_UPLOADED", "EVIDENCE_DOWNLOAD_AUTHORIZED", "EVIDENCE_DELETE_REQUESTED",
   "EVIDENCE_DELETED", "EVIDENCE_CLEANUP_COMPLETED"}
Opening == [by : Accounts, file : Files, step : {"authorized", "signed"}]
Deletion == [by : Accounts, file : Files, step : {"found", "marked"}]
Technicians == {a \in Accounts : RoleOf[a] = "technician"}

EvidenceAccessInit ==
  /\ domain \in DOMAIN DomainConfig
  /\ technician = "none"
  /\ file = [f \in Files |-> NoFile]
  /\ opening = {} /\ removing = {} /\ cleanup = [f \in Files |-> "none"]
  /\ opened = {} /\ trail = {} /\ assigned = {}

-----------------------------------------------------------------------------
(* Permission                                                              *)

staffAllowedForRepair_Bug(a, purpose) == RoleOf[a] \in DomainConfig.repair.staff
staffAllowedForRepair(a, purpose) ==
  \/ RoleOf[a] \in Managers
  \/ RoleOf[a] = "technician" /\ technician = a /\ purpose \notin {"qc", "handover"}
  \/ RoleOf[a] = "qc_officer" /\ purpose = "qc"
  \/ RoleOf[a] = "store_operator" /\ purpose \in {"repair_intake", "custody", "handover"}

MayAccess(a, purpose) ==
  /\ purpose \in DomainConfig[domain].purposes
  /\ IF RoleOf[a] = "customer"
     THEN a = Owner /\ purpose \in DomainConfig[domain].customer
     ELSE IF domain = "repair" THEN staffAllowedForRepair(a, purpose)
                               ELSE RoleOf[a] \in DomainConfig[domain].staff

FoundBy(a, f) == file[f].state \notin {"absent", "put"} /\ MayAccess(a, file[f].purpose)

Logged(action, a, f) == trail' = trail \cup {[action |-> action, by |-> a, file |-> f]}

-----------------------------------------------------------------------------
(* Attaching                                                               *)

BeginUpload(a, f, purpose) ==
  /\ file[f].state = "absent" /\ MayAccess(a, purpose)
  /\ file' = [file EXCEPT ![f] =
               [state |-> "put", purpose |-> purpose, uploader |-> a]]
  /\ UNCHANGED <<domain, technician, opening, removing, cleanup, opened, trail, assigned>>

Storable_Bug(purpose) == purpose \in Purposes
Storable(purpose) == purpose \in StorablePurposes

(* Metadata and audit record commit together.                              *)
CommitUpload(f) ==
  /\ file[f].state = "put" /\ Storable(file[f].purpose)
  /\ file' = [file EXCEPT ![f].state = "ACTIVE"]
  /\ Logged("EVIDENCE_UPLOADED", file[f].uploader, f)
  /\ UNCHANGED <<domain, technician, opening, removing, cleanup, opened, assigned>>

(* The schema or the database refuses the document; the object is removed. *)
RefuseUpload(f) ==
  /\ file[f].state = "put"
  /\ file' = [file EXCEPT ![f] = NoFile]
  /\ UNCHANGED <<domain, technician, opening, removing, cleanup, opened, trail, assigned>>

-----------------------------------------------------------------------------
(* Opening                                                                 *)

BeginDownload(a, f) ==
  /\ FoundBy(a, f) /\ file[f].state = "ACTIVE"
  /\ opening' = opening \cup {[by |-> a, file |-> f, step |-> "authorized"]}
  /\ UNCHANGED <<domain, technician, file, removing, cleanup, opened, trail, assigned>>

SignDownload(o) ==
  /\ o.step = "authorized"
  /\ opening' = (opening \ {o}) \cup {[o EXCEPT !.step = "signed"]}
  /\ UNCHANGED <<domain, technician, file, removing, cleanup, opened, trail, assigned>>

DownloadRecord_Bug(o) == {}   \* the URL is returned and nothing is written
DownloadRecord(o) ==
  {[action |-> "EVIDENCE_DOWNLOAD_AUTHORIZED", by |-> o.by, file |-> o.file]}

(* Only a URL whose audit record was written is returned.                  *)
DownloadEvidence(o) ==
  /\ o.step = "signed"
  /\ trail' = trail \cup DownloadRecord(o)
  /\ opened' = opened \cup {<<o.by, o.file>>}
  /\ opening' = opening \ {o}
  /\ UNCHANGED <<domain, technician, file, removing, cleanup, assigned>>

(* The store cannot sign, the record is refused or the server dies; it may *)
(* die between the record and the answer.                                  *)
DownloadFails(o) ==
  /\ opening' = opening \ {o}
  /\ \/ trail' = trail
     \/ o.step = "signed" /\ trail' = trail \cup DownloadRecord(o)
  /\ UNCHANGED <<domain, technician, file, removing, cleanup, opened, assigned>>

-----------------------------------------------------------------------------
(* Removing, and the repair's technician                                   *)

BeginDelete(a, f) ==
  /\ FoundBy(a, f) /\ file[f].state # "DELETED"
  /\ removing' = removing \cup {[by |-> a, file |-> f, step |-> "found"]}
  /\ UNCHANGED <<domain, technician, file, opening, cleanup, opened, trail, assigned>>

(* updateOne filters on the state and nobody looks at what it matched.     *)
FileMoved(f, from, to) ==
  file' = IF file[f].state \in from THEN [file EXCEPT ![f].state = to] ELSE file

(* The document and the record commit together; a request that was         *)
(* overtaken is recorded all the same.                                     *)
MarkPending(d) ==
  /\ d.step = "found"
  /\ FileMoved(d.file, {"ACTIVE"}, "DELETE_PENDING")
  /\ Logged("EVIDENCE_DELETE_REQUESTED", d.by, d.file)
  /\ removing' = (removing \ {d}) \cup {[d EXCEPT !.step = "marked"]}
  /\ UNCHANGED <<domain, technician, opening, cleanup, opened, assigned>>

(* The object is gone: the second transaction.                             *)
FinalizeDelete(d) ==
  /\ d.step = "marked"
  /\ FileMoved(d.file, {"DELETE_PENDING"}, "DELETED")
  /\ Logged("EVIDENCE_DELETED", d.by, d.file)
  /\ removing' = removing \ {d}
  /\ UNCHANGED <<domain, technician, opening, cleanup, opened, assigned>>

(* The store or the second transaction failed.  Of several requests the    *)
(* first creates the task.                                                 *)
QueueCleanup(d) ==
  /\ d.step = "marked"
  /\ cleanup' = IF cleanup[d.file] = "none" THEN [cleanup EXCEPT ![d.file] = d.by] ELSE cleanup
  /\ removing' = removing \ {d}
  /\ UNCHANGED <<domain, technician, file, opening, opened, trail, assigned>>

(* A transaction is refused, nothing can be queued or the server dies.     *)
DeleteFails(d) ==
  /\ removing' = removing \ {d}
  /\ UNCHANGED <<domain, technician, file, opening, cleanup, opened, trail, assigned>>

CleanupRecord_Bug(f) == {}   \* the job completes the task and records nothing
CleanupRecord(f) ==
  {[action |-> "EVIDENCE_CLEANUP_COMPLETED", by |-> cleanup[f], file |-> f]}

(* The cleanup job, in the name of whoever created the task; two jobs may  *)
(* complete one task.  Its record names the task, which names the file.    *)
CompleteTask(f) ==
  /\ cleanup[f] # "none"
  /\ FileMoved(f, {"DELETE_PENDING", "ACTIVE"}, "DELETED")
  /\ trail' = trail \cup CleanupRecord(f)
  /\ UNCHANGED <<domain, technician, opening, removing, cleanup, opened, assigned>>

AssignTechnician(t) ==
  /\ domain = "repair"
  /\ technician' = t
  /\ assigned' = assigned \cup {t}
  /\ UNCHANGED <<domain, file, opening, removing, cleanup, opened, trail>>

EvidenceAccessStep ==
  \/ \E a \in Accounts, f \in Files :
       \/ \E purpose \in Purposes : BeginUpload(a, f, purpose)
       \/ BeginDownload(a, f)
       \/ BeginDelete(a, f)
  \/ \E f \in Files : CommitUpload(f) \/ RefuseUpload(f) \/ CompleteTask(f)
  \/ \E o \in opening : SignDownload(o) \/ DownloadEvidence(o) \/ DownloadFails(o)
  \/ \E d \in removing : MarkPending(d) \/ FinalizeDelete(d) \/ QueueCleanup(d) \/ DeleteFails(d)
  \/ \E t \in Technicians : AssignTechnician(t)

EvidenceAccessSpec == EvidenceAccessInit /\ [][EvidenceAccessStep]_evidenceAccessVars

-----------------------------------------------------------------------------
(* Properties                                                              *)

(* Evidence has the shape its schema gives it, and what was stored is of a *)
(* category both the schema and the record's domain list.                  *)
EvidenceAccessTypeOK ==
  /\ domain \in DOMAIN DomainConfig
  /\ technician \in Technicians \cup {"none"} /\ assigned \subseteq Technicians
  /\ file \in [Files -> EvidenceDocument]
  /\ \A f \in Files : file[f].state \notin {"absent", "put"} =>
       file[f].purpose \in StorablePurposes \cap DomainConfig[domain].purposes
  /\ opening \subseteq Opening /\ removing \subseteq Deletion
  /\ cleanup \in [Files -> Accounts \cup {"none"}]
  /\ opened \subseteq Accounts \X Files
  /\ trail \subseteq [action : Actions, by : Accounts, file : Files]

OnRecord(action, a, f) == [action |-> action, by |-> a, file |-> f] \in trail

(* downloadEvidence, uploadEvidence, deleteEvidence, completeTask: no URL  *)
(* is in anyone's hands and no evidence appears without a record of who    *)
(* did it; none is on its way out without the record of a request, and     *)
(* none is gone without the record that the request, or the cleanup job    *)
(* for it, was carried out, whatever fails on the way.                     *)
EveryAccessIsAudited ==
  /\ \A a \in Accounts, f \in Files :
       <<a, f>> \in opened => OnRecord("EVIDENCE_DOWNLOAD_AUTHORIZED", a, f)
  /\ \A f \in Files :
       /\ file[f].state \notin {"absent", "put"} =>
            OnRecord("EVIDENCE_UPLOADED", file[f].uploader, f)
       /\ file[f].state = "DELETE_PENDING" =>
            \E a \in Accounts : OnRecord("EVIDENCE_DELETE_REQUESTED", a, f)
       /\ file[f].state = "DELETED" =>
            \E a \in Accounts :
              /\ OnRecord("EVIDENCE_DELETE_REQUESTED", a, f)
              /\ \/ OnRecord("EVIDENCE_DELETED", a, f)
                 \/ OnRecord("EVIDENCE_CLEANUP_COMPLETED", a, f)

(* The duties on a repair, of its technicians past and present.            *)
OnDuty(a, purpose) ==
  \/ RoleOf[a] \in Managers
  \/ RoleOf[a] = "technician" /\ a \in assigned /\ purpose \notin {"qc", "handover"}
  \/ RoleOf[a] = "qc_officer" /\ purpose = "qc"
  \/ RoleOf[a] = "store_operator" /\ purpose \in {"repair_intake", "custody", "handover"}

(* staffAllowedForRepair: however often a repair changes hands and however *)
(* late a request is carried out, whoever attached, opened or removed its  *)
(* evidence, or had it removed by the cleanup job, is its owner with a     *)
(* category for customers or somebody whose duty it was: a technician who  *)
(* had the repair, the quality control for its own, the store for intake,  *)
(* custody and handover, a manager.                                        *)
DutiesStaySeparate ==
  domain = "repair" =>
    \A entry \in trail :
      LET purpose == file[entry.file].purpose IN
      IF RoleOf[entry.by] = "customer"
      THEN entry.by = Owner /\ purpose \in DomainConfig.repair.customer
      ELSE OnDuty(entry.by, purpose)

(* Whoever attached, holds or removed evidence was entitled to it and is   *)
(* on record for it.                                                       *)
AccessIsAccountable == EveryAccessIsAudited /\ DutiesStaySeparate
=============================================================================
