-------------------------- MODULE Operations_proofs --------------------------
(***************************************************************************)
(* The desks that share nothing but the database: private evidence, after  *)
(* the sale, services and maintenance plans, policies, the catalogue,      *)
(* secret links, staff accounts and guidance.  Each part is about one      *)
(* desk, for any number of its documents and of the requests that overtake *)
(* each other there: what a request has read before its transaction, and   *)
(* whether that is still so when it commits.                               *)
(***************************************************************************)
EXTENDS Operations, Shopping_proofs

(* A set that has at most one element.                                     *)
LEMMA AtMostOne ==
  ASSUME NEW S, \A x, y \in S : x = y
  PROVE  Cardinality(S) <= 1 /\ IsFiniteSet(S)
<1>1. CASE S = {}
  BY <1>1, FS_EmptySet
<1>2. CASE S # {}
  <2>1. PICK x \in S : TRUE
    BY <1>2
  <2>2. S = {x}
    BY <2>1
  <2> QED
    BY <2>2, FS_Singleton
<1> QED
  BY <1>1, <1>2

-----------------------------------------------------------------------------
(* Private evidence is attached, opened and removed by those who were      *)
(* entitled to it, and on record: for any accounts, roles and files,       *)
(* whatever the domain.                                                    *)
Stored(f) == file[f].state \notin {"absent", "put"}

(* The present technician is one of those the repair was given to.         *)
TechnicianKnown == technician # "none" => technician \in assigned

(* On a repair, the owner or somebody whose duty it is or was.             *)
EntitledTo(a, purpose) ==
  domain = "repair" =>
    IF RoleOf[a] = "customer"
    THEN a = Owner /\ purpose \in DomainConfig.repair.customer
    ELSE OnDuty(a, purpose)

(* Whoever may open or remove a document now may have done so, also when   *)
(* that is carried out after the repair changed hands.                     *)
Entitled(a, f) == Stored(f) /\ EntitledTo(a, file[f].purpose)

(* A file on its way into the store ...                                    *)
Arriving(f) ==
  /\ file[f].purpose \in DomainConfig[domain].purposes
  /\ EntitledTo(file[f].uploader, file[f].purpose)

(* ... and what the audit log owes to one that is gone.                    *)
Answered(f) ==
  \E a \in Accounts :
    /\ OnRecord("EVIDENCE_DELETE_REQUESTED", a, f)
    /\ OnRecord("EVIDENCE_DELETED", a, f) \/ OnRecord("EVIDENCE_CLEANUP_COMPLETED", a, f)

FilesAccounted ==
  \A f \in Files :
    /\ file[f].state = "put" => Arriving(f)
    /\ Stored(f) => OnRecord("EVIDENCE_UPLOADED", file[f].uploader, f)
    /\ file[f].state = "DELETE_PENDING" =>
         \E a \in Accounts : OnRecord("EVIDENCE_DELETE_REQUESTED", a, f)
    /\ file[f].state = "DELETED" => Answered(f)
    /\ cleanup[f] # "none" => OnRecord("EVIDENCE_DELETE_REQUESTED", cleanup[f], f)

RequestsEntitled ==
  /\ \A o \in opening : Entitled(o.by, o.file)
  /\ \A d \in removing :
       /\ Entitled(d.by, d.file)
       /\ d.step = "marked" => OnRecord("EVIDENCE_DELETE_REQUESTED", d.by, d.file)

TrailEntitled == \A entry \in trail : Entitled(entry.by, entry.file)

OpenedRecorded ==
  \A a \in Accounts, f \in Files :
    <<a, f>> \in opened => OnRecord("EVIDENCE_DOWNLOAD_AUTHORIZED", a, f)

AccessInv ==
  /\ EvidenceAccessTypeOK /\ TechnicianKnown
  /\ FilesAccounted /\ RequestsEntitled /\ TrailEntitled /\ OpenedRecorded

-----------------------------------------------------------------------------
(* What no step takes back: stored documents keep what they are of, the    *)
(* log and the list of technicians only grow.                              *)
Grows ==
  /\ UNCHANGED domain /\ assigned \subseteq assigned' /\ trail \subseteq trail'
  /\ \A f \in Files : Stored(f) =>
       Stored(f)' /\ file'[f].purpose = file[f].purpose /\ file'[f].uploader = file[f].uploader

LEMMA StillSo ==
  ASSUME Grows
  PROVE  /\ \A a, purpose : EntitledTo(a, purpose) => EntitledTo(a, purpose)'
         /\ \A a, f : f \in Files /\ Entitled(a, f) => Entitled(a, f)'
         /\ \A action, a, f : OnRecord(action, a, f) => OnRecord(action, a, f)'
         /\ \A f : Answered(f) => Answered(f)'
<1>1. \A a, purpose : EntitledTo(a, purpose) => EntitledTo(a, purpose)'
  BY DEF Grows, EntitledTo, OnDuty
<1>2. \A action, a, f : OnRecord(action, a, f) => OnRecord(action, a, f)'
  BY DEF Grows, OnRecord
<1> QED
  BY <1>1, <1>2 DEF Grows, Entitled, Answered

(* So a step has to account for what is new only.                          *)
LEMMA NewAccounted ==
  ASSUME AccessInv, EvidenceAccessTypeOK', TechnicianKnown', Grows,
         \A f \in Files :
           /\ file'[f].state = "put" => file'[f] = file[f] \/ Arriving(f)'
           /\ Stored(f)' => Stored(f) \/ OnRecord("EVIDENCE_UPLOADED", file[f].uploader, f)'
           /\ file'[f].state = "DELETE_PENDING" =>
                \/ file[f].state = "DELETE_PENDING"
                \/ \E a \in Accounts : OnRecord("EVIDENCE_DELETE_REQUESTED", a, f)'
           /\ file'[f].state = "DELETED" => file[f].state = "DELETED" \/ Answered(f)'
           /\ \/ cleanup'[f] = cleanup[f]
              \/ OnRecord("EVIDENCE_DELETE_REQUESTED", cleanup[f], f)',
         \A o \in opening' : o \in opening \/ Entitled(o.by, o.file)',
         \A d \in removing' : d \in removing \/
           /\ Entitled(d.by, d.file)'
           /\ d.step = "marked" => OnRecord("EVIDENCE_DELETE_REQUESTED", d.by, d.file)',
         \A entry \in trail' : entry \in trail \/ Entitled(entry.by, entry.file)',
         \A a \in Accounts, f \in Files : <<a, f>> \in opened' =>
           <<a, f>> \in opened \/ OnRecord("EVIDENCE_DOWNLOAD_AUTHORIZED", a, f)'
  PROVE  AccessInv'
<1>0. /\ opening \subseteq Opening /\ removing \subseteq Deletion
      /\ trail \subseteq [action : Actions, by : Accounts, file : Files]
  BY DEF AccessInv, EvidenceAccessTypeOK
<1>1. FilesAccounted'
  <2> SUFFICES ASSUME NEW f \in Files
               PROVE  /\ file'[f].state = "put" => Arriving(f)'
                      /\ Stored(f)' => OnRecord("EVIDENCE_UPLOADED", file[f].uploader, f)'
                      /\ file'[f].state = "DELETE_PENDING" =>
                           \E a \in Accounts : OnRecord("EVIDENCE_DELETE_REQUESTED", a, f)'
                      /\ file'[f].state = "DELETED" => Answered(f)'
                      /\ cleanup'[f] # "none" =>
                           OnRecord("EVIDENCE_DELETE_REQUESTED", cleanup[f], f)'
    BY DEF FilesAccounted
  <2>1. ASSUME file'[f].state = "put", file'[f] = file[f] PROVE Arriving(f)'
    <3>1. Arriving(f)
      BY <2>1 DEF AccessInv, FilesAccounted
    <3> QED
      BY <2>1, <3>1, StillSo DEF Arriving, Grows
  <2>2. ASSUME Stored(f) PROVE OnRecord("EVIDENCE_UPLOADED", file[f].uploader, f)'
    <3>1. OnRecord("EVIDENCE_UPLOADED", file[f].uploader, f) /\ file'[f].uploader = file[f].uploader
      BY <2>2 DEF AccessInv, FilesAccounted, Grows
    <3> QED
      BY <3>1, StillSo
  <2>3. ASSUME file[f].state = "DELETE_PENDING"
        PROVE  \E a \in Accounts : OnRecord("EVIDENCE_DELETE_REQUESTED", a, f)'
    BY <2>3, StillSo DEF AccessInv, FilesAccounted
  <2>4. ASSUME file[f].state = "DELETED" PROVE Answered(f)'
    BY <2>4, StillSo DEF AccessInv, FilesAccounted
  <2>5. ASSUME cleanup'[f] # "none", cleanup'[f] = cleanup[f]
        PROVE  OnRecord("EVIDENCE_DELETE_REQUESTED", cleanup[f], f)'
    <3>1. OnRecord("EVIDENCE_DELETE_REQUESTED", cleanup[f], f)
      BY <2>5 DEF AccessInv, FilesAccounted
    <3> QED
      BY <2>5, <3>1, StillSo
  <2> QED
    BY <2>1, <2>2, <2>3, <2>4, <2>5
<1>2. RequestsEntitled'
  <2>1. \A o \in opening : Entitled(o.by, o.file)'
    BY <1>0, StillSo DEF AccessInv, RequestsEntitled, Opening
  <2>2. \A d \in removing :
          /\ Entitled(d.by, d.file)'
          /\ d.step = "marked" => OnRecord("EVIDENCE_DELETE_REQUESTED", d.by, d.file)'
    BY <1>0, StillSo DEF AccessInv, RequestsEntitled, Deletion
  <2> QED
    BY <2>1, <2>2 DEF RequestsEntitled
<1>3. TrailEntitled'
  <2>1. \A entry \in trail : Entitled(entry.by, entry.file)'
    BY <1>0, StillSo DEF AccessInv, TrailEntitled
  <2> QED
    BY <2>1 DEF TrailEntitled
<1>4. OpenedRecorded'
  BY StillSo DEF AccessInv, OpenedRecorded
<1> QED
  BY <1>1, <1>2, <1>3, <1>4 DEF AccessInv

(* Permission is entitlement, on the day it is given.                      *)
LEMMA PermissionEntitles ==
  ASSUME AccessInv, NEW a \in Accounts, NEW purpose, MayAccess(a, purpose)
  PROVE  EntitledTo(a, purpose)
<1> SUFFICES ASSUME domain = "repair", RoleOf[a] # "customer" PROVE OnDuty(a, purpose)
  BY DEF MayAccess, EntitledTo
<1>1. staffAllowedForRepair(a, purpose)
  BY DEF MayAccess
<1>2. technician = a => a \in assigned
  BY AccessAssumption DEF AccessAssumption, AccessInv, TechnicianKnown
<1> QED
  BY <1>1, <1>2 DEF staffAllowedForRepair, OnDuty

(* In the beginning nothing is stored, asked for or recorded.              *)
LEMMA InitSound == EvidenceAccessInit => AccessInv
<1> SUFFICES ASSUME EvidenceAccessInit PROVE AccessInv
  OBVIOUS
<1> QED
  BY DEF EvidenceAccessInit, AccessInv, EvidenceAccessTypeOK, TechnicianKnown, FilesAccounted,
     RequestsEntitled, TrailEntitled, OpenedRecorded, EvidenceDocument, NoFile, Stored

-----------------------------------------------------------------------------
(* Attaching                                                               *)

LEMMA BeginUploadSafe ==
  ASSUME AccessInv, NEW a \in Accounts, NEW f \in Files, NEW purpose \in Purposes,
         BeginUpload(a, f, purpose)
  PROVE  AccessInv'
<1> DEFINE doc == [state |-> "put", purpose |-> purpose, uploader |-> a]
<1>0. EvidenceAccessTypeOK /\ file \in [Files -> EvidenceDocument]
  BY DEF AccessInv, EvidenceAccessTypeOK
<1>1. /\ file[f].state = "absent" /\ MayAccess(a, purpose) /\ file' = [file EXCEPT ![f] = doc]
      /\ UNCHANGED <<domain, technician, opening, removing, cleanup, opened, trail, assigned>>
  BY DEF BeginUpload
<1>2. doc \in EvidenceDocument /\ doc.state = "put" /\ doc.purpose = purpose /\ doc.uploader = a
  BY DEF EvidenceDocument, FileState
<1> HIDE DEF doc
<1>3. /\ file' \in [Files -> EvidenceDocument]
      /\ \A g \in Files : file'[g] = IF g = f THEN doc ELSE file[g]
  BY <1>0, <1>1, <1>2
<1>4. EvidenceAccessTypeOK' /\ Grows
  BY <1>0, <1>1, <1>2, <1>3 DEF EvidenceAccessTypeOK, Grows, Stored
<1>5. Arriving(f)'
  <2>1. EntitledTo(a, purpose)
    BY <1>1, PermissionEntitles
  <2>2. EntitledTo(a, purpose)'
    BY <1>4, <2>1, StillSo
  <2> QED
    BY <1>1, <1>2, <1>3, <2>2 DEF Arriving, MayAccess
<1>6. \A g \in Files : (Stored(g)' <=> Stored(g)) /\ (g # f => file'[g] = file[g])
  BY <1>1, <1>2, <1>3 DEF Stored
<1> QED
  BY <1>1, <1>2, <1>3, <1>4, <1>5, <1>6, NewAccounted DEF AccessInv, TechnicianKnown

LEMMA CommitUploadSafe ==
  ASSUME AccessInv, NEW f \in Files, CommitUpload(f)
  PROVE  AccessInv'
<1>0. EvidenceAccessTypeOK /\ file \in [Files -> EvidenceDocument]
  BY DEF AccessInv, EvidenceAccessTypeOK
<1>who. PICK u : u = file[f].uploader
  OBVIOUS
<1> DEFINE doc == [file[f] EXCEPT !.state = "ACTIVE"]
           record == [action |-> "EVIDENCE_UPLOADED", by |-> u, file |-> f]
<1>1. /\ file[f].state = "put" /\ file[f].purpose \in StorablePurposes
      /\ file' = [file EXCEPT ![f] = doc] /\ trail' = trail \cup {record}
      /\ UNCHANGED <<domain, technician, opening, removing, cleanup, opened, assigned>>
  BY <1>who DEF CommitUpload, Storable, Logged
<1>2. /\ doc \in EvidenceDocument /\ doc.state = "ACTIVE" /\ doc.purpose = file[f].purpose
      /\ doc.uploader = u /\ u \in Accounts
  BY <1>0, <1>1, <1>who DEF EvidenceDocument, NoFile, FileState
<1> HIDE DEF doc
<1>3. /\ file' \in [Files -> EvidenceDocument]
      /\ \A g \in Files : file'[g] = IF g = f THEN doc ELSE file[g]
  BY <1>0, <1>1, <1>2
<1>4. Arriving(f)
  BY <1>1 DEF AccessInv, FilesAccounted
<1>5. record \in [action : Actions, by : Accounts, file : Files]
  BY <1>2 DEF Actions
<1>6. EvidenceAccessTypeOK' /\ Grows
  BY <1>0, <1>1, <1>2, <1>3, <1>4, <1>5 DEF EvidenceAccessTypeOK, Grows, Stored, Arriving
<1> HIDE DEF record
<1>7. Entitled(record.by, record.file)' /\ OnRecord("EVIDENCE_UPLOADED", file[f].uploader, f)'
  <2>0. PICK p : p = file[f].purpose
    OBVIOUS
  <2>1. EntitledTo(u, p)'
    <3>1. EntitledTo(u, p)
      BY <1>4, <1>who, <2>0 DEF Arriving
    <3> QED
      BY <1>6, <3>1, StillSo
  <2>2. Stored(f)' /\ file'[f].purpose = p /\ file'[f].uploader = u
    BY <1>2, <1>3, <2>0 DEF Stored
  <2>3. record.by = u /\ record.file = f
    BY DEF record
  <2>4. Entitled(u, f)' /\ OnRecord("EVIDENCE_UPLOADED", u, f)'
    BY <1>1, <2>1, <2>2 DEF Entitled, OnRecord, record
  <2> QED
    BY <2>2, <2>3, <2>4
<1>8. \A g \in Files : g # f => file'[g] = file[g] /\ (Stored(g)' <=> Stored(g))
  BY <1>3 DEF Stored
<1> QED
  BY <1>1, <1>2, <1>3, <1>6, <1>7, <1>8, NewAccounted DEF AccessInv, TechnicianKnown

LEMMA RefuseUploadSafe ==
  ASSUME AccessInv, NEW f \in Files, RefuseUpload(f)
  PROVE  AccessInv'
<1>0. EvidenceAccessTypeOK /\ file \in [Files -> EvidenceDocument]
  BY DEF AccessInv, EvidenceAccessTypeOK
<1>1. /\ file[f].state = "put" /\ file' = [file EXCEPT ![f] = NoFile]
      /\ UNCHANGED <<domain, technician, opening, removing, cleanup, opened, trail, assigned>>
  BY DEF RefuseUpload
<1>2. NoFile \in EvidenceDocument /\ NoFile.state = "absent"
  BY DEF EvidenceDocument, NoFile
<1>3. /\ file' \in [Files -> EvidenceDocument]
      /\ \A g \in Files : file'[g] = IF g = f THEN NoFile ELSE file[g]
  BY <1>0, <1>1, <1>2
<1>4. EvidenceAccessTypeOK' /\ Grows
  BY <1>0, <1>1, <1>2, <1>3 DEF EvidenceAccessTypeOK, Grows, Stored
<1>5. \A g \in Files : (Stored(g)' <=> Stored(g)) /\ (g # f => file'[g] = file[g])
  BY <1>1, <1>2, <1>3 DEF Stored
<1> QED
  BY <1>1, <1>2, <1>3, <1>4, <1>5, NewAccounted DEF AccessInv, TechnicianKnown

-----------------------------------------------------------------------------
(* Opening, and asking for a removal                                       *)

(* Steps that leave the documents: requests come and go, and the log gains *)
(* records of those who are entitled.                                      *)
LEMMA RequestSafe ==
  ASSUME AccessInv, UNCHANGED <<domain, technician, file, assigned>>,
         opening' \subseteq Opening, removing' \subseteq Deletion,
         cleanup' \in [Files -> Accounts \cup {"none"}], opened' \subseteq Accounts \X Files,
         trail \subseteq trail', trail' \subseteq [action : Actions, by : Accounts, file : Files],
         \A o \in opening' : o \in opening \/ Entitled(o.by, o.file),
         \A d \in removing' : d \in removing \/
           /\ Entitled(d.by, d.file)
           /\ d.step = "marked" => OnRecord("EVIDENCE_DELETE_REQUESTED", d.by, d.file)',
         \A entry \in trail' : entry \in trail \/ Entitled(entry.by, entry.file),
         \A f \in Files : \/ cleanup'[f] = cleanup[f]
                          \/ OnRecord("EVIDENCE_DELETE_REQUESTED", cleanup[f], f)',
         \A a \in Accounts, f \in Files : <<a, f>> \in opened' =>
           <<a, f>> \in opened \/ OnRecord("EVIDENCE_DOWNLOAD_AUTHORIZED", a, f)'
  PROVE  AccessInv'
<1>1. EvidenceAccessTypeOK' /\ TechnicianKnown' /\ Grows
  BY DEF AccessInv, EvidenceAccessTypeOK, TechnicianKnown, Grows, Stored
<1>2. /\ \A f : Stored(f)' <=> Stored(f)
      /\ \A a, f : Entitled(a, f)' <=> Entitled(a, f)
  BY DEF Stored, Entitled, EntitledTo, OnDuty
<1> QED
  BY <1>1, <1>2, NewAccounted

LEMMA BeginDownloadSafe ==
  ASSUME AccessInv, NEW a \in Accounts, NEW f \in Files, BeginDownload(a, f)
  PROVE  AccessInv'
<1> DEFINE o == [by |-> a, file |-> f, step |-> "authorized"]
<1>0. EvidenceAccessTypeOK
  BY DEF AccessInv
<1>1. /\ opening' = opening \cup {o}
      /\ UNCHANGED <<domain, technician, file, removing, cleanup, opened, trail, assigned>>
  BY DEF BeginDownload
<1>2. Entitled(o.by, o.file)
  BY PermissionEntitles DEF BeginDownload, FoundBy, Entitled, Stored
<1>3. o \in Opening
  BY DEF Opening
<1> HIDE DEF o
<1> QED
  BY <1>0, <1>1, <1>2, <1>3, RequestSafe DEF EvidenceAccessTypeOK

LEMMA SignDownloadSafe ==
  ASSUME AccessInv, NEW o \in opening, SignDownload(o)
  PROVE  AccessInv'
<1> DEFINE p == [o EXCEPT !.step = "signed"]
<1>0. EvidenceAccessTypeOK /\ o \in Opening /\ Entitled(o.by, o.file)
  BY DEF AccessInv, EvidenceAccessTypeOK, RequestsEntitled
<1>1. /\ opening' = (opening \ {o}) \cup {p}
      /\ UNCHANGED <<domain, technician, file, removing, cleanup, opened, trail, assigned>>
  BY DEF SignDownload
<1>2. p \in Opening /\ p.by = o.by /\ p.file = o.file
  BY <1>0 DEF Opening
<1> HIDE DEF p
<1> QED
  BY <1>0, <1>1, <1>2, RequestSafe DEF EvidenceAccessTypeOK

(* A download that ends, with its record and its URL, or without.          *)
LEMMA DownloadEndSafe ==
  ASSUME AccessInv, NEW o \in opening, opening' = opening \ {o},
         trail' = trail \/ trail' = trail \cup DownloadRecord(o),
         \/ opened' = opened
         \/ opened' = opened \cup {<<o.by, o.file>>} /\ trail' = trail \cup DownloadRecord(o),
         UNCHANGED <<domain, technician, file, removing, cleanup, assigned>>
  PROVE  AccessInv'
<1> DEFINE record == [action |-> "EVIDENCE_DOWNLOAD_AUTHORIZED", by |-> o.by, file |-> o.file]
<1>0. EvidenceAccessTypeOK /\ o.by \in Accounts /\ o.file \in Files /\ Entitled(o.by, o.file)
  BY DEF AccessInv, EvidenceAccessTypeOK, RequestsEntitled, Opening
<1>1. record \in [action : Actions, by : Accounts, file : Files]
      /\ record.by = o.by /\ record.file = o.file
  BY <1>0 DEF Actions
<1>2. DownloadRecord(o) = {record}
  BY DEF DownloadRecord
<1>3. \A a \in Accounts, f \in Files : <<a, f>> \in opened' =>
        <<a, f>> \in opened \/ OnRecord("EVIDENCE_DOWNLOAD_AUTHORIZED", a, f)'
  BY <1>2 DEF OnRecord
<1> HIDE DEF record
<1> QED
  BY <1>0, <1>1, <1>2, <1>3, RequestSafe DEF EvidenceAccessTypeOK

LEMMA BeginDeleteSafe ==
  ASSUME AccessInv, NEW a \in Accounts, NEW f \in Files, BeginDelete(a, f)
  PROVE  AccessInv'
<1> DEFINE d == [by |-> a, file |-> f, step |-> "found"]
<1>0. EvidenceAccessTypeOK
  BY DEF AccessInv
<1>1. /\ removing' = removing \cup {d}
      /\ UNCHANGED <<domain, technician, file, opening, cleanup, opened, trail, assigned>>
  BY DEF BeginDelete
<1>2. Entitled(d.by, d.file) /\ d.step = "found"
  BY PermissionEntitles DEF BeginDelete, FoundBy, Entitled, Stored
<1>3. d \in Deletion
  BY DEF Deletion
<1> HIDE DEF d
<1> QED
  BY <1>0, <1>1, <1>2, <1>3, RequestSafe DEF EvidenceAccessTypeOK

-----------------------------------------------------------------------------
(* Removing, and the repair's technician                                   *)

(* What a request under way carries.                                       *)
LEMMA DeletionFields ==
  ASSUME AccessInv, NEW d \in removing
  PROVE  /\ d \in Deletion /\ d.by \in Accounts /\ d.file \in Files /\ Entitled(d.by, d.file)
         /\ d.step = "marked" => OnRecord("EVIDENCE_DELETE_REQUESTED", d.by, d.file)
  BY DEF AccessInv, EvidenceAccessTypeOK, RequestsEntitled, Deletion

LEMMA QueueCleanupSafe ==
  ASSUME AccessInv, NEW d \in removing, QueueCleanup(d) \/ DeleteFails(d)
  PROVE  AccessInv'
<1>0. EvidenceAccessTypeOK /\ cleanup \in [Files -> Accounts \cup {"none"}]
  BY DEF AccessInv, EvidenceAccessTypeOK
<1>1. /\ removing' = removing \ {d}
      /\ UNCHANGED <<domain, technician, file, opening, opened, trail, assigned>>
      /\ \/ cleanup' = cleanup
         \/ d.step = "marked" /\ cleanup' = [cleanup EXCEPT ![d.file] = d.by]
  BY DEF QueueCleanup, DeleteFails
<1>2. /\ cleanup' \in [Files -> Accounts \cup {"none"}]
      /\ \A f \in Files : \/ cleanup'[f] = cleanup[f]
                          \/ OnRecord("EVIDENCE_DELETE_REQUESTED", cleanup'[f], f)
  BY <1>0, <1>1, DeletionFields
<1>3. \A f \in Files : \/ cleanup'[f] = cleanup[f]
                       \/ OnRecord("EVIDENCE_DELETE_REQUESTED", cleanup[f], f)'
  BY <1>1, <1>2 DEF OnRecord
<1> QED
  BY <1>0, <1>1, <1>2, <1>3, RequestSafe DEF EvidenceAccessTypeOK

(* A removal moves a stored document on, if at all, and adds a record of   *)
(* somebody entitled who asked for it.                                     *)
LEMMA RemovalSafe ==
  ASSUME AccessInv, NEW a \in Accounts, NEW f \in Files, Entitled(a, f),
         NEW action \in Actions, trail' = trail \cup {[action |-> action, by |-> a, file |-> f]},
         OnRecord("EVIDENCE_DELETE_REQUESTED", a, f)',
         NEW to \in {"DELETE_PENDING", "DELETED"},
         file' = file \/ file' = [file EXCEPT ![f].state = to],
         to = "DELETED" => action \in {"EVIDENCE_DELETED", "EVIDENCE_CLEANUP_COMPLETED"},
         removing' \subseteq Deletion,
         \A d \in removing' : d \in removing \/ (d.by = a /\ d.file = f),
         UNCHANGED <<domain, technician, opening, cleanup, opened, assigned>>
  PROVE  AccessInv'
<1> DEFINE record == [action |-> action, by |-> a, file |-> f]
           doc == [file[f] EXCEPT !.state = to]
<1>0. EvidenceAccessTypeOK /\ file \in [Files -> EvidenceDocument] /\ Stored(f)
  BY DEF AccessInv, EvidenceAccessTypeOK, Entitled
<1>1. /\ doc \in EvidenceDocument /\ doc.state = to /\ doc.purpose = file[f].purpose
      /\ doc.uploader = file[f].uploader
  BY <1>0 DEF EvidenceDocument, NoFile, Stored, FileState
<1>2. file' = file \/ file' = [file EXCEPT ![f] = doc]
  OBVIOUS
<1> HIDE DEF doc
<1>3. /\ file' \in [Files -> EvidenceDocument]
      /\ \A g \in Files : file'[g] = file[g] \/ (g = f /\ file'[g] = doc)
  BY <1>0, <1>1, <1>2
<1>4. record \in [action : Actions, by : Accounts, file : Files] /\ record.by = a /\ record.file = f
  OBVIOUS
<1>5. Answered(f)' \/ to # "DELETED"
  BY DEF Answered, OnRecord
<1> HIDE DEF record
<1>6. EvidenceAccessTypeOK' /\ Grows
  BY <1>0, <1>1, <1>3, <1>4 DEF EvidenceAccessTypeOK, Grows, Stored
<1>7. Entitled(a, f)'
  BY <1>6, StillSo
<1>8. \A g \in Files : Stored(g)' => Stored(g)
  BY <1>0, <1>3 DEF Stored
<1>9. /\ \A d \in removing' : d \in removing \/
           /\ Entitled(d.by, d.file)'
           /\ d.step = "marked" => OnRecord("EVIDENCE_DELETE_REQUESTED", d.by, d.file)'
      /\ \A entry \in trail' : entry \in trail \/ Entitled(entry.by, entry.file)'
  BY <1>4, <1>7 DEF record
<1> QED
  BY <1>1, <1>3, <1>5, <1>6, <1>8, <1>9, NewAccounted DEF AccessInv, TechnicianKnown

LEMMA MarkPendingSafe ==
  ASSUME AccessInv, NEW d \in removing, MarkPending(d)
  PROVE  AccessInv'
<1> DEFINE m == [d EXCEPT !.step = "marked"]
<1>1. /\ file' = file \/ file' = [file EXCEPT ![d.file].state = "DELETE_PENDING"]
      /\ trail' = trail \cup {[action |-> "EVIDENCE_DELETE_REQUESTED", by |-> d.by, file |-> d.file]}
      /\ removing' = (removing \ {d}) \cup {m}
      /\ UNCHANGED <<domain, technician, opening, cleanup, opened, assigned>>
  BY DEF MarkPending, FileMoved, Logged
<1>2. m \in Deletion /\ m.by = d.by /\ m.file = d.file
  BY DeletionFields DEF Deletion
<1> HIDE DEF m
<1>3. removing' \subseteq Deletion /\ \A x \in removing' : x \in removing \/ (x.by = d.by /\ x.file = d.file)
  BY <1>1, <1>2 DEF AccessInv, EvidenceAccessTypeOK
<1>4. OnRecord("EVIDENCE_DELETE_REQUESTED", d.by, d.file)'
  BY <1>1 DEF OnRecord
<1> QED
  BY <1>1, <1>3, <1>4, DeletionFields, RemovalSafe DEF Actions

LEMMA FinalizeDeleteSafe ==
  ASSUME AccessInv, NEW d \in removing, FinalizeDelete(d)
  PROVE  AccessInv'
<1>1. /\ file' = file \/ file' = [file EXCEPT ![d.file].state = "DELETED"]
      /\ trail' = trail \cup {[action |-> "EVIDENCE_DELETED", by |-> d.by, file |-> d.file]}
      /\ removing' = removing \ {d} /\ d.step = "marked"
      /\ UNCHANGED <<domain, technician, opening, cleanup, opened, assigned>>
  BY DEF FinalizeDelete, FileMoved, Logged
<1>2. removing' \subseteq Deletion /\ \A x \in removing' : x \in removing
  BY <1>1 DEF AccessInv, EvidenceAccessTypeOK
<1>3. OnRecord("EVIDENCE_DELETE_REQUESTED", d.by, d.file)'
  BY <1>1, DeletionFields DEF OnRecord
<1> QED
  BY <1>1, <1>2, <1>3, DeletionFields, RemovalSafe DEF Actions

LEMMA CompleteTaskSafe ==
  ASSUME AccessInv, NEW f \in Files, CompleteTask(f)
  PROVE  AccessInv'
<1>who. PICK a : a = cleanup[f]
  OBVIOUS
<1>1. /\ file' = file \/ file' = [file EXCEPT ![f].state = "DELETED"]
      /\ trail' = trail \cup {[action |-> "EVIDENCE_CLEANUP_COMPLETED", by |-> a, file |-> f]}
      /\ UNCHANGED <<domain, technician, opening, removing, cleanup, opened, assigned>>
  BY <1>who DEF CompleteTask, CleanupRecord, FileMoved
<1>2. a \in Accounts /\ OnRecord("EVIDENCE_DELETE_REQUESTED", a, f)
  BY <1>who DEF CompleteTask, AccessInv, EvidenceAccessTypeOK, FilesAccounted
<1>3. Entitled(a, f)
  BY <1>2 DEF AccessInv, TrailEntitled, OnRecord
<1>4. removing' \subseteq Deletion /\ \A x \in removing' : x \in removing
  BY <1>1 DEF AccessInv, EvidenceAccessTypeOK
<1>5. OnRecord("EVIDENCE_DELETE_REQUESTED", a, f)'
  BY <1>1, <1>2 DEF OnRecord
<1> QED
  BY <1>1, <1>2, <1>3, <1>4, <1>5, RemovalSafe DEF Actions

LEMMA AssignTechnicianSafe ==
  ASSUME AccessInv, NEW t \in Technicians, AssignTechnician(t)
  PROVE  AccessInv'
<1>1. /\ technician' = t /\ assigned' = assigned \cup {t}
      /\ UNCHANGED <<domain, file, opening, removing, cleanup, opened, trail>>
  BY DEF AssignTechnician
<1>2. EvidenceAccessTypeOK' /\ TechnicianKnown' /\ Grows
  BY <1>1 DEF AccessInv, EvidenceAccessTypeOK, TechnicianKnown, Grows, Stored
<1>3. \A f : Stored(f)' <=> Stored(f)
  BY <1>1 DEF Stored
<1> QED
  BY <1>1, <1>2, <1>3, NewAccounted

LEMMA StepSound == AccessInv /\ [EvidenceAccessStep]_evidenceAccessVars => AccessInv'
<1> SUFFICES ASSUME AccessInv, [EvidenceAccessStep]_evidenceAccessVars PROVE AccessInv'
  OBVIOUS
<1>1. ASSUME NEW o \in opening, DownloadEvidence(o) \/ DownloadFails(o) PROVE AccessInv'
  BY <1>1, DownloadEndSafe DEF DownloadEvidence, DownloadFails
<1>2. CASE UNCHANGED evidenceAccessVars
  BY <1>2, RequestSafe DEF evidenceAccessVars, AccessInv, EvidenceAccessTypeOK
<1> QED
  BY <1>1, <1>2, BeginUploadSafe, CommitUploadSafe, RefuseUploadSafe, BeginDownloadSafe,
     SignDownloadSafe, BeginDeleteSafe, MarkPendingSafe, FinalizeDeleteSafe, QueueCleanupSafe,
     CompleteTaskSafe, AssignTechnicianSafe
     DEF EvidenceAccessStep

LEMMA AccessInvariant == EvidenceAccessSpec => []AccessInv
<1> QED
  BY InitSound, StepSound, PTL DEF EvidenceAccessSpec

(* Evidence, downloads and the audit log stay within their schemas, and    *)
(* what is stored is of a category schema and domain both list.            *)
THEOREM TypeCorrect == EvidenceAccessSpec => []EvidenceAccessTypeOK
<1>1. AccessInv => EvidenceAccessTypeOK
  BY DEF AccessInv
<1> QED
  BY <1>1, AccessInvariant, PTL

(* uploadEvidence, downloadEvidence, deleteEvidence, completeTask,         *)
(* staffAllowedForRepair: whatever fails on the way, and however often a   *)
(* repair changes hands, evidence is attached, opened and removed on       *)
(* record, and on a repair by its owner or by somebody whose duty it is    *)
(* or was; what the cleanup job removed, one of them had asked for.        *)
THEOREM AccessIsAnswered == EvidenceAccessSpec => []AccessIsAccountable
<1>1. ASSUME AccessInv PROVE EveryAccessIsAudited
  BY <1>1 DEF AccessInv, FilesAccounted, OpenedRecorded, EveryAccessIsAudited, Stored, Answered
<1>2. ASSUME AccessInv PROVE DutiesStaySeparate
  BY <1>2 DEF AccessInv, TrailEntitled, Entitled, EntitledTo, DutiesStaySeparate
<1>3. AccessInv => AccessIsAccountable
  BY <1>1, <1>2 DEF AccessIsAccountable
<1> QED
  BY <1>3, AccessInvariant, PTL

-----------------------------------------------------------------------------
(* After the sale: the flag of a claim says whether it is under way, and a *)
(* return that is being submitted has no document yet, nor another request.*)
ClaimsInOrder ==
  /\ claim \in [Claims -> ClaimDocument]
  /\ \A c \in Claims : claim[c].active = UnderWay(c)
  /\ \A c, d \in Claims : claim[c].active /\ claim[d].active => c = d

ReturnsInOrder ==
  /\ return \in [Returns -> ReturnDocument]
  /\ returning \subseteq [return : Returns, quantity : 1..MostAsked]
  /\ \A b \in returning : return[b.return].status = "ABSENT"
  /\ \A b, c \in returning : b.return = c.return => b = c

ClaimsKept ==
  \A c \in Claims : claim[c].status # "absent" /\ ~claim[c].active => ~claim'[c].active

ReturnsKept ==
  \A r \in Returns :
    return[r].status \in {"REJECTED", "CANCELLED"} => return'[r].status \notin activeReturnStates

(* A claim that is under way keeps others out, and a release is not taken  *)
(* back.                                                                   *)
LEMMA ClaimsStayOrdered ==
  ASSUME ClaimsInOrder, AfterSalesNext
  PROVE  ClaimsInOrder' /\ ClaimsKept
<1>0. claim \in [Claims -> ClaimDocument] /\ DOMAIN claim = Claims
  BY DEF ClaimsInOrder
<1>1. ASSUME UNCHANGED claim PROVE ClaimsInOrder' /\ ClaimsKept
  BY <1>1 DEF ClaimsInOrder, ClaimsKept, UnderWay
<1>2. ASSUME NEW c \in Claims, CreateCustomerClaim(c) PROVE ClaimsInOrder' /\ ClaimsKept
  <2> DEFINE new == [status |-> "submitted", active |-> TRUE]
  <2>1. new \in ClaimDocument /\ new.active /\ new.status = "submitted"
    BY DEF ClaimDocument, ClaimStatus
  <2>2. /\ claim' = [claim EXCEPT ![c] = new]
        /\ \A d \in Claims : ~claim[d].active
        /\ claim[c].status = "absent"
    BY <1>2 DEF CreateCustomerClaim, ActiveClaims
  <2> HIDE DEF new
  <2>3. \A d \in Claims : claim'[d] = IF d = c THEN new ELSE claim[d]
    BY <1>0, <2>2
  <2>4. claim' \in [Claims -> ClaimDocument]
    BY <1>0, <2>1, <2>2
  <2>5. \A d \in Claims : claim'[d].active = UnderWay(d)'
    BY <2>1, <2>3 DEF ClaimsInOrder, UnderWay
  <2> QED
    BY <2>1, <2>2, <2>3, <2>4, <2>5 DEF ClaimsInOrder, ClaimsKept
<1>3. ASSUME NEW c \in Claims, NEW status \in ClaimStatus, UpdateClaimStatus(c, status)
      PROVE  ClaimsInOrder' /\ ClaimsKept
  <2> DEFINE new == ClaimTurned(c, status)
  <2>1. /\ new \in ClaimDocument /\ new.status = status
        /\ new.active = (status \notin terminalStatuses)
    BY DEF ClaimTurned, ClaimDocument
  <2>2. /\ claim' = [claim EXCEPT ![c] = new] /\ status \in claimTransitions(claim[c].status)
    BY <1>3 DEF UpdateClaimStatus
  <2> HIDE DEF new
  <2>3. \A d \in Claims : claim'[d] = IF d = c THEN new ELSE claim[d]
    BY <1>0, <2>2
  <2>4. claim' \in [Claims -> ClaimDocument]
    BY <1>0, <2>1, <2>2
  <2>5. status # "absent"
    BY <2>2 DEF claimTransitions
  <2>6. \A d \in Claims : claim'[d].active = UnderWay(d)'
    BY <2>1, <2>3, <2>5 DEF ClaimsInOrder, UnderWay, terminalStatuses
  <2>7. new.active => claim[c].active
    <3> SUFFICES ASSUME status \notin terminalStatuses PROVE UnderWay(c)
      BY <2>1 DEF ClaimsInOrder
    <3> QED
      BY <2>2 DEF claimTransitions, terminalStatuses, UnderWay
  <2>8. \A d \in Claims : claim'[d].active => claim[d].active
    BY <2>3, <2>7
  <2> QED
    BY <2>4, <2>6, <2>8 DEF ClaimsInOrder, ClaimsKept
<1> QED
  BY <1>1, <1>2, <1>3
     DEF AfterSalesNext, ClaimStep, ReturnStep, TicketStep, WarrantyTurns, WindowTurns, BeginReturn,
         CommitReturn, AbortReturn, DecideReturn, CreateSupportTicket, ReadTicket, SaveReply,
         FailReply, UpdateTicketStatus, claimVars

(* A request for a return only writes the document that nobody else has.   *)
LEMMA ReturnsStayOrdered ==
  ASSUME ReturnsInOrder, AfterSalesNext
  PROVE  ReturnsInOrder' /\ ReturnsKept
<1>0. /\ return \in [Returns -> ReturnDocument] /\ DOMAIN return = Returns /\ MostAsked \in Nat
      /\ returning \subseteq [return : Returns, quantity : 1..MostAsked]
  BY AfterSalesAssumption DEF ReturnsInOrder, MostAsked
<1>1. ASSUME UNCHANGED <<return, returning>> PROVE ReturnsInOrder' /\ ReturnsKept
  BY <1>1 DEF ReturnsInOrder, ReturnsKept, activeReturnStates
<1>2. ASSUME NEW r \in Returns, NEW quantity \in 1..MostAsked, BeginReturn(r, quantity)
      PROVE  ReturnsInOrder' /\ ReturnsKept
  <2> DEFINE b == [return |-> r, quantity |-> quantity]
  <2>1. b \in [return : Returns, quantity : 1..MostAsked] /\ b.return = r
    OBVIOUS
  <2>2. /\ returning' = returning \cup {b} /\ UNCHANGED return
        /\ return[r].status = "ABSENT" /\ \A c \in returning : c.return # r
    BY <1>2 DEF BeginReturn
  <2> HIDE DEF b
  <2> QED
    BY <2>1, <2>2 DEF ReturnsInOrder, ReturnsKept, activeReturnStates
<1>3. ASSUME NEW b \in returning, CommitReturn(b) PROVE ReturnsInOrder' /\ ReturnsKept
  <2>1. /\ b.return \in Returns /\ b.quantity \in 1..MostAsked /\ return[b.return].status = "ABSENT"
        /\ \A c \in returning \ {b} : c.return # b.return
    BY <1>0 DEF ReturnsInOrder
  <2> DEFINE new == Inserted(b)
  <2>2. new \in ReturnDocument
    BY <1>0, <2>1 DEF Inserted, ReturnDocument, ReturnStatus
  <2>3. return' = [return EXCEPT ![b.return] = new] /\ returning' = returning \ {b}
    BY <1>3 DEF CommitReturn
  <2> HIDE DEF new
  <2>4. return' \in [Returns -> ReturnDocument]
    BY <1>0, <2>2, <2>3
  <2>5. \A r \in Returns : r # b.return => return'[r] = return[r]
    BY <1>0, <2>3
  <2>6. \A c \in returning' : c.return \in Returns /\ return'[c.return].status = "ABSENT"
    BY <1>0, <2>1, <2>3, <2>5 DEF ReturnsInOrder
  <2>7. ReturnsInOrder'
    BY <2>3, <2>4, <2>6 DEF ReturnsInOrder
  <2>8. ReturnsKept
    BY <2>1, <2>5 DEF ReturnsKept, activeReturnStates
  <2> QED
    BY <2>7, <2>8
<1>4. ASSUME NEW b \in returning, AbortReturn(b) PROVE ReturnsInOrder' /\ ReturnsKept
  BY <1>4 DEF AbortReturn, ReturnsInOrder, ReturnsKept, activeReturnStates
<1>5. ASSUME NEW r \in Returns, NEW status \in ReturnStatus, NEW kept \in 0..MostAsked,
             DecideReturn(r, status, kept)
      PROVE  ReturnsInOrder' /\ ReturnsKept
  <2> DEFINE new == [return[r] EXCEPT !.status = status, !.accepted = kept]
  <2>1. new \in ReturnDocument /\ new.status = status
    BY <1>0 DEF ReturnDocument
  <2>2. /\ return' = [return EXCEPT ![r] = new] /\ UNCHANGED returning
        /\ status \in returnTransitions(return[r].status)
    BY <1>5 DEF DecideReturn
  <2> HIDE DEF new
  <2>3. return' \in [Returns -> ReturnDocument]
    BY <1>0, <2>1, <2>2
  <2>4. \A q \in Returns : return'[q] = IF q = r THEN new ELSE return[q]
    BY <1>0, <2>2
  <2>5. return[r].status # "ABSENT"
    BY <2>2 DEF returnTransitions
  <2>6. \A c \in returning : c.return # r
    BY <2>5 DEF ReturnsInOrder
  <2>7. \A c \in returning' : c.return \in Returns /\ return'[c.return].status = "ABSENT"
    BY <1>0, <2>2, <2>4, <2>6 DEF ReturnsInOrder
  <2>8. ReturnsInOrder'
    BY <2>2, <2>3, <2>7 DEF ReturnsInOrder
  <2>9. ReturnsKept
    BY <2>1, <2>2, <2>4 DEF ReturnsKept, activeReturnStates, returnTransitions
  <2> QED
    BY <2>8, <2>9
<1> QED
  BY <1>1, <1>2, <1>3, <1>4, <1>5
     DEF AfterSalesNext, ClaimStep, ReturnStep, TicketStep, WarrantyTurns, CreateCustomerClaim,
         UpdateClaimStatus, WindowTurns, CreateSupportTicket, ReadTicket, SaveReply, FailReply,
         UpdateTicketStatus, returnVars

(* A closed ticket is written by replies that were under way, and no other *)
(* reply begins.                                                           *)
LEMMA ClosedStays ==
  ASSUME AfterSalesNext
  PROVE  ClosedTakesOnlyLateReplies
<1> SUFFICES ASSUME ticket.status = "closed" PROVE ClosedTakesOnlyLateReplies
  BY DEF ClosedTakesOnlyLateReplies
<1>1. ASSUME NEW key, NEW by PROVE ~ReadTicket(key, by)
  BY DEF ReadTicket, MayReply
<1>2. ASSUME NEW status PROVE ~UpdateTicketStatus(status)
  BY DEF UpdateTicketStatus, ticketTransitions
<1>3. ~CreateSupportTicket
  BY DEF CreateSupportTicket
<1>4. ASSUME NEW r \in replying, SaveReply(r) PROVE ClosedTakesOnlyLateReplies
  <2>1. r \in replying \ replying' /\ replying' \subseteq replying
    BY <1>4 DEF SaveReply
  <2>2. /\ ticket'.messages \in {ticket.messages, ticket.messages \cup {r.key}}
        /\ ticket'.status \in {"closed", ticket.status} \/ r.seen = "open"
    BY <1>4 DEF SaveReply
  <2> QED
    BY <2>1, <2>2 DEF ClosedTakesOnlyLateReplies
<1>5. ASSUME NEW r \in replying, FailReply(r) PROVE ClosedTakesOnlyLateReplies
  BY <1>5 DEF FailReply, ClosedTakesOnlyLateReplies
<1>6. ASSUME ~TicketStep PROVE UNCHANGED ticketVars
  BY <1>6 DEF AfterSalesNext, ClaimStep, ReturnStep, WarrantyTurns, CreateCustomerClaim,
              UpdateClaimStatus, WindowTurns, BeginReturn, CommitReturn, AbortReturn, DecideReturn
<1>7. UNCHANGED ticketVars => ClosedTakesOnlyLateReplies
  BY DEF ticketVars, ClosedTakesOnlyLateReplies
<1> QED
  BY <1>1, <1>2, <1>3, <1>4, <1>5, <1>6, <1>7 DEF TicketStep

(* What both need, taken together.                                         *)
CasesInv == ClaimsInOrder /\ ReturnsInOrder

(* It holds of the initial state.                                          *)
LEMMA CasesBegin ==
  AfterSalesInit => CasesInv
<1> USE DEF CasesInv
<1> SUFFICES ASSUME AfterSalesInit PROVE CasesInv
  OBVIOUS
<1>1. ClaimsInOrder
  BY DEF AfterSalesInit, ClaimsInit, ClaimsInOrder, ClaimDocument, ClaimStatus, UnderWay
<1>2. MostAsked \in Nat
  BY AfterSalesAssumption DEF MostAsked
<1>3. ReturnsInOrder
  BY <1>2 DEF AfterSalesInit, ReturnsInit, ReturnsInOrder, ReturnDocument, ReturnStatus
<1> QED
  BY <1>1, <1>3

(* Every step keeps it, and what was released or closed.                   *)
LEMMA CasesStep ==
  CasesInv /\ [AfterSalesNext]_afterSalesVars => CasesInv' /\ ReleasedStaysReleased
                                                 /\ ClosedTakesOnlyLateReplies
<1> USE DEF CasesInv
<1>1. CasesInv /\ AfterSalesNext => CasesInv' /\ ReleasedStaysReleased /\ ClosedTakesOnlyLateReplies
  BY ClaimsStayOrdered, ReturnsStayOrdered, ClosedStays
     DEF ReleasedStaysReleased, ClaimsKept, ReturnsKept
<1>2. CasesInv /\ UNCHANGED afterSalesVars =>
        CasesInv' /\ ReleasedStaysReleased /\ ClosedTakesOnlyLateReplies
  <2> SUFFICES ASSUME CasesInv, UNCHANGED afterSalesVars
               PROVE  CasesInv' /\ ReleasedStaysReleased /\ ClosedTakesOnlyLateReplies
    OBVIOUS
  <2>1. UNCHANGED <<claim, return, returning, ticket, replying>>
    BY DEF afterSalesVars, claimVars, returnVars, ticketVars
  <2>2. ClaimsInOrder'
    BY <2>1 DEF ClaimsInOrder, UnderWay
  <2>3. ReturnsInOrder'
    BY <2>1 DEF ReturnsInOrder
  <2>4. ReleasedStaysReleased
    BY <2>1 DEF ReleasedStaysReleased, activeReturnStates
  <2>5. ClosedTakesOnlyLateReplies
    BY <2>1 DEF ClosedTakesOnlyLateReplies
  <2> QED
    BY <2>2, <2>3, <2>4, <2>5
<1> QED
  BY <1>1, <1>2

(* The invariant holds of every reachable state.                           *)
LEMMA CasesInvariant == AfterSalesSpec => []CasesInv
  BY CasesBegin, CasesStep, PTL DEF AfterSalesSpec

(* createCustomerClaim, updateClaimStatus, decideReturn and replyToTicket: *)
(* however many requests overtake each other, one claim of a warranty is   *)
(* under way, an allowance that was released is not reserved again, and a  *)
(* closed ticket is written by replies read before it was closed only.     *)
THEOREM CasesAreKept ==
  AfterSalesSpec => CasesStayDecided
<1>3. CasesInv => OneClaimUnderWay
  BY DEF CasesInv, ClaimsInOrder, OneClaimUnderWay
<1> QED
  BY CasesBegin, CasesStep, <1>3, PTL DEF AfterSalesSpec, CasesStayDecided

-----------------------------------------------------------------------------
(* Service requests: a transaction that can still commit schedules what    *)
(* the customer approved; a quotation to decide on was only issued.        *)
SchedulingInOrder ==
  /\ offer \in [OfferVersions -> ServiceQuotation]
  /\ \A v \in OfferVersions : offer[v].actionable => offer[v].status = "ISSUED"
  /\ scheduling \subseteq [version : OfferVersions, clean : BOOLEAN]
  /\ \A s \in scheduling :
       s.clean => service.assessment # "INCOMPATIBLE" /\ offer[s.version].status = "APPROVED"

TermsInOrder ==
  /\ plan \in [Plans -> PlanDocument]
  /\ \A p, q \in Plans : plan[q].renewedFrom = p => plan[p].status = "EXPIRED"
  /\ \A p, q, r \in Plans : plan[q].renewedFrom = p /\ plan[r].renewedFrom = p => q = r

Approved(v) == offer[v].status = "APPROVED"

(* What is approved stays approved, whatever is done with the quotations.  *)
LEMMA OfferWrites ==
  ASSUME SchedulingInOrder, NEW v, NEW document \in ServiceQuotation,
         document.actionable => document.status = "ISSUED",
         Approved(v) => document.status = "APPROVED",
         offer' = [offer EXCEPT ![v] = document]
  PROVE  /\ offer' \in [OfferVersions -> ServiceQuotation]
         /\ \A w \in OfferVersions : offer'[w].actionable => offer'[w].status = "ISSUED"
         /\ \A w \in OfferVersions : Approved(w) => Approved(w)'
<1>1. offer \in [OfferVersions -> ServiceQuotation]
  BY DEF SchedulingInOrder
<1>2. \A w \in OfferVersions : offer'[w] = IF w = v THEN document ELSE offer[w]
  BY <1>1
<1> QED
  BY <1>1, <1>2 DEF SchedulingInOrder, Approved

(* No transaction survives a write it did not see.                         *)
LEMMA StaleOnes ==
  ASSUME scheduling \subseteq [version : OfferVersions, clean : BOOLEAN], scheduling' = Stale
  PROVE  /\ scheduling' \subseteq [version : OfferVersions, clean : BOOLEAN]
         /\ \A s \in scheduling' : ~s.clean
<1> SUFFICES ASSUME NEW t \in scheduling'
             PROVE  t \in [version : OfferVersions, clean : BOOLEAN] /\ ~t.clean
  OBVIOUS
<1>1. PICK s \in scheduling : t = [s EXCEPT !.clean = FALSE]
  BY DEF Stale
<1> QED
  BY <1>1

(* What a scheduling transaction has read is still so when it commits, and *)
(* work only starts from there.                                            *)
LEMMA SchedulingStaysOrdered ==
  ASSUME SchedulingInOrder, ServiceStep
  PROVE  SchedulingInOrder' /\ ScheduledWorkIsAgreed
<1>0. /\ offer \in [OfferVersions -> ServiceQuotation]
      /\ \A v \in OfferVersions : offer[v].actionable => offer[v].status = "ISSUED"
      /\ scheduling \subseteq [version : OfferVersions, clean : BOOLEAN]
      /\ \A s \in scheduling : s.clean => service.assessment # "INCOMPATIBLE" /\ Approved(s.version)
  BY DEF SchedulingInOrder, Approved
<1> DEFINE OffersFollow ==
             /\ offer' \in [OfferVersions -> ServiceQuotation]
             /\ \A w \in OfferVersions : offer'[w].actionable => offer'[w].status = "ISSUED"
             /\ \A w \in OfferVersions : Approved(w) => Approved(w)'
           NothingScheduled == execution.status = "ABSENT" => execution'.status = "ABSENT"
<1>1. NothingScheduled => ScheduledWorkIsAgreed
  BY DEF ScheduledWorkIsAgreed
<1>2. ASSUME OffersFollow, scheduling' \subseteq scheduling, UNCHANGED service
      PROVE  SchedulingInOrder'
  <2>1. \A s \in scheduling' : s.version \in OfferVersions
    BY <1>0, <1>2
  <2> QED
    BY <1>0, <1>2, <2>1 DEF SchedulingInOrder, Approved
<1>3. ASSUME OffersFollow, scheduling' = Stale PROVE SchedulingInOrder'
  BY <1>0, <1>3, StaleOnes DEF SchedulingInOrder
<1>4. UNCHANGED offer => OffersFollow
  BY <1>0 DEF Approved
<1> HIDE DEF OffersFollow
<1>5. CASE CreateServiceRequest
  <2>1. /\ service' = [service EXCEPT !.status = "ASSESSMENT_REQUIRED"]
        /\ UNCHANGED <<offer, scheduling, execution>>
    BY <1>5 DEF CreateServiceRequest
  <2>2. service'.assessment = service.assessment
    BY <2>1
  <2> QED
    BY <1>0, <1>1, <2>1, <2>2 DEF SchedulingInOrder, Approved
<1>6. ASSUME \/ \E result \in Results : ReadForAssessment(result)
             \/ \E a \in assessing : LoseAssessment(a)
             \/ FindService \/ FindOfferVersion \/ AbandonOffer \/ AbortSchedule
      PROVE  SchedulingInOrder' /\ ScheduledWorkIsAgreed
  <2>1. UNCHANGED <<service, offer, execution>> /\ scheduling' \subseteq scheduling
    BY <1>6 DEF ReadForAssessment, LoseAssessment, FindService, FindOfferVersion, AbandonOffer,
                AbortSchedule
  <2> QED
    BY <1>1, <1>2, <1>4, <2>1
<1>7. ASSUME \/ \E a \in assessing : RecordAssessment(a)
             \/ SaveOffered
      PROVE  SchedulingInOrder' /\ ScheduledWorkIsAgreed
  <2>1. UNCHANGED <<offer, execution>> /\ scheduling' = Stale
    BY <1>7 DEF RecordAssessment, SaveOffered
  <2> QED
    BY <1>1, <1>3, <1>4, <2>1
<1>8. CASE SupersedeOffers
  <2>1. /\ offer' = [v \in OfferVersions |->
                       IF offer[v].actionable
                       THEN [offer[v] EXCEPT !.status = "SUPERSEDED", !.actionable = FALSE]
                       ELSE offer[v]]
        /\ UNCHANGED <<service, scheduling, execution>>
    BY <1>8 DEF SupersedeOffers
  <2>2. \A v \in OfferVersions :
          /\ [offer[v] EXCEPT !.status = "SUPERSEDED", !.actionable = FALSE] \in ServiceQuotation
          /\ ~[offer[v] EXCEPT !.status = "SUPERSEDED", !.actionable = FALSE].actionable
    BY <1>0 DEF ServiceQuotation
  <2>3. offer' \in [OfferVersions -> ServiceQuotation]
    BY <1>0, <2>1, <2>2
  <2>4. \A v \in OfferVersions : ~offer'[v].actionable
    BY <2>1, <2>2
  <2>5. \A v \in OfferVersions : Approved(v) => Approved(v)'
    BY <1>0, <2>1 DEF Approved
  <2>6. OffersFollow
    BY <2>3, <2>4, <2>5 DEF OffersFollow
  <2> QED
    BY <1>1, <1>2, <2>1, <2>6
<1>9. ASSUME NEW deposit \in BOOLEAN, CreateOffer(deposit)
      PROVE  SchedulingInOrder' /\ ScheduledWorkIsAgreed
  <2>1. PICK v : v = quoting.next
    OBVIOUS
  <2> DEFINE new == [status |-> "ISSUED", actionable |-> TRUE, lapsed |-> FALSE, deposit |-> deposit]
  <2>2. /\ offer[v].status = "ABSENT" /\ offer' = [offer EXCEPT ![v] = new]
        /\ UNCHANGED <<service, scheduling, execution>>
    BY <1>9, <2>1 DEF CreateOffer
  <2>3. new \in ServiceQuotation /\ new.status = "ISSUED"
    BY DEF ServiceQuotation
  <2> HIDE DEF new
  <2>4. ~Approved(v)
    BY <2>2 DEF Approved
  <2>5. OffersFollow
    BY <2>2, <2>3, <2>4, OfferWrites DEF OffersFollow
  <2> QED
    BY <1>1, <1>2, <2>2, <2>5
<1>10. ASSUME NEW v \in OfferVersions, LapseOffer(v)
       PROVE  SchedulingInOrder' /\ ScheduledWorkIsAgreed
  <2> DEFINE new == [offer[v] EXCEPT !.lapsed = TRUE]
  <2>1. /\ new \in ServiceQuotation /\ new.status = offer[v].status
        /\ new.actionable = offer[v].actionable
    BY <1>0 DEF ServiceQuotation
  <2>2. offer' = [offer EXCEPT ![v] = new] /\ UNCHANGED <<service, scheduling, execution>>
    BY <1>10 DEF LapseOffer
  <2> HIDE DEF new
  <2>3. OffersFollow
    BY <1>0, <2>1, <2>2, OfferWrites DEF OffersFollow, Approved
  <2> QED
    BY <1>1, <1>2, <2>2, <2>3
<1>11. ASSUME NEW v \in OfferVersions, NEW d \in {"APPROVED", "DECLINED"}, DecideServiceQuote(v, d)
       PROVE  SchedulingInOrder' /\ ScheduledWorkIsAgreed
  <2> DEFINE new == [offer[v] EXCEPT !.status = d, !.actionable = FALSE]
  <2>1. new \in ServiceQuotation /\ ~new.actionable
    BY <1>0 DEF ServiceQuotation
  <2>2. /\ offer' = [offer EXCEPT ![v] = new] /\ offer[v].status = "ISSUED"
        /\ scheduling' = Stale /\ UNCHANGED execution
    BY <1>11 DEF DecideServiceQuote, OfferDecidable
  <2> HIDE DEF new
  <2>3. OffersFollow
    BY <2>1, <2>2, OfferWrites DEF OffersFollow, Approved
  <2> QED
    BY <1>1, <1>3, <2>2, <2>3
<1>12. ASSUME NEW v \in OfferVersions, BeginSchedule(v)
       PROVE  SchedulingInOrder' /\ ScheduledWorkIsAgreed
  <2>1. /\ scheduling' = {[version |-> v, clean |-> TRUE]} /\ UNCHANGED <<service, offer, execution>>
        /\ service.assessment # "INCOMPATIBLE" /\ Approved(v)
    BY <1>12 DEF BeginSchedule, Schedulable, Approved
  <2> QED
    BY <1>0, <1>1, <2>1 DEF SchedulingInOrder, Approved
<1>13. ASSUME NEW s \in scheduling, ScheduleService(s)
       PROVE  SchedulingInOrder' /\ ScheduledWorkIsAgreed
  <2>1. /\ s.clean /\ scheduling' = {} /\ UNCHANGED offer
        /\ execution' = [status |-> "SCHEDULED", version |-> s.version]
        /\ service' = [service EXCEPT !.status = "SCHEDULED"]
    BY <1>13 DEF ScheduleService, NotOverwritten
  <2>2. execution'.version = s.version /\ service'.assessment = service.assessment
    BY <2>1
  <2> QED
    BY <1>0, <2>1, <2>2 DEF SchedulingInOrder, ScheduledWorkIsAgreed, Approved
<1>14. ASSUME StartService \/ CancelService \/ CompleteService
       PROVE  SchedulingInOrder' /\ ScheduledWorkIsAgreed
  <2>1. UNCHANGED offer /\ scheduling' = Stale /\ execution.status # "ABSENT"
    BY <1>14 DEF StartService, CancelService, CompleteService, TransitionExecution,
                 CancellableExecutions
  <2> QED
    BY <1>1, <1>3, <1>4, <2>1
<1> QED
  BY <1>5, <1>6, <1>7, <1>8, <1>9, <1>10, <1>11, <1>12, <1>13, <1>14
     DEF ServiceStep, OfferStep, ExecutionStep

(* A term that was renewed has expired, and its successor stays the only   *)
(* one.                                                                    *)
LEMMA TermsStayOrdered ==
  ASSUME TermsInOrder, PlanStep
  PROVE  TermsInOrder'
<1>0. plan \in [Plans -> PlanDocument] /\ DOMAIN plan = Plans /\ "none" \notin Plans
  BY ServiceAssumption DEF TermsInOrder
<1>1. ASSUME NEW p \in Plans, NEW status \in {"ACTIVE", "UPCOMING"}, NEW manual \in BOOLEAN,
             CreatePlan(p, status, manual)
      PROVE  TermsInOrder'
  <2> DEFINE new == [status |-> status, manual |-> manual, renewedFrom |-> "none"]
  <2>1. new \in PlanDocument /\ new.renewedFrom = "none"
    BY DEF PlanDocument
  <2>2. plan[p].status = "ABSENT" /\ plan' = [plan EXCEPT ![p] = new]
    BY <1>1 DEF CreatePlan
  <2> HIDE DEF new
  <2>3. plan' \in [Plans -> PlanDocument]
    BY <1>0, <2>1, <2>2
  <2>4. \A q \in Plans : plan'[q] = IF q = p THEN new ELSE plan[q]
    BY <1>0, <2>2
  <2> QED
    BY <1>0, <2>1, <2>2, <2>3, <2>4 DEF TermsInOrder
<1>2. ASSUME NEW p \in Plans, CancelPlan(p) PROVE TermsInOrder'
  <2> DEFINE new == [plan[p] EXCEPT !.status = "CANCELLED"]
  <2>1. new \in PlanDocument /\ new.renewedFrom = plan[p].renewedFrom
    BY <1>0 DEF PlanDocument
  <2>2. plan[p].status # "EXPIRED" /\ plan' = [plan EXCEPT ![p] = new]
    BY <1>2 DEF CancelPlan
  <2> HIDE DEF new
  <2>3. plan' \in [Plans -> PlanDocument]
    BY <1>0, <2>1, <2>2
  <2>4. \A q \in Plans : plan'[q] = IF q = p THEN new ELSE plan[q]
    BY <1>0, <2>2
  <2> QED
    BY <1>0, <2>1, <2>2, <2>3, <2>4 DEF TermsInOrder
<1>3. ASSUME NEW p \in Plans, NEW q \in Plans, NEW status \in {"ACTIVE", "UPCOMING"},
             RenewPlan(p, q, status)
      PROVE  TermsInOrder'
  <2> DEFINE old == [plan[p] EXCEPT !.status = "EXPIRED"]
             new == [status |-> status, manual |-> TRUE, renewedFrom |-> p]
  <2>1. /\ old \in PlanDocument /\ old.renewedFrom = plan[p].renewedFrom /\ old.status = "EXPIRED"
        /\ new \in PlanDocument /\ new.renewedFrom = p
    BY <1>0 DEF PlanDocument
  <2>2. /\ plan[q].status = "ABSENT" /\ q # p
        /\ \A r \in Plans : plan[r].renewedFrom # p
        /\ plan' = [plan EXCEPT ![p] = AfterRenewal(@), ![q] = new]
    BY <1>3 DEF RenewPlan, Renewable, Successors
  <2>3. plan' = [plan EXCEPT ![p] = old, ![q] = new]
    BY <2>2 DEF AfterRenewal
  <2> HIDE DEF old, new
  <2>4. plan' \in [Plans -> PlanDocument]
    BY <1>0, <2>1, <2>3
  <2>5. \A r \in Plans : plan'[r] = IF r = q THEN new ELSE IF r = p THEN old ELSE plan[r]
    BY <1>0, <2>2, <2>3
  <2>6. \A r, t \in Plans : plan'[t].renewedFrom = r =>
          \/ t = q /\ r = p
          \/ t # q /\ r # p /\ plan[t].renewedFrom = r
    BY <2>1, <2>2, <2>5
  <2>7. \A r, t \in Plans : plan'[t].renewedFrom = r => plan'[r].status = "EXPIRED"
    BY <2>1, <2>2, <2>5, <2>6 DEF TermsInOrder
  <2> QED
    BY <2>4, <2>6, <2>7 DEF TermsInOrder
<1> QED
  BY <1>1, <1>2, <1>3 DEF PlanStep

(* What the request and the plans need, taken together.                    *)
ServiceInv == SchedulingInOrder /\ TermsInOrder

(* It holds of the initial state.                                          *)
LEMMA ServiceBegins ==
  DeskInit => ServiceInv
<1> USE DEF ServiceInv
<1> SUFFICES ASSUME DeskInit PROVE ServiceInv
  OBVIOUS
<1>1. SchedulingInOrder
  BY DEF DeskInit, ServiceInit, SchedulingInOrder, ServiceQuotation
<1>2. TermsInOrder
  BY ServiceAssumption DEF DeskInit, PlansInit, TermsInOrder, PlanDocument
<1> QED
  BY <1>1, <1>2

(* Every step keeps it, and work is scheduled as agreed.                   *)
LEMMA ServiceSteps ==
  ServiceInv /\ [DeskNext]_deskVars => ServiceInv' /\ ScheduledWorkIsAgreed
<1> USE DEF ServiceInv
<1> SUFFICES ASSUME SchedulingInOrder, TermsInOrder, [DeskNext]_deskVars
             PROVE  ServiceInv' /\ ScheduledWorkIsAgreed
  OBVIOUS
<1>1. UNCHANGED serviceVars => SchedulingInOrder' /\ ScheduledWorkIsAgreed
  BY DEF serviceVars, SchedulingInOrder, ScheduledWorkIsAgreed
<1>2. UNCHANGED plan => TermsInOrder'
  BY DEF TermsInOrder
<1>3. CASE ServiceStep
  <2>1. UNCHANGED plan
    BY <1>3 DEF ServiceStep, CreateServiceRequest, ReadForAssessment, RecordAssessment,
                LoseAssessment, OfferStep, FindService, FindOfferVersion, SupersedeOffers,
                CreateOffer, SaveOffered, AbandonOffer, LapseOffer, DecideServiceQuote,
                ExecutionStep, BeginSchedule, ScheduleService, AbortSchedule, StartService,
                CancelService, CompleteService, TransitionExecution
  <2> QED
    BY <1>2, <1>3, <2>1, SchedulingStaysOrdered
<1>4. CASE PlanStep
  <2>1. UNCHANGED serviceVars
    BY <1>4 DEF PlanStep, CreatePlan, CancelPlan, RenewPlan
  <2> QED
    BY <1>1, <1>4, <2>1, TermsStayOrdered
<1>5. CASE UNCHANGED deskVars
  BY <1>1, <1>2, <1>5 DEF deskVars
<1> QED
  BY <1>3, <1>4, <1>5 DEF DeskNext

(* The invariant holds of every reachable state.                           *)
LEMMA ServiceInvariant == DeskSpec => []ServiceInv
  BY ServiceBegins, ServiceSteps, PTL DEF DeskSpec

(* scheduleExecution and renewPlan: whatever staff, customers and jobs     *)
(* write in between, work is scheduled on an approved quotation of a       *)
(* request that was not found incompatible, and a term that was renewed    *)
(* has one successor and is not live beside it.                            *)
THEOREM ServicesAreAgreed ==
  DeskSpec => ServiceIsAgreed
<1>3. ServiceInv => OneLiveTerm
  <2> SUFFICES ASSUME TermsInOrder, NEW p \in Plans, Successors(p) # {}
               PROVE  plan[p].status = "EXPIRED" /\ Cardinality(Successors(p)) = 1
    BY DEF ServiceInv, OneLiveTerm
  <2>1. PICK q \in Plans : plan[q].renewedFrom = p
    BY DEF Successors
  <2>2. Successors(p) = {q}
    BY <2>1 DEF Successors, TermsInOrder
  <2> QED
    BY <2>1, <2>2, FS_Singleton DEF TermsInOrder
<1> QED
  BY ServiceBegins, ServiceSteps, <1>3, PTL DEF DeskSpec, ServiceIsAgreed

-----------------------------------------------------------------------------
ExecutionShape == execution = [status |-> execution.status, version |-> execution.version]

(* Every step of the desk advances the lifecycle or leaves it as it is.    *)
LEMMA ExecutionAdvances ==
  ASSUME ExecutionShape, DeskNext
  PROVE  ExecutionShape' /\ (Lifecycle!Advance \/ UNCHANGED <<execution, history>>)
<1>1. ASSUME NEW from, NEW to, TransitionExecution(from, to)
      PROVE  /\ ExecutionShape' /\ execution.status \in from /\ execution'.status = to
             /\ UNCHANGED history
  <2>1. execution' = [status |-> to, version |-> execution.version]
    BY <1>1 DEF TransitionExecution, ExecutionShape
  <2> QED
    BY <1>1, <2>1 DEF TransitionExecution, ExecutionShape
<1>2. CASE StartService
  BY <1>1, <1>2 DEF StartService, Lifecycle!Advance, Lifecycle!Rank
<1>3. CASE CancelService
  BY <1>1, <1>3 DEF CancelService, CancellableExecutions, Lifecycle!Advance, Lifecycle!Rank
<1>4. CASE CompleteService
  <2>1. /\ execution' = [status |-> "COMPLETED", version |-> execution.version]
        /\ execution.status = "IN_PROGRESS" /\ history' = history + 1
    BY <1>4 DEF CompleteService, ExecutionShape
  <2> QED
    BY <2>1 DEF ExecutionShape, Lifecycle!Advance, Lifecycle!Rank
<1>5. ASSUME NEW s \in scheduling, ScheduleService(s)
      PROVE  ExecutionShape' /\ Lifecycle!Advance
  <2>1. /\ execution' = [status |-> "SCHEDULED", version |-> s.version]
        /\ execution.status = "ABSENT" /\ UNCHANGED history
    BY <1>5 DEF ScheduleService
  <2> QED
    BY <2>1 DEF ExecutionShape, Lifecycle!Advance, Lifecycle!Rank
<1>6. UNCHANGED <<execution, history>> =>
        ExecutionShape' /\ (Lifecycle!Advance \/ UNCHANGED <<execution, history>>)
  BY DEF ExecutionShape
<1> QED
  BY <1>2, <1>3, <1>4, <1>5, <1>6
     DEF DeskNext, PlanStep, CreatePlan, CancelPlan, RenewPlan, serviceVars,
         ServiceStep, CreateServiceRequest, ReadForAssessment, RecordAssessment, LoseAssessment,
         OfferStep, FindService, FindOfferVersion, SupersedeOffers, CreateOffer, SaveOffered,
         AbandonOffer, LapseOffer, DecideServiceQuote, ExecutionStep, BeginSchedule, AbortSchedule

(* transitionExecution: the service desk implements the lifecycle that     *)
(* only goes forward, whatever becomes of the status of the request; its   *)
(* completion is written to the history in the same step.                  *)
THEOREM ServicesGoForward ==
  DeskSpec => ExecutionFollowsLifecycle
<1>1. DeskInit => ExecutionShape /\ Lifecycle!Init
  BY DEF DeskInit, ServiceInit, ExecutionShape, Lifecycle!Init
<1>2. ExecutionShape /\ [DeskNext]_deskVars =>
        ExecutionShape' /\ [Lifecycle!Advance]_<<execution.status, history>>
  BY ExecutionAdvances DEF deskVars, serviceVars, ExecutionShape
<1> QED
  BY <1>1, <1>2, PTL DEF DeskSpec, ExecutionFollowsLifecycle, Lifecycle!Spec

-----------------------------------------------------------------------------
(* Policies.  The number of a version is a maximum, which PolicyStands    *)
(* does not need: this invariant leaves it open, VersionsInOrder has it.   *)
(* Nobody supersedes what they publish.                                    *)
Publication ==
  {p \in [edition : Editions, current : SUBSET Editions, clean : BOOLEAN] : p.edition \notin p.current}

Shaped(doc) == doc = [status |-> doc.status, version |-> doc.version, author |-> doc.author]

EditionsInOrder ==
  /\ edition = [e \in Editions |-> edition[e]]
  /\ \A e \in Editions : Shaped(edition[e])
  /\ publishing \subseteq Publication
  /\ \A e, f \in Current : e = f

RecordsInOrder ==
  /\ deleting \subseteq Editions
  /\ capturing \subseteq [record : Records, edition : Editions]
  /\ accepted \in [Records -> Editions \cup {"none"}]

ContentInv == EditionsInOrder /\ RecordsInOrder

(* One version of the policy moves to another status.                      *)
LEMMA Moves ==
  ASSUME EditionsInOrder, NEW e \in Editions, NEW s, NEW new, new = Moved(e, s)
  PROVE  /\ new = [f \in Editions |-> new[f]]
         /\ \A f \in Editions : Shaped(new[f])
         /\ \A f \in Editions : new[f].status = IF f = e THEN s ELSE edition[f].status
<1> DEFINE doc == [edition[e] EXCEPT !.status = s]
<1>1. edition = [f \in Editions |-> edition[f]] /\ \A f \in Editions : Shaped(edition[f])
  BY DEF EditionsInOrder
<1>2. doc = [status |-> s, version |-> edition[e].version, author |-> edition[e].author]
  BY <1>1 DEF Shaped
<1>3. doc.status = s /\ Shaped(doc)
  BY <1>2 DEF Shaped
<1>4. new = [edition EXCEPT ![e] = doc]
  BY DEF Moved
<1> HIDE DEF doc
<1>5. new = [f \in Editions |-> IF f = e THEN doc ELSE edition[f]]
  BY <1>1, <1>4
<1> QED
  BY <1>1, <1>3, <1>5

(* A publication that lost its snapshot is still the same publication.     *)
LEMMA DisturbedShape ==
  ASSUME EditionsInOrder, NEW es
  PROVE  Disturbed(es) \subseteq Publication
<1> SUFFICES ASSUME NEW q \in Disturbed(es)
             PROVE  q \in Publication
  OBVIOUS
<1>1. PICK p \in publishing :
        q = [p EXCEPT !.clean = p.clean /\ p.edition \notin es /\ p.current \cap es = {}]
  BY DEF Disturbed
<1>2. p \in Publication
  BY DEF EditionsInOrder
<1> QED
  BY <1>1, <1>2 DEF Publication

(* Whoever publishes supersedes the version in force, or has lost.         *)
LEMMA EditionsStayOrdered ==
  ASSUME EditionsInOrder, deleting \subseteq Editions, [ContentStep]_contentVars
  PROVE  EditionsInOrder'
<1>0. /\ edition = [e \in Editions |-> edition[e]] /\ \A e \in Editions : Shaped(edition[e])
      /\ publishing \subseteq Publication
      /\ \A e, f \in Editions :
           edition[e].status = "PUBLISHED" /\ edition[f].status = "PUBLISHED" => e = f
  BY DEF EditionsInOrder, Current
<1>1. ASSUME UNCHANGED edition,
             publishing' \subseteq Publication
      PROVE  EditionsInOrder'
  BY <1>1 DEF EditionsInOrder, Current
<1>2. ASSUME NEW e \in Editions, NEW s, edition' = Moved(e, s), s # "PUBLISHED",
             publishing' \subseteq Publication
      PROVE  EditionsInOrder'
  <2>1. /\ edition' = [f \in Editions |-> edition'[f]]
        /\ \A f \in Editions : Shaped(edition'[f])
        /\ \A f \in Editions : edition'[f].status = IF f = e THEN s ELSE edition[f].status
    BY <1>2, Moves
  <2>2. \A f \in Editions : Shaped(edition[f])'
    BY <2>1 DEF Shaped
  <2>3. \A f, g \in Current' : f = g
    BY <1>0, <1>2, <2>1 DEF Current
  <2> QED
    BY <1>2, <2>1, <2>2, <2>3 DEF EditionsInOrder
<1>3. ASSUME NEW e \in Editions, NEW by, CreateDraft(e, by) PROVE EditionsInOrder'
  <2> DEFINE doc == [status |-> "DRAFT", version |-> NextVersion, author |-> by]
  <2>1. PICK d : d = doc
    OBVIOUS
  <2>2. d.status = "DRAFT" /\ Shaped(d)
    BY <2>1 DEF Shaped
  <2>3. edition' = [edition EXCEPT ![e] = d] /\ UNCHANGED publishing
    BY <1>3, <2>1 DEF CreateDraft
  <2>4. edition' = [f \in Editions |-> IF f = e THEN d ELSE edition[f]]
    BY <1>0, <2>3
  <2>5. edition' = [f \in Editions |-> edition'[f]] /\ \A f \in Editions : Shaped(edition'[f])
    BY <1>0, <2>2, <2>4
  <2>6. \A f \in Editions : Shaped(edition[f])'
    BY <2>5 DEF Shaped
  <2>7. \A f, g \in Current' : f = g
    BY <1>0, <2>2, <2>4 DEF Current
  <2> QED
    BY <1>0, <2>3, <2>5, <2>6, <2>7 DEF EditionsInOrder
<1>4. ASSUME NEW e \in Editions, \/ SubmitEdition(e) \/ ArchiveEdition(e) \/ CommitDeletePolicy(e)
                                 \/ \E by \in Editors : ApproveEdition(e, by)
      PROVE  EditionsInOrder'
  <2>1. /\ \E s \in {"IN_REVIEW", "APPROVED", "ARCHIVED", "DELETED"} : edition' = Moved(e, s)
        /\ publishing' = Disturbed({e})
    BY <1>4 DEF SubmitEdition, ArchiveEdition, CommitDeletePolicy, ApproveEdition
  <2> QED
    BY <1>2, <2>1, DisturbedShape
<1>5. ASSUME NEW e \in Editions, BeginPublish(e) PROVE EditionsInOrder'
  <2>1. [edition |-> e, current |-> Current, clean |-> TRUE]
          \in Publication
    BY <1>5 DEF BeginPublish, Current, Publication
  <2> QED
    BY <1>0, <1>1, <1>5, <2>1 DEF BeginPublish
<1>6. ASSUME NEW p \in publishing, CommitPublish(p) PROVE EditionsInOrder'
  <2>1. /\ p.edition \in Editions /\ p.current \subseteq Editions
        /\ p.edition \notin p.current
        /\ \A e \in Editions : edition[e].status = "PUBLISHED" => e \in p.current
    BY <1>0, <1>6 DEF Publication, CommitPublish, Unrivalled, Current
  <2>2. edition' = [e \in Editions |->
                      IF e = p.edition THEN [edition[e] EXCEPT !.status = "PUBLISHED"]
                      ELSE IF e \in p.current THEN [edition[e] EXCEPT !.status = "SUPERSEDED"]
                      ELSE edition[e]]
    BY <1>6, <2>1 DEF CommitPublish
  <2>3. ASSUME NEW e \in Editions, NEW s
        PROVE  [edition[e] EXCEPT !.status = s].status = s /\ Shaped([edition[e] EXCEPT !.status = s])
    <3>1. [edition[e] EXCEPT !.status = s] =
            [status |-> s, version |-> edition[e].version, author |-> edition[e].author]
      BY <1>0 DEF Shaped
    <3> QED
      BY <3>1 DEF Shaped
  <2>4. /\ edition' = [e \in Editions |-> edition'[e]]
        /\ \A e \in Editions : Shaped(edition'[e])
        /\ \A e \in Editions : edition'[e].status =
             IF e = p.edition THEN "PUBLISHED"
             ELSE IF e \in p.current THEN "SUPERSEDED" ELSE edition[e].status
    BY <1>0, <2>2, <2>3
  <2>5. \A e \in Editions : Shaped(edition[e])'
    BY <2>4 DEF Shaped
  <2>6. \A e, f \in Current' : e = f
    BY <2>1, <2>4 DEF Current
  <2>7. publishing' \subseteq Publication
    BY <1>6, DisturbedShape DEF CommitPublish
  <2> QED
    BY <2>4, <2>5, <2>6, <2>7 DEF EditionsInOrder
<1>7. ASSUME NEW p \in publishing, AbortPublish(p) PROVE EditionsInOrder'
  BY <1>0, <1>1, <1>7 DEF AbortPublish
<1>8. ASSUME UNCHANGED <<edition, publishing>> PROVE EditionsInOrder'
  BY <1>0, <1>1, <1>8
<1>9. ASSUME NEW e \in Editions, BeginDeletePolicy(e) PROVE EditionsInOrder'
  BY <1>8, <1>9 DEF BeginDeletePolicy
<1>10. ASSUME NEW e \in deleting, AbortDeletePolicy(e) PROVE EditionsInOrder'
  BY <1>8, <1>10 DEF AbortDeletePolicy
<1>11. ASSUME \/ \E r \in Records : CapturePolicyAcceptances(r)
              \/ \E c \in capturing : SaveRecord(c) \/ DropRecord(c)
       PROVE  EditionsInOrder'
  BY <1>8, <1>11 DEF CapturePolicyAcceptances, SaveRecord, DropRecord
<1>12. CASE UNCHANGED contentVars
  BY <1>8, <1>12 DEF contentVars
<1> QED
  BY <1>3, <1>4, <1>5, <1>6, <1>7, <1>9, <1>10, <1>11, <1>12 DEF ContentStep

(* Records keep the version they accepted.                                 *)
LEMMA RecordsStayOrdered ==
  ASSUME RecordsInOrder, [ContentStep]_contentVars
  PROVE  RecordsInOrder'
<1>0. /\ deleting \subseteq Editions
      /\ capturing \subseteq [record : Records, edition : Editions]
      /\ accepted \in [Records -> Editions \cup {"none"}]
  BY DEF RecordsInOrder
<1>1. ASSUME NEW r \in Records, CapturePolicyAcceptances(r) PROVE RecordsInOrder'
  <2>1. PICK e \in Current : capturing' = capturing \cup {[record |-> r, edition |-> e]}
    BY <1>1 DEF CapturePolicyAcceptances
  <2>2. e \in Editions
    BY DEF Current
  <2> QED
    BY <1>0, <1>1, <2>1, <2>2 DEF CapturePolicyAcceptances, RecordsInOrder
<1>2. ASSUME NEW c \in capturing, SaveRecord(c) \/ DropRecord(c) PROVE RecordsInOrder'
  BY <1>0, <1>2 DEF SaveRecord, DropRecord, RecordsInOrder
<1>3. ASSUME NEW e \in Editions, BeginDeletePolicy(e) PROVE RecordsInOrder'
  BY <1>0, <1>3 DEF BeginDeletePolicy, RecordsInOrder
<1>4. ASSUME NEW e \in deleting, CommitDeletePolicy(e) \/ AbortDeletePolicy(e)
      PROVE  RecordsInOrder'
  BY <1>0, <1>4 DEF CommitDeletePolicy, AbortDeletePolicy, RecordsInOrder
<1>5. ASSUME UNCHANGED <<deleting, capturing, accepted>> PROVE RecordsInOrder'
  BY <1>5 DEF RecordsInOrder
<1> QED
  BY <1>1, <1>2, <1>3, <1>4, <1>5
     DEF ContentStep, CreateDraft, ApproveEdition, SubmitEdition, ArchiveEdition, BeginPublish,
         CommitPublish, AbortPublish, contentVars

(* Only the deletion that passed its checks takes a version away.          *)
LEMMA KeptWhileAccepted ==
  ASSUME ContentInv, [ContentStep]_contentVars
  PROVE  AcceptedVersionStays
<1> SUFFICES ASSUME NEW e \in Kept, Referenced(e), e \notin deleting
             PROVE  e \in Kept' /\ e \notin deleting'
  BY DEF AcceptedVersionStays
<1>0. EditionsInOrder /\ deleting \subseteq Editions
      /\ e \in Editions /\ edition[e].status \in ContentStatus
  BY DEF ContentInv, RecordsInOrder, Kept
<1>1. ASSUME NEW f \in Editions, NEW s \in ContentStatus, edition' = Moved(f, s) PROVE e \in Kept'
  BY <1>0, <1>1, Moves DEF Kept
<1>2. UNCHANGED edition => e \in Kept'
  BY DEF Kept
<1>3. ASSUME NEW f \in Editions, NEW by \in Editors, CreateDraft(f, by)
      PROVE  e \in Kept' /\ e \notin deleting'
  <2>1. PICK d : d = [status |-> "DRAFT", version |-> NextVersion, author |-> by]
    OBVIOUS
  <2>2. d.status \in ContentStatus
    BY <2>1 DEF ContentStatus
  <2>3. edition' = [edition EXCEPT ![f] = d] /\ UNCHANGED deleting
    BY <1>3, <2>1 DEF CreateDraft
  <2>4. DOMAIN edition = Editions
    BY <1>0 DEF EditionsInOrder
  <2> QED
    BY <1>0, <2>2, <2>3, <2>4 DEF Kept
<1>4. ASSUME NEW f \in Editions, \/ SubmitEdition(f) \/ ArchiveEdition(f)
                                 \/ \E by \in Editors : ApproveEdition(f, by)
      PROVE  e \in Kept' /\ e \notin deleting'
  <2>1. /\ \E s \in ContentStatus : edition' = Moved(f, s)
        /\ UNCHANGED deleting
    BY <1>4 DEF SubmitEdition, ArchiveEdition, ApproveEdition, ContentStatus
  <2> QED
    BY <1>1, <2>1
<1>5. ASSUME NEW p \in publishing, CommitPublish(p) PROVE e \in Kept' /\ e \notin deleting'
  <2>1. Shaped(edition[e])
    BY <1>0 DEF EditionsInOrder
  <2>2. /\ edition'[e] \in {edition[e], [edition[e] EXCEPT !.status = "PUBLISHED"],
                             [edition[e] EXCEPT !.status = "SUPERSEDED"]}
        /\ UNCHANGED deleting
    BY <1>0, <1>5 DEF CommitPublish
  <2>3. edition'[e].status \in ContentStatus
    BY <1>0, <2>1, <2>2 DEF Shaped, ContentStatus
  <2> QED
    BY <1>0, <2>2, <2>3 DEF Kept
<1>6. ASSUME NEW f \in Editions, BeginDeletePolicy(f) PROVE e \in Kept' /\ e \notin deleting'
  BY <1>2, <1>6 DEF BeginDeletePolicy, Deletable
<1>7. ASSUME NEW f \in deleting, CommitDeletePolicy(f) PROVE e \in Kept' /\ e \notin deleting'
  BY <1>0, <1>7, Moves DEF CommitDeletePolicy, Kept
<1>8. ASSUME UNCHANGED edition, deleting' \subseteq deleting
      PROVE  e \in Kept' /\ e \notin deleting'
  BY <1>2, <1>8
<1>9. ASSUME \/ \E p \in publishing : AbortPublish(p)
             \/ \E f \in Editions : BeginPublish(f)
             \/ \E f \in deleting : AbortDeletePolicy(f)
             \/ \E r \in Records : CapturePolicyAcceptances(r)
             \/ \E c \in capturing : SaveRecord(c) \/ DropRecord(c)
             \/ UNCHANGED contentVars
      PROVE  UNCHANGED edition /\ deleting' \subseteq deleting
  BY <1>9 DEF AbortPublish, BeginPublish, AbortDeletePolicy, CapturePolicyAcceptances, SaveRecord,
              DropRecord, contentVars
<1> QED
  BY <1>3, <1>4, <1>5, <1>6, <1>7, <1>8, <1>9 DEF ContentStep

(* It holds of the initial state.                                          *)
LEMMA ContentBegins ==
  ContentInit => ContentInv
BY DEF ContentInit, ContentInv, EditionsInOrder, RecordsInOrder, Current, Shaped

(* Every step keeps it, and the versions that were accepted.               *)
LEMMA ContentSteps ==
  ContentInv /\ [ContentStep]_contentVars => ContentInv' /\ AcceptedVersionStays
BY EditionsStayOrdered, RecordsStayOrdered, KeptWhileAccepted DEF ContentInv, RecordsInOrder

(* The invariant holds of every reachable state.                           *)
LEMMA ContentInvariant == ContentSpec => []ContentInv
  BY ContentBegins, ContentSteps, PTL DEF ContentSpec

(* publishPolicyVersion, deletePolicyVersion and capturePolicyAcceptances: *)
(* for any number of versions, publications, deletions and records, one    *)
(* version is in force at most, and a version that a record accepted is    *)
(* only lost to a deletion that was past its checks before.                *)
THEOREM PoliciesAreKept ==
  ContentSpec => PolicyStands
<1>3. ContentInv => OneVersionInForce
  <2> SUFFICES ASSUME ContentInv PROVE Cardinality(Current) <= 1
    BY DEF OneVersionInForce
  <2>1. \A e, f \in Current : e = f
    BY DEF ContentInv, EditionsInOrder
  <2> QED
    BY <2>1, AtMostOne
<1> QED
  BY ContentBegins, ContentSteps, <1>3, PTL DEF ContentSpec, PolicyStands

-----------------------------------------------------------------------------
(* The catalogue: a request during which no other one wrote remembers the  *)
(* product and the variant as they are, and if it is past its check the    *)
(* aggregate it leads to may be published.                                 *)
Alone(e) == e.others = "nothing"

Remembers(e) ==
  /\ e.seen = product
  /\ e.kind # "product" => e.variant \in Variants /\ e.own = variants[e.variant]
  /\ e.step = "save" /\ CandidateStatus(e) = "active" =>
       Publishable(CandidateContent(e), CandidateVariants(e, variants))

CatalogueInv ==
  /\ product \in Product
  /\ variants \in Shelf
  /\ editing \subseteq Edit
  /\ product.status = "absent" => editing = {} /\ variants = NoVariants
  /\ \A e \in editing : Alone(e) => Remembers(e)

(* What one request makes of its own record.                               *)
LEMMA EditChecked ==
  ASSUME NEW e \in Edit, NEW f, f = [e EXCEPT !.step = "save"]
  PROVE  /\ f \in Edit /\ f.seen = e.seen /\ f.step = "save" /\ f.others = e.others
         /\ f.kind = e.kind /\ f.variant = e.variant /\ f.own = e.own
         /\ f.status = e.status /\ f.content = e.content
BY DEF Edit

(* After a write nobody else is alone any more.                            *)
LEMMA OthersMarked ==
  ASSUME NEW e \in Edit, NEW mark \in {"wrote", "images"}
  PROVE  [e EXCEPT !.others = mark] \in Edit /\ ~Alone([e EXCEPT !.others = mark])
BY DEF Edit, Alone

(* A write is noticed by every request that is under way.                  *)
LEMMA WritesMark ==
  ASSUME editing \subseteq Edit, NEW e,
         \/ editing' = After(e)
         \/ editing' = {[f EXCEPT !.others = IF @ = "images" THEN @ ELSE "wrote"] : f \in editing}
  PROVE  /\ editing' \subseteq Edit /\ \A f \in editing' : ~Alone(f)
         /\ editing = {} => editing' = {}
<1> SUFFICES ASSUME NEW g \in editing' PROVE g \in Edit /\ ~Alone(g) /\ editing # {}
  OBVIOUS
<1>1. PICK f \in editing : \E mark \in {"wrote", "images"} : g = [f EXCEPT !.others = mark]
  BY DEF After
<1> QED
  BY <1>1, OthersMarked

(* What a request remembers is so as long as nobody else wrote, and its    *)
(* check was made on that.                                                 *)
LEMMA CatalogueStaysInOrder ==
  ASSUME CatalogueInv, [CatalogueStep]_catalogueVars
  PROVE  CatalogueInv'
<1>0. /\ product \in Product /\ variants \in Shelf /\ editing \subseteq Edit
      /\ product.status = "absent" => editing = {} /\ variants = NoVariants
      /\ \A e \in editing : Alone(e) => Remembers(e)
  BY DEF CatalogueInv
<1>1. ASSUME UNCHANGED <<product, variants>>, editing' \subseteq Edit,
             product.status = "absent" => editing' = {},
             \A e \in editing' : e \in editing \/ (Alone(e) => Remembers(e))
      PROVE  CatalogueInv'
  <2>1. \A e \in editing' : Alone(e) => Remembers(e)
    BY <1>0, <1>1
  <2>2. \A e \in editing' : Alone(e) => Remembers(e)'
    BY <1>1, <2>1 DEF Remembers, CandidateVariants
  <2> QED
    BY <1>0, <1>1, <2>2 DEF CatalogueInv
<1>2. ASSUME NEW status \in ProductStatus, NEW content \in Content, CreateProduct(status, content)
      PROVE  CatalogueInv'
  <2>1. /\ product' = [status |-> status, content |-> content] /\ UNCHANGED <<variants, editing>>
        /\ editing = {}
    BY <1>0, <1>2 DEF CreateProduct
  <2>2. product' \in Product /\ product'.status # "absent"
    BY <2>1 DEF Product, ProductStatus
  <2> QED
    BY <1>0, <2>1, <2>2 DEF CatalogueInv
<1>3. ASSUME NEW kind \in {"product", "create", "update"}, NEW v \in Variants \cup {"none"},
             NEW status \in ProductStatus \cup {"keep"}, NEW content \in Content \cup {"keep"},
             NEW step \in {"owner", "check"}, product.status # "absent",
             kind = "product" \/ (v \in Variants /\ v # "none"),
             Goes({}, {NewEdit(kind, v, status, content, step)}), UNCHANGED <<product, variants>>
      PROVE  CatalogueInv'
  <2> DEFINE e == NewEdit(kind, v, status, content, step)
  <2>1. v # "none" => variants[v] \in Content \cup {"absent"}
    BY <1>0 DEF Shelf
  <2>2. (IF v = "none" THEN "absent" ELSE variants[v]) \in Content \cup {"absent"}
    BY <2>1
  <2>3. PICK own \in Content \cup {"absent"} : own = IF v = "none" THEN "absent" ELSE variants[v]
    BY <2>2
  <2>4. e = [kind |-> kind, variant |-> v, status |-> status, content |-> content,
             own |-> own, seen |-> product, step |-> step, others |-> "nothing"]
    BY <2>3 DEF NewEdit
  <2>5. e \in Edit
    BY <1>0, <2>4 DEF Edit
  <2>6. e.seen = product /\ e.step # "save" /\ e.kind = kind /\ e.variant = v /\ e.own = own
    BY <2>4
  <2>7. Remembers(e)
    BY <1>3, <2>3, <2>6 DEF Remembers
  <2>8. editing' = editing \cup {e}
    BY <1>3 DEF Goes
  <2> HIDE DEF e
  <2> QED
    BY <1>0, <1>1, <1>3, <2>5, <2>7, <2>8
<1>4. ASSUME NEW patch \in Patches, BeginUpdateProduct(patch) PROVE CatalogueInv'
  <2>1. /\ patch.status \in ProductStatus \cup {"keep"} /\ patch.content \in Content \cup {"keep"}
    BY CatalogueAssumption DEF ProductStatus, Content
  <2> QED
    BY <1>3, <1>4, <2>1 DEF BeginUpdateProduct, ProductFound
<1>5. ASSUME NEW v \in Variants, NEW content \in Content, BeginCreateVariant(v, content)
      PROVE  CatalogueInv'
  BY <1>3, <1>5, CatalogueAssumption DEF BeginCreateVariant, ProductFound
<1>6. ASSUME NEW v \in Variants, NEW content \in Content, BeginUpdateVariant(v, content)
      PROVE  CatalogueInv'
  <2>1. product.status # "absent"
    BY <1>0, <1>6 DEF BeginUpdateVariant, NoVariants
  <2> QED
    BY <1>3, <1>6, <2>1, CatalogueAssumption DEF BeginUpdateVariant
<1>7. ASSUME NEW e \in editing, ReadOwner(e) PROVE CatalogueInv'
  <2>0. PICK f : f = [e EXCEPT !.seen = product, !.step = "check"]
    OBVIOUS
  <2>1. /\ f \in Edit /\ f.seen = product /\ f.step = "check" /\ f.others = e.others
        /\ f.kind = e.kind /\ f.variant = e.variant /\ f.own = e.own
    <3>1. e \in Edit /\ product \in Product
      BY <1>0
    <3> QED
      BY <2>0, <3>1 DEF Edit
  <2>2. editing' = (editing \ {e}) \cup {f} /\ UNCHANGED <<product, variants>>
    BY <1>7, <2>0 DEF ReadOwner, Goes
  <2>3. Alone(f) => Remembers(f)
    BY <1>0, <2>1 DEF Alone, Remembers
  <2> QED
    BY <1>0, <1>1, <2>1, <2>2, <2>3
<1>8. ASSUME NEW e \in editing, CheckEdit(e) PROVE CatalogueInv'
  <2>0. PICK f : f = [e EXCEPT !.step = "save"]
    OBVIOUS
  <2>1. /\ f \in Edit /\ f.seen = e.seen /\ f.step = "save" /\ f.others = e.others
        /\ f.kind = e.kind /\ f.variant = e.variant /\ f.own = e.own
        /\ f.status = e.status /\ f.content = e.content
    BY <1>0, <2>0, EditChecked
  <2>2. /\ editing' = (editing \ {e}) \cup {f} /\ UNCHANGED <<product, variants>>
        /\ CandidateStatus(e) = "active" =>
             Publishable(CandidateContent(e), CandidateVariants(e, variants))
    BY <1>8, <2>0 DEF CheckEdit, Goes
  <2>3. /\ CandidateStatus(f) = CandidateStatus(e) /\ CandidateContent(f) = CandidateContent(e)
        /\ CandidateVariants(f, variants) = CandidateVariants(e, variants)
    BY <2>1 DEF CandidateStatus, CandidateContent, CandidateVariants
  <2>4. Alone(f) => Remembers(f)
    BY <1>0, <2>1, <2>2, <2>3 DEF Alone, Remembers
  <2> QED
    BY <1>0, <1>1, <2>1, <2>2, <2>4
<1>9. ASSUME NEW e \in editing, EndEdit(e) PROVE CatalogueInv'
  BY <1>0, <1>1, <1>9 DEF EndEdit, Goes
<1>10. ASSUME NEW e \in editing, SaveProduct(e) PROVE CatalogueInv'
  <2>1. /\ product' = [status |-> IF e.status \in {"keep", e.seen.status} THEN product.status
                                  ELSE e.status,
                       content |-> IF Replaces(e) THEN e.content ELSE product.content]
        /\ editing' = After(e) /\ UNCHANGED variants
    BY <1>10 DEF SaveProduct
  <2>2. /\ e \in Edit /\ product.status # "absent"
    BY <1>0
  <2>3. /\ (IF e.status \in {"keep", e.seen.status} THEN product.status ELSE e.status)
             \in ProductStatus
        /\ (IF Replaces(e) THEN e.content ELSE product.content) \in Content
    BY <1>0, <2>2 DEF Edit, Product, Replaces
  <2>4. product' \in Product /\ product'.status # "absent"
    BY <2>1, <2>3 DEF Product, ProductStatus
  <2>5. editing' \subseteq Edit /\ \A f \in editing' : ~Alone(f)
    BY <1>0, <2>1, WritesMark
  <2> QED
    BY <1>0, <2>1, <2>4, <2>5 DEF CatalogueInv
<1>11. ASSUME NEW e \in editing, SaveVariant(e) PROVE CatalogueInv'
  <2>1. /\ \/ UNCHANGED variants
           \/ /\ e.content \in Content
              /\ variants' = [variants EXCEPT ![e.variant] = e.content]
        /\ editing' = After(e) /\ UNCHANGED product
    BY <1>0, <1>11 DEF SaveVariant, Edit
  <2>2. variants' \in Shelf /\ product.status # "absent"
    BY <1>0, <2>1 DEF Shelf
  <2>3. editing' \subseteq Edit /\ \A f \in editing' : ~Alone(f)
    BY <1>0, <2>1, WritesMark
  <2> QED
    BY <1>0, <2>1, <2>2, <2>3 DEF CatalogueInv
<1>12. CASE ArchiveProduct
  <2>1. /\ product' = [product EXCEPT !.status = "archived"] /\ UNCHANGED variants
        /\ editing' = {[e EXCEPT !.others = IF @ = "images" THEN @ ELSE "wrote"] : e \in editing}
    BY <1>12 DEF ArchiveProduct
  <2>2. product' \in Product /\ product'.status # "absent"
    BY <1>0, <2>1 DEF Product, ProductStatus
  <2>3. editing' \subseteq Edit /\ \A f \in editing' : ~Alone(f)
    BY <1>0, <2>1, WritesMark
  <2> QED
    BY <1>0, <2>1, <2>2, <2>3 DEF CatalogueInv
<1>13. CASE UNCHANGED catalogueVars
  BY <1>0, <1>1, <1>13 DEF catalogueVars
<1> QED
  BY <1>2, <1>4, <1>5, <1>6, <1>7, <1>8, <1>9, <1>10, <1>11, <1>12, <1>13 DEF CatalogueStep

(* A save of a request that was alone leads to the aggregate it checked.   *)
LEMMA SavesWhatWasChecked ==
  ASSUME CatalogueInv, NEW e \in editing, Alone(e), SaveProduct(e) \/ SaveVariant(e)
  PROVE  NothingMissing'
<1>0. /\ e \in Edit /\ e.seen = product /\ product \in Product /\ variants \in Shelf
      /\ e.kind # "product" => e.variant \in Variants /\ e.own = variants[e.variant]
      /\ e.step = "save"
      /\ CandidateStatus(e) = "active" =>
           Publishable(CandidateContent(e), CandidateVariants(e, variants))
  BY DEF CatalogueInv, Remembers, SaveProduct, SaveVariant
<1>1. CASE SaveProduct(e)
  <2>1. /\ e.kind = "product" /\ UNCHANGED variants
        /\ product'.status = IF e.status \in {"keep", e.seen.status} THEN product.status ELSE e.status
        /\ product'.content = IF Replaces(e) THEN e.content ELSE product.content
    BY <1>1 DEF SaveProduct
  <2>2. product'.status = CandidateStatus(e) /\ product'.content = CandidateContent(e)
    BY <1>0, <2>1 DEF CandidateStatus, CandidateContent, Asked, Replaces
  <2>3. variants' = CandidateVariants(e, variants)
    BY <2>1 DEF CandidateVariants
  <2> QED
    BY <1>0, <2>2, <2>3 DEF NothingMissing, Publishable
<1>2. CASE SaveVariant(e)
  <2>1. /\ e.kind # "product" /\ UNCHANGED product
        /\ variants' = IF e.content \in {"keep", e.own} THEN variants
                       ELSE [variants EXCEPT ![e.variant] = e.content]
    BY <1>2 DEF SaveVariant
  <2>2. product'.status = CandidateStatus(e) /\ product'.content = CandidateContent(e)
    BY <1>0, <2>1 DEF CandidateStatus, CandidateContent
  <2>3. \A v \in Variants : variants'[v] = CandidateVariants(e, variants)[v]
    BY <1>0, <2>1 DEF CandidateVariants, Asked, Shelf
  <2> QED
    BY <1>0, <2>2, <2>3 DEF NothingMissing, Publishable
<1> QED
  BY <1>1, <1>2

(* It holds of the initial state.                                          *)
LEMMA CatalogueBegins ==
  CatalogueInit => CatalogueInv
BY DEF CatalogueInit, CatalogueInv, Product, Shelf, Content, NoVariants

(* The invariant holds of every reachable state.                           *)
LEMMA CatalogueInvariant == CatalogueSpec => []CatalogueInv
  BY CatalogueBegins, CatalogueStaysInOrder, PTL DEF CatalogueSpec

(* updateProduct, createVariant and updateVariant: a request during which  *)
(* nobody else wrote never leaves an active product without its content or *)
(* its variants, for any number of variants and of requests under way.     *)
THEOREM PublicationsAreChecked ==
  CatalogueSpec => PublicationIsChecked
<1>2. CatalogueInv /\ [CatalogueStep]_catalogueVars => CatalogueInv'
  BY CatalogueStaysInOrder
<1>3. CatalogueInv =>
        \A e \in editing :
          e.others = "nothing" /\ (SaveProduct(e) \/ SaveVariant(e)) /\ NothingMissing
            => NothingMissing'
  BY SavesWhatWasChecked DEF Alone
<1> QED
  BY CatalogueBegins, <1>2, <1>3, PTL DEF CatalogueSpec, PublicationIsChecked

-----------------------------------------------------------------------------
(* Secret links: a rotation that can still commit has seen links that are  *)
(* open, and all of them as long as the index has removed none.            *)
Rotates(r) == "creates" \in DOMAIN r
Accepts(r) == "accepts" \in DOMAIN r

One(S) == \A x, y \in S : x = y

InvitesInOrder ==
  /\ invitee = "absent" => inviting = {} /\ \A i \in Invitations : invitation[i].state = "absent"
  /\ \A a \in inviting : Accepts(a) /\ a.clean =>
       invitee = "INVITED" /\ invitation[a.accepts].state = "open"
  /\ \A r \in inviting : Rotates(r) =>
       /\ invitation[r.creates].state = "absent"
       /\ r.clean => r.seen \subseteq OpenIn(invitation)

OneInvitation ==
  RemovedIn(invitation) = {} =>
    /\ One(OpenIn(invitation))
    /\ invitee = "INVITED" => OpenIn(invitation) # {}
    /\ \A r \in inviting : Rotates(r) /\ r.clean =>
         invitee = "INVITED" /\ r.seen = OpenIn(invitation)

LinksInOrder ==
  /\ (\A l \in Links : link[l].state = "absent") => relinking = {}
  /\ \A r \in relinking : /\ link[r.creates].state = "absent"
                          /\ r.clean => r.seen \subseteq OpenIn(link)

OneLink ==
  RemovedIn(link) = {} =>
    /\ One(OpenIn(link))
    /\ (\E l \in Links : link[l].state # "absent") => OpenIn(link) # {}
    /\ \A r \in relinking : r.clean => r.seen = OpenIn(link)

InviteShape ==
  /\ invitee \in {"absent", "INVITED", "ACTIVE"}
  /\ invitation \in [Invitations -> Secret]
  /\ inviting \subseteq Rotation(Invitations) \cup Acceptance

LinkShape == link \in [Links -> Secret] /\ relinking \subseteq Rotation(Links)

InviteInv == InviteShape /\ InvitesInOrder /\ OneInvitation
LinkInv == LinkShape /\ LinksInOrder /\ OneLink

-----------------------------------------------------------------------------
(* What a rotation makes of the secrets.                                   *)
LEMMA RotationWrites ==
  ASSUME NEW S, NEW docs \in [S -> Secret], NEW r \in Rotation(S), docs[r.creates].state = "absent",
         r.seen \subseteq OpenIn(docs)
  PROVE  /\ Rotated(docs, r) \in [S -> Secret]
         /\ \A d \in S : Rotated(docs, r)[d].state =
              IF d = r.creates THEN "open" ELSE IF d \in r.seen THEN "revoked" ELSE docs[d].state
         /\ OpenIn(Rotated(docs, r)) = {r.creates} \cup (OpenIn(docs) \ r.seen)
         /\ RemovedIn(Rotated(docs, r)) = RemovedIn(docs)
<1> DEFINE new == Rotated(docs, r)
           fresh == [state |-> "open", lapsed |-> FALSE]
<1>0. r.creates \in S /\ r.seen \subseteq S /\ DOMAIN docs = S
  BY DEF Rotation
<1>1. fresh \in Secret /\ fresh.state = "open"
  BY DEF Secret, LinkState
<1>2. \A d \in S : /\ [docs[d] EXCEPT !.state = "revoked"] \in Secret
                   /\ [docs[d] EXCEPT !.state = "revoked"].state = "revoked"
  BY DEF Secret, LinkState
<1>3. new = [d \in S |-> IF d = r.creates THEN fresh
                         ELSE IF d \in r.seen THEN [docs[d] EXCEPT !.state = "revoked"] ELSE docs[d]]
  BY <1>0 DEF Rotated
<1> HIDE DEF new, fresh
<1>4. new \in [S -> Secret]
  BY <1>1, <1>2, <1>3
<1>5. \A d \in S : new[d].state =
        IF d = r.creates THEN "open" ELSE IF d \in r.seen THEN "revoked" ELSE docs[d].state
  BY <1>1, <1>2, <1>3
<1>6. DOMAIN new = S
  BY <1>3
<1>7. OpenIn(new) = {r.creates} \cup (OpenIn(docs) \ r.seen)
  BY <1>0, <1>5, <1>6 DEF OpenIn
<1>8. RemovedIn(new) = RemovedIn(docs)
  BY <1>0, <1>5, <1>6 DEF OpenIn, RemovedIn
<1> QED
  BY <1>4, <1>5, <1>7, <1>8 DEF new

(* One secret changes its state.                                           *)
LEMMA StateWrites ==
  ASSUME NEW S, NEW docs \in [S -> Secret], NEW d \in S, NEW s \in LinkState
  PROVE  /\ [docs EXCEPT ![d].state = s] \in [S -> Secret]
         /\ \A e \in S : [docs EXCEPT ![d].state = s][e].state = IF e = d THEN s ELSE docs[e].state
<1>1. /\ [docs[d] EXCEPT !.state = s] \in Secret
      /\ [docs[d] EXCEPT !.state = s].state = s
  BY DEF Secret
<1>2. [docs EXCEPT ![d].state = s] = [docs EXCEPT ![d] = [docs[d] EXCEPT !.state = s]]
  OBVIOUS
<1> QED
  BY <1>1, <1>2

(* The time of one secret runs out.                                        *)
LEMMA LapseWrites ==
  ASSUME NEW S, NEW docs \in [S -> Secret], NEW d \in S
  PROVE  /\ [docs EXCEPT ![d].lapsed = TRUE] \in [S -> Secret]
         /\ \A e \in S : [docs EXCEPT ![d].lapsed = TRUE][e].state = docs[e].state
<1>1. /\ [docs[d] EXCEPT !.lapsed = TRUE] \in Secret
      /\ [docs[d] EXCEPT !.lapsed = TRUE].state = docs[d].state
  BY DEF Secret
<1>2. [docs EXCEPT ![d].lapsed = TRUE] = [docs EXCEPT ![d] = [docs[d] EXCEPT !.lapsed = TRUE]]
  OBVIOUS
<1> QED
  BY <1>1, <1>2

(* Transactions are of one kind or the other.                              *)
LEMMA RotationFields ==
  ASSUME NEW S, NEW r \in Rotation(S)
  PROVE  Rotates(r) /\ ~Accepts(r) /\ r.creates \in S /\ r.seen \subseteq S /\ r.clean \in BOOLEAN
BY DEF Rotation, Rotates, Accepts

(* The same of a transaction that accepts an invitation.                   *)
LEMMA AcceptanceFields ==
  ASSUME NEW a \in Acceptance
  PROVE  Accepts(a) /\ ~Rotates(a) /\ a.accepts \in Invitations /\ a.clean \in BOOLEAN
BY DEF Acceptance, Rotates, Accepts

(* A transaction that is still clean was clean and is not touched.         *)
LEMMA RotationUndone ==
  ASSUME NEW S, NEW p \in Rotation(S), NEW b \in BOOLEAN
  PROVE  /\ [p EXCEPT !.clean = b] \in Rotation(S)
         /\ [p EXCEPT !.clean = b].creates = p.creates
         /\ [p EXCEPT !.clean = b].seen = p.seen
         /\ [p EXCEPT !.clean = b].clean = b
BY DEF Rotation

(* The same of a transaction that accepts an invitation.                   *)
LEMMA AcceptanceUndone ==
  ASSUME NEW p \in Acceptance, NEW b \in BOOLEAN
  PROVE  /\ [p EXCEPT !.clean = b] \in Acceptance
         /\ [p EXCEPT !.clean = b].accepts = p.accepts
         /\ [p EXCEPT !.clean = b].clean = b
BY DEF Acceptance

(* What a commit on some invitations leaves of the other transactions.     *)
LEMMA Disturbance ==
  ASSUME InviteShape, NEW ds, NEW q \in DisturbedBy(ds, FALSE) \cup DisturbedBy(ds, TRUE)
  PROVE  \E p \in inviting :
           \/ /\ p \in Rotation(Invitations) /\ q \in Rotation(Invitations)
              /\ q.creates = p.creates /\ q.seen = p.seen
              /\ q.clean => p.clean /\ p.seen \cap ds = {}
           \/ /\ p \in Acceptance /\ q \in Acceptance /\ q.accepts = p.accepts
              /\ q.clean => p.clean /\ p.accepts \notin ds
<1>1. PICK p \in inviting :
        \/ q = [p EXCEPT !.clean = p.clean /\ ~Touches(p, ds) /\ ~(FALSE /\ "accepts" \in DOMAIN p)]
        \/ q = [p EXCEPT !.clean = p.clean /\ ~Touches(p, ds) /\ ~(TRUE /\ "accepts" \in DOMAIN p)]
  BY DEF DisturbedBy
<1>2. PICK b \in BOOLEAN : q = [p EXCEPT !.clean = b] /\ (b => p.clean /\ ~Touches(p, ds))
  BY <1>1
<1>3. CASE p \in Rotation(Invitations)
  <2>1. b => p.clean /\ p.seen \cap ds = {}
    BY <1>2, <1>3, RotationFields DEF Touches, Rotates
  <2> QED
    BY <1>2, <1>3, <2>1, RotationUndone
<1>4. CASE p \in Acceptance
  <2>1. b => p.clean /\ p.accepts \notin ds
    BY <1>2, <1>4, AcceptanceFields DEF Touches, Rotates, Accepts
  <2> QED
    BY <1>2, <1>4, <2>1, AcceptanceUndone
<1> QED
  BY <1>3, <1>4 DEF InviteShape

(* Once the account is written, no acceptance can commit any more.         *)
LEMMA AccountTaken ==
  ASSUME InviteShape, NEW ds, NEW q \in DisturbedBy(ds, TRUE)
  PROVE  q \in Acceptance => ~q.clean
<1>1. PICK p \in inviting :
        q = [p EXCEPT !.clean = p.clean /\ ~Touches(p, ds) /\ ~(TRUE /\ "accepts" \in DOMAIN p)]
  BY DEF DisturbedBy
<1>2. PICK b \in BOOLEAN : q = [p EXCEPT !.clean = b] /\ (b => ~Accepts(p))
  BY <1>1 DEF Accepts
<1>3. CASE p \in Rotation(Invitations)
  <2>1. q \in Rotation(Invitations)
    BY <1>2, <1>3, RotationUndone
  <2> QED
    BY <2>1, RotationFields, AcceptanceFields
<1>4. CASE p \in Acceptance
  <2>1. ~b
    BY <1>2, <1>4, AcceptanceFields
  <2> QED
    BY <1>2, <1>4, <2>1, AcceptanceUndone
<1> QED
  BY <1>3, <1>4 DEF InviteShape

(* What a commit on some links leaves of the other rotations.              *)
LEMMA Undoing ==
  ASSUME LinkShape, NEW ds, NEW q \in Undone(ds)
  PROVE  \E p \in relinking :
           /\ p \in Rotation(Links) /\ q \in Rotation(Links)
           /\ q.creates = p.creates /\ q.seen = p.seen
           /\ q.clean => p.clean /\ p.seen \cap ds = {}
<1>1. PICK p \in relinking : q = [p EXCEPT !.clean = p.clean /\ ~Touches(p, ds)]
  BY DEF Undone
<1> DEFINE b == p.clean /\ ~Touches(p, ds)
<1>2. q = [p EXCEPT !.clean = b] /\ b \in BOOLEAN /\ p \in Rotation(Links)
  BY <1>1 DEF LinkShape
<1>3. b => p.clean /\ p.seen \cap ds = {}
  BY <1>2, RotationFields DEF Touches, Rotates
<1> HIDE DEF b
<1> QED
  BY <1>2, <1>3, RotationUndone

-----------------------------------------------------------------------------
(* Invitations                                                             *)
LEMMA InviteStepSafe ==
  ASSUME InviteInv, InviteStep
  PROVE  InviteInv'
<1>0. InviteShape /\ InvitesInOrder /\ OneInvitation /\ invitation \in [Invitations -> Secret]
      /\ DOMAIN invitation = Invitations
  BY DEF InviteInv, InviteShape
<1>1. \A r \in inviting : \/ r \in Rotation(Invitations) /\ Rotates(r) /\ ~Accepts(r)
                          \/ r \in Acceptance /\ Accepts(r) /\ ~Rotates(r)
  BY <1>0, RotationFields, AcceptanceFields DEF InviteShape
<1>2. ASSUME NEW i \in Invitations, InviteStaff(i) PROVE InviteInv'
  <2>1. /\ invitation' = [invitation EXCEPT ![i].state = "open"] /\ invitee' = "INVITED"
        /\ inviting = {} /\ inviting' = {} /\ \A j \in Invitations : invitation[j].state = "absent"
    BY <1>0, <1>2 DEF InviteStaff, Opened, InvitesInOrder
  <2>2. "open" \in LinkState
    BY DEF LinkState
  <2>3. /\ invitation' \in [Invitations -> Secret]
        /\ \A j \in Invitations : invitation'[j].state = IF j = i THEN "open" ELSE "absent"
    BY <1>0, <2>1, <2>2, StateWrites
  <2>4. InviteShape' /\ InvitesInOrder'
    BY <2>1, <2>3 DEF InviteShape, InvitesInOrder
  <2>5. OneInvitation'
    BY <2>1, <2>3 DEF OneInvitation, OpenIn, One
  <2> QED
    BY <2>4, <2>5 DEF InviteInv
<1>3. ASSUME NEW i \in Invitations, BeginRotateInvitation(i) PROVE InviteInv'
  <2> DEFINE r == [creates |-> i, seen |-> OpenIn(invitation), clean |-> TRUE]
  <2>1. /\ r \in Rotation(Invitations) /\ r.creates = i /\ r.seen = OpenIn(invitation)
        /\ Rotates(r) /\ ~Accepts(r)
    BY <1>0 DEF Rotation, Rotates, Accepts, OpenIn
  <2>2. /\ inviting' = inviting \cup {r} /\ UNCHANGED <<invitee, invitation>>
        /\ invitee = "INVITED" /\ invitation[i].state = "absent"
    BY <1>3 DEF BeginRotateInvitation, Fresh
  <2> HIDE DEF r
  <2>3. InviteShape' /\ InvitesInOrder'
    BY <1>0, <2>1, <2>2 DEF InviteShape, InvitesInOrder
  <2>4. OneInvitation'
    BY <1>0, <2>1, <2>2 DEF OneInvitation
  <2> QED
    BY <2>3, <2>4 DEF InviteInv
<1>4. ASSUME NEW i \in Invitations, BeginAcceptInvitation(i) PROVE InviteInv'
  <2> DEFINE a == [accepts |-> i, clean |-> TRUE]
  <2>1. a \in Acceptance /\ a.accepts = i /\ Accepts(a) /\ ~Rotates(a)
    BY DEF Acceptance, Rotates, Accepts
  <2>2. /\ inviting' = inviting \cup {a} /\ UNCHANGED <<invitee, invitation>>
        /\ invitee = "INVITED" /\ invitation[i].state = "open"
    BY <1>4 DEF BeginAcceptInvitation, Activatable
  <2> HIDE DEF a
  <2>3. InviteShape' /\ InvitesInOrder'
    BY <1>0, <2>1, <2>2 DEF InviteShape, InvitesInOrder
  <2>4. OneInvitation'
    BY <1>0, <2>1, <2>2 DEF OneInvitation
  <2> QED
    BY <2>3, <2>4 DEF InviteInv
<1>5. ASSUME NEW i \in Invitations, InvitationAges(i), ~invitation[i].lapsed PROVE InviteInv'
  <2>1. /\ invitation' = [invitation EXCEPT ![i].lapsed = TRUE] /\ UNCHANGED <<invitee, inviting>>
    BY <1>5 DEF InvitationAges
  <2>2. /\ invitation' \in [Invitations -> Secret]
        /\ \A j \in Invitations : invitation'[j].state = invitation[j].state
    BY <1>0, <2>1, LapseWrites
  <2>3. DOMAIN invitation' = Invitations
    BY <2>2
  <2>4. OpenIn(invitation') = OpenIn(invitation) /\ RemovedIn(invitation') = RemovedIn(invitation)
    BY <1>0, <2>2, <2>3 DEF OpenIn, RemovedIn
  <2>5. InviteShape' /\ InvitesInOrder'
    BY <1>0, <1>1, <2>1, <2>2, <2>4, RotationFields, AcceptanceFields DEF InviteShape, InvitesInOrder
  <2>6. OneInvitation'
    BY <1>0, <2>1, <2>4 DEF OneInvitation
  <2> QED
    BY <2>5, <2>6 DEF InviteInv
<1>6. ASSUME NEW i \in Invitations, InvitationAges(i), invitation[i].lapsed PROVE InviteInv'
  <2>1. /\ invitation' = [invitation EXCEPT ![i].state = "removed"]
        /\ inviting' = DisturbedBy({i}, FALSE) /\ UNCHANGED invitee
        /\ invitation[i].state # "absent"
    BY <1>6 DEF InvitationAges
  <2>2. "removed" \in LinkState
    BY DEF LinkState
  <2>3. /\ invitation' \in [Invitations -> Secret]
        /\ \A j \in Invitations : invitation'[j].state = IF j = i THEN "removed"
                                                         ELSE invitation[j].state
    BY <1>0, <2>1, <2>2, StateWrites
  <2>4. DOMAIN invitation' = Invitations
    BY <2>3
  <2>5. i \in RemovedIn(invitation') /\ OpenIn(invitation) \ {i} \subseteq OpenIn(invitation')
    BY <1>0, <2>3, <2>4 DEF RemovedIn, OpenIn
  <2>6. ASSUME NEW q \in inviting'
        PROVE  /\ q \in Rotation(Invitations) \cup Acceptance
               /\ Accepts(q) /\ q.clean =>
                    invitee' = "INVITED" /\ invitation'[q.accepts].state = "open"
               /\ Rotates(q) => /\ invitation'[q.creates].state = "absent"
                                /\ q.clean => q.seen \subseteq OpenIn(invitation')
    <3>0. q \in DisturbedBy({i}, FALSE)
      BY <2>1
    <3>1. PICK p \in inviting :
            \/ /\ p \in Rotation(Invitations) /\ q \in Rotation(Invitations)
               /\ q.creates = p.creates /\ q.seen = p.seen
               /\ q.clean => p.clean /\ p.seen \cap {i} = {}
            \/ /\ p \in Acceptance /\ q \in Acceptance /\ q.accepts = p.accepts
               /\ q.clean => p.clean /\ p.accepts \notin {i}
      BY <1>0, <3>0, Disturbance
    <3>2. CASE p \in Rotation(Invitations)
      <4>1. /\ Rotates(p) /\ ~Accepts(p) /\ Rotates(q) /\ ~Accepts(q) /\ q \in Rotation(Invitations)
            /\ q.creates = p.creates /\ q.seen = p.seen
            /\ q.clean => p.clean /\ i \notin p.seen
            /\ q.creates \in Invitations
        BY <1>1, <3>1, <3>2, RotationFields, AcceptanceFields
      <4>2. invitation'[q.creates].state = "absent"
        BY <1>0, <2>1, <2>3, <4>1 DEF InvitesInOrder
      <4>3. q.clean => q.seen \subseteq OpenIn(invitation')
        BY <1>0, <2>5, <4>1 DEF InvitesInOrder
      <4> QED
        BY <4>1, <4>2, <4>3
    <3>3. CASE p \in Acceptance
      <4>1. /\ Accepts(p) /\ Accepts(q) /\ ~Rotates(q) /\ q \in Acceptance /\ q.accepts = p.accepts
            /\ q.clean => p.clean /\ p.accepts # i
            /\ q.accepts \in Invitations
        BY <1>1, <3>1, <3>3, RotationFields, AcceptanceFields
      <4>2. q.clean => invitee = "INVITED" /\ invitation[q.accepts].state = "open"
        BY <1>0, <4>1 DEF InvitesInOrder
      <4> QED
        BY <2>1, <2>3, <4>1, <4>2
    <3> QED
      BY <1>1, <3>2, <3>3
  <2>7. InviteShape' /\ InvitesInOrder'
    BY <1>0, <1>6, <2>1, <2>3, <2>6 DEF InviteShape, InvitesInOrder
  <2>8. OneInvitation'
    BY <2>5 DEF OneInvitation
  <2> QED
    BY <2>7, <2>8 DEF InviteInv
<1>7. ASSUME NEW r \in inviting, RotateInvitation(r) PROVE InviteInv'
  <2>1. /\ r \in Rotation(Invitations) /\ r.clean /\ Rotates(r)
        /\ invitation' = Rotated(invitation, r) /\ UNCHANGED invitee
        /\ inviting' = {q \in DisturbedBy(r.seen, FALSE) : ~(Rotates(q) /\ q.creates = r.creates)}
        /\ r.creates \in Invitations /\ invitee # "absent"
    BY <1>0, <1>1, <1>7, RotationFields DEF RotateInvitation, Rotates, InvitesInOrder
  <2>2. invitation[r.creates].state = "absent" /\ r.seen \subseteq OpenIn(invitation)
    BY <1>0, <2>1 DEF InvitesInOrder
  <2>3. /\ invitation' \in [Invitations -> Secret]
        /\ \A d \in Invitations : invitation'[d].state =
             IF d = r.creates THEN "open" ELSE IF d \in r.seen THEN "revoked" ELSE invitation[d].state
        /\ OpenIn(invitation') = {r.creates} \cup (OpenIn(invitation) \ r.seen)
        /\ RemovedIn(invitation') = RemovedIn(invitation)
    BY <1>0, <2>1, <2>2, RotationWrites
  <2>4. ASSUME NEW q \in inviting'
        PROVE  /\ q \in Rotation(Invitations) \cup Acceptance
               /\ Accepts(q) /\ q.clean =>
                    invitee' = "INVITED" /\ invitation'[q.accepts].state = "open"
               /\ Rotates(q) => /\ invitation'[q.creates].state = "absent"
                                /\ q.clean => q.seen \subseteq OpenIn(invitation')
               /\ RemovedIn(invitation) = {} => ~(Rotates(q) /\ q.clean)
    <3>0. q \in DisturbedBy(r.seen, FALSE) /\ ~(Rotates(q) /\ q.creates = r.creates)
      BY <2>1
    <3>1. PICK p \in inviting :
            \/ /\ p \in Rotation(Invitations) /\ q \in Rotation(Invitations)
               /\ q.creates = p.creates /\ q.seen = p.seen
               /\ q.clean => p.clean /\ p.seen \cap r.seen = {}
            \/ /\ p \in Acceptance /\ q \in Acceptance /\ q.accepts = p.accepts
               /\ q.clean => p.clean /\ p.accepts \notin r.seen
      BY <1>0, <3>0, Disturbance
    <3>2. CASE p \in Rotation(Invitations)
      <4>1. /\ Rotates(p) /\ ~Accepts(p) /\ Rotates(q) /\ ~Accepts(q) /\ q \in Rotation(Invitations)
            /\ q.creates = p.creates /\ q.seen = p.seen
            /\ q.clean => p.clean /\ p.seen \cap r.seen = {}
            /\ q.creates \in Invitations
        BY <1>1, <3>1, <3>2, RotationFields, AcceptanceFields
      <4>2. invitation[q.creates].state = "absent" /\ q.creates # r.creates
        BY <1>0, <3>0, <4>1 DEF InvitesInOrder
      <4>3. q.creates \notin r.seen
        BY <2>2, <4>2 DEF OpenIn
      <4>4. invitation'[q.creates].state = "absent"
        BY <2>3, <4>1, <4>2, <4>3
      <4>5. q.clean => q.seen \subseteq OpenIn(invitation')
        BY <1>0, <2>3, <4>1 DEF InvitesInOrder
      <4>6. RemovedIn(invitation) = {} => ~q.clean
        <5> SUFFICES ASSUME RemovedIn(invitation) = {}, q.clean PROVE FALSE
          OBVIOUS
        <5>1. r.seen = OpenIn(invitation) /\ p.seen = OpenIn(invitation) /\ r.seen # {}
          BY <1>0, <2>1, <4>1 DEF OneInvitation
        <5> QED
          BY <4>1, <5>1
      <4> QED
        BY <4>1, <4>4, <4>5, <4>6
    <3>3. CASE p \in Acceptance
      <4>1. /\ Accepts(p) /\ Accepts(q) /\ ~Rotates(q) /\ q \in Acceptance /\ q.accepts = p.accepts
            /\ q.clean => p.clean /\ p.accepts \notin r.seen
            /\ q.accepts \in Invitations
        BY <1>1, <3>1, <3>3, RotationFields, AcceptanceFields
      <4>2. q.clean => invitee = "INVITED" /\ invitation[q.accepts].state = "open"
        BY <1>0, <4>1 DEF InvitesInOrder
      <4> QED
        BY <2>1, <2>2, <2>3, <4>1, <4>2
    <3> QED
      BY <1>1, <3>2, <3>3
  <2>5. InviteShape' /\ InvitesInOrder'
    BY <1>0, <2>1, <2>3, <2>4 DEF InviteShape, InvitesInOrder
  <2>6. OneInvitation'
    <3> SUFFICES ASSUME RemovedIn(invitation) = {}
                 PROVE  /\ One(OpenIn(invitation')) /\ OpenIn(invitation') # {}
                        /\ \A q \in inviting' : ~(Rotates(q) /\ q.clean)
      BY <2>3 DEF OneInvitation
    <3>1. r.seen = OpenIn(invitation)
      BY <1>0, <2>1 DEF OneInvitation
    <3> QED
      BY <2>3, <2>4, <3>1 DEF One
  <2> QED
    BY <2>5, <2>6 DEF InviteInv
<1>8. ASSUME NEW a \in inviting, AcceptInvitation(a) PROVE InviteInv'
  <2>1. /\ a \in Acceptance /\ a.clean /\ Accepts(a) /\ a.accepts \in Invitations
        /\ invitation' = [invitation EXCEPT ![a.accepts].state = "used"] /\ invitee' = "ACTIVE"
        /\ inviting' \subseteq DisturbedBy({a.accepts}, TRUE)
    BY <1>1, <1>8, AcceptanceFields DEF AcceptInvitation, Accepts
  <2>2. invitee = "INVITED" /\ invitation[a.accepts].state = "open" /\ "used" \in LinkState
    BY <1>0, <2>1 DEF InvitesInOrder, LinkState
  <2>3. /\ invitation' \in [Invitations -> Secret]
        /\ \A j \in Invitations : invitation'[j].state = IF j = a.accepts THEN "used"
                                                         ELSE invitation[j].state
    BY <1>0, <2>1, <2>2, StateWrites
  <2>4. DOMAIN invitation' = Invitations
    BY <2>3
  <2>5. /\ OpenIn(invitation') = OpenIn(invitation) \ {a.accepts}
        /\ RemovedIn(invitation') = RemovedIn(invitation) /\ a.accepts \in OpenIn(invitation)
    BY <1>0, <2>1, <2>2, <2>3, <2>4 DEF RemovedIn, OpenIn
  <2>6. ASSUME NEW q \in inviting'
        PROVE  /\ q \in Rotation(Invitations) \cup Acceptance
               /\ ~(Accepts(q) /\ q.clean)
               /\ Rotates(q) => /\ invitation'[q.creates].state = "absent"
                                /\ q.clean => q.seen \subseteq OpenIn(invitation')
               /\ RemovedIn(invitation) = {} => ~(Rotates(q) /\ q.clean)
    <3>0. q \in DisturbedBy({a.accepts}, TRUE)
      BY <2>1
    <3>4. PICK ds : ds = {a.accepts}
      OBVIOUS
    <3>5. q \in DisturbedBy(ds, FALSE) \cup DisturbedBy(ds, TRUE)
      BY <3>0, <3>4
    <3>6. InviteShape
      BY <1>0
    <3>7. \E p \in inviting :
            \/ /\ p \in Rotation(Invitations) /\ q \in Rotation(Invitations)
               /\ q.creates = p.creates /\ q.seen = p.seen
               /\ q.clean => p.clean /\ p.seen \cap ds = {}
            \/ /\ p \in Acceptance /\ q \in Acceptance /\ q.accepts = p.accepts
               /\ q.clean => p.clean /\ p.accepts \notin ds
      BY <3>5, <3>6, Disturbance
    <3>1. PICK p \in inviting :
            \/ /\ p \in Rotation(Invitations) /\ q \in Rotation(Invitations)
               /\ q.creates = p.creates /\ q.seen = p.seen
               /\ q.clean => p.clean /\ p.seen \cap {a.accepts} = {}
            \/ /\ p \in Acceptance /\ q \in Acceptance /\ q.accepts = p.accepts
               /\ q.clean => p.clean /\ p.accepts \notin {a.accepts}
      BY <3>4, <3>7
    <3>2. CASE p \in Rotation(Invitations)
      <4>1. /\ Rotates(p) /\ ~Accepts(p) /\ Rotates(q) /\ ~Accepts(q) /\ q \in Rotation(Invitations)
            /\ q.creates = p.creates /\ q.seen = p.seen
            /\ q.clean => p.clean /\ a.accepts \notin p.seen
            /\ q.creates \in Invitations
        BY <1>1, <3>1, <3>2, RotationFields, AcceptanceFields
      <4>2. invitation'[q.creates].state = "absent"
        BY <1>0, <2>2, <2>3, <4>1 DEF InvitesInOrder
      <4>3. q.clean => q.seen \subseteq OpenIn(invitation')
        BY <1>0, <2>5, <4>1 DEF InvitesInOrder
      <4>4. RemovedIn(invitation) = {} => ~q.clean
        BY <1>0, <2>5, <4>1 DEF OneInvitation
      <4> QED
        BY <4>1, <4>2, <4>3, <4>4
    <3>3. CASE p \in Acceptance
      <4>1. q \in Acceptance /\ Accepts(q) /\ ~Rotates(q) /\ ~q.clean
        BY <1>0, <1>1, <3>0, <3>1, <3>3, RotationFields, AcceptanceFields, AccountTaken
      <4> QED
        BY <4>1
    <3> QED
      BY <1>1, <3>2, <3>3
  <2>7. InviteShape' /\ InvitesInOrder'
    BY <2>1, <2>3, <2>6 DEF InviteShape, InvitesInOrder
  <2>8. OneInvitation'
    BY <1>0, <2>1, <2>5, <2>6 DEF OneInvitation, One
  <2> QED
    BY <2>7, <2>8 DEF InviteInv
<1>9. ASSUME NEW r \in inviting, AbortInvitation(r) PROVE InviteInv'
  BY <1>0, <1>9 DEF AbortInvitation, InviteInv, InviteShape, InvitesInOrder, OneInvitation
<1> QED
  BY <1>2, <1>3, <1>4, <1>5, <1>6, <1>7, <1>8, <1>9 DEF InviteStep

(* Links of a tracking page, which nobody accepts                          *)
LEMMA LinkStepSafe ==
  ASSUME LinkInv, LinkStep
  PROVE  LinkInv'
<1>0. LinkShape /\ LinksInOrder /\ OneLink /\ link \in [Links -> Secret] /\ DOMAIN link = Links
      /\ relinking \subseteq Rotation(Links)
  BY DEF LinkInv, LinkShape
<1>1. ASSUME NEW l \in Links, CreateTrackingToken(l) PROVE LinkInv'
  <2>1. /\ link' = [link EXCEPT ![l].state = "open"] /\ relinking = {} /\ relinking' = {}
        /\ \A k \in Links : link[k].state = "absent"
    BY <1>1 DEF CreateTrackingToken, Opened
  <2>2. "open" \in LinkState
    BY DEF LinkState
  <2>3. /\ link' \in [Links -> Secret]
        /\ \A k \in Links : link'[k].state = IF k = l THEN "open" ELSE "absent"
    BY <1>0, <2>1, <2>2, StateWrites
  <2>4. DOMAIN link' = Links
    BY <2>3
  <2>5. OpenIn(link') = {l}
    BY <2>3, <2>4 DEF OpenIn
  <2>6. LinkShape' /\ LinksInOrder'
    BY <2>1, <2>3 DEF LinkShape, LinksInOrder
  <2>7. OneLink'
    BY <2>1, <2>5 DEF OneLink, One
  <2> QED
    BY <2>6, <2>7 DEF LinkInv
<1>2. ASSUME NEW l \in Links, BeginRotateTracking(l) PROVE LinkInv'
  <2> DEFINE r == [creates |-> l, seen |-> OpenIn(link), clean |-> TRUE]
  <2>1. r \in Rotation(Links) /\ r.creates = l /\ r.seen = OpenIn(link)
    BY <1>0 DEF Rotation, OpenIn
  <2>2. /\ relinking' = relinking \cup {r} /\ UNCHANGED link
        /\ link[l].state = "absent" /\ \E k \in Links : link[k].state # "absent"
    BY <1>2 DEF BeginRotateTracking, Fresh
  <2> HIDE DEF r
  <2>3. LinkShape' /\ LinksInOrder'
    BY <1>0, <2>1, <2>2 DEF LinkShape, LinksInOrder
  <2>4. OneLink'
    BY <1>0, <2>1, <2>2 DEF OneLink
  <2> QED
    BY <2>3, <2>4 DEF LinkInv
<1>3. ASSUME NEW l \in Links, LinkAges(l), ~link[l].lapsed PROVE LinkInv'
  <2>1. link' = [link EXCEPT ![l].lapsed = TRUE] /\ UNCHANGED relinking
    BY <1>3 DEF LinkAges
  <2>2. /\ link' \in [Links -> Secret]
        /\ \A k \in Links : link'[k].state = link[k].state
    BY <1>0, <2>1, LapseWrites
  <2>3. DOMAIN link' = Links
    BY <2>2
  <2>4. OpenIn(link') = OpenIn(link) /\ RemovedIn(link') = RemovedIn(link)
    BY <1>0, <2>2, <2>3 DEF OpenIn, RemovedIn
  <2>5. \A r \in relinking : r.creates \in Links
    BY <1>0, RotationFields
  <2>6. LinkShape' /\ LinksInOrder'
    BY <1>0, <2>1, <2>2, <2>4, <2>5 DEF LinkShape, LinksInOrder
  <2>7. OneLink'
    BY <1>0, <2>1, <2>2, <2>4 DEF OneLink
  <2> QED
    BY <2>6, <2>7 DEF LinkInv
<1>4. ASSUME NEW l \in Links, LinkAges(l), link[l].lapsed PROVE LinkInv'
  <2>1. /\ link' = [link EXCEPT ![l].state = "removed"] /\ relinking' = Undone({l})
        /\ link[l].state # "absent"
    BY <1>4 DEF LinkAges
  <2>2. "removed" \in LinkState
    BY DEF LinkState
  <2>3. /\ link' \in [Links -> Secret]
        /\ \A k \in Links : link'[k].state = IF k = l THEN "removed" ELSE link[k].state
    BY <1>0, <2>1, <2>2, StateWrites
  <2>4. DOMAIN link' = Links
    BY <2>3
  <2>5. l \in RemovedIn(link') /\ OpenIn(link) \ {l} \subseteq OpenIn(link')
    BY <1>0, <2>3, <2>4 DEF RemovedIn, OpenIn
  <2>6. ASSUME NEW q \in relinking'
        PROVE  /\ q \in Rotation(Links) /\ link'[q.creates].state = "absent"
               /\ q.clean => q.seen \subseteq OpenIn(link')
    <3>1. PICK p \in relinking :
            /\ p \in Rotation(Links) /\ q \in Rotation(Links)
            /\ q.creates = p.creates /\ q.seen = p.seen
            /\ q.clean => p.clean /\ p.seen \cap {l} = {}
      BY <1>0, <2>1, Undoing
    <3>2. q.creates \in Links
      BY <3>1, RotationFields
    <3>3. /\ link[q.creates].state = "absent"
          /\ q.clean => q.seen \subseteq OpenIn(link) \ {l}
      BY <1>0, <3>1 DEF LinksInOrder
    <3> QED
      BY <2>1, <2>3, <2>5, <3>1, <3>2, <3>3
  <2>7. \E k \in Links : link'[k].state # "absent"
    BY <2>3
  <2>9. LinkShape' /\ LinksInOrder'
    BY <2>3, <2>6, <2>7 DEF LinkShape, LinksInOrder
  <2>8. OneLink'
    BY <2>5 DEF OneLink
  <2> QED
    BY <2>9, <2>8 DEF LinkInv
<1>5. ASSUME NEW r \in relinking, RotateTrackingToken(r) PROVE LinkInv'
  <2>1. /\ r \in Rotation(Links) /\ r.clean /\ r.creates \in Links
        /\ link' = Rotated(link, r)
        /\ relinking' = {q \in Undone(r.seen) : q.creates # r.creates}
    BY <1>0, <1>5, RotationFields DEF RotateTrackingToken
  <2>2. /\ link[r.creates].state = "absent" /\ r.seen \subseteq OpenIn(link)
        /\ \E k \in Links : link[k].state # "absent"
    BY <1>0, <1>5, <2>1 DEF LinksInOrder
  <2>3. /\ link' \in [Links -> Secret]
        /\ \A d \in Links : link'[d].state =
             IF d = r.creates THEN "open" ELSE IF d \in r.seen THEN "revoked" ELSE link[d].state
        /\ OpenIn(link') = {r.creates} \cup (OpenIn(link) \ r.seen)
        /\ RemovedIn(link') = RemovedIn(link)
    BY <1>0, <2>1, <2>2, RotationWrites
  <2>4. ASSUME NEW q \in relinking'
        PROVE  /\ q \in Rotation(Links) /\ link'[q.creates].state = "absent"
               /\ q.clean => q.seen \subseteq OpenIn(link')
               /\ RemovedIn(link) = {} => ~q.clean
    <3>1. q \in Undone(r.seen) /\ q.creates # r.creates
      BY <2>1
    <3>2. PICK p \in relinking :
            /\ p \in Rotation(Links) /\ q \in Rotation(Links)
            /\ q.creates = p.creates /\ q.seen = p.seen
            /\ q.clean => p.clean /\ p.seen \cap r.seen = {}
      BY <1>0, <3>1, Undoing
    <3>3. q.creates \in Links
      BY <3>2, RotationFields
    <3>4. /\ link[q.creates].state = "absent" /\ q.creates \notin r.seen
          /\ q.clean => q.seen \subseteq OpenIn(link)
      BY <1>0, <2>2, <3>2 DEF LinksInOrder, OpenIn
    <3>5. RemovedIn(link) = {} => ~q.clean
      <4> SUFFICES ASSUME RemovedIn(link) = {}, q.clean PROVE FALSE
        OBVIOUS
      <4>1. r.seen = OpenIn(link) /\ p.seen = OpenIn(link) /\ r.seen # {}
        BY <1>0, <2>1, <2>2, <3>2 DEF OneLink
      <4> QED
        BY <3>2, <4>1
    <3> QED
      BY <2>3, <3>1, <3>2, <3>3, <3>4, <3>5
  <2>5. \E d \in Links : link'[d].state # "absent"
    BY <2>1, <2>3
  <2>6. LinkShape' /\ LinksInOrder'
    BY <2>3, <2>4, <2>5 DEF LinkShape, LinksInOrder
  <2>7. OneLink'
    <3> SUFFICES ASSUME RemovedIn(link) = {}
                 PROVE  /\ One(OpenIn(link')) /\ OpenIn(link') # {}
                        /\ \A q \in relinking' : ~q.clean
      BY <2>3 DEF OneLink
    <3>1. r.seen = OpenIn(link)
      BY <1>0, <2>1, <1>5 DEF OneLink
    <3> QED
      BY <2>3, <2>4, <3>1 DEF One
  <2> QED
    BY <2>6, <2>7 DEF LinkInv
<1>6. ASSUME NEW r \in relinking, AbortTracking(r) PROVE LinkInv'
  BY <1>0, <1>6 DEF AbortTracking, LinkInv, LinkShape, LinksInOrder, OneLink
<1> QED
  BY <1>1, <1>2, <1>3, <1>4, <1>5, <1>6 DEF LinkStep

(* The steps of the invitation leave the links alone, and the other way.   *)
LEMMA AccessStaysOrdered ==
  AccessSpec => [](InviteInv /\ LinkInv)
<1>1. AccessInit => InviteInv /\ LinkInv
  <2> SUFFICES ASSUME AccessInit PROVE InviteInv /\ LinkInv
    OBVIOUS
  <2>1. NoSecret \in Secret /\ NoSecret.state = "absent"
    BY DEF NoSecret, Secret, LinkState
  <2>2. InviteInv
    BY <2>1 DEF AccessInit, InviteInit, InviteInv, InviteShape, InvitesInOrder, OneInvitation,
                OpenIn, One
  <2>3. LinkInv
    BY <2>1 DEF AccessInit, LinkInit, LinkInv, LinkShape, LinksInOrder, OneLink, OpenIn, One
  <2> QED
    BY <2>2, <2>3
<1>2. InviteInv /\ LinkInv /\ [InviteStep \/ LinkStep]_accessVars => (InviteInv /\ LinkInv)'
  <2> SUFFICES ASSUME InviteInv, LinkInv, [InviteStep \/ LinkStep]_accessVars
               PROVE  InviteInv' /\ LinkInv'
    OBVIOUS
  <2>1. UNCHANGED linkVars => LinkInv'
    BY DEF linkVars, LinkInv, LinkShape, LinksInOrder, OneLink
  <2>2. UNCHANGED inviteVars => InviteInv'
    BY DEF inviteVars, InviteInv, InviteShape, InvitesInOrder, OneInvitation
  <2>3. CASE InviteStep
    <3>1. UNCHANGED linkVars
      BY <2>3 DEF InviteStep, InviteStaff, BeginRotateInvitation, BeginAcceptInvitation,
                  InvitationAges, RotateInvitation, AcceptInvitation, AbortInvitation
    <3> QED
      BY <2>1, <2>3, <3>1, InviteStepSafe
  <2>4. CASE LinkStep
    <3>1. UNCHANGED inviteVars
      BY <2>4 DEF LinkStep, CreateTrackingToken, BeginRotateTracking, LinkAges,
                  RotateTrackingToken, AbortTracking
    <3> QED
      BY <2>2, <2>4, <3>1, LinkStepSafe
  <2>5. CASE UNCHANGED accessVars
    BY <2>1, <2>2, <2>5 DEF accessVars
  <2> QED
    BY <2>3, <2>4, <2>5
<1> QED
  BY <1>1, <1>2, PTL DEF AccessSpec

(* rotateInvitation, acceptInvitation and rotateTrackingToken: for any     *)
(* number of secrets and of transactions, one of them is open at most as   *)
(* long as the database has removed none, and an account that was          *)
(* activated is activated by no second invitation.                         *)
THEOREM LinksAreEnded ==
  AccessSpec => SecretsEnd
<1>1. InviteInv /\ LinkInv => OneOpenLink
  <2> SUFFICES ASSUME InviteInv, LinkInv, NEW docs \in {invitation, link},
                      Cardinality(OpenIn(docs)) > 1, RemovedIn(docs) = {}
               PROVE  FALSE
    BY DEF OneOpenLink
  <2>1. One(OpenIn(docs))
    BY DEF InviteInv, OneInvitation, LinkInv, OneLink
  <2>2. Cardinality(OpenIn(docs)) <= 1 /\ IsFiniteSet(OpenIn(docs))
    BY <2>1, AtMostOne DEF One
  <2>3. Cardinality(OpenIn(docs)) \in Nat
    BY <2>2, FS_CardinalityType
  <2> QED
    BY <2>2, <2>3
<1>2. InviteInv /\ [InviteStep \/ LinkStep]_accessVars => ActivatedOnce
  <2> SUFFICES ASSUME InviteInv, [InviteStep \/ LinkStep]_accessVars, invitee = "ACTIVE"
               PROVE  /\ invitee' = "ACTIVE"
                      /\ \A i \in Invitations :
                           invitation[i].state # "used" => invitation'[i].state # "used"
    BY DEF ActivatedOnce
  <2>0. /\ InviteShape /\ InvitesInOrder /\ invitation \in [Invitations -> Secret]
        /\ DOMAIN invitation = Invitations
    BY DEF InviteInv, InviteShape
  <2>1. UNCHANGED <<invitee, invitation>> => invitee' = "ACTIVE" /\ invitation' = invitation
    OBVIOUS
  <2>2. CASE UNCHANGED inviteVars
    BY <2>2 DEF inviteVars
  <2>3. ASSUME NEW i \in Invitations, InvitationAges(i)
        PROVE  /\ invitee' = "ACTIVE"
               /\ \A j \in Invitations :
                    invitation[j].state # "used" => invitation'[j].state # "used"
    <3>1. CASE invitation' = [invitation EXCEPT ![i].state = "removed"]
      BY <2>0, <2>3, <3>1, StateWrites DEF InvitationAges, LinkState
    <3>2. CASE invitation' = [invitation EXCEPT ![i].lapsed = TRUE]
      BY <2>0, <2>3, <3>2, LapseWrites DEF InvitationAges
    <3> QED
      BY <2>3, <3>1, <3>2 DEF InvitationAges
  <2>4. ASSUME NEW r \in inviting, RotateInvitation(r)
        PROVE  /\ invitee' = "ACTIVE"
               /\ \A j \in Invitations :
                    invitation[j].state # "used" => invitation'[j].state # "used"
    <3>1. /\ r \in Rotation(Invitations) /\ r.clean /\ Rotates(r)
          /\ invitation' = Rotated(invitation, r) /\ UNCHANGED invitee
      BY <2>0, <2>4, RotationFields, AcceptanceFields
         DEF RotateInvitation, Rotates, InviteShape
    <3>2. invitation[r.creates].state = "absent" /\ r.seen \subseteq OpenIn(invitation)
      BY <2>0, <3>1 DEF InvitesInOrder
    <3> QED
      BY <2>0, <3>1, <3>2, RotationWrites
  <2>5. ASSUME NEW a \in inviting, AcceptInvitation(a) PROVE FALSE
    BY <2>0, <2>5 DEF AcceptInvitation, InvitesInOrder, Accepts
  <2>6. ASSUME InviteStep PROVE \/ UNCHANGED <<invitee, invitation>>
                                \/ \E i \in Invitations : InvitationAges(i)
                                \/ \E r \in inviting : RotateInvitation(r) \/ AcceptInvitation(r)
    BY <2>6 DEF InviteStep, InviteStaff, BeginRotateInvitation, BeginAcceptInvitation,
                AbortInvitation
  <2>7. LinkStep => UNCHANGED inviteVars
    BY DEF LinkStep, CreateTrackingToken, BeginRotateTracking, LinkAges,
           RotateTrackingToken, AbortTracking
  <2>8. UNCHANGED accessVars => UNCHANGED inviteVars
    BY DEF accessVars
  <2> QED
    BY <2>1, <2>2, <2>3, <2>4, <2>5, <2>6, <2>7, <2>8
<1> QED
  BY <1>1, <1>2, AccessStaysOrdered, PTL DEF AccessSpec, SecretsEnd

-----------------------------------------------------------------------------
(* Staff accounts: the version of an account says which state of it was    *)
(* seen, so whoever saw the version the account has saw the account.       *)
Shown(c) == /\ member[c.of].status # "absent"
            /\ c.shown.version <= member[c.of].version
            /\ c.shown.version = member[c.of].version => c.shown = member[c.of]

(* A change that can still be committed was allowed on what the account    *)
(* still is.                                                               *)
Allowed(c) ==
  c.step = "begun" /\ c.clean =>
    /\ member[c.of] = c.shown /\ member[c.of].version < MaxVersion
    /\ c.authority = "SUPER_ADMIN" \/ c.shown.role \notin PRIVILEGED_ROLES

Signed(t) == /\ member[t.user].status # "absent"
             /\ t.version <= member[t.user].version
             /\ t.version = member[t.user].version => t.role = member[t.user].role

StaffInv ==
  /\ StaffTypeOK
  /\ \A c \in changing : Shown(c) /\ Allowed(c)
  /\ \A t \in signing \cup tokens : Signed(t)

(* The next version of an account is new to everybody who saw it.          *)
LEMMA NextVersionSafe ==
  ASSUME StaffInv, NEW s \in Staff, NEW m \in Member, member[s].status # "absent",
         m.version = member[s].version + 1, m.status # "absent",
         Writes(s, m), NEW cs \in SUBSET changing, changing' = Unclean(s, cs),
         signing' = signing, tokens' = tokens
  PROVE  StaffInv'
<1>0. /\ member \in [Staff -> Member] /\ changing \subseteq Changing /\ MaxVersion \in Nat
      /\ signing \subseteq AccessToken /\ tokens \subseteq AccessToken
  BY StaffAssumption DEF StaffAssumption, StaffInv, StaffTypeOK
<1>1. \A r \in Staff : member'[r] = IF r = s THEN m ELSE member[r]
  BY <1>0 DEF Writes
<1>2. ASSUME NEW c \in changing'
      PROVE  \E d \in cs : /\ d \in Changing /\ c \in Changing /\ c.of = d.of /\ c.shown = d.shown
                           /\ c.step = d.step /\ c.authority = d.authority /\ c.actor = d.actor
                           /\ c.clean => d.clean /\ d.of # s
  <2>1. PICK d \in cs : c = [d EXCEPT !.clean = d.clean /\ d.of # s]
    BY DEF Unclean
  <2> DEFINE b == d.clean /\ d.of # s
  <2>2. d \in Changing /\ b \in BOOLEAN
    BY <1>0
  <2>3. c = [d EXCEPT !.clean = b]
    BY <2>1
  <2>4. b => d.clean /\ d.of # s
    OBVIOUS
  <2> HIDE DEF b
  <2>5. c \in Changing /\ c.of = d.of /\ c.shown = d.shown /\ c.step = d.step
    BY <2>2, <2>3 DEF Changing
  <2>6. c.authority = d.authority /\ c.actor = d.actor /\ c.clean = b
    BY <2>2, <2>3 DEF Changing
  <2> QED
    BY <2>2, <2>4, <2>5, <2>6
<1>3. StaffTypeOK'
  <2>1. member' \in [Staff -> Member]
    BY <1>0 DEF Writes
  <2>2. changing' \subseteq Changing
    BY <1>2
  <2>3. \A c \in changing' : c.step = "begun" => c.authority \in ADMIN_ROLES /\ c.actor # c.of
    BY <1>2 DEF StaffInv, StaffTypeOK
  <2> QED
    BY <1>0, <2>1, <2>2, <2>3 DEF StaffTypeOK
<1>4. m.version > member[s].version /\ member[s].version \in Nat
  BY <1>0 DEF Member, Versions
<1>5. ASSUME NEW c \in changing' PROVE Shown(c)' /\ Allowed(c)'
  <2>1. PICK d \in cs : /\ d \in Changing /\ c \in Changing /\ c.of = d.of /\ c.shown = d.shown
                        /\ c.step = d.step /\ c.authority = d.authority
                        /\ c.clean => d.clean /\ d.of # s
    BY <1>2
  <2>2. Shown(d) /\ Allowed(d) /\ d.of \in Staff /\ d.shown.version \in Nat
    BY <1>0, <2>1 DEF StaffInv, Changing, Member, Versions
  <2>3. CASE d.of = s
    BY <1>1, <1>4, <2>1, <2>2, <2>3 DEF Shown, Allowed
  <2>4. CASE d.of # s
    BY <1>1, <2>1, <2>2, <2>4 DEF Shown, Allowed
  <2> QED
    BY <2>3, <2>4
<1>6. ASSUME NEW t \in signing \cup tokens PROVE Signed(t)'
  <2>1. Signed(t) /\ t.user \in Staff /\ t.version \in Nat
    BY <1>0 DEF StaffInv, AccessToken, Versions
  <2> QED
    BY <1>1, <1>4, <2>1 DEF Signed
<1> QED
  BY <1>3, <1>5, <1>6 DEF StaffInv

(* Every change of an account gives it another version.                    *)
LEMMA StaffStepSafe ==
  ASSUME StaffInv, StaffStep
  PROVE  StaffInv'
<1>0. /\ member \in [Staff -> Member] /\ changing \subseteq Changing /\ MaxVersion \in Nat
      /\ signing \subseteq AccessToken /\ tokens \subseteq AccessToken
  BY StaffAssumption DEF StaffAssumption, StaffInv, StaffTypeOK
<1>1. ASSUME NEW s \in Staff, NEW a \in Staff, NEW role \in STAFF_ROLES, InviteMember(a, s, role)
      PROVE  StaffInv'
  <2> DEFINE m == [role |-> role, status |-> "INVITED", version |-> 0]
  <2>1. m \in Member
    BY <1>0 DEF Member, MemberStatus, Versions
  <2>2. member' = [member EXCEPT ![s] = m] /\ UNCHANGED <<changing, signing, tokens>>
        /\ member[s].status = "absent"
    BY <1>1 DEF InviteMember, Writes
  <2> HIDE DEF m
  <2>3. \A r \in Staff : member'[r] = IF r = s THEN m ELSE member[r]
    BY <1>0, <2>2
  <2>4. StaffTypeOK'
    BY <1>0, <2>1, <2>2 DEF StaffInv, StaffTypeOK
  <2>5. \A c \in changing : Shown(c)' /\ Allowed(c)'
    BY <1>0, <2>2, <2>3 DEF StaffInv, Shown, Allowed, Changing
  <2>6. \A t \in signing \cup tokens : Signed(t)'
    BY <1>0, <2>2, <2>3 DEF StaffInv, Signed, AccessToken
  <2> QED
    BY <2>2, <2>4, <2>5, <2>6 DEF StaffInv
<1>2. ASSUME NEW s \in Staff, AcceptMember(s) PROVE StaffInv'
  <2> DEFINE n == member[s].version + 1
             m == [[member[s] EXCEPT !.status = "ACTIVE"] EXCEPT !.version = n]
  <2>1. member[s] \in Member /\ n \in Versions /\ member[s].status = "INVITED"
    BY <1>0, <1>2 DEF AcceptMember, Member, Versions
  <2>2. Writes(s, m) /\ changing' = Unclean(s, changing) /\ UNCHANGED <<signing, tokens>>
    BY <1>2 DEF AcceptMember, Reversioned
  <2>3. n = member[s].version + 1
    OBVIOUS
  <2> HIDE DEF n
  <2>4. m \in Member /\ m.version = n /\ m.status = "ACTIVE"
    BY <2>1 DEF Member, MemberStatus
  <2> HIDE DEF m
  <2> QED
    BY <2>1, <2>2, <2>3, <2>4, NextVersionSafe
<1>3. ASSUME NEW a \in Staff, NEW s \in Staff, ShowMember(a, s) PROVE StaffInv'
  <2> DEFINE c == [actor |-> a, of |-> s, shown |-> member[s], step |-> "shown", kind |-> "none",
                   role |-> member[s].role, authority |-> member[a].role, clean |-> TRUE]
  <2>1. c \in Changing /\ c.of = s /\ c.shown = member[s] /\ c.step = "shown"
    BY <1>0 DEF Changing, Member
  <2>2. /\ changing' = changing \cup {c} /\ UNCHANGED <<member, signing, tokens>>
        /\ member[s].status # "absent" /\ member[s].version \in Nat
    BY <1>0, <1>3 DEF ShowMember, Member, Versions
  <2> HIDE DEF c
  <2> QED
    BY <2>1, <2>2 DEF StaffInv, StaffTypeOK, Shown, Allowed, Signed
<1>4. ASSUME NEW s \in Staff, BeginSignIn(s) PROVE StaffInv'
  <2>1. /\ ClaimsOf(s) \in AccessToken /\ ClaimsOf(s).user = s
        /\ ClaimsOf(s).version = member[s].version /\ ClaimsOf(s).role = member[s].role
        /\ member[s].version \in Nat
    BY <1>0 DEF ClaimsOf, AccessToken, Member, Versions
  <2>2. /\ signing' = signing \cup {ClaimsOf(s)} /\ UNCHANGED <<member, changing, tokens>>
        /\ member[s].status = "ACTIVE"
    BY <1>4 DEF BeginSignIn
  <2> QED
    BY <2>1, <2>2 DEF StaffInv, StaffTypeOK, Shown, Allowed, Signed
<1>5. ASSUME NEW c \in changing, NEW kind \in Kinds, NEW role \in STAFF_ROLES,
             BeginChange(c, kind, role)
      PROVE  StaffInv'
  <2> DEFINE au == member[c.actor].role
             d == [c EXCEPT !.step = "begun", !.kind = kind, !.role = role, !.authority = au,
                            !.clean = TRUE]
  <2>1. c \in Changing /\ c.of \in Staff /\ c.actor \in Staff
        /\ member[c.of] \in Member /\ member[c.actor] \in Member
    BY <1>0 DEF Changing
  <2>2. au \in STAFF_ROLES
    BY <2>1 DEF Member
  <2>3. /\ changing' = (changing \ {c}) \cup {d} /\ UNCHANGED <<member, signing, tokens>>
        /\ c.actor # c.of /\ au \in ADMIN_ROLES
        /\ member[c.of].version = c.shown.version /\ member[c.of].version < MaxVersion
        /\ au = "SUPER_ADMIN" \/ member[c.of].role \notin PRIVILEGED_ROLES
    BY <1>5 DEF BeginChange, NotSelf, Administrator, Expected, Authorised
  <2> HIDE DEF au
  <2>4. /\ d \in Changing /\ d.of = c.of /\ d.shown = c.shown /\ d.step = "begun"
        /\ d.authority = au /\ d.actor = c.actor
    BY <2>1, <2>2 DEF Changing
  <2> HIDE DEF d
  <2>5. StaffTypeOK'
    BY <2>3, <2>4 DEF StaffInv, StaffTypeOK
  <2>6. Shown(d) /\ Allowed(d)
    BY <2>3, <2>4 DEF StaffInv, Shown, Allowed
  <2> QED
    BY <2>3, <2>5, <2>6 DEF StaffInv, Shown, Allowed, Signed
<1>6. ASSUME NEW c \in changing, CommitChange(c) PROVE StaffInv'
  <2> DEFINE s == c.of
             n == member[s].version + 1
             st == StatusAfter(c)
             role == c.role
             m == [[member[s] EXCEPT !.role = role, !.status = st] EXCEPT !.version = n]
  <2>1. /\ c \in Changing /\ s \in Staff /\ member[s] \in Member /\ role \in STAFF_ROLES
        /\ Shown(c) /\ Allowed(c) /\ c.step = "begun" /\ c.clean
    BY <1>0, <1>6 DEF Changing, StaffInv, CommitChange
  <2>2. n \in Versions /\ st \in MemberStatus /\ st # "absent" /\ member[s].status # "absent"
    BY <1>0, <2>1 DEF Shown, Allowed, Member, Versions, StatusAfter, MemberStatus
  <2>3. /\ Writes(s, m) /\ changing' = Unclean(s, changing \ {c}) /\ UNCHANGED <<signing, tokens>>
    BY <1>6 DEF CommitChange, Reversioned
  <2>4. n = member[s].version + 1 /\ changing \ {c} \in SUBSET changing
    OBVIOUS
  <2> HIDE DEF s, n, st, role
  <2>5. m \in Member /\ m.version = n /\ m.status = st
    BY <2>1, <2>2 DEF Member
  <2> HIDE DEF m
  <2> QED
    BY <2>1, <2>2, <2>3, <2>4, <2>5, NextVersionSafe
<1>7. ASSUME NEW c \in changing, EndChange(c) PROVE StaffInv'
  BY <1>7 DEF EndChange, StaffInv, StaffTypeOK, Shown, Allowed, Signed
<1>8. ASSUME NEW t \in signing, GenerateAccessToken(t) \/ SignInFails(t) PROVE StaffInv'
  BY <1>8 DEF GenerateAccessToken, SignInFails, StaffInv, StaffTypeOK, Shown, Allowed, Signed
<1>9. ASSUME NEW t \in tokens, TokenExpires(t) PROVE StaffInv'
  BY <1>9 DEF TokenExpires, StaffInv, StaffTypeOK, Shown, Allowed, Signed
<1> QED
  BY <1>1, <1>2, <1>3, <1>4, <1>5, <1>6, <1>7, <1>8, <1>9 DEF StaffStep

(* The invariant holds of every reachable state.                           *)
LEMMA StaffInvariant == StaffSpec => []StaffInv
<1>1. StaffInit => StaffInv
  BY StaffAssumption DEF StaffAssumption, StaffInit, StaffInv, StaffTypeOK, Member, MemberStatus,
     STAFF_ROLES, Versions
<1>2. StaffInv /\ [StaffStep]_staffVars => StaffInv'
  <2>1. CASE UNCHANGED staffVars
    BY <2>1 DEF staffVars, StaffInv, StaffTypeOK, Shown, Allowed, Signed
  <2> QED
    BY <2>1, StaffStepSafe
<1> QED
  BY <1>1, <1>2, PTL DEF StaffSpec

(* mutateStaff, generateAccessToken and authenticate: whatever             *)
(* administrators change at the same time, a change is made to the account *)
(* its author was shown, it ends the last Super Administrator only if its  *)
(* author had lost the authority it was begun with, and a token that is    *)
(* accepted carries the role the account has.                              *)
THEOREM AuthorityHolds == StaffSpec => AuthorityStands
<1>1. StaffInv => AcceptedTokenIsTrue
  BY DEF StaffInv, Signed, AcceptedTokenIsTrue, Accepted
<1>2. ASSUME StaffInv, NEW c \in changing, CommitChange(c)
      PROVE  /\ member[c.of] = c.shown
             /\ InForce(member) /\ StillStands(c) => InForce(member')
  <2> DEFINE m == Reversioned(c.of, [member[c.of] EXCEPT !.role = c.role, !.status = StatusAfter(c)])
  <2>1. /\ c \in Changing /\ Allowed(c) /\ c.step = "begun" /\ c.clean /\ c.actor # c.of
        /\ member \in [Staff -> Member] /\ c.of \in Staff /\ c.actor \in Staff
    BY <1>2 DEF StaffInv, StaffTypeOK, CommitChange, Changing
  <2>2. member' = [member EXCEPT ![c.of] = m]
    BY <1>2 DEF CommitChange, Writes
  <2> HIDE DEF m
  <2>3. member[c.of] = c.shown
    BY <2>1 DEF Allowed
  <2>4. ASSUME InForce(member), StillStands(c) PROVE InForce(member')
    <3>1. CASE c.authority = "SUPER_ADMIN"
      BY <2>1, <2>2, <2>4, <3>1 DEF StillStands, InForce
    <3>2. CASE c.authority # "SUPER_ADMIN"
      <4>1. member[c.of].role \notin PRIVILEGED_ROLES
        BY <2>1, <3>2 DEF Allowed
      <4>2. PICK s \in Staff : member[s].role = "SUPER_ADMIN" /\ member[s].status = "ACTIVE"
        BY <2>4 DEF InForce
      <4>3. s # c.of
        BY <4>1, <4>2 DEF PRIVILEGED_ROLES, STAFF_ROLES
      <4> QED
        BY <2>1, <2>2, <4>2, <4>3 DEF InForce
    <3> QED
      BY <3>1, <3>2
  <2> QED
    BY <2>3, <2>4
<1>3. StaffInv => SuperAdminRemains /\ ChangedAsShown
  BY <1>2 DEF SuperAdminRemains, ChangedAsShown
<1> QED
  BY <1>1, <1>3, StaffInvariant, PTL DEF StaffSpec, AuthorityStands

-----------------------------------------------------------------------------
(* Guidance: a question that is being sent is not stored yet, an answer    *)
(* that is being saved has its question, and what was answered stays so.   *)
GuidanceShape ==
  /\ guidance \in GuidanceSession
  /\ escalation \in [Escalations -> Escalation]
  /\ asking \subseteq Question
  /\ answering \subseteq Answer
  /\ notices \in [Escalations -> Nat]

QuestionsAreNew ==
  /\ \A q \in asking : escalation[q.id].status = "absent"
  /\ \A q, p \in asking : q.id = p.id => q = p
  /\ guidance.status = "ARCHIVED" => \A q \in asking : q.overtaken

AnswersHaveQuestions ==
  \A b \in answering : /\ escalation[b.id].status # "absent"
                       /\ b.step = "saved" => escalation[b.id].status = "responded"

AnswersStay ==
  \A e \in Escalations :
    /\ escalation[e].status = "responded" => escalation[e].response # "none"
    /\ notices[e] \in {0, 1}
    /\ notices[e] = 1 => escalation[e].status = "responded"

OneWaits == \A e, f \in Escalations : escalation[e].active /\ escalation[f].active => e = f

GuidanceInv ==
  GuidanceShape /\ QuestionsAreNew /\ AnswersHaveQuestions /\ AnswersStay /\ OneWaits

(* The steps on the session, and those that drop a request.                *)
LEMMA SessionSafe ==
  ASSUME GuidanceInv,
         \/ \E owner \in {"guest", "customer"}, status \in {"ACTIVE", "NO_MATCH"} :
              CreateGuidance(owner, status)
         \/ SessionAges \/ BeginArchive \/ ArchiveGuidance
         \/ \E q \in asking : AskFails(q)
         \/ \E b \in answering : AnswerDies(b)
  PROVE  GuidanceInv'
<1> USE DEF GuidanceInv, GuidanceShape, QuestionsAreNew, AnswersHaveQuestions, AnswersStay, OneWaits
<1>1. ASSUME NEW owner \in {"guest", "customer"}, NEW status \in {"ACTIVE", "NO_MATCH"},
             CreateGuidance(owner, status)
      PROVE  GuidanceInv'
  BY <1>1 DEF CreateGuidance, GuidanceSession, GuidanceStatus
<1>2. CASE SessionAges
  BY <1>2 DEF SessionAges, Found, GuidanceSession, GuidanceStatus
<1>3. CASE BeginArchive
  BY <1>3 DEF BeginArchive
<1>4. CASE ArchiveGuidance
  <2>1. CASE ~Found
    BY <1>4, <2>1 DEF ArchiveGuidance
  <2>2. CASE Found
    <3>1. /\ guidance' = Archived(guidance) /\ asking' = {[q EXCEPT !.overtaken = TRUE] : q \in asking}
          /\ UNCHANGED <<escalation, answering, notices>>
      BY <1>4, <2>2 DEF ArchiveGuidance
    <3>2. guidance' \in GuidanceSession
      BY <3>1 DEF Archived, GuidanceSession, GuidanceStatus
    <3>3. \A q \in asking : /\ [q EXCEPT !.overtaken = TRUE] \in Question
                            /\ [q EXCEPT !.overtaken = TRUE].id = q.id
                            /\ [q EXCEPT !.overtaken = TRUE].overtaken
      BY DEF Question
    <3>4. ASSUME NEW q \in asking'
          PROVE  /\ q \in Question /\ q.overtaken
                 /\ \E p \in asking : p.id = q.id /\ q = [p EXCEPT !.overtaken = TRUE]
      <4>1. PICK p \in asking : q = [p EXCEPT !.overtaken = TRUE]
        BY <3>1
      <4> QED
        BY <3>3, <4>1
    <3>5. GuidanceShape'
      BY <3>1, <3>2, <3>4
    <3>6. QuestionsAreNew'
      <4>1. \A q \in asking' : escalation'[q.id].status = "absent"
        BY <3>1, <3>4
      <4>2. ASSUME NEW q \in asking', NEW p \in asking', q.id = p.id PROVE q = p
        <5>1. PICK q0 \in asking : q0.id = q.id /\ q = [q0 EXCEPT !.overtaken = TRUE]
          BY <3>4
        <5>2. PICK p0 \in asking : p0.id = p.id /\ p = [p0 EXCEPT !.overtaken = TRUE]
          BY <3>4
        <5>3. q0.id = p0.id
          BY <4>2, <5>1, <5>2
        <5>4. q0 = p0
          BY <5>3
        <5> HIDE DEF GuidanceInv, GuidanceShape, QuestionsAreNew, AnswersHaveQuestions, AnswersStay,
                     OneWaits
        <5> QED
          BY <5>1, <5>2, <5>4
      <4> QED
        BY <3>4, <4>1, <4>2
    <3> QED
      BY <3>1, <3>5, <3>6
  <2> QED
    BY <2>1, <2>2
<1>5. ASSUME NEW q \in asking, AskFails(q) PROVE GuidanceInv'
  BY <1>5 DEF AskFails
<1>6. ASSUME NEW b \in answering, AnswerDies(b) PROVE GuidanceInv'
  BY <1>6 DEF AnswerDies, AnswerGoes
<1> QED
  BY <1>1, <1>2, <1>3, <1>4, <1>5, <1>6

(* Asking.                                                                 *)
LEMMA AskSafe ==
  ASSUME GuidanceInv,
         \/ \E e \in Escalations : BeginAsk(e)
         \/ \E q \in asking : CreateGuidanceEscalation(q)
  PROVE  GuidanceInv'
<1> USE DEF GuidanceInv, GuidanceShape, QuestionsAreNew, AnswersHaveQuestions, AnswersStay, OneWaits
<1>1. ASSUME NEW e \in Escalations, BeginAsk(e) PROVE GuidanceInv'
  <2> DEFINE q == [id |-> e, overtaken |-> FALSE]
  <2>1. q \in Question /\ q.id = e
    BY DEF Question
  <2>2. /\ asking' = asking \cup {q} /\ UNCHANGED <<guidance, escalation, answering, notices>>
        /\ escalation[e].status = "absent" /\ (\A p \in asking : p.id # e)
        /\ guidance.status # "ARCHIVED"
    BY <1>1 DEF BeginAsk, MayAsk
  <2> HIDE DEF q
  <2> QED
    BY <2>1, <2>2
<1>2. ASSUME NEW q \in asking, CreateGuidanceEscalation(q) PROVE GuidanceInv'
  <2> DEFINE new == [status |-> "submitted", active |-> TRUE, response |-> "none"]
             id == q.id
  <2>1. /\ new \in Escalation /\ new.status = "submitted"
        /\ id \in Escalations /\ escalation[id].status = "absent"
    BY DEF Escalation, EscalationStatus, Question
  <2>2. /\ escalation' = [escalation EXCEPT ![id] = new] /\ asking' = asking \ {q}
        /\ UNCHANGED <<guidance, answering, notices>>
        /\ \A e \in Escalations : ~escalation[e].active
    BY <1>2 DEF CreateGuidanceEscalation, NoneActive
  <2>3. \A p \in asking' : p \in asking /\ p.id # id
    BY <2>2
  <2> HIDE DEF new, id
  <2>4. \A e \in Escalations : escalation'[e] = IF e = id THEN new ELSE escalation[e]
    BY <2>2
  <2>5. GuidanceShape' /\ QuestionsAreNew'
    BY <2>1, <2>2, <2>3, <2>4 DEF Question
  <2>6. AnswersHaveQuestions'
    BY <2>1, <2>2, <2>4 DEF Answer
  <2>7. AnswersStay' /\ OneWaits'
    BY <2>1, <2>2, <2>4
  <2> QED
    BY <2>5, <2>6, <2>7
<1> QED
  BY <1>1, <1>2

(* Answering.                                                              *)
LEMMA AnswerSafe ==
  ASSUME GuidanceInv,
         \/ \E e \in Escalations, a \in Advisors : BeginAnswer(a, e)
         \/ \E b \in answering : RecordGuidanceAdvisorResponse(b) \/ NotifyAnswer(b)
  PROVE  GuidanceInv'
<1> USE DEF GuidanceInv, GuidanceShape, QuestionsAreNew, AnswersHaveQuestions, AnswersStay, OneWaits
<1>1. ASSUME NEW e \in Escalations, NEW a \in Advisors, BeginAnswer(a, e) PROVE GuidanceInv'
  <2> DEFINE b == [advisor |-> a, id |-> e, step |-> "read"]
  <2>1. b \in Answer /\ b.id = e /\ b.step = "read"
    BY DEF Answer
  <2>2. /\ answering' = answering \cup {b} /\ UNCHANGED <<guidance, escalation, asking, notices>>
        /\ escalation[e].status # "absent"
    BY <1>1 DEF BeginAnswer, AnswerGoes
  <2> HIDE DEF b
  <2> QED
    BY <2>1, <2>2
<1>2. ASSUME NEW b \in answering, RecordGuidanceAdvisorResponse(b) PROVE GuidanceInv'
  <2> DEFINE id == b.id
             new == [status |-> "responded", active |-> FALSE, response |-> b.advisor]
             saved == [b EXCEPT !.step = "saved"]
  <2>1. /\ b \in Answer /\ id \in Escalations /\ b.advisor # "none"
        /\ new \in Escalation /\ new.status = "responded" /\ new.response # "none" /\ ~new.active
    BY GuidanceAssumption DEF Answer, Escalation, EscalationStatus
  <2>2. saved \in Answer /\ saved.id = id /\ escalation[id].status # "absent"
    BY DEF Answer
  <2>3. /\ escalation' = [escalation EXCEPT ![id] = new]
        /\ answering' = (answering \ {b}) \cup {saved} /\ UNCHANGED <<guidance, asking, notices>>
    BY <1>2 DEF RecordGuidanceAdvisorResponse, AnswerGoes
  <2> HIDE DEF new, id, saved
  <2>4. \A e \in Escalations : escalation'[e] = IF e = id THEN new ELSE escalation[e]
    BY <2>3
  <2>5. GuidanceShape'
    BY <2>1, <2>2, <2>3, <2>4
  <2>6. QuestionsAreNew'
    BY <2>2, <2>3, <2>4 DEF Question
  <2>7. AnswersHaveQuestions'
    BY <2>1, <2>2, <2>3, <2>4 DEF Answer
  <2>8. AnswersStay' /\ OneWaits'
    BY <2>1, <2>3, <2>4
  <2> QED
    BY <2>5, <2>6, <2>7, <2>8
<1>3. ASSUME NEW b \in answering, NotifyAnswer(b) PROVE GuidanceInv'
  <2>1. b.id \in Escalations /\ escalation[b.id].status = "responded"
    BY <1>3 DEF NotifyAnswer, Answer
  <2>2. /\ notices' = notices \/ notices' = [notices EXCEPT ![b.id] = 1]
        /\ answering' = answering \ {b} /\ UNCHANGED <<guidance, escalation, asking>>
    BY <1>3 DEF NotifyAnswer, AnswerGoes, Notified
  <2> QED
    BY <2>1, <2>2
<1> QED
  BY <1>1, <1>2, <1>3

(* The invariant holds of every reachable state.                           *)
LEMMA GuidanceInvariant == GuidanceSpec => []GuidanceInv
<1>1. GuidanceInit => GuidanceInv
  BY DEF GuidanceInit, GuidanceInv, GuidanceShape, QuestionsAreNew, AnswersHaveQuestions,
     AnswersStay, OneWaits, GuidanceSession, GuidanceStatus, Escalation, EscalationStatus
<1>2. GuidanceInv /\ [GuidanceStep]_guidanceVars => GuidanceInv'
  <2>1. CASE UNCHANGED guidanceVars
    BY <2>1 DEF guidanceVars, GuidanceInv, GuidanceShape, QuestionsAreNew, AnswersHaveQuestions,
       AnswersStay, OneWaits
  <2>2. CASE GuidanceStep
    BY <2>2, SessionSafe, AskSafe, AnswerSafe DEF GuidanceStep
  <2> QED
    BY <2>1, <2>2
<1> QED
  BY <1>1, <1>2, PTL DEF GuidanceSpec

(* createGuidanceEscalation, recordGuidanceAdvisorResponse and             *)
(* archiveGuidance: however many questions, answers and archive requests   *)
(* overtake each other, at most one question waits for an advisor, its     *)
(* customer gets one notice of an answer that is there, and an archived    *)
(* session only receives the questions that were under way.                *)
THEOREM QuestionsSettle == GuidanceSpec => QuestionsAreSettled
<1>1. GuidanceInv => OneActiveEscalation /\ OneNoticePerQuestion
  BY AtMostOne DEF GuidanceInv, OneWaits, AnswersStay, OneActiveEscalation, OneNoticePerQuestion
<1>2. ASSUME GuidanceInv, GuidanceStep PROVE ArchiveEndsQuestions
  <2> SUFFICES ASSUME NEW e \in Escalations, guidance.status = "ARCHIVED",
                      escalation[e].status # escalation'[e].status,
                      escalation'[e].status # "responded"
               PROVE  [id |-> e, overtaken |-> TRUE] \in asking
    BY DEF ArchiveEndsQuestions
  <2>0. escalation \in [Escalations -> Escalation]
    BY <1>2 DEF GuidanceInv, GuidanceShape
  <2>1. ASSUME NEW b \in answering, RecordGuidanceAdvisorResponse(b)
        PROVE  escalation'[e].status \in {escalation[e].status, "responded"}
    BY <2>0, <2>1 DEF RecordGuidanceAdvisorResponse
  <2>2. \E q \in asking : CreateGuidanceEscalation(q)
    BY <1>2, <2>1 DEF GuidanceStep, CreateGuidance, SessionAges, BeginArchive, ArchiveGuidance,
       BeginAsk, AskFails, BeginAnswer, NotifyAnswer, AnswerDies
  <2>3. PICK q \in asking : CreateGuidanceEscalation(q)
    BY <2>2
  <2>4. q.id = e
    BY <2>0, <2>3 DEF CreateGuidanceEscalation
  <2>5. q \in Question /\ q.overtaken
    BY <1>2 DEF GuidanceInv, GuidanceShape, QuestionsAreNew
  <2>6. q = [id |-> e, overtaken |-> TRUE]
    BY <2>4, <2>5 DEF Question
  <2> QED
    BY <2>6
<1>3. GuidanceInv /\ [GuidanceStep]_guidanceVars => [ArchiveEndsQuestions]_guidanceVars
  BY <1>2
<1> QED
  BY <1>1, <1>3, GuidanceInvariant, PTL DEF GuidanceSpec, QuestionsAreSettled

-----------------------------------------------------------------------------
(***************************************************************************)
(* The schemas.  The invariants above say most of what the documents look  *)
(* like; what follows is the rest of it, one desk after the other.         *)
(***************************************************************************)

(* What the claims and the returns do not need: the warranty, the window   *)
(* and the ticket.                                                         *)
TicketInOrder ==
  /\ cover \in {"UPCOMING", "ACTIVE", "EXPIRED", "VOID"}
  /\ window \in {"closed", "open", "over"}
  /\ ticket \in TicketDocument
  /\ replying \subseteq Reply

(* Whatever status a reply was read with, it writes one that the schema    *)
(* has.                                                                    *)
LEMMA TicketStaysInOrder ==
  ASSUME TicketInOrder, [AfterSalesNext]_afterSalesVars
  PROVE  TicketInOrder'
<1>1. UNCHANGED ticketVars => ticket' \in TicketDocument /\ replying' \subseteq Reply
  BY DEF TicketInOrder, ticketVars
<1>2. CASE UNCHANGED <<cover, window>>
  <2>1. cover' \in {"UPCOMING", "ACTIVE", "EXPIRED", "VOID"} /\ window' \in {"closed", "open", "over"}
    BY <1>2 DEF TicketInOrder
  <2>2. CASE UNCHANGED ticketVars
    BY <1>1, <2>1, <2>2 DEF TicketInOrder
  <2>3. CASE CreateSupportTicket
    BY <2>1, <2>3 DEF TicketInOrder, CreateSupportTicket, TicketDocument, TicketStatus
  <2>4. ASSUME NEW key \in Replies, NEW by \in {"customer", "support"}, ReadTicket(key, by)
        PROVE  TicketInOrder'
    BY <2>1, <2>4 DEF TicketInOrder, ReadTicket, Reply, TicketDocument
  <2>5. ASSUME NEW r \in replying, SaveReply(r)
        PROVE  TicketInOrder'
    <3>1. r.key \in Replies
      BY DEF TicketInOrder, Reply
    <3>2. ticket' \in TicketDocument
      BY <2>5, <3>1 DEF TicketInOrder, SaveReply, TicketDocument, TicketStatus
    <3> QED
      BY <2>1, <2>5, <3>2 DEF TicketInOrder, SaveReply
  <2>6. ASSUME NEW r \in replying, FailReply(r)
        PROVE  TicketInOrder'
    BY <2>1, <2>6 DEF TicketInOrder, FailReply
  <2>7. ASSUME NEW status \in TicketStatus, UpdateTicketStatus(status)
        PROVE  TicketInOrder'
    BY <2>1, <2>7 DEF TicketInOrder, UpdateTicketStatus, TicketDocument
  <2>8. CASE AfterSalesNext
    BY <2>2, <2>3, <2>4, <2>5, <2>6, <2>7, <2>8
       DEF AfterSalesNext, ClaimStep, ReturnStep, TicketStep, WarrantyTurns, CreateCustomerClaim,
           UpdateClaimStatus, WindowTurns, BeginReturn, CommitReturn, AbortReturn, DecideReturn
  <2> QED
    BY <2>2, <2>8 DEF afterSalesVars
<1>3. ASSUME NEW to \in {"ACTIVE", "EXPIRED", "VOID"}, WarrantyTurns(to) PROVE TicketInOrder'
  BY <1>1, <1>3 DEF TicketInOrder, WarrantyTurns, returnVars
<1>4. CASE WindowTurns
  BY <1>1, <1>4 DEF TicketInOrder, WindowTurns, claimVars
<1>5. ASSUME AfterSalesNext PROVE
         \/ \E to \in {"ACTIVE", "EXPIRED", "VOID"} : WarrantyTurns(to)
         \/ WindowTurns
         \/ UNCHANGED <<cover, window>>
  BY <1>5 DEF AfterSalesNext, ClaimStep, ReturnStep, TicketStep, CreateCustomerClaim,
         UpdateClaimStatus, BeginReturn, CommitReturn, AbortReturn, DecideReturn, claimVars,
         CreateSupportTicket, ReadTicket, SaveReply, FailReply, UpdateTicketStatus, returnVars
<1>6. UNCHANGED afterSalesVars => UNCHANGED <<cover, window>>
  BY DEF afterSalesVars, claimVars, returnVars
<1> QED
  BY <1>2, <1>3, <1>4, <1>5, <1>6

(* Claims, returns and the ticket keep their shapes, for any number of     *)
(* requests.                                                               *)
LEMMA CasesTypeCorrect == AfterSalesSpec => []AfterSalesTypeOK
<1>1. AfterSalesInit => TicketInOrder
  BY DEF AfterSalesInit, ClaimsInit, ReturnsInit, TicketInit, TicketInOrder, TicketDocument, TicketStatus
<1>2. CasesInv /\ TicketInOrder => AfterSalesTypeOK
  BY DEF CasesInv, ClaimsInOrder, ReturnsInOrder, TicketInOrder, AfterSalesTypeOK
<1> QED
  BY <1>1, <1>2, CasesInvariant, TicketStaysInOrder, PTL DEF AfterSalesSpec

-----------------------------------------------------------------------------
(* What scheduling and the plans do not need: the request, who is quoting  *)
(* and assessing, and the execution.                                       *)
WorkInOrder ==
  /\ service \in ServiceRequest
  /\ quoting \in QuotingProgress
  /\ assessing \subseteq [result : Results, seen : ServiceStatus]
  /\ execution \in [status : ExecutionStatus, version : 0..MaxServiceQuotes]
  /\ history \in Nat

(* The latest version is one of those that there may be.                   *)
LEMMA LatestOfferExists == LatestOffer \in 0..MaxServiceQuotes
<1> DEFINE S == {v \in OfferVersions : offer[v].status # "ABSENT"} \cup {0}
<1>0. MaxServiceQuotes \in Nat
  BY ServiceAssumption DEF ServiceAssumption
<1>1. S \in SUBSET Nat /\ S # {} /\ \A n \in S : n \in 0..MaxServiceQuotes /\ n <= MaxServiceQuotes
  BY <1>0 DEF OfferVersions
<1> HIDE DEF S
<1>2. \E m \in S : \A n \in S : m >= n
  BY <1>0, <1>1, GreatestNumber
<1>3. Max(S) \in S
  BY <1>2 DEF Max
<1> QED
  BY <1>1, <1>3 DEF LatestOffer, S

(* Every handler writes a status that the schema has, also one that it     *)
(* read long before.                                                       *)
LEMMA WorkStaysInOrder ==
  ASSUME WorkInOrder, SchedulingInOrder, [DeskNext]_deskVars
  PROVE  WorkInOrder'
<1>0. /\ service \in ServiceRequest /\ quoting \in QuotingProgress
      /\ execution \in [status : ExecutionStatus, version : 0..MaxServiceQuotes]
      /\ history \in Nat /\ MaxServiceQuotes \in Nat
      /\ Results \subseteq ServiceStatus /\ ExecutionStatus \ {"ABSENT"} \subseteq ServiceStatus
  BY ServiceAssumption DEF WorkInOrder, ServiceAssumption, ServiceStatus
<1>1. ASSUME NEW s \in ServiceStatus, service' = [service EXCEPT !.status = s]
      PROVE  service' \in ServiceRequest
  BY <1>0, <1>1 DEF ServiceRequest
<1>2. CASE UNCHANGED <<service, quoting, assessing, execution, history>>
  BY <1>2 DEF WorkInOrder
<1>3. CASE CreateServiceRequest
  <2>1. "ASSESSMENT_REQUIRED" \in ServiceStatus
    BY DEF ServiceStatus
  <2> QED
    BY <1>1, <1>3, <2>1 DEF CreateServiceRequest, WorkInOrder
<1>4. ASSUME NEW result \in Results, ReadForAssessment(result) PROVE WorkInOrder'
  <2>1. service.status \in ServiceStatus
    BY <1>0 DEF ServiceRequest
  <2> QED
    BY <1>4, <2>1 DEF ReadForAssessment, WorkInOrder
<1>5. ASSUME NEW a \in assessing, RecordAssessment(a) PROVE WorkInOrder'
  <2>1. a.result \in Results /\ a.seen \in ServiceStatus
    BY DEF WorkInOrder
  <2>2. service' \in ServiceRequest
    BY <1>0, <1>5, <2>1 DEF RecordAssessment, ServiceRequest
  <2> QED
    BY <1>5, <2>2 DEF RecordAssessment, WorkInOrder
<1>6. ASSUME NEW a \in assessing, LoseAssessment(a) PROVE WorkInOrder'
  BY <1>6 DEF LoseAssessment, WorkInOrder
<1>7. CASE FindService
  <2>1. service.status \in ServiceStatus
    BY <1>0 DEF ServiceRequest
  <2>2. quoting' \in QuotingProgress
    BY <1>0, <1>7, <2>1 DEF FindService, QuotingProgress
  <2> QED
    BY <1>7, <2>2 DEF FindService, WorkInOrder
<1>8. CASE FindOfferVersion
  <2>1. PICK n \in 0..(MaxServiceQuotes + 1) : n = LatestOffer + 1
    BY <1>0, LatestOfferExists
  <2>2. quoting' = [quoting EXCEPT !.step = "supersede", !.next = n]
    BY <1>8, <2>1 DEF FindOfferVersion
  <2>3. quoting' \in QuotingProgress
    BY <1>0, <2>2 DEF QuotingProgress
  <2> QED
    BY <1>8, <2>3 DEF FindOfferVersion, WorkInOrder
<1>9. CASE SupersedeOffers
  <2>1. quoting' \in QuotingProgress
    BY <1>0, <1>9 DEF SupersedeOffers, QuotingProgress
  <2> QED
    BY <1>9, <2>1 DEF SupersedeOffers, WorkInOrder
<1>10. ASSUME NEW deposit \in BOOLEAN, CreateOffer(deposit) PROVE WorkInOrder'
  <2>1. quoting' = [quoting EXCEPT !.step = "save"]
    BY <1>10 DEF CreateOffer
  <2>2. quoting' \in QuotingProgress
    BY <1>0, <2>1 DEF QuotingProgress
  <2> QED
    BY <1>10, <2>2 DEF CreateOffer, WorkInOrder
<1>11. NotQuoting \in QuotingProgress
  BY <1>0 DEF NotQuoting, QuotingProgress, ServiceStatus
<1>12. CASE SaveOffered
  <2>1. "AWAITING_DECISION" \in ServiceStatus /\ service.status \in ServiceStatus
    BY <1>0 DEF ServiceStatus, ServiceRequest
  <2>2. service' \in ServiceRequest
    BY <1>0, <1>12, <2>1 DEF SaveOffered, ServiceRequest
  <2> QED
    BY <1>11, <1>12, <2>2 DEF SaveOffered, WorkInOrder
<1>13. CASE AbandonOffer
  BY <1>11, <1>13 DEF AbandonOffer, WorkInOrder
<1>14. ASSUME NEW v \in OfferVersions, NEW d \in {"APPROVED", "DECLINED"}, DecideServiceQuote(v, d)
       PROVE  WorkInOrder'
  <2>1. d \in ServiceStatus
    BY DEF ServiceStatus
  <2> QED
    BY <1>1, <1>14, <2>1 DEF DecideServiceQuote, WorkInOrder
<1>15. ASSUME NEW s \in scheduling, ScheduleService(s) PROVE WorkInOrder'
  <2>1. s.version \in 0..MaxServiceQuotes
    BY <1>0 DEF SchedulingInOrder, OfferVersions
  <2>2. "SCHEDULED" \in ServiceStatus /\ "SCHEDULED" \in ExecutionStatus
    BY DEF ServiceStatus, ExecutionStatus
  <2> QED
    BY <1>1, <1>15, <2>1, <2>2 DEF ScheduleService, WorkInOrder
<1>16. ASSUME NEW from, NEW to \in ExecutionStatus \ {"ABSENT"}, TransitionExecution(from, to)
       PROVE  WorkInOrder'
  <2>1. execution' \in [status : ExecutionStatus, version : 0..MaxServiceQuotes]
    BY <1>0, <1>16 DEF TransitionExecution
  <2> QED
    BY <1>0, <1>1, <1>16, <2>1 DEF TransitionExecution, WorkInOrder
<1>17. CASE StartService \/ CancelService
  <2>1. {"IN_PROGRESS", "CANCELLED"} \subseteq ExecutionStatus \ {"ABSENT"}
    BY DEF ExecutionStatus
  <2> QED
    BY <1>16, <1>17, <2>1 DEF StartService, CancelService
<1>18. CASE CompleteService
  <2>1. "COMPLETED" \in ExecutionStatus /\ "COMPLETED" \in ServiceStatus
    BY DEF ExecutionStatus, ServiceStatus
  <2>2. execution' \in [status : ExecutionStatus, version : 0..MaxServiceQuotes]
    BY <1>0, <1>18, <2>1 DEF CompleteService
  <2>3. history' \in Nat /\ UNCHANGED <<quoting, assessing>>
    BY <1>0, <1>18 DEF CompleteService
  <2>4. service' \in ServiceRequest
    BY <1>1, <1>18, <2>1 DEF CompleteService
  <2> QED
    BY <2>2, <2>3, <2>4 DEF WorkInOrder
<1>19. CASE UNCHANGED deskVars
  BY <1>2, <1>19 DEF deskVars, serviceVars
<1> QED
  BY <1>2, <1>3, <1>4, <1>5, <1>6, <1>7, <1>8, <1>9, <1>10, <1>12, <1>13, <1>14, <1>15, <1>17,
     <1>18, <1>19
     DEF DeskNext, ServiceStep, OfferStep, ExecutionStep, PlanStep, LapseOffer, BeginSchedule,
         AbortSchedule, CreatePlan, CancelPlan, RenewPlan, serviceVars

(* The service desk keeps its documents within their schemas.              *)
LEMMA DeskTypeCorrect == DeskSpec => []DeskTypeOK
<1>1. DeskInit => WorkInOrder
  BY ServiceAssumption
     DEF ServiceAssumption, DeskInit, ServiceInit, WorkInOrder, ServiceRequest, ServiceStatus,
         NotQuoting, QuotingProgress, ExecutionStatus
<1>2. /\ ServiceInv => SchedulingInOrder
      /\ ServiceInv /\ WorkInOrder => DeskTypeOK
  BY DEF ServiceInv, SchedulingInOrder, TermsInOrder, WorkInOrder, DeskTypeOK
<1> QED
  BY <1>1, <1>2, ServiceInvariant, WorkStaysInOrder, PTL DEF DeskSpec

-----------------------------------------------------------------------------
(* The versions that were ever created.                                    *)
Made == {e \in Editions : edition[e].status # "absent"}

(* A number is at most the number of versions made so far, and a           *)
(* publication that can commit writes versions that are still kept.        *)
VersionsInOrder ==
  /\ edition \in [Editions -> PolicyVersion]
  /\ \A e, f \in Kept : edition[e].version = edition[f].version => e = f
  /\ \A e \in Kept : edition[e].version <= Cardinality(Made)
  /\ deleting \subseteq Made
  /\ publishing \subseteq Publication
  /\ \A p \in publishing : p.clean => p.edition \in Kept /\ p.current \subseteq Kept

(* The next number is one that no version has, and fits one more version.  *)
LEMMA NextVersionIsNew ==
  ASSUME VersionsInOrder
  PROVE  /\ Cardinality(Made) \in Nat
         /\ NextVersion \in 1..(Cardinality(Made) + 1)
         /\ \A e \in Kept : edition[e].version < NextVersion
<1>1. IsFiniteSet(Made) /\ Cardinality(Made) \in Nat
  BY ContentAssumption, FS_Subset, FS_CardinalityType DEF ContentAssumption, Made
<1> DEFINE S == {0} \cup {edition[f].version : f \in Kept}
<1>2. \A f \in Kept : edition[f].version \in Nat /\ edition[f].version <= Cardinality(Made)
  BY DEF VersionsInOrder, PolicyVersion, Kept
<1>3. PICK m \in S : \A n \in S : m >= n
  <2>1. S \in SUBSET Nat /\ S # {} /\ \A n \in S : n <= Cardinality(Made)
    BY <1>1, <1>2
  <2> HIDE DEF S
  <2> QED
    BY <1>1, <2>1, GreatestNumber
<1>4. Max(S) \in S /\ \A n \in S : Max(S) >= n
  <2> HIDE DEF S
  <2> QED
    BY <1>3 DEF Max
<1>5. NextVersion = Max(S) + 1
  BY DEF NextVersion
<1>6. PICK g : g = Max(S)
  OBVIOUS
<1>7. g \in Nat /\ g <= Cardinality(Made)
  BY <1>1, <1>2, <1>4, <1>6
<1>8. \A f \in Kept : edition[f].version <= g
  BY <1>2, <1>4, <1>6, <1>7
<1> HIDE DEF S
<1> QED
  BY <1>1, <1>2, <1>5, <1>6, <1>7, <1>8

(* A step that keeps which versions there are, and their numbers.          *)
LEMMA NumbersKept ==
  ASSUME VersionsInOrder, edition' \in [Editions -> PolicyVersion], Made' = Made,
         \A e \in Kept' : e \in Kept /\ edition'[e].version = edition[e].version
  PROVE  /\ \A e, f \in Kept' : edition'[e].version = edition'[f].version => e = f
         /\ \A e \in Kept' : edition'[e].version <= Cardinality(Made')
  BY DEF VersionsInOrder

(* A version moves to another status.                                      *)
LEMMA StatusWritten ==
  ASSUME VersionsInOrder, NEW e \in Made, NEW s \in ContentStatus \cup {"DELETED"},
         s \in ContentStatus => e \in Kept,
         edition' = Moved(e, s)
  PROVE  /\ edition' \in [Editions -> PolicyVersion] /\ Made' = Made
         /\ Kept \ {e} \subseteq Kept' /\ (s \in ContentStatus => e \in Kept')
         /\ \A f \in Kept' : f \in Kept /\ edition'[f].version = edition[f].version
<1> DEFINE doc == [edition[e] EXCEPT !.status = s]
<1>1. edition \in [Editions -> PolicyVersion] /\ e \in Editions
  BY DEF VersionsInOrder, Made
<1>2. doc \in PolicyVersion /\ doc.status = s /\ doc.version = edition[e].version
  BY <1>1 DEF PolicyVersion
<1>3. edition' = [edition EXCEPT ![e] = doc]
  BY DEF Moved
<1> HIDE DEF doc
<1>4. edition' \in [Editions -> PolicyVersion]
  BY <1>1, <1>2, <1>3
<1>5. \A f \in Editions : edition'[f] = IF f = e THEN doc ELSE edition[f]
  BY <1>1, <1>3
<1>6. s # "absent"
  BY DEF ContentStatus
<1>7. Made' = Made
  BY <1>2, <1>5, <1>6 DEF Made
<1>8. \A f \in Kept' : f \in Kept /\ edition'[f].version = edition[f].version
  BY <1>1, <1>2, <1>5 DEF Kept
<1>9. Kept \ {e} \subseteq Kept' /\ (s \in ContentStatus => e \in Kept')
  BY <1>1, <1>2, <1>5 DEF Kept
<1> QED
  BY <1>4, <1>7, <1>8, <1>9

(* Who lost the version they write does not commit any more.               *)
LEMMA PublicationsFollow ==
  ASSUME VersionsInOrder, NEW es, Kept \ es \subseteq Kept', publishing' \subseteq Disturbed(es)
  PROVE  /\ publishing' \subseteq Publication
         /\ \A p \in publishing' : p.clean => p.edition \in Kept' /\ p.current \subseteq Kept'
<1> SUFFICES ASSUME NEW q \in publishing'
             PROVE  q \in Publication /\ (q.clean => q.edition \in Kept' /\ q.current \subseteq Kept')
  OBVIOUS
<1>1. PICK p \in publishing :
        q = [p EXCEPT !.clean = p.clean /\ p.edition \notin es /\ p.current \cap es = {}]
  BY DEF Disturbed
<1>2. p \in Publication /\ (p.clean => p.edition \in Kept /\ p.current \subseteq Kept)
  BY DEF VersionsInOrder
<1>3. /\ q \in Publication /\ q.edition = p.edition /\ q.current = p.current
      /\ q.clean = (p.clean /\ p.edition \notin es /\ p.current \cap es = {})
  BY <1>1, <1>2 DEF Publication
<1> QED
  BY <1>2, <1>3

(* Drafting takes a new number, and nothing else changes one; a version    *)
(* that was deleted is not published by a transaction that began before.   *)
LEMMA VersionsStayInOrder ==
  ASSUME VersionsInOrder, [ContentStep]_contentVars
  PROVE  VersionsInOrder'
<1>0. /\ edition \in [Editions -> PolicyVersion] /\ deleting \subseteq Made
      /\ publishing \subseteq Publication
      /\ \A p \in publishing : p.clean => p.edition \in Kept /\ p.current \subseteq Kept
      /\ Kept \subseteq Made /\ Made \subseteq Editions
  BY DEF VersionsInOrder, Kept, Made, ContentStatus
<1>1. ASSUME UNCHANGED edition, deleting' \subseteq Made, publishing' \subseteq Publication,
             \A p \in publishing' : p.clean => p.edition \in Kept /\ p.current \subseteq Kept
      PROVE  VersionsInOrder'
  BY <1>1 DEF VersionsInOrder, Kept, Made
<1>2. ASSUME NEW e \in Made, NEW s \in ContentStatus \cup {"DELETED"},
             s \in ContentStatus => e \in Kept, edition' = Moved(e, s),
             publishing' = Disturbed({e}), deleting' \subseteq deleting
      PROVE  VersionsInOrder'
  <2>1. /\ edition' \in [Editions -> PolicyVersion] /\ Made' = Made
        /\ Kept \ {e} \subseteq Kept'
        /\ \A f \in Kept' : f \in Kept /\ edition'[f].version = edition[f].version
    BY <1>2, StatusWritten
  <2>2. /\ \A f, g \in Kept' : edition'[f].version = edition'[g].version => f = g
        /\ \A f \in Kept' : edition'[f].version <= Cardinality(Made')
    BY <2>1, NumbersKept
  <2>3. /\ publishing' \subseteq Publication
        /\ \A p \in publishing' : p.clean => p.edition \in Kept' /\ p.current \subseteq Kept'
    BY <1>2, <2>1, PublicationsFollow
  <2> QED
    BY <1>0, <1>2, <2>1, <2>2, <2>3 DEF VersionsInOrder
<1>3. ASSUME NEW e \in Editions, NEW by \in Editors, CreateDraft(e, by) PROVE VersionsInOrder'
  <2> DEFINE n == Cardinality(Made)
             doc == [status |-> "DRAFT", version |-> NextVersion, author |-> by]
  <2>1. /\ edition[e].status = "absent" /\ edition' = [edition EXCEPT ![e] = doc]
        /\ UNCHANGED <<publishing, deleting>>
    BY <1>3 DEF CreateDraft
  <2>2. e \notin Made /\ e \notin Kept
    BY <2>1 DEF Made, Kept, ContentStatus
  <2>3. /\ n \in Nat /\ NextVersion \in 1..(n + 1)
        /\ \A f \in Kept : edition[f].version < NextVersion
    BY NextVersionIsNew
  <2> HIDE DEF doc
  <2>4. /\ doc.version = NextVersion /\ doc.status = "DRAFT" /\ doc.status \in ContentStatus
        /\ doc.status # "absent"
    BY DEF doc, ContentStatus
  <2>5. \A f \in Editions : edition'[f] = IF f = e THEN doc ELSE edition[f]
    BY <1>0, <2>1
  <2>6. Made' = Made \cup {e} /\ Kept' = Kept \cup {e}
    BY <1>0, <2>4, <2>5 DEF Made, Kept
  <2>7. Cardinality(Made') = n + 1 /\ n + 1 <= Cardinality(Editions) /\ Cardinality(Editions) \in Nat
    <3>1. /\ IsFiniteSet(Editions) /\ IsFiniteSet(Made)
      BY <1>0, ContentAssumption, FS_Subset DEF ContentAssumption
    <3>2. Cardinality(Made \cup {e}) = n + 1
      BY <2>2, <3>1, FS_AddElement
    <3>3. Made \cup {e} \in SUBSET Editions
      BY <1>0
    <3>4. /\ Cardinality(Made \cup {e}) <= Cardinality(Editions) /\ Cardinality(Editions) \in Nat
      BY <3>1, <3>3, FS_Subset, FS_CardinalityType
    <3> QED
      BY <2>6, <3>2, <3>4
  <2>8. doc \in PolicyVersion
    <3>1. NextVersion \in 0..Cardinality(Editions)
      BY <2>3, <2>7
    <3> QED
      BY <3>1 DEF doc, PolicyVersion, ContentStatus
  <2>9. edition' \in [Editions -> PolicyVersion]
    BY <1>0, <2>1, <2>8
  <2> HIDE DEF n
  <2>10. \A f \in Kept : edition[f].version \in Nat /\ edition[f].version <= n
    BY <1>0 DEF n, VersionsInOrder, PolicyVersion, Kept
  <2>11. \A f \in Kept' : edition'[f].version <= Cardinality(Made')
    BY <1>0, <2>2, <2>3, <2>4, <2>5, <2>6, <2>7, <2>10
  <2>12. \A f, g \in Kept' : edition'[f].version = edition'[g].version => f = g
    <3>1. \A f, g \in Kept : edition[f].version = edition[g].version => f = g
      BY DEF VersionsInOrder
    <3> QED
      BY <1>0, <2>2, <2>3, <2>4, <2>5, <2>6, <2>10, <3>1
  <2> QED
    BY <1>0, <2>1, <2>6, <2>9, <2>11, <2>12 DEF VersionsInOrder
<1>4. ASSUME NEW e \in Editions, NEW by \in Editors, ApproveEdition(e, by) PROVE VersionsInOrder'
  <2>1. e \in Made /\ e \in Kept
    BY <1>4 DEF ApproveEdition, Made, Kept, ContentStatus
  <2> QED
    BY <1>2, <1>4, <2>1 DEF ApproveEdition, ContentStatus
<1>5. ASSUME NEW e \in Editions, SubmitEdition(e) PROVE VersionsInOrder'
  <2>1. e \in Made /\ e \in Kept
    BY <1>5 DEF SubmitEdition, Made, Kept, ContentStatus
  <2> QED
    BY <1>2, <1>5, <2>1 DEF SubmitEdition, ContentStatus
<1>6. ASSUME NEW e \in Editions, ArchiveEdition(e) PROVE VersionsInOrder'
  <2>1. e \in Made /\ e \in Kept
    BY <1>6 DEF ArchiveEdition, Archivable, Made, Kept, ContentStatus
  <2> QED
    BY <1>2, <1>6, <2>1 DEF ArchiveEdition, ContentStatus
<1>7. ASSUME NEW e \in Editions, BeginPublish(e) PROVE VersionsInOrder'
  <2> DEFINE new == [edition |-> e, current |-> Current, clean |-> TRUE]
  <2>1. edition[e].status = "APPROVED" /\ publishing' = publishing \cup {new}
        /\ UNCHANGED <<edition, deleting>>
    BY <1>7 DEF BeginPublish
  <2>2. e \in Kept /\ e \notin Current /\ Current \subseteq Kept
    BY <2>1 DEF Kept, Current, ContentStatus
  <2>3. new \in Publication /\ new.edition = e /\ new.current = Current
    BY <2>2 DEF Publication, Current
  <2> HIDE DEF new
  <2> QED
    BY <1>0, <1>1, <2>1, <2>2, <2>3
<1>8. ASSUME NEW e \in Editions, BeginDeletePolicy(e) PROVE VersionsInOrder'
  BY <1>0, <1>1, <1>8 DEF BeginDeletePolicy
<1>9. ASSUME NEW p \in publishing, CommitPublish(p) PROVE VersionsInOrder'
  <2>1. /\ p.clean /\ p \in Publication /\ p.edition \in Kept /\ p.current \subseteq Kept
        /\ UNCHANGED deleting
    BY <1>0, <1>9 DEF CommitPublish
  <2>2. edition' = [e \in Editions |->
          CASE e = p.edition    -> [edition[e] EXCEPT !.status = "PUBLISHED"]
            [] e \in p.current  -> [edition[e] EXCEPT !.status = "SUPERSEDED"]
            [] OTHER            -> edition[e]]
    BY <1>9 DEF CommitPublish
  <2>3. ASSUME NEW e \in Editions
        PROVE  /\ edition'[e] \in PolicyVersion /\ edition'[e].version = edition[e].version
               /\ e \in {p.edition} \cup p.current => edition'[e].status \in ContentStatus
               /\ e \notin {p.edition} \cup p.current => edition'[e] = edition[e]
    <3>1. edition[e] \in PolicyVersion
      BY <1>0
    <3>2. CASE e = p.edition
      <4>1. edition'[e] = [edition[e] EXCEPT !.status = "PUBLISHED"]
        BY <2>1, <2>2, <3>2 DEF Publication
      <4> QED
        BY <3>1, <3>2, <4>1 DEF PolicyVersion, ContentStatus
    <3>3. CASE e # p.edition /\ e \in p.current
      <4>1. edition'[e] = [edition[e] EXCEPT !.status = "SUPERSEDED"]
        BY <2>2, <3>3
      <4> QED
        BY <3>1, <3>3, <4>1 DEF PolicyVersion, ContentStatus
    <3>4. CASE e # p.edition /\ e \notin p.current
      BY <2>2, <3>1, <3>4
    <3> QED
      BY <3>2, <3>3, <3>4
  <2>4. edition' \in [Editions -> PolicyVersion]
    BY <2>2, <2>3
  <2>5. Kept' = Kept
    BY <2>1, <2>3 DEF Kept
  <2>6. Made' = Made
    <3>1. \A e \in {p.edition} \cup p.current : e \in Made
      BY <1>0, <2>1
    <3>2. "absent" \notin ContentStatus
      BY DEF ContentStatus
    <3> QED
      BY <2>3, <3>1, <3>2 DEF Made
  <2>7. /\ \A f, g \in Kept' : edition'[f].version = edition'[g].version => f = g
        /\ \A f \in Kept' : edition'[f].version <= Cardinality(Made')
    <3>1. Kept \subseteq Editions
      BY DEF Kept
    <3> QED
      BY <2>3, <2>4, <2>5, <2>6, <3>1, NumbersKept
  <2>8. publishing' \subseteq Disturbed(p.current \cup {p.edition})
    BY <1>9 DEF CommitPublish
  <2>9. /\ publishing' \subseteq Publication
        /\ \A q \in publishing' : q.clean => q.edition \in Kept' /\ q.current \subseteq Kept'
    BY <2>5, <2>8, PublicationsFollow
  <2> QED
    BY <1>0, <2>1, <2>4, <2>6, <2>7, <2>9 DEF VersionsInOrder
<1>10. ASSUME NEW p \in publishing, AbortPublish(p) PROVE VersionsInOrder'
  BY <1>0, <1>1, <1>10 DEF AbortPublish
<1>11. ASSUME NEW e \in deleting, CommitDeletePolicy(e) PROVE VersionsInOrder'
  <2>1. e \in Made /\ "DELETED" \notin ContentStatus
    BY <1>0 DEF ContentStatus
  <2> QED
    BY <1>2, <1>11, <2>1 DEF CommitDeletePolicy
<1>12. ASSUME NEW e \in deleting, AbortDeletePolicy(e) PROVE VersionsInOrder'
  BY <1>0, <1>1, <1>12 DEF AbortDeletePolicy
<1>13. CASE UNCHANGED <<edition, deleting, publishing>>
  BY <1>0, <1>1, <1>13
<1> QED
  BY <1>3, <1>4, <1>5, <1>6, <1>7, <1>8, <1>9, <1>10, <1>11, <1>12, <1>13
     DEF ContentStep, CapturePolicyAcceptances, SaveRecord, DropRecord, contentVars

(* The numbers of a policy's versions stay apart, whoever drafts and       *)
(* deletes, and documents and requests keep their shapes.                  *)
LEMMA ContentTypeCorrect == ContentSpec => []ContentTypeOK
<1>1. ContentInit => VersionsInOrder
  <2> SUFFICES ASSUME ContentInit PROVE VersionsInOrder
    OBVIOUS
  <2>1. Kept = {} /\ publishing = {} /\ deleting = {}
    BY DEF ContentInit, Kept, ContentStatus
  <2>2. 0 \in 0..Cardinality(Editions)
    BY ContentAssumption, FS_CardinalityType DEF ContentAssumption
  <2>3. edition \in [Editions -> PolicyVersion]
    BY <2>2 DEF ContentInit, PolicyVersion
  <2> QED
    BY <2>1, <2>3 DEF VersionsInOrder
<1>2. VersionsInOrder /\ ContentInv => ContentTypeOK
  BY DEF VersionsInOrder, ContentInv, RecordsInOrder, Made, Publication, ContentTypeOK
<1> QED
  BY <1>1, <1>2, ContentInvariant, VersionsStayInOrder, PTL DEF ContentSpec

-----------------------------------------------------------------------------
(* The invariant of the catalogue includes the shapes.                     *)
LEMMA CatalogueTypeCorrect == CatalogueSpec => []CatalogueTypeOK
<1>1. CatalogueInv => CatalogueTypeOK
  BY DEF CatalogueInv, CatalogueTypeOK
<1> QED
  BY <1>1, CatalogueInvariant, PTL

-----------------------------------------------------------------------------
(* Only invitations are used, and only by an account that is active.       *)
SecretsInOrder ==
  /\ invitee \in {"absent", "INVITED", "ACTIVE"}
  /\ \A l \in Links : link[l].state # "used"
  /\ invitee # "ACTIVE" => \A i \in Invitations : invitation[i].state # "used"

(* A rotation and the passing of time never use a secret.                  *)
LEMMA RotationsUseNone ==
  ASSUME NEW S, NEW docs \in [S -> Secret], NEW r, \A d \in S : docs[d].state # "used"
  PROVE  \A d \in S : Rotated(docs, r)[d].state # "used"
  BY DEF Rotated, Secret

(* Nor does opening one.                                                   *)
LEMMA OpeningUsesNone ==
  ASSUME NEW S, NEW docs \in [S -> Secret], \A d \in S : docs[d].state # "used", NEW d \in S
  PROVE  \A c \in S : Opened(docs, d)[c].state # "used"
  BY DEF Opened, Secret

(* Only the acceptance of an invitation uses it, and activates the account *)
(* in the same transaction.                                                *)
LEMMA SecretsStayInOrder ==
  ASSUME InviteShape, LinkShape, SecretsInOrder, [InviteStep \/ LinkStep]_accessVars
  PROVE  SecretsInOrder'
<1>0. invitation \in [Invitations -> Secret] /\ link \in [Links -> Secret]
  BY DEF InviteShape, LinkShape
<1> DEFINE InvitesUsed == /\ invitee' \in {"absent", "INVITED", "ACTIVE"}
                          /\ invitee' # "ACTIVE" =>
                               \A i \in Invitations : invitation'[i].state # "used"
           LinksUsed == \A l \in Links : link'[l].state # "used"
<1>1. UNCHANGED <<invitee, invitation>> => InvitesUsed
  BY DEF SecretsInOrder
<1>2. UNCHANGED link => LinksUsed
  BY DEF SecretsInOrder
<1>3. ASSUME NEW i \in Invitations, InviteStaff(i) PROVE InvitesUsed
  BY <1>0, <1>3, OpeningUsesNone DEF InviteStaff, SecretsInOrder
<1>4. ASSUME NEW r, RotateInvitation(r) PROVE InvitesUsed
  BY <1>0, <1>4, RotationsUseNone DEF RotateInvitation, SecretsInOrder
<1>5. ASSUME NEW r, AcceptInvitation(r) PROVE InvitesUsed
  BY <1>5 DEF AcceptInvitation
<1>6. ASSUME NEW i \in Invitations, InvitationAges(i) PROVE InvitesUsed
  <2>1. UNCHANGED invitee
    BY <1>6 DEF InvitationAges
  <2>2. \/ invitation' = [invitation EXCEPT ![i].state = "removed"]
        \/ invitation' = [invitation EXCEPT ![i].lapsed = TRUE]
    BY <1>6 DEF InvitationAges
  <2>3. ASSUME invitee # "ACTIVE" PROVE \A c \in Invitations : invitation'[c].state # "used"
    <3>1. \A c \in Invitations : invitation[c].state # "used"
      BY <2>3 DEF SecretsInOrder
    <3>2. CASE invitation' = [invitation EXCEPT ![i].state = "removed"]
      BY <1>0, <3>1, <3>2 DEF Secret
    <3>3. CASE invitation' = [invitation EXCEPT ![i].lapsed = TRUE]
      BY <1>0, <3>1, <3>3 DEF Secret
    <3> QED
      BY <2>2, <3>2, <3>3
  <2> QED
    BY <2>1, <2>3 DEF SecretsInOrder
<1>7. ASSUME NEW l \in Links, CreateTrackingToken(l) PROVE LinksUsed
  BY <1>0, <1>7, OpeningUsesNone DEF CreateTrackingToken, SecretsInOrder
<1>8. ASSUME NEW r, RotateTrackingToken(r) PROVE LinksUsed
  BY <1>0, <1>8, RotationsUseNone DEF RotateTrackingToken, SecretsInOrder
<1>9. ASSUME NEW l \in Links, LinkAges(l) PROVE LinksUsed
  <2>1. \/ link' = [link EXCEPT ![l].state = "removed"]
        \/ link' = [link EXCEPT ![l].lapsed = TRUE]
    BY <1>9 DEF LinkAges
  <2>2. \A c \in Links : link[c].state # "used"
    BY DEF SecretsInOrder
  <2>3. CASE link' = [link EXCEPT ![l].state = "removed"]
    BY <1>0, <2>2, <2>3 DEF Secret
  <2>4. CASE link' = [link EXCEPT ![l].lapsed = TRUE]
    BY <1>0, <2>2, <2>4 DEF Secret
  <2> QED
    BY <2>1, <2>3, <2>4 DEF LinksUsed
<1> HIDE DEF InvitesUsed, LinksUsed
<1>10. CASE InviteStep
  <2>1. UNCHANGED link
    BY <1>10 DEF InviteStep, InviteStaff, BeginRotateInvitation, BeginAcceptInvitation,
                InvitationAges, RotateInvitation, AcceptInvitation, AbortInvitation, linkVars
  <2>2. InvitesUsed
    BY <1>1, <1>3, <1>4, <1>5, <1>6, <1>10
       DEF InviteStep, BeginRotateInvitation, BeginAcceptInvitation, AbortInvitation
  <2> QED
    BY <1>2, <2>1, <2>2 DEF InvitesUsed, LinksUsed, SecretsInOrder
<1>11. CASE LinkStep
  <2>1. UNCHANGED <<invitee, invitation>>
    BY <1>11 DEF LinkStep, CreateTrackingToken, BeginRotateTracking, LinkAges,
                 RotateTrackingToken, AbortTracking, inviteVars
  <2>2. LinksUsed
    BY <1>2, <1>7, <1>8, <1>9, <1>11 DEF LinkStep, BeginRotateTracking, AbortTracking
  <2> QED
    BY <1>1, <2>1, <2>2 DEF InvitesUsed, LinksUsed, SecretsInOrder
<1>12. CASE UNCHANGED accessVars
  BY <1>1, <1>2, <1>12 DEF accessVars, inviteVars, linkVars, InvitesUsed, LinksUsed, SecretsInOrder
<1> QED
  BY <1>10, <1>11, <1>12

(* Invitations and links keep their shapes, for any number of them.        *)
LEMMA AccessTypeCorrect == AccessSpec => []AccessTypeOK
<1>1. AccessInit => SecretsInOrder
  BY DEF AccessInit, InviteInit, LinkInit, NoSecret, SecretsInOrder
<1>2. /\ InviteInv /\ LinkInv => InviteShape /\ LinkShape
      /\ InviteShape /\ LinkShape /\ SecretsInOrder => AccessTypeOK
  BY DEF InviteInv, LinkInv, InviteShape, LinkShape, SecretsInOrder, AccessTypeOK
<1> QED
  BY <1>1, <1>2, AccessStaysOrdered, SecretsStayInOrder, PTL DEF AccessSpec

-----------------------------------------------------------------------------
(* The token of an archived session opens nothing, and the requests to     *)
(* archive it are bounded.                                                 *)
ArchivesInOrder ==
  /\ archiving \in 0..MaxArchiving
  /\ guidance.status = "ARCHIVED" => guidance.revoked

(* Only an archive request writes the status ARCHIVED, and it revokes.     *)
LEMMA ArchivesStayInOrder ==
  ASSUME GuidanceInv, ArchivesInOrder, [GuidanceStep]_guidanceVars
  PROVE  ArchivesInOrder'
<1>0. guidance \in GuidanceSession
  BY DEF GuidanceInv, GuidanceShape
<1>1. CASE UNCHANGED <<guidance, archiving>>
  BY <1>1 DEF ArchivesInOrder
<1>2. ASSUME NEW owner \in {"guest", "customer"}, NEW status \in {"ACTIVE", "NO_MATCH"},
             CreateGuidance(owner, status)
      PROVE  ArchivesInOrder'
  BY <1>0, <1>2 DEF CreateGuidance, ArchivesInOrder, GuidanceSession
<1>3. CASE SessionAges
  BY <1>0, <1>3 DEF SessionAges, ArchivesInOrder, GuidanceSession
<1>4. CASE BeginArchive
  BY <1>4 DEF BeginArchive, ArchivesInOrder, MaxArchiving
<1>5. CASE ArchiveGuidance
  <2>1. archiving' \in 0..MaxArchiving
    BY <1>5 DEF ArchiveGuidance, ArchivesInOrder, MaxArchiving
  <2>2. CASE Found
    <3>1. guidance' = [guidance EXCEPT !.status = "ARCHIVED", !.revoked = TRUE]
      BY <1>5, <2>2 DEF ArchiveGuidance, Archived
    <3>2. guidance'.revoked
      BY <1>0, <3>1 DEF GuidanceSession
    <3> QED
      BY <2>1, <3>2 DEF ArchivesInOrder
  <2>3. CASE ~Found
    <3>1. UNCHANGED guidance
      BY <1>5, <2>3 DEF ArchiveGuidance
    <3> QED
      BY <2>1, <3>1 DEF ArchivesInOrder
  <2> QED
    BY <2>2, <2>3
<1>6. CASE UNCHANGED guidanceVars
  BY <1>1, <1>6 DEF guidanceVars
<1> QED
  BY <1>1, <1>2, <1>3, <1>4, <1>5, <1>6
     DEF GuidanceStep, BeginAsk, BeginAnswer, CreateGuidanceEscalation, AskFails,
         RecordGuidanceAdvisorResponse, NotifyAnswer, AnswerDies

(* A session that was archived stays revoked, and everything has its shape.*)
LEMMA GuidanceTypeCorrect == GuidanceSpec => []GuidanceTypeOK
<1>1. GuidanceInit => ArchivesInOrder
  BY DEF GuidanceInit, ArchivesInOrder, MaxArchiving
<1>2. GuidanceInv /\ ArchivesInOrder => GuidanceTypeOK
  BY DEF GuidanceInv, GuidanceShape, ArchivesInOrder, GuidanceTypeOK
<1> QED
  BY <1>1, <1>2, GuidanceInvariant, ArchivesStayInOrder, PTL DEF GuidanceSpec

-----------------------------------------------------------------------------
(* Every desk keeps its documents within its schemas, and what its         *)
(* requests carry within what their handlers put there, however the        *)
(* desks' requests interleave: no status, number or role that the schema   *)
(* does not have is ever saved.                                            *)
THEOREM OperationsTypeCorrect == OperationsSpec => []OperationsTypeOK
<1>1. CartInv => CartTypeOK
  BY DEF CartInv
<1>2. SearchInv => SearchTypeOK
  BY DEF SearchInv
<1>3. StaffInv => StaffTypeOK
  BY DEF StaffInv
<1>4. (CartSpec => []CartTypeOK) /\ (SearchSpec => []SearchTypeOK) /\ (StaffSpec => []StaffTypeOK)
  BY <1>1, <1>2, <1>3, CartInvariant, SearchInvariant, StaffInvariant, PTL
<1>5. OperationsTypeOK <=>
        /\ AfterSalesTypeOK /\ DeskTypeOK /\ ContentTypeOK /\ CartTypeOK
        /\ CatalogueTypeOK /\ AccessTypeOK /\ SearchTypeOK /\ StaffTypeOK
        /\ GuidanceTypeOK /\ EvidenceAccessTypeOK
  BY DEF OperationsTypeOK
<1> QED
  BY <1>4, <1>5, CasesTypeCorrect, DeskTypeCorrect, ContentTypeCorrect, CatalogueTypeCorrect,
     AccessTypeCorrect, GuidanceTypeCorrect, TypeCorrect, PTL DEF OperationsSpec
=============================================================================
