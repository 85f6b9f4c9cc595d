----------------------------- MODULE ContentDesk -----------------------------
(***************************************************************************)
(* The versions of one policy, the staff that draft, review, publish and   *)
(* delete them, and the records (orders, repairs, warranties, returns,     *)
(* evidence, procurement and service requests) that keep the version in    *)
(* force when they were made.                                              *)
(*                                                                         *)
(* Every transition is a transaction.  Publishing writes several versions, *)
(* so it has a snapshot and a commit; the other transitions write the one  *)
(* version they read.  Deletion reads outside its transaction, and a       *)
(* record reads the current version before it is written.                  *)
(***************************************************************************)
EXTENDS Integers, FiniteSets, FiniteSetsExt

CONSTANTS
  Editions,  \* PolicyVersion documents that may be created
  Editors,   \* members of staff
  Records    \* documents that accept the policy

ASSUME ContentAssumption == IsFiniteSet(Editions)

VARIABLES
  edition,     \* edition[e]: the PolicyVersion document e
  publishing,  \* transactions that publish
  deleting,    \* deletions that passed their checks
  capturing,   \* records about to be written
  accepted     \* accepted[r]: the version record r accepted

contentVars == <<edition, publishing, deleting, capturing, accepted>>

ContentStatus == {"DRAFT", "IN_REVIEW", "APPROVED", "PUBLISHED", "SUPERSEDED", "ARCHIVED"}

(* absent: not created yet.  DELETED: removed from the collection.         *)
PolicyVersion ==
  [status : ContentStatus \cup {"absent", "DELETED"},
   version : 0..Cardinality(Editions),
   author : Editors \cup {"none"}]

ContentInit ==
  /\ edition = [e \in Editions |-> [status |-> "absent", version |-> 0, author |-> "none"]]
  /\ publishing = {}
  /\ deleting = {}
  /\ capturing = {}
  /\ accepted = [r \in Records |-> "none"]

-----------------------------------------------------------------------------
Kept == {e \in Editions : edition[e].status \in ContentStatus}
Current == {e \in Editions : edition[e].status = "PUBLISHED"}

Moved(e, status) == [edition EXCEPT ![e].status = status]

(* A write of e aborts the transactions that will write e.                 *)
Disturbed(es) ==
  {[p EXCEPT !.clean = @ /\ p.edition \notin es /\ p.current \cap es = {}] : p \in publishing}

NextVersion_Bug == Cardinality(Kept) + 1
NextVersion == Max({0} \cup {edition[f].version : f \in Kept}) + 1

CreateDraft(e, by) ==
  /\ edition[e].status = "absent"
  /\ edition' = [edition EXCEPT ![e] =
       [status |-> "DRAFT", version |-> NextVersion, author |-> by]]
  /\ UNCHANGED <<publishing, deleting, capturing, accepted>>

SubmitEdition(e) ==
  /\ edition[e].status = "DRAFT"
  /\ edition' = Moved(e, "IN_REVIEW")
  /\ publishing' = Disturbed({e})
  /\ UNCHANGED <<deleting, capturing, accepted>>

ApproveEdition(e, by) ==
  /\ edition[e].status = "IN_REVIEW"
  /\ by # edition[e].author
  /\ edition' = Moved(e, "APPROVED")
  /\ publishing' = Disturbed({e})
  /\ UNCHANGED <<deleting, capturing, accepted>>

Archivable == {"DRAFT", "IN_REVIEW", "APPROVED", "SUPERSEDED"}

ArchiveEdition(e) ==
  /\ edition[e].status \in Archivable
  /\ edition' = Moved(e, "ARCHIVED")
  /\ publishing' = Disturbed({e})
  /\ UNCHANGED <<deleting, capturing, accepted>>

-----------------------------------------------------------------------------
(* Publishing                                                              *)

BeginPublish(e) ==
  /\ edition[e].status = "APPROVED"
  /\ \A p \in publishing : p.edition # e
  /\ publishing' = publishing \cup {[edition |-> e, current |-> Current, clean |-> TRUE]}
  /\ UNCHANGED <<edition, deleting, capturing, accepted>>

(* The partial index allows one published version: one that was published  *)
(* after the snapshot is not superseded and makes the commit fail.         *)
Unrivalled_Bug(p) == TRUE
Unrivalled(p) == Current \subseteq p.current

CommitPublish(p) ==
  /\ p.clean
  /\ Unrivalled(p)
  /\ edition' = [e \in Editions |->
       CASE e = p.edition    -> [edition[e] EXCEPT !.status = "PUBLISHED"]
         [] e \in p.current  -> [edition[e] EXCEPT !.status = "SUPERSEDED"]
         [] OTHER            -> edition[e]]
  /\ publishing' = {q \in Disturbed(p.current \cup {p.edition}) : q.edition # p.edition}
  /\ UNCHANGED <<deleting, capturing, accepted>>

AbortPublish(p) ==
  /\ publishing' = publishing \ {p}
  /\ UNCHANGED <<edition, deleting, capturing, accepted>>

-----------------------------------------------------------------------------
(* Deletion                                                                *)

Referenced(e) == \E r \in Records : accepted[r] = e

Deletable_Bug(e) == edition[e].status # "PUBLISHED"
Deletable(e) == edition[e].status # "PUBLISHED" /\ ~Referenced(e)

BeginDeletePolicy(e) ==
  /\ e \in Kept
  /\ Deletable(e)
  /\ deleting' = deleting \cup {e}
  /\ UNCHANGED <<edition, publishing, capturing, accepted>>

(* deleteOne by identity: whatever the version became in the meantime.     *)
CommitDeletePolicy(e) ==
  /\ edition' = Moved(e, "DELETED")
  /\ publishing' = Disturbed({e})
  /\ deleting' = deleting \ {e}
  /\ UNCHANGED <<capturing, accepted>>

AbortDeletePolicy(e) ==
  /\ deleting' = deleting \ {e}
  /\ UNCHANGED <<edition, publishing, capturing, accepted>>

-----------------------------------------------------------------------------
(* Records                                                                 *)

CapturePolicyAcceptances(r) ==
  /\ accepted[r] = "none"
  /\ \A c \in capturing : c.record # r
  /\ \E e \in Current : capturing' = capturing \cup {[record |-> r, edition |-> e]}
  /\ UNCHANGED <<edition, publishing, deleting, accepted>>

SaveRecord(c) ==
  /\ capturing' = capturing \ {c}
  /\ accepted' = [accepted EXCEPT ![c.record] = c.edition]
  /\ UNCHANGED <<edition, publishing, deleting>>

DropRecord(c) ==
  /\ capturing' = capturing \ {c}
  /\ UNCHANGED <<edition, publishing, deleting, accepted>>

-----------------------------------------------------------------------------
ContentStep ==
  \/ \E e \in Editions :
       \/ \E by \in Editors : CreateDraft(e, by) \/ ApproveEdition(e, by)
       \/ SubmitEdition(e) \/ ArchiveEdition(e) \/ BeginPublish(e) \/ BeginDeletePolicy(e)
  \/ \E p \in publishing : CommitPublish(p) \/ AbortPublish(p)
  \/ \E e \in deleting : CommitDeletePolicy(e) \/ AbortDeletePolicy(e)
  \/ \E r \in Records : CapturePolicyAcceptances(r)
  \/ \E c \in capturing : SaveRecord(c) \/ DropRecord(c)

ContentSpec == ContentInit /\ [][ContentStep]_contentVars

-----------------------------------------------------------------------------
(* Properties                                                              *)

(* Versions and requests have the shapes PolicyVersion and the handlers    *)
(* give them, and no two versions in the collection have one number.       *)
ContentTypeOK ==
  /\ edition \in [Editions -> PolicyVersion]
  /\ \A e, f \in Kept : edition[e].version = edition[f].version => e = f
  /\ publishing \subseteq [edition : Editions, current : SUBSET Editions, clean : BOOLEAN]
  /\ deleting \subseteq Editions
  /\ capturing \subseteq [record : Records, edition : Editions]
  /\ accepted \in [Records -> Editions \cup {"none"}]

(* publish: customers and records find one version in force, whoever       *)
(* publishes at the same time.                                             *)
OneVersionInForce == Cardinality(Current) <= 1

(* deletePolicyVersion: a version a record accepted is not deleted by a    *)
(* request that was not already past its checks when the record was        *)
(* written.                                                                *)
AcceptedVersionStays ==
  \A e \in Kept : Referenced(e) /\ e \notin deleting =>
    e \in Kept' /\ e \notin deleting'

(* A policy has one version in force, and no deletion that begins later    *)
(* takes away one that was accepted.                                       *)
PolicyStands == [][OneVersionInForce' /\ AcceptedVersionStays]_contentVars
=============================================================================
