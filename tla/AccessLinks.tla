----------------------------- MODULE AccessLinks -----------------------------
(***************************************************************************)
(* Links that are a secret: the invitation by which a member of staff sets *)
(* a password, and the link by which a customer tracks a repair.  Both are *)
(* rotated by a transaction that revokes the open ones and creates one,    *)
(* lapse with time and are removed by a TTL index some time after.         *)
(***************************************************************************)
EXTENDS Integers, FiniteSets

CONSTANTS
  Invitations,  \* StaffInvitation documents
  Links         \* RepairTrackingToken documents

VARIABLES
  invitee,     \* status of the invited account
  invitation,  \* StaffInvitation documents
  inviting,    \* transactions that rotate or accept an invitation
  link,        \* RepairTrackingToken documents
  relinking    \* transactions that rotate the link of the repair

inviteVars == <<invitee, invitation, inviting>>
linkVars == <<link, relinking>>
accessVars == <<inviteVars, linkVars>>

(* removed: by the TTL index.                                              *)
LinkState == {"absent", "open", "used", "revoked", "removed"}
Secret == [state : LinkState, lapsed : BOOLEAN]
NoSecret == [state |-> "absent", lapsed |-> FALSE]

(* seen: the open documents of the snapshot, all of which a rotation       *)
(* revokes.  clean: nobody wrote what the transaction writes.              *)
Rotation(S) == [creates : S, seen : SUBSET S, clean : BOOLEAN]
Acceptance == [accepts : Invitations, clean : BOOLEAN]

InviteInit ==
  /\ invitee = "absent"
  /\ invitation = [i \in Invitations |-> NoSecret]
  /\ inviting = {}

LinkInit ==
  /\ link = [l \in Links |-> NoSecret]
  /\ relinking = {}

AccessInit == InviteInit /\ LinkInit

-----------------------------------------------------------------------------
OpenIn(docs) == {d \in DOMAIN docs : docs[d].state = "open"}

Opened(docs, d) == [docs EXCEPT ![d].state = "open"]

(* updateMany over the open documents of the snapshot, then create.        *)
Rotated_Bug(docs, r) == Opened(docs, r.creates)
RotatedAsUsed_Bug(docs, r) ==
  [d \in DOMAIN docs |->
     IF d = r.creates THEN [state |-> "open", lapsed |-> FALSE]
     ELSE IF d \in r.seen THEN [docs[d] EXCEPT !.state = "used"] ELSE docs[d]]
Rotated(docs, r) ==
  [d \in DOMAIN docs |->
     IF d = r.creates THEN [state |-> "open", lapsed |-> FALSE]
     ELSE IF d \in r.seen THEN [docs[d] EXCEPT !.state = "revoked"] ELSE docs[d]]

Touches(r, ds) == IF "creates" \in DOMAIN r THEN r.seen \cap ds # {} ELSE r.accepts \in ds

(* A write of the documents ds, or of the account, aborts what writes them.*)
DisturbedBy(ds, account) ==
  {[r EXCEPT !.clean = @ /\ ~Touches(r, ds) /\ ~(account /\ "accepts" \in DOMAIN r)] :
     r \in inviting}
Undone(ds) == {[r EXCEPT !.clean = @ /\ ~Touches(r, ds)] : r \in relinking}

Fresh(docs, d, rotations) ==
  docs[d].state = "absent" /\ \A r \in rotations : "creates" \in DOMAIN r => r.creates # d

-----------------------------------------------------------------------------
(* Invitations                                                             *)

InviteStaff(i) ==
  /\ invitee = "absent"
  /\ invitee' = "INVITED"
  /\ invitation' = Opened(invitation, i)
  /\ UNCHANGED <<inviting, linkVars>>

BeginRotateInvitation(i) ==
  /\ invitee = "INVITED"
  /\ Fresh(invitation, i, inviting)
  /\ inviting' = inviting \cup {[creates |-> i, seen |-> OpenIn(invitation), clean |-> TRUE]}
  /\ UNCHANGED <<invitee, invitation, linkVars>>

RotateInvitation(r) ==
  /\ "creates" \in DOMAIN r /\ r.clean
  /\ invitation' = Rotated(invitation, r)
  /\ inviting' = {q \in DisturbedBy(r.seen, FALSE) :
                    ~("creates" \in DOMAIN q /\ q.creates = r.creates)}
  /\ UNCHANGED <<invitee, linkVars>>

Activatable_Bug == invitee \in {"INVITED", "ACTIVE"}
Activatable == invitee = "INVITED"

BeginAcceptInvitation(i) ==
  /\ invitation[i].state = "open" /\ ~invitation[i].lapsed
  /\ Activatable
  /\ inviting' = inviting \cup {[accepts |-> i, clean |-> TRUE]}
  /\ UNCHANGED <<invitee, invitation, linkVars>>

(* Writes the account and the invitation.                                  *)
AcceptInvitation(a) ==
  /\ "accepts" \in DOMAIN a /\ a.clean
  /\ invitee' = "ACTIVE"
  /\ invitation' = [invitation EXCEPT ![a.accepts].state = "used"]
  /\ inviting' = {q \in DisturbedBy({a.accepts}, TRUE) :
                    ~("accepts" \in DOMAIN q /\ q.accepts = a.accepts)}
  /\ UNCHANGED linkVars

AbortInvitation(r) ==
  /\ inviting' = inviting \ {r}
  /\ UNCHANGED <<invitee, invitation, linkVars>>

(* Time, and the index on expiresAt.                                       *)
InvitationAges(i) ==
  /\ invitation[i].state \in {"open", "used", "revoked"}
  /\ IF invitation[i].lapsed
     THEN /\ invitation' = [invitation EXCEPT ![i].state = "removed"]
          /\ inviting' = DisturbedBy({i}, FALSE)
     ELSE /\ invitation' = [invitation EXCEPT ![i].lapsed = TRUE]
          /\ UNCHANGED inviting
  /\ UNCHANGED <<invitee, linkVars>>

-----------------------------------------------------------------------------
(* Tracking links                                                          *)

(* createRepair, in the transaction that creates the repair.               *)
CreateTrackingToken(l) ==
  /\ \A k \in Links : link[k].state = "absent"
  /\ relinking = {}
  /\ link' = Opened(link, l)
  /\ UNCHANGED <<relinking, inviteVars>>

BeginRotateTracking(l) ==
  /\ \E k \in Links : link[k].state # "absent"
  /\ Fresh(link, l, relinking)
  /\ relinking' = relinking \cup {[creates |-> l, seen |-> OpenIn(link), clean |-> TRUE]}
  /\ UNCHANGED <<link, inviteVars>>

RotateTrackingToken(r) ==
  /\ r.clean
  /\ link' = Rotated(link, r)
  /\ relinking' = {q \in Undone(r.seen) : q.creates # r.creates}
  /\ UNCHANGED inviteVars

AbortTracking(r) ==
  /\ relinking' = relinking \ {r}
  /\ UNCHANGED <<link, inviteVars>>

LinkAges(l) ==
  /\ link[l].state \in {"open", "revoked"}
  /\ IF link[l].lapsed
     THEN /\ link' = [link EXCEPT ![l].state = "removed"]
          /\ relinking' = Undone({l})
     ELSE /\ link' = [link EXCEPT ![l].lapsed = TRUE]
          /\ UNCHANGED relinking
  /\ UNCHANGED inviteVars

-----------------------------------------------------------------------------
InviteStep ==
  \/ \E i \in Invitations : \/ InviteStaff(i) \/ BeginRotateInvitation(i)
                            \/ BeginAcceptInvitation(i) \/ InvitationAges(i)
  \/ \E r \in inviting : RotateInvitation(r) \/ AcceptInvitation(r) \/ AbortInvitation(r)

LinkStep ==
  \/ \E l \in Links : CreateTrackingToken(l) \/ BeginRotateTracking(l) \/ LinkAges(l)
  \/ \E r \in relinking : RotateTrackingToken(r) \/ AbortTracking(r)

AccessSpec == AccessInit /\ [][InviteStep \/ LinkStep]_accessVars

-----------------------------------------------------------------------------
(* Properties                                                              *)

(* Documents have the shapes StaffInvitation and RepairTrackingToken give  *)
(* them; only invitations are used, and only by an account that is active. *)
AccessTypeOK ==
  /\ invitee \in {"absent", "INVITED", "ACTIVE"}
  /\ invitation \in [Invitations -> Secret]
  /\ inviting \subseteq Rotation(Invitations) \cup Acceptance
  /\ link \in [Links -> Secret]
  /\ relinking \subseteq Rotation(Links)
  /\ \A l \in Links : link[l].state # "used"
  /\ invitee # "ACTIVE" => \A i \in Invitations : invitation[i].state # "used"

RemovedIn(docs) == {d \in DOMAIN docs : docs[d].state = "removed"}

(* README.md:171 and 689: a rotation revokes every earlier active secret.  *)
(* Two rotations at the same time meet on the document both revoke; only   *)
(* when the index had removed it may both leave an open one.               *)
OneOpenLink ==
  \A docs \in {invitation, link} : Cardinality(OpenIn(docs)) > 1 => RemovedIn(docs) # {}

(* acceptInvitation: an account that was activated is never activated      *)
(* again, also when two invitations of it are open.                        *)
ActivatedOnce ==
  invitee = "ACTIVE" =>
    /\ invitee' = "ACTIVE"
    /\ \A i \in Invitations :
         invitation[i].state # "used" => invitation'[i].state # "used"

(* Secrets end: by the rotation that follows them or by their only use.    *)
SecretsEnd == [][OneOpenLink' /\ ActivatedOnce]_accessVars
=============================================================================
