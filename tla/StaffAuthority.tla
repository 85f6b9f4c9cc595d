--------------------------- MODULE StaffAuthority ---------------------------
(***************************************************************************)
(* The accounts of the staff and who may change them.  A change is decided *)
(* on what an administrator was shown, and made by a transaction that      *)
(* reads the administrator's own account without writing it: under         *)
(* snapshot isolation, authority taken away meanwhile goes unnoticed.  An  *)
(* access token is signed from an account read some time before, and       *)
(* accepted as long as the account keeps the version it was signed with.   *)
(***************************************************************************)
EXTENDS Integers, FiniteSets

CONSTANTS
  Staff,        \* User documents of the staff
  Founder,      \* the Super Administrator the store begins with
  MaxVersion,   \* bound on the changes of an account
  MaxAtWork     \* bound on the changes, sign-ins and access tokens together

ASSUME StaffAssumption ==
  /\ Founder \in Staff
  /\ MaxVersion \in Nat /\ MaxAtWork \in Nat

VARIABLES
  member,    \* User documents: role, status, authVersion and adminVersion
  changing,  \* administrators who were shown an account, and their changes
  signing,   \* logins and refreshes that have read the account
  tokens     \* access tokens that have not expired

staffVars == <<member, changing, signing, tokens>>

(* One operational role and one privileged role stand for the others.      *)
STAFF_ROLES == {"STORE_OPERATOR", "OPS_MANAGER", "PRODUCT_ADMIN", "SUPER_ADMIN"}
ADMIN_ROLES == {"PRODUCT_ADMIN", "SUPER_ADMIN"}
PRIVILEGED_ROLES == STAFF_ROLES \ {"STORE_OPERATOR"}

MemberStatus == {"absent", "INVITED", "ACTIVE", "SUSPENDED"}
Versions == 0..MaxVersion

(* authVersion and adminVersion of a member of staff grow together.        *)
Member == [role : STAFF_ROLES, status : MemberStatus, version : Versions]

Kinds == {"role", "suspend", "reactivate"}

(* shown: the account as the administrator saw it.  authority: the role of *)
(* the administrator in the snapshot of the transaction.  clean: nobody    *)
(* wrote the account since the snapshot.                                   *)
Changing ==
  [actor : Staff, of : Staff, shown : Member, step : {"shown", "begun"},
   kind : Kinds \cup {"none"}, role : STAFF_ROLES, authority : STAFF_ROLES, clean : BOOLEAN]

AccessToken == [user : Staff, role : STAFF_ROLES, version : Versions]

StaffInit ==
  /\ member = [s \in Staff |->
       IF s = Founder THEN [role |-> "SUPER_ADMIN", status |-> "ACTIVE", version |-> 0]
       ELSE [role |-> "STORE_OPERATOR", status |-> "absent", version |-> 0]]
  /\ changing = {}
  /\ signing = {}
  /\ tokens = {}

-----------------------------------------------------------------------------
(* administrator, as of a snapshot.                                        *)
Administrator(a) == member[a].role \in ADMIN_ROLES /\ member[a].status = "ACTIVE"

(* assertRoleAuthority                                                     *)
Authorised_Bug(a, role, current) ==   \* the role the account has now is not looked at
  member[a].role = "SUPER_ADMIN" \/ role \notin PRIVILEGED_ROLES
Authorised(a, role, current) ==
  member[a].role = "SUPER_ADMIN" \/ {role, current} \cap PRIVILEGED_ROLES = {}

(* The account of s is written: it gets the next version, and the          *)
(* transactions that are about to write it will abort.                     *)
Reversioned(s, m) == [m EXCEPT !.version = member[s].version + 1]

Writes(s, m) == member' = [member EXCEPT ![s] = m]
Unclean(s, cs) == {[c EXCEPT !.clean = @ /\ c.of # s] : c \in cs}

-----------------------------------------------------------------------------
(* Invitations                                                             *)

InviteMember(a, s, role) ==
  /\ member[s].status = "absent"
  /\ Administrator(a) /\ Authorised(a, role, "STORE_OPERATOR")
  /\ Writes(s, [role |-> role, status |-> "INVITED", version |-> 0])
  /\ UNCHANGED <<changing, signing, tokens>>

AcceptMember(s) ==
  /\ member[s].status = "INVITED" /\ member[s].version < MaxVersion
  /\ Writes(s, Reversioned(s, [member[s] EXCEPT !.status = "ACTIVE"]))
  /\ changing' = Unclean(s, changing)
  /\ UNCHANGED <<signing, tokens>>

-----------------------------------------------------------------------------
(* Changes of an account                                                   *)

(* listStaff                                                               *)
ShowMember(a, s) ==
  /\ Administrator(a)
  /\ member[s].status # "absent"
  /\ changing' = changing \cup
       {[actor |-> a, of |-> s, shown |-> member[s], step |-> "shown", kind |-> "none",
         role |-> member[s].role, authority |-> member[a].role, clean |-> TRUE]}
  /\ UNCHANGED <<member, signing, tokens>>

Permitted(s, kind, role) ==
  \/ kind = "role" /\ role # member[s].role
  \/ kind = "suspend" /\ member[s].status = "ACTIVE"
  \/ kind = "reactivate" /\ member[s].status = "SUSPENDED"

NotSelf_Bug(a, s) == TRUE
NotSelf(a, s) == a # s

Expected_Bug(c) == TRUE
Expected(c) == member[c.of].version = c.shown.version

(* mutateStaff, up to the writes.  authenticate asks of the administrator  *)
(* what the transaction asks again.                                        *)
BeginChange(c, kind, role) ==
  /\ c.step = "shown"
  /\ NotSelf(c.actor, c.of)
  /\ Administrator(c.actor)
  /\ Expected(c) /\ member[c.of].version < MaxVersion
  /\ kind # "role" => role = member[c.of].role
  /\ Authorised(c.actor, role, member[c.of].role)
  /\ Permitted(c.of, kind, role)
  /\ changing' = (changing \ {c}) \cup
       {[c EXCEPT !.step = "begun", !.kind = kind, !.role = role,
                  !.authority = member[c.actor].role, !.clean = TRUE]}
  /\ UNCHANGED <<member, signing, tokens>>

StatusAfter(c) ==
  CASE c.kind = "suspend" -> "SUSPENDED"
    [] c.kind = "reactivate" -> "ACTIVE"
    [] OTHER -> member[c.of].status

CommitChange(c) ==
  /\ c.step = "begun" /\ c.clean
  /\ Writes(c.of, Reversioned(c.of,
       [member[c.of] EXCEPT !.role = c.role, !.status = StatusAfter(c)]))
  /\ changing' = Unclean(c.of, changing \ {c})
  /\ UNCHANGED <<signing, tokens>>

(* Refused, aborted or given up.                                           *)
EndChange(c) ==
  /\ changing' = changing \ {c}
  /\ UNCHANGED <<member, signing, tokens>>

-----------------------------------------------------------------------------
(* Access tokens                                                           *)

ClaimsOf(s) == [user |-> s, role |-> member[s].role, version |-> member[s].version]

(* login and refresh read the account, and compare a password or rotate a  *)
(* refresh token before they sign.                                         *)
BeginSignIn(s) ==
  /\ member[s].status = "ACTIVE"
  /\ signing' = signing \cup {ClaimsOf(s)}
  /\ UNCHANGED <<member, changing, tokens>>

GenerateAccessToken_Bug(t) ==   \* the version is read again
  /\ tokens' = tokens \cup {[t EXCEPT !.version = member[t.user].version]}
  /\ signing' = signing \ {t}
  /\ UNCHANGED <<member, changing>>
GenerateAccessToken(t) ==
  /\ tokens' = tokens \cup {t}
  /\ signing' = signing \ {t}
  /\ UNCHANGED <<member, changing>>

SignInFails(t) ==
  /\ signing' = signing \ {t}
  /\ UNCHANGED <<member, changing, tokens>>

TokenExpires(t) ==
  /\ tokens' = tokens \ {t}
  /\ UNCHANGED <<member, changing, signing>>

(* authenticate, and optionalAccessAuthentication.                         *)
Accepted(t) == member[t.user].status = "ACTIVE" /\ member[t.user].version = t.version

-----------------------------------------------------------------------------
AtWork == Cardinality(changing) + Cardinality(signing) + Cardinality(tokens)

StaffStep ==
  \/ \E a, s \in Staff :
       \/ \E role \in STAFF_ROLES : InviteMember(a, s, role)
       \/ AtWork < MaxAtWork /\ ShowMember(a, s)
  \/ \E s \in Staff :
       \/ AcceptMember(s)
       \/ AtWork < MaxAtWork /\ BeginSignIn(s)
  \/ \E c \in changing :
       \/ \E kind \in Kinds, role \in STAFF_ROLES : BeginChange(c, kind, role)
       \/ CommitChange(c) \/ EndChange(c)
  \/ \E t \in signing : GenerateAccessToken(t) \/ SignInFails(t)
  \/ \E t \in tokens : TokenExpires(t)

StaffSpec == StaffInit /\ [][StaffStep]_staffVars

-----------------------------------------------------------------------------
(* Properties                                                              *)

(* Accounts, changes and tokens have the shapes User, mutateStaff and      *)
(* generateAccessToken give them; nobody acts on his own account.          *)
StaffTypeOK ==
  /\ member \in [Staff -> Member]
  /\ changing \subseteq Changing
  /\ signing \subseteq AccessToken /\ tokens \subseteq AccessToken
  /\ \A c \in changing :
       c.step = "begun" => c.authority \in ADMIN_ROLES /\ c.actor # c.of

InForce(m) == \E s \in Staff : m[s].role = "SUPER_ADMIN" /\ m[s].status = "ACTIVE"

StillStands(c) ==
  member[c.actor].role = c.authority /\ member[c.actor].status = "ACTIVE"

(* mutateStaff: the store is left without an active Super Administrator    *)
(* only by a change whose author had lost the authority it was begun with. *)
(* (Two who change each other can: see the hazards.)                       *)
SuperAdminRemains ==
  \A c \in changing :
    CommitChange(c) /\ InForce(member) /\ StillStands(c) => InForce(member')

(* README.md:697: a change needs the current administrative version, so    *)
(* it is made to the account the administrator was shown.                  *)
ChangedAsShown ==
  \A c \in changing : CommitChange(c) => member[c.of] = c.shown

(* README.md:700-703: stale role claims and the tokens of suspended        *)
(* accounts fail at once, also a token signed after the change from an     *)
(* account that was read before.                                           *)
AcceptedTokenIsTrue ==
  \A t \in tokens : Accepted(t) => member[t.user].role = t.role /\ member[t.user].status = "ACTIVE"

(* A token has the authority its account has now, a change is made to what *)
(* was shown, and no author whose own authority still stands takes the last*)
(* of it away.                                                             *)
AuthorityStands ==
  [][SuperAdminRemains /\ ChangedAsShown /\ AcceptedTokenIsTrue']_staffVars
=============================================================================
