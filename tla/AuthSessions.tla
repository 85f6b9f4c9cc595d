---------------------------- MODULE AuthSessions ----------------------------
(***************************************************************************)
(* The sessions of one staff account: logins, refreshes that rotate the    *)
(* refresh token and detect its reuse, logouts, and the role change,       *)
(* suspension and reactivation of the account by administrators.           *)
(*                                                                         *)
(* A login and a refresh read and write in steps outside any transaction,  *)
(* so they are programs here.  A change of the account is one transaction, *)
(* but it touches no document that a login inserts meanwhile: its snapshot *)
(* and its commit are two steps.  Every other handler is one step: what it *)
(* might miss of a login is what it misses when it comes first.            *)
(*                                                                         *)
(* An operator named X_Bug is a plausible bug in X, kept beside it to show *)
(* that a property would catch it; nothing uses it.                        *)
(***************************************************************************)
EXTENDS Integers, FiniteSets

CONSTANTS
  Sessions,        \* sessions, each with a token family of its own
  MaxGeneration,   \* bound on the rotations of a session
  Requests,        \* refresh requests in progress
  Administrators,  \* who may change the account
  MaxChanges       \* bound on the changes of the account

ASSUME SessionsAssumption == MaxGeneration \in Nat /\ MaxChanges \in Nat

VARIABLES
  account,     \* the User document: status and authVersion
  login,       \* progress of createLoginSession
  session,     \* AuthSession documents
  token,       \* token[s][g]: RefreshToken of generation g in the family of s
  request,     \* progress of rotateRefreshSession
  change       \* progress of mutateStaff

vars == <<account, login, session, token, request, change>>

Generations == 0..MaxGeneration
Kinds == {"role", "suspend", "reactivate"}

AccountStatus == {"INVITED", "ACTIVE", "SUSPENDED"}
LoginPhase == {"none", "checked", "opened", "ended"}
TokenStatus == {"absent", "active", "rotated", "revoked"}
RequestPhase == {"idle", "recognized", "accounted", "rotating", "ending"}

Account == [status : AccountStatus, version : 0..MaxChanges]
SessionDocument == [state : {"absent", "open", "revoked"}, current : Generations]
RequestProgress == [phase : RequestPhase, session : Sessions \cup {"none"}, generation : Generations]
ChangeProgress ==
  [kind : Kinds \cup {"none"}, version : 0..MaxChanges,
   sessions : SUBSET (Sessions \X Generations), tokens : SUBSET (Sessions \X Generations)]

IdleRequest == [phase |-> "idle", session |-> "none", generation |-> 0]
NoChange == [kind |-> "none", version |-> 0, sessions |-> {}, tokens |-> {}]

Init ==
  /\ account = [status |-> "INVITED", version |-> 0]
  /\ login = [s \in Sessions |-> "none"]
  /\ session = [s \in Sessions |-> [state |-> "absent", current |-> 0]]
  /\ token = [s \in Sessions |-> [g \in Generations |-> "absent"]]
  /\ request = [r \in Requests |-> IdleRequest]
  /\ change = [a \in Administrators |-> NoChange]

-----------------------------------------------------------------------------
(* The account opens with its invitation.                                  *)

AcceptInvitation ==
  /\ account.status = "INVITED" /\ account.version < MaxChanges
  /\ account' = [status |-> "ACTIVE", version |-> account.version + 1]
  /\ UNCHANGED <<login, session, token, request, change>>

-----------------------------------------------------------------------------
(* Logins                                                                  *)

LoginGoesTo(s, phase) == login' = [login EXCEPT ![s] = phase]

(* The password matches and the account is active, as of this moment.      *)
CheckPassword(s) ==
  /\ login[s] = "none" /\ account.status = "ACTIVE"
  /\ LoginGoesTo(s, "checked")
  /\ UNCHANGED <<account, session, token, request, change>>

CreateSession(s) ==
  /\ login[s] = "checked"
  /\ LoginGoesTo(s, "opened")
  /\ session' = [session EXCEPT ![s] = [state |-> "open", current |-> 0]]
  /\ UNCHANGED <<account, token, request, change>>

CreateFirstToken(s) ==
  /\ login[s] = "opened"
  /\ LoginGoesTo(s, "ended")
  /\ token' = [token EXCEPT ![s] = [token[s] EXCEPT ![0] = "active"]]
  /\ UNCHANGED <<account, session, request, change>>

(* An insert fails or the server dies; the session stays without a token.  *)
LoginDies(s) ==
  /\ login[s] \in {"checked", "opened"}
  /\ LoginGoesTo(s, "ended")
  /\ UNCHANGED <<account, session, token, request, change>>

-----------------------------------------------------------------------------
(* Revocation                                                              *)

Revocable == {"active", "rotated"}

(* Token t of a family that is revoked.                                    *)
Ended_Bug(t) == IF t \in Revocable THEN "expired" ELSE t   \* updateMany validates nothing
Ended(t) == IF t \in Revocable THEN "revoked" ELSE t

RevokeFamilies(S) ==
  /\ session' = [s \in Sessions |->
       IF s \in S /\ session[s].state = "open"
         THEN [session[s] EXCEPT !.state = "revoked"] ELSE session[s]]
  /\ token' = [s \in Sessions |->
       IF s \in S THEN [g \in Generations |-> Ended(token[s][g])] ELSE token[s]]

(* logout with a recognized token, and the account's DELETE of one session *)
RevokeSession(s) ==
  /\ session[s].state # "absent"
  /\ RevokeFamilies({s})
  /\ UNCHANGED <<account, login, request, change>>

OpenSessions == {s \in Sessions : session[s].state = "open"}

RevokeAllUserSessions ==
  /\ RevokeFamilies(OpenSessions)
  /\ UNCHANGED <<account, login, request, change>>

-----------------------------------------------------------------------------
(* Refreshes                                                               *)

RequestGoesTo(r, phase) == request' = [request EXCEPT ![r] = [request[r] EXCEPT !.phase = phase]]
RequestEnds(r) == request' = [request EXCEPT ![r] = IdleRequest]

(* A token that is not active is a reuse: its family will be revoked.      *)
PresentToken(r, s, g) ==
  /\ request[r].phase = "idle" /\ token[s][g] # "absent"
  /\ request' = [request EXCEPT ![r] =
       [phase |-> IF token[s][g] = "active" THEN "recognized" ELSE "ending",
        session |-> s, generation |-> g]]
  /\ UNCHANGED <<account, login, session, token, change>>

ReadSession(r) ==
  /\ request[r].phase = "recognized"
  /\ RequestGoesTo(r, IF session[request[r].session].state = "open" THEN "accounted" ELSE "ending")
  /\ UNCHANGED <<account, login, session, token, change>>

(* The account may be inactive, and the token or the session may be past   *)
(* its time; clocks are not followed.                                      *)
ReadUser(r) ==
  /\ request[r].phase = "accounted"
  /\ \E expired \in BOOLEAN :
       RequestGoesTo(r, IF account.status = "ACTIVE" /\ ~expired THEN "rotating" ELSE "ending")
  /\ UNCHANGED <<account, login, session, token, change>>

\* the filters of the transaction: the token is active, the session open and at this token
MayRotate_Bug(s, g) == session[s].state = "open"
MayRotateRevoked_Bug(s, g) == token[s][g] = "active" /\ session[s].current = g
MayRotate(s, g) ==
  token[s][g] = "active" /\ session[s].state = "open" /\ session[s].current = g

Rotate(r) ==
  LET s == request[r].session
      g == request[r].generation
      h == session[s].current + 1
  IN  /\ request[r].phase = "rotating"
      /\ MayRotate(s, g) /\ h \in Generations
      /\ token' = [token EXCEPT ![s] = [token[s] EXCEPT ![g] = "rotated", ![h] = "active"]]
      /\ session' = [session EXCEPT ![s] = [session[s] EXCEPT !.current = h]]
      /\ RequestEnds(r)
      /\ UNCHANGED <<account, login, change>>

(* A filter matches nothing, or the transaction ends with a transient      *)
(* error, which the code takes for a token consumed elsewhere.             *)
RotateFails(r) ==
  /\ request[r].phase = "rotating"
  /\ RequestGoesTo(r, "ending")
  /\ UNCHANGED <<account, login, session, token, change>>

EndFamily(r) ==
  /\ request[r].phase = "ending"
  /\ RevokeFamilies({request[r].session})
  /\ RequestEnds(r)
  /\ UNCHANGED <<account, login, change>>

(* A read or a transaction fails, or the server dies.                      *)
RequestDies(r) ==
  /\ request[r].phase # "idle"
  /\ RequestEnds(r)
  /\ UNCHANGED <<account, login, session, token, change>>

-----------------------------------------------------------------------------
(* Changes of the account                                                  *)

Permitted(kind) ==
  \/ kind = "role"
  \/ kind = "suspend" /\ account.status = "ACTIVE"
  \/ kind = "reactivate" /\ account.status = "SUSPENDED"

(* The transaction takes its snapshot: the account, the sessions that are  *)
(* open, with their generation, and the tokens that exist.                 *)
BeginChange(a, kind) ==
  /\ change[a].kind = "none"
  /\ Permitted(kind) /\ account.version < MaxChanges
  /\ change' = [change EXCEPT ![a] =
       [kind |-> kind, version |-> account.version,
        sessions |-> {t \in Sessions \X Generations :
                        session[t[1]] = [state |-> "open", current |-> t[2]]},
        tokens |-> {t \in Sessions \X Generations : token[t[1]][t[2]] # "absent"}]]
  /\ UNCHANGED <<account, login, session, token, request>>

StatusAfter(kind) ==
  CASE kind = "suspend" -> "SUSPENDED"
    [] kind = "reactivate" -> "ACTIVE"
    [] OTHER -> account.status

Seen(a) == {t[1] : t \in change[a].sessions}

\* no document it writes was written since the snapshot
Undisturbed(a) ==
  /\ account.version = change[a].version
  /\ \A t \in change[a].sessions : session[t[1]] = [state |-> "open", current |-> t[2]]

CommitChange(a) ==
  /\ change[a].kind # "none" /\ Undisturbed(a)
  /\ account' = [status |-> StatusAfter(change[a].kind), version |-> account.version + 1]
  /\ session' = [s \in Sessions |->
       IF s \in Seen(a) THEN [session[s] EXCEPT !.state = "revoked"] ELSE session[s]]
  /\ token' = [s \in Sessions |-> [g \in Generations |->
       IF s \in Seen(a) /\ <<s, g>> \in change[a].tokens THEN Ended(token[s][g]) ELSE token[s][g]]]
  /\ change' = [change EXCEPT ![a] = NoChange]
  /\ UNCHANGED <<login, request>>

(* A write conflict, or any other failure: the transaction is run again or *)
(* given up.                                                               *)
ChangeAborts(a) ==
  /\ change[a].kind # "none"
  /\ change' = [change EXCEPT ![a] = NoChange]
  /\ UNCHANGED <<account, login, session, token, request>>

-----------------------------------------------------------------------------

LoginStep(s) ==
  CheckPassword(s) \/ CreateSession(s) \/ CreateFirstToken(s) \/ LoginDies(s)

RequestStep(r) ==
  \/ \E s \in Sessions, g \in Generations : PresentToken(r, s, g)
  \/ ReadSession(r) \/ ReadUser(r) \/ Rotate(r) \/ RotateFails(r)
  \/ EndFamily(r) \/ RequestDies(r)

ChangeStep(a) ==
  (\E kind \in Kinds : BeginChange(a, kind)) \/ CommitChange(a) \/ ChangeAborts(a)

Next ==
  \/ \E s \in Sessions : LoginStep(s) \/ RevokeSession(s)
  \/ AcceptInvitation \/ RevokeAllUserSessions
  \/ \E r \in Requests : RequestStep(r)
  \/ \E a \in Administrators : ChangeStep(a)

Spec == Init /\ [][Next]_vars

-----------------------------------------------------------------------------
(* Properties                                                              *)

\* Documents and requests stay within their schemas.
TypeOK ==
  /\ account \in Account
  /\ login \in [Sessions -> LoginPhase]
  /\ session \in [Sessions -> SessionDocument]
  /\ token \in [Sessions -> [Generations -> TokenStatus]]
  /\ request \in [Requests -> RequestProgress]
  /\ change \in [Administrators -> ChangeProgress]

\* However many refreshes read a token before one of them consumes it, an open
\* session has exactly one token that can be rotated, the one it points to.
OneLiveToken ==
  \A s \in Sessions :
    session[s].state = "open" =>
      \A g \in Generations :
        /\ g # session[s].current => token[s][g] # "active"
        /\ g = session[s].current /\ g # 0 => token[s][g] = "active"

\* Once a session is revoked its whole family is, also what a refresh in progress
\* created beside the revocation; only a login that was overtaken can leave its
\* very first token, and that one never gets a successor.
RevokedFamilyIsDead ==
  \A s \in Sessions :
    session[s].state = "revoked" =>
      \A g \in Generations : token[s][g] \in Revocable => g = 0 /\ session[s].current = 0

\* So of all the tokens a family ever had, at most one can be used, and none
\* once the session ended.
OneLineOfTokens == OneLiveToken /\ RevokedFamilyIsDead
=============================================================================
