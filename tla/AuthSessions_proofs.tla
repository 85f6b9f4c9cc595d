------------------------ MODULE AuthSessions_proofs ------------------------
(***************************************************************************)
(* Theorems about AuthSessions, for any number of sessions, refreshes,     *)
(* and administrators.                                                     *)
(***************************************************************************)
EXTENDS AuthSessions, TLAPS

(* A refresh under way names a session.                                    *)
InHand == \A r \in Requests : request[r].phase # "idle" => request[r].session \in Sessions

(* A login creates the session before its token.                           *)
SessionsFirst ==
  \A s \in Sessions :
    /\ login[s] \in {"none", "checked"} => session[s].state = "absent"
    /\ login[s] = "opened" => session[s].state # "absent"
    /\ login[s] \in {"none", "checked", "opened"} \/ session[s].state = "absent" =>
         session[s].current = 0 /\ token[s][0] = "absent"

(* The tokens of a family up to the current one exist, and no others; none *)
(* but the current one is active.                                          *)
Lineage ==
  \A s \in Sessions, g \in Generations :
    /\ g > session[s].current => token[s][g] = "absent"
    /\ g < session[s].current => token[s][g] \in {"rotated", "revoked"}

(* The transaction of a change sees every token of a family that had been  *)
(* rotated when it began, and leaves room for one more version.            *)
Snapshots ==
  \A a \in Administrators :
    /\ \A t \in change[a].sessions : \A g \in Generations :
         t[2] > 0 /\ g <= t[2] => <<t[1], g>> \in change[a].tokens
    /\ change[a].kind # "none" => change[a].version < MaxChanges

Families == SessionsFirst /\ Lineage /\ OneLiveToken /\ RevokedFamilyIsDead

SessionsInv == TypeOK /\ InHand /\ Families /\ Snapshots

-----------------------------------------------------------------------------
(* Types                                                                   *)

LEMMA Progress ==
  ASSUME TypeOK
  PROVE  /\ IdleRequest \in RequestProgress
         /\ NoChange \in ChangeProgress
         /\ \A r \in Requests, p \in RequestPhase :
              RequestGoesTo(r, p) => request' \in [Requests -> RequestProgress]
         /\ \A r \in Requests : RequestEnds(r) => request' \in [Requests -> RequestProgress]
<1>0. 0 \in Generations /\ 0 \in 0..MaxChanges
  BY SessionsAssumption DEF Generations
<1>1. IdleRequest \in RequestProgress
  BY <1>0 DEF IdleRequest, RequestProgress, RequestPhase
<1>2. NoChange \in ChangeProgress
  BY <1>0 DEF NoChange, ChangeProgress
<1>3. ASSUME NEW r \in Requests, NEW p \in RequestPhase, RequestGoesTo(r, p)
      PROVE  request' \in [Requests -> RequestProgress]
  <2>1. [request[r] EXCEPT !.phase = p] \in RequestProgress
    BY DEF TypeOK, RequestProgress
  <2> QED
    BY <1>3, <2>1 DEF TypeOK, RequestGoesTo
<1>4. ASSUME NEW r \in Requests, RequestEnds(r)
      PROVE  request' \in [Requests -> RequestProgress]
  BY <1>1, <1>4 DEF TypeOK, RequestEnds
<1> QED
  BY <1>1, <1>2, <1>3, <1>4

LEMMA Revocations ==
  ASSUME TypeOK, NEW S \in SUBSET Sessions, RevokeFamilies(S)
  PROVE  /\ session' \in [Sessions -> SessionDocument]
         /\ token' \in [Sessions -> [Generations -> TokenStatus]]
<1>1. \A s \in Sessions : [session[s] EXCEPT !.state = "revoked"] \in SessionDocument
  BY DEF TypeOK, SessionDocument
<1>2. \A s \in Sessions, g \in Generations : Ended(token[s][g]) \in TokenStatus
  BY DEF TypeOK, TokenStatus, Ended
<1> QED
  BY <1>1, <1>2 DEF TypeOK, RevokeFamilies

LEMMA AcceptType ==
  ASSUME TypeOK, AcceptInvitation
  PROVE  TypeOK'
<1>1. account.version + 1 \in 0..MaxChanges
  BY SessionsAssumption DEF AcceptInvitation, TypeOK, Account
<1>2. [status |-> "ACTIVE", version |-> account.version + 1] \in Account
  BY <1>1 DEF Account, AccountStatus
<1> QED
  BY <1>2 DEF AcceptInvitation, TypeOK

LEMMA LoginType ==
  ASSUME TypeOK, NEW s \in Sessions, LoginStep(s)
  PROVE  TypeOK'
<1> USE DEF TypeOK, LoginGoesTo, LoginPhase
<1>0. 0 \in Generations
  BY SessionsAssumption DEF Generations
<1>1. CASE CheckPassword(s)
  BY <1>1 DEF CheckPassword
<1>2. CASE CreateSession(s)
  <2>1. [state |-> "open", current |-> 0] \in SessionDocument
    BY <1>0 DEF SessionDocument
  <2> QED
    BY <1>2, <2>1 DEF CreateSession
<1>3. CASE CreateFirstToken(s)
  <2>1. [token[s] EXCEPT ![0] = "active"] \in [Generations -> TokenStatus]
    BY DEF TokenStatus
  <2> QED
    BY <1>3, <2>1 DEF CreateFirstToken
<1>4. CASE LoginDies(s)
  BY <1>4 DEF LoginDies
<1> QED
  BY <1>1, <1>2, <1>3, <1>4 DEF LoginStep

LEMMA RevocationType ==
  ASSUME TypeOK, RevokeAllUserSessions \/ \E s \in Sessions : RevokeSession(s)
  PROVE  TypeOK'
<1>1. CASE RevokeAllUserSessions
  BY <1>1, Revocations DEF TypeOK, RevokeAllUserSessions, OpenSessions
<1>2. ASSUME NEW s \in Sessions, RevokeSession(s) PROVE TypeOK'
  BY <1>2, Revocations DEF TypeOK, RevokeSession
<1> QED
  BY <1>1, <1>2

LEMMA RequestType ==
  ASSUME TypeOK, InHand, NEW r \in Requests, RequestStep(r)
  PROVE  TypeOK' /\ InHand'
<1> USE DEF RequestPhase
<1>1. ASSUME NEW s \in Sessions, NEW g \in Generations, PresentToken(r, s, g)
      PROVE  TypeOK' /\ InHand'
  <2>1. [phase |-> IF token[s][g] = "active" THEN "recognized" ELSE "ending",
         session |-> s, generation |-> g] \in RequestProgress
    BY DEF RequestProgress
  <2>2. TypeOK'
    BY <1>1, <2>1 DEF PresentToken, TypeOK
  <2> QED
    BY <1>1, <2>2 DEF PresentToken, TypeOK, InHand
<1>2. CASE ReadSession(r)
  <2>1. TypeOK'
    BY <1>2, Progress DEF ReadSession, TypeOK
  <2> QED
    BY <1>2, <2>1 DEF ReadSession, RequestGoesTo, TypeOK, InHand, RequestProgress
<1>3. CASE ReadUser(r)
  <2>1. TypeOK'
    BY <1>3, Progress DEF ReadUser, TypeOK
  <2> QED
    BY <1>3, <2>1 DEF ReadUser, RequestGoesTo, TypeOK, InHand, RequestProgress
<1>4. CASE Rotate(r)
  <2> DEFINE s == request[r].session
             g == request[r].generation
             h == session[s].current + 1
  <2>1. s \in Sessions /\ g \in Generations /\ h \in Generations
    BY <1>4 DEF Rotate, InHand, TypeOK, RequestProgress
  <2>2. [token[s] EXCEPT ![g] = "rotated", ![h] = "active"] \in [Generations -> TokenStatus]
    BY <2>1 DEF TypeOK, TokenStatus
  <2>3. [session[s] EXCEPT !.current = h] \in SessionDocument
    BY <2>1 DEF TypeOK, SessionDocument
  <2>4. /\ token' = [token EXCEPT ![s] = [token[s] EXCEPT ![g] = "rotated", ![h] = "active"]]
        /\ session' = [session EXCEPT ![s] = [session[s] EXCEPT !.current = h]]
        /\ RequestEnds(r)
        /\ UNCHANGED <<account, login, change>>
    BY <1>4 DEF Rotate
  <2>5. TypeOK'
    BY <2>1, <2>2, <2>3, <2>4, Progress DEF TypeOK
  <2> QED
    BY <2>4, <2>5 DEF RequestEnds, IdleRequest, TypeOK, InHand
<1>5. CASE RotateFails(r)
  <2>1. TypeOK'
    BY <1>5, Progress DEF RotateFails, TypeOK
  <2> QED
    BY <1>5, <2>1 DEF RotateFails, RequestGoesTo, TypeOK, InHand, RequestProgress
<1>6. CASE EndFamily(r)
  <2>1. {request[r].session} \in SUBSET Sessions
    BY <1>6 DEF EndFamily, InHand
  <2>2. TypeOK'
    BY <1>6, <2>1, Progress, Revocations DEF EndFamily, TypeOK
  <2> QED
    BY <1>6, <2>2 DEF EndFamily, RequestEnds, IdleRequest, TypeOK, InHand
<1>7. CASE RequestDies(r)
  <2>1. TypeOK'
    BY <1>7, Progress DEF RequestDies, TypeOK
  <2> QED
    BY <1>7, <2>1 DEF RequestDies, RequestEnds, IdleRequest, TypeOK, InHand
<1> QED
  BY <1>1, <1>2, <1>3, <1>4, <1>5, <1>6, <1>7 DEF RequestStep

LEMMA ChangeType ==
  ASSUME TypeOK, Snapshots, NEW a \in Administrators, ChangeStep(a)
  PROVE  TypeOK'
<1>1. ASSUME NEW kind \in Kinds, BeginChange(a, kind) PROVE TypeOK'
  <2> DEFINE seen == {t \in Sessions \X Generations :
                        session[t[1]] = [state |-> "open", current |-> t[2]]}
             found == {t \in Sessions \X Generations : token[t[1]][t[2]] # "absent"}
  <2>1. [kind |-> kind, version |-> account.version, sessions |-> seen, tokens |-> found]
          \in ChangeProgress
    BY DEF TypeOK, Account, ChangeProgress
  <2> QED
    BY <1>1, <2>1 DEF BeginChange, TypeOK
<1>2. CASE CommitChange(a)
  <2>1. change[a] \in ChangeProgress /\ change[a].kind \in Kinds
    BY <1>2 DEF CommitChange, TypeOK, ChangeProgress
  <2>2. account' \in Account
    <3>0. account.status \in AccountStatus
      BY DEF TypeOK, Account
    <3>1. StatusAfter(change[a].kind) \in AccountStatus
      BY <3>0 DEF StatusAfter, AccountStatus
    <3>2. account.version + 1 \in 0..MaxChanges
      BY <1>2, SessionsAssumption DEF CommitChange, Undisturbed, Snapshots, TypeOK, Account
    <3> QED
      BY <1>2, <3>1, <3>2 DEF CommitChange, Account
  <2>3. session' \in [Sessions -> SessionDocument]
    <3>1. \A s \in Sessions : [session[s] EXCEPT !.state = "revoked"] \in SessionDocument
      BY DEF TypeOK, SessionDocument
    <3> QED
      BY <1>2, <3>1 DEF CommitChange, TypeOK
  <2>4. token' \in [Sessions -> [Generations -> TokenStatus]]
    <3>1. \A s \in Sessions, g \in Generations : Ended(token[s][g]) \in TokenStatus
      BY DEF TypeOK, TokenStatus, Ended
    <3> QED
      BY <1>2, <3>1 DEF CommitChange, TypeOK
  <2> QED
    BY <1>2, <2>2, <2>3, <2>4, Progress DEF CommitChange, TypeOK
<1>3. CASE ChangeAborts(a)
  BY <1>3, Progress DEF ChangeAborts, TypeOK
<1> QED
  BY <1>1, <1>2, <1>3 DEF ChangeStep

-----------------------------------------------------------------------------
(* Families                                                                *)

LEMMA InitSound == Init => SessionsInv
<1> SUFFICES ASSUME Init PROVE SessionsInv
  OBVIOUS
<1>0. 0 \in Generations /\ 0 \in 0..MaxChanges
  BY SessionsAssumption DEF Generations
<1>1. TypeOK
  <2>1. IdleRequest \in RequestProgress /\ NoChange \in ChangeProgress
    BY <1>0 DEF IdleRequest, RequestProgress, RequestPhase, NoChange, ChangeProgress
  <2>2. /\ [status |-> "INVITED", version |-> 0] \in Account
        /\ [state |-> "absent", current |-> 0] \in SessionDocument
    BY <1>0 DEF Account, AccountStatus, SessionDocument
  <2> QED
    BY <2>1, <2>2 DEF Init, TypeOK, LoginPhase, TokenStatus
<1>2. InHand /\ Snapshots
  BY SessionsAssumption DEF Init, InHand, IdleRequest, Snapshots, NoChange
<1>3. Families
  BY <1>0 DEF Init, Families, SessionsFirst, Lineage, OneLiveToken, RevokedFamilyIsDead, Generations
<1> QED
  BY <1>1, <1>2, <1>3 DEF SessionsInv

(* Revocation closes whole families, and leaves the others alone.          *)
LEMMA RevocationSafe ==
  ASSUME TypeOK, Families, NEW S \in SUBSET Sessions, RevokeFamilies(S), UNCHANGED login
  PROVE  Families'
<1>1. \A s \in Sessions :
        /\ session'[s].current = session[s].current
        /\ session'[s].state = "absent" <=> session[s].state = "absent"
        /\ session'[s].state = "open" <=> session[s].state = "open" /\ s \notin S
        /\ session'[s].state = "revoked" /\ s \notin S => session[s].state = "revoked"
  BY DEF RevokeFamilies, TypeOK, SessionDocument
<1>2. \A s \in Sessions, g \in Generations :
        token'[s][g] = IF s \in S THEN Ended(token[s][g]) ELSE token[s][g]
  BY DEF RevokeFamilies
<1>3. \A s \in Sessions, g \in Generations :
        /\ token[s][g] = "absent" => token'[s][g] = "absent"
        /\ token[s][g] \in {"rotated", "revoked"} => token'[s][g] \in {"rotated", "revoked"}
        /\ s \in S => token'[s][g] \notin Revocable
        /\ s \notin S => token'[s][g] = token[s][g]
  BY <1>2 DEF Ended, Revocable, TypeOK, TokenStatus
<1>0. 0 \in Generations
  BY SessionsAssumption DEF Generations
<1>4. SessionsFirst'
  BY <1>0, <1>1, <1>3 DEF Families, SessionsFirst
<1>5. Lineage'
  BY <1>1, <1>3 DEF Families, Lineage
<1>6. OneLiveToken'
  BY <1>1, <1>3 DEF Families, OneLiveToken
<1>7. RevokedFamilyIsDead'
  BY <1>1, <1>3 DEF Families, RevokedFamilyIsDead
<1> QED
  BY <1>4, <1>5, <1>6, <1>7 DEF Families

LEMMA LoginSafe ==
  ASSUME TypeOK, Families, NEW s \in Sessions, LoginStep(s)
  PROVE  Families'
<1> USE DEF Families
<1>0. 0 \in Generations /\ \A g \in Generations : g >= 0
  BY SessionsAssumption DEF Generations
<1>1. CASE CheckPassword(s)
  BY <1>1 DEF CheckPassword, LoginGoesTo, TypeOK, SessionsFirst, Lineage, OneLiveToken, RevokedFamilyIsDead
<1>2. CASE CreateSession(s)
  <2>1. session[s].state = "absent" /\ session[s].current = 0 /\ token[s][0] = "absent"
    BY <1>2 DEF CreateSession, SessionsFirst
  <2>2. \A g \in Generations : token[s][g] = "absent"
    BY <1>0, <2>1 DEF Lineage, Generations
  <2>3. /\ session' = [session EXCEPT ![s] = [state |-> "open", current |-> 0]]
        /\ login' = [login EXCEPT ![s] = "opened"] /\ token' = token
    BY <1>2 DEF CreateSession, LoginGoesTo
  <2>4. /\ session'[s] = [state |-> "open", current |-> 0]
        /\ \A x \in Sessions : x # s => session'[x] = session[x]
        /\ login'[s] = "opened"
        /\ \A x \in Sessions : x # s => login'[x] = login[x]
    BY <2>3 DEF TypeOK
  <2>5. SessionsFirst'
    BY <2>1, <2>3, <2>4 DEF SessionsFirst
  <2>6. Lineage'
    BY <1>0, <2>2, <2>3, <2>4 DEF Lineage, Generations
  <2>7. OneLiveToken' /\ RevokedFamilyIsDead'
    BY <2>2, <2>3, <2>4 DEF OneLiveToken, RevokedFamilyIsDead
  <2> QED
    BY <2>5, <2>6, <2>7
<1>3. CASE CreateFirstToken(s)
  <2>2. /\ token' = [token EXCEPT ![s] = [token[s] EXCEPT ![0] = "active"]]
        /\ login' = [login EXCEPT ![s] = "ended"] /\ session' = session
    BY <1>3 DEF CreateFirstToken, LoginGoesTo
  <2>3. /\ token'[s][0] = "active"
        /\ \A g \in Generations : g # 0 => token'[s][g] = token[s][g]
        /\ \A x \in Sessions : x # s => token'[x] = token[x]
        /\ login'[s] = "ended"
        /\ \A x \in Sessions : x # s => login'[x] = login[x]
    BY <1>0, <2>2 DEF TypeOK
  <2>4. session[s].state # "absent" /\ session[s].current = 0
    BY <1>3 DEF CreateFirstToken, SessionsFirst
  <2>5. SessionsFirst'
    BY <2>2, <2>3, <2>4 DEF SessionsFirst
  <2>6. Lineage'
    BY <1>0, <2>2, <2>3, <2>4 DEF Lineage, Generations
  <2>7. OneLiveToken'
    BY <2>2, <2>3, <2>4 DEF OneLiveToken
  <2>8. RevokedFamilyIsDead'
    BY <2>2, <2>3, <2>4 DEF RevokedFamilyIsDead
  <2> QED
    BY <2>5, <2>6, <2>7, <2>8
<1>4. CASE LoginDies(s)
  BY <1>4 DEF LoginDies, LoginGoesTo, TypeOK, SessionsFirst, Lineage, OneLiveToken, RevokedFamilyIsDead
<1> QED
  BY <1>1, <1>2, <1>3, <1>4 DEF LoginStep

(* The heart of the matter: the filters of the rotation.                   *)
LEMMA RotateSafe ==
  ASSUME TypeOK, InHand, Families, NEW r \in Requests, Rotate(r)
  PROVE  Families'
<1> USE DEF Families
<1> DEFINE s == request[r].session
           g == request[r].generation
           h == session[s].current + 1
<1>1. s \in Sessions /\ g \in Generations /\ h \in Generations
  BY DEF Rotate, InHand, TypeOK, RequestProgress
<1>2. token[s][g] = "active" /\ session[s].state = "open" /\ session[s].current = g /\ h = g + 1
  BY DEF Rotate, MayRotate
<1>3. /\ token' = [token EXCEPT ![s] = [token[s] EXCEPT ![g] = "rotated", ![h] = "active"]]
      /\ session' = [session EXCEPT ![s] = [session[s] EXCEPT !.current = h]]
      /\ login' = login
  BY DEF Rotate
<1> HIDE DEF s, g, h
<1>4. g \in Nat /\ h = g + 1 /\ h # g
  BY <1>1, <1>2, SessionsAssumption DEF Generations
<1>5. /\ token'[s][g] = "rotated" /\ token'[s][h] = "active"
      /\ \A k \in Generations : k # g /\ k # h => token'[s][k] = token[s][k]
      /\ \A x \in Sessions : x # s => token'[x] = token[x]
  BY <1>1, <1>3, <1>4 DEF TypeOK
<1>6. /\ session'[s].state = "open" /\ session'[s].current = h
      /\ \A x \in Sessions : x # s => session'[x] = session[x]
  BY <1>1, <1>2, <1>3 DEF TypeOK, SessionDocument
<1>7. login[s] = "ended"
  <2>1. login[s] \notin {"none", "checked", "opened"}
    BY <1>1, <1>2 DEF SessionsFirst, Lineage
  <2> QED
    BY <1>1, <2>1 DEF TypeOK, LoginPhase
<1>8. SessionsFirst'
  BY <1>1, <1>3, <1>5, <1>6, <1>7 DEF SessionsFirst
<1>9. Lineage'
  <2>1. \A k \in Generations : k > h => token'[s][k] = "absent"
    BY <1>1, <1>2, <1>4, <1>5 DEF Lineage, Generations
  <2>2. \A k \in Generations : k < h => token'[s][k] \in {"rotated", "revoked"}
    BY <1>1, <1>2, <1>4, <1>5 DEF Lineage, Generations
  <2> QED
    BY <1>5, <1>6, <2>1, <2>2 DEF Lineage
<1>10. OneLiveToken'
  <2>1. \A k \in Generations : k # h => token'[s][k] # "active"
    BY <1>1, <1>2, <1>5 DEF OneLiveToken
  <2> QED
    BY <1>5, <1>6, <2>1 DEF OneLiveToken
<1>11. RevokedFamilyIsDead'
  BY <1>5, <1>6 DEF RevokedFamilyIsDead
<1> QED
  BY <1>8, <1>9, <1>10, <1>11

(* What the transaction of a change did not see it cannot have rotated.    *)
LEMMA CommitSafe ==
  ASSUME TypeOK, Families, Snapshots, NEW a \in Administrators, CommitChange(a)
  PROVE  Families'
<1> USE DEF Families
<1>1. /\ session' = [s \in Sessions |->
           IF s \in Seen(a) THEN [session[s] EXCEPT !.state = "revoked"] ELSE session[s]]
      /\ token' = [s \in Sessions |-> [g \in Generations |->
           IF s \in Seen(a) /\ <<s, g>> \in change[a].tokens
             THEN Ended(token[s][g]) ELSE token[s][g]]]
      /\ login' = login
  BY DEF CommitChange
<1>2. change[a].sessions \subseteq Sessions \X Generations
  BY DEF TypeOK, ChangeProgress
<1>3. \A t \in change[a].sessions :
         t[2] \in Generations /\ session[t[1]].state = "open" /\ session[t[1]].current = t[2]
  <2> SUFFICES ASSUME NEW t \in change[a].sessions
               PROVE  t[2] \in Generations /\ session[t[1]].state = "open"
                      /\ session[t[1]].current = t[2]
    OBVIOUS
  <2>1. session[t[1]] = [state |-> "open", current |-> t[2]]
    BY DEF CommitChange, Undisturbed
  <2> QED
    BY <1>2, <2>1
<1>4. \A s \in Sessions :
        /\ s \in Seen(a) => session[s].state = "open"
        /\ s \in Seen(a) => session'[s].state = "revoked" /\ session'[s].current = session[s].current
        /\ s \notin Seen(a) => session'[s] = session[s]
  <2>1. \A s \in Sessions : s \in Seen(a) => session[s].state = "open"
    BY <1>3 DEF Seen
  <2> QED
    BY <1>1, <2>1 DEF TypeOK, SessionDocument
<1>5. \A s \in Sessions, g \in Generations :
        /\ token[s][g] = "absent" => token'[s][g] = "absent"
        /\ token[s][g] \in {"rotated", "revoked"} => token'[s][g] \in {"rotated", "revoked"}
        /\ s \notin Seen(a) => token'[s][g] = token[s][g]
  BY <1>1 DEF Ended, Revocable, TypeOK, TokenStatus
<1>6. \A s \in Sessions, g \in Generations :
        s \in Seen(a) /\ session[s].current # 0 => token'[s][g] \notin Revocable
  <2> SUFFICES ASSUME NEW s \in Sessions, NEW g \in Generations,
                      s \in Seen(a), session[s].current # 0
               PROVE  token'[s][g] \notin Revocable
    OBVIOUS
  <2>1. PICK t \in change[a].sessions : t[1] = s
    BY DEF Seen
  <2>2. session[s].current = t[2] /\ t[2] \in Generations
    BY <1>3, <2>1
  <2>3. t[2] > 0
    BY <2>2, SessionsAssumption DEF Generations
  <2>4. CASE g <= t[2]
    <3>1. <<s, g>> \in change[a].tokens
      BY <2>1, <2>3, <2>4 DEF Snapshots
    <3>2. token'[s][g] = Ended(token[s][g])
      BY <1>1, <3>1
    <3> QED
      BY <3>2 DEF Ended, Revocable
  <2>5. CASE g > t[2]
    <3>1. token[s][g] = "absent"
      BY <2>2, <2>5 DEF Lineage
    <3> QED
      BY <1>5, <3>1 DEF Revocable
  <2> QED
    BY <2>2, <2>4, <2>5, SessionsAssumption DEF Generations
<1>7. 0 \in Generations
  BY SessionsAssumption DEF Generations
<1>8. SessionsFirst'
  BY <1>7, <1>1, <1>4, <1>5 DEF SessionsFirst
<1>9. Lineage'
  BY <1>4, <1>5 DEF Lineage
<1>10. OneLiveToken'
  BY <1>4, <1>5 DEF OneLiveToken
<1>11. RevokedFamilyIsDead'
  <2> SUFFICES ASSUME NEW s \in Sessions, session'[s].state = "revoked",
                      NEW g \in Generations, token'[s][g] \in Revocable
               PROVE  g = 0 /\ session'[s].current = 0
    BY DEF RevokedFamilyIsDead, Revocable
  <2>1. CASE s \notin Seen(a)
    BY <1>4, <1>5, <2>1 DEF RevokedFamilyIsDead
  <2>2. CASE s \in Seen(a)
    <3>1. session[s].current = 0
      BY <1>6, <2>2
    <3>2. g > 0 => token[s][g] = "absent"
      BY <3>1 DEF Lineage
    <3> QED
      BY <1>7, <1>4, <1>5, <2>2, <3>1, <3>2, SessionsAssumption DEF Generations, Revocable
  <2> QED
    BY <2>1, <2>2
<1> QED
  BY <1>8, <1>9, <1>10, <1>11

-----------------------------------------------------------------------------
(* The snapshots of changes                                                *)

LEMMA ChangeSafe ==
  ASSUME TypeOK, Families, Snapshots, NEW a \in Administrators, ChangeStep(a)
  PROVE  Snapshots'
<1>1. ASSUME NEW kind \in Kinds, BeginChange(a, kind) PROVE Snapshots'
  <2> DEFINE seen == {t \in Sessions \X Generations :
                        session[t[1]] = [state |-> "open", current |-> t[2]]}
             found == {t \in Sessions \X Generations : token[t[1]][t[2]] # "absent"}
  <2>1. change'[a] = [kind |-> kind, version |-> account.version,
                      sessions |-> seen, tokens |-> found]
    BY <1>1 DEF BeginChange, TypeOK
  <2>2. \A b \in Administrators : b # a => change'[b] = change[b]
    BY <1>1 DEF BeginChange, TypeOK
  <2>3. \A t \in seen : \A g \in Generations : t[2] > 0 /\ g <= t[2] => <<t[1], g>> \in found
    <3> SUFFICES ASSUME NEW t \in seen, NEW g \in Generations, t[2] > 0, g <= t[2]
                 PROVE  token[t[1]][g] # "absent"
      OBVIOUS
    <3>1. t[1] \in Sessions /\ t[2] \in Generations
          /\ session[t[1]].state = "open" /\ session[t[1]].current = t[2]
      OBVIOUS
    <3>2. CASE g = t[2]
      BY <3>1, <3>2 DEF Families, OneLiveToken
    <3>3. CASE g < t[2]
      BY <3>1, <3>3 DEF Families, Lineage
    <3> QED
      BY <3>1, <3>2, <3>3, SessionsAssumption DEF Generations
  <2> HIDE DEF seen, found
  <2>4. account.version < MaxChanges
    BY <1>1 DEF BeginChange
  <2> QED
    BY <2>1, <2>2, <2>3, <2>4 DEF Snapshots
<1>2. CASE CommitChange(a) \/ ChangeAborts(a)
  <2>1. change' = [change EXCEPT ![a] = NoChange]
    BY <1>2 DEF CommitChange, ChangeAborts
  <2> QED
    BY <2>1 DEF Snapshots, NoChange, TypeOK
<1> QED
  BY <1>1, <1>2 DEF ChangeStep

LEMMA NextSound == SessionsInv /\ [Next]_vars => SessionsInv'
<1> SUFFICES ASSUME SessionsInv, [Next]_vars PROVE SessionsInv'
  OBVIOUS
<1> USE DEF SessionsInv
<1>1. CASE AcceptInvitation
  <2>1. UNCHANGED <<login, session, token, request, change>>
    BY <1>1 DEF AcceptInvitation
  <2>2. InHand' /\ Families' /\ Snapshots'
    BY <2>1 DEF InHand, Families, SessionsFirst, Lineage, OneLiveToken, RevokedFamilyIsDead, Snapshots
  <2> QED
    BY <1>1, <2>2, AcceptType
<1>2. ASSUME NEW s \in Sessions, LoginStep(s) PROVE SessionsInv'
  <2>1. UNCHANGED <<account, request, change>>
    BY <1>2 DEF LoginStep, CheckPassword, CreateSession, CreateFirstToken, LoginDies
  <2>2. InHand' /\ Snapshots'
    BY <2>1 DEF InHand, Snapshots
  <2> QED
    BY <1>2, <2>2, LoginType, LoginSafe
<1>3. CASE RevokeAllUserSessions \/ \E s \in Sessions : RevokeSession(s)
  <2>1. UNCHANGED <<account, login, request, change>>
        /\ \E S \in SUBSET Sessions : RevokeFamilies(S)
    <3>1. OpenSessions \in SUBSET Sessions /\ \A s \in Sessions : {s} \in SUBSET Sessions
      BY DEF OpenSessions
    <3> QED
      BY <1>3, <3>1 DEF RevokeAllUserSessions, RevokeSession
  <2>2. InHand' /\ Snapshots'
    BY <2>1 DEF InHand, Snapshots
  <2> QED
    BY <1>3, <2>1, <2>2, RevocationType, RevocationSafe
<1>4. ASSUME NEW r \in Requests, RequestStep(r) PROVE SessionsInv'
  <2>1. TypeOK' /\ InHand'
    BY <1>4, RequestType
  <2>2. UNCHANGED <<account, login, change>>
    BY <1>4 DEF RequestStep, PresentToken, ReadSession, ReadUser, Rotate, RotateFails, EndFamily, RequestDies
  <2>3. Snapshots'
    BY <2>2 DEF Snapshots
  <2>4. Families'
    <3>1. CASE Rotate(r)
      BY <3>1, RotateSafe
    <3>2. CASE EndFamily(r)
      <4>1. {request[r].session} \in SUBSET Sessions /\ RevokeFamilies({request[r].session})
        BY <3>2 DEF EndFamily, InHand
      <4> QED
        BY <2>2, <4>1, RevocationSafe
    <3>3. CASE ~Rotate(r) /\ ~EndFamily(r)
      <4>1. UNCHANGED <<login, session, token>>
        BY <1>4, <3>3 DEF RequestStep, PresentToken, ReadSession, ReadUser, RotateFails, RequestDies
      <4> QED
        BY <4>1 DEF Families, SessionsFirst, Lineage, OneLiveToken, RevokedFamilyIsDead
    <3> QED
      BY <3>1, <3>2, <3>3
  <2> QED
    BY <2>1, <2>3, <2>4
<1>5. ASSUME NEW a \in Administrators, ChangeStep(a) PROVE SessionsInv'
  <2>1. UNCHANGED request
    BY <1>5 DEF ChangeStep, BeginChange, CommitChange, ChangeAborts
  <2>2. Families'
    <3>1. CASE CommitChange(a)
      BY <3>1, CommitSafe
    <3>2. CASE ~CommitChange(a)
      <4>1. UNCHANGED <<login, session, token>>
        BY <1>5, <3>2 DEF ChangeStep, BeginChange, ChangeAborts
      <4> QED
        BY <4>1 DEF Families, SessionsFirst, Lineage, OneLiveToken, RevokedFamilyIsDead
    <3> QED
      BY <3>1, <3>2
  <2> QED
    BY <1>5, <2>1, <2>2, ChangeType, ChangeSafe DEF InHand
<1>6. CASE UNCHANGED vars
  BY <1>6 DEF vars, TypeOK, InHand, Families, SessionsFirst, Lineage, OneLiveToken,
     RevokedFamilyIsDead, Snapshots
<1> QED
  BY <1>1, <1>2, <1>3, <1>4, <1>5, <1>6 DEF Next

LEMMA SessionsInvariant == Spec => []SessionsInv
<1> QED
  BY InitSound, NextSound, PTL DEF Spec

(* Documents, requests and transactions stay within their schemas          *)
(* (models/AuthSession.js, models/RefreshToken.js, models/User.js).        *)
THEOREM TypeCorrect == Spec => []TypeOK
<1>1. SessionsInv => TypeOK
  BY DEF SessionsInv
<1> QED
  BY <1>1, SessionsInvariant, PTL

(* rotateRefreshSession: an open session has one token that can be rotated *)
(* and a revoked one has none, however refreshes, logouts, logins that die *)
(* and changes of the account interleave.                                  *)
THEOREM FamiliesAreSound == Spec => []OneLineOfTokens
<1>1. SessionsInv => OneLineOfTokens
  BY DEF SessionsInv, Families, OneLineOfTokens
<1> QED
  BY <1>1, SessionsInvariant, PTL

=============================================================================
