-------------------------- MODULE MCAuthSessions --------------------------
(* Instances of AuthSessions for TLC.                                     *)
EXTENDS AuthSessions, TLC

CONSTANTS s1, s2, r1, r2, a1

TwoSessions == {s1, s2}
TwoRequests == {r1, r2}
OneAdministrator == {a1}
Alike == Permutations({s1, s2}) \cup Permutations({r1, r2})
=============================================================================
