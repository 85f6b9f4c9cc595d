----------------------- MODULE MCNotificationOutbox -----------------------
(* Instances of NotificationOutbox for TLC.                               *)
EXTENDS NotificationOutbox, TLC

CONSTANTS n1, w1, w2, i1, i2, t1, t2, k1, k2, q1, q2, q3

OneNotice == {n1}
NoNotice == {}
OneWorker == {w1}
TwoWorkers == {w1, w2}
NoThing == {}
TwoDevices == {i1, i2}
TwoTokens == {t1, t2}
TwoKeys == {k1, k2}
AnyChoice == Consent
PushOnly == {[optional |-> TRUE, channels |-> {"push"}]}
EveryChannel == {[optional |-> TRUE, channels |-> Channels]}
NoMap == [x \in {} |-> x]

(* An installation is registered with two tokens, another one with a token *)
(* and a key of the first.                                                 *)
Registered == {q1, q2, q3}
RegisteredDevice == [q \in Registered |-> IF q = q3 THEN i2 ELSE i1]
RegisteredToken == [q \in Registered |-> IF q = q2 THEN t2 ELSE t1]
RegisteredKey == [q \in Registered |-> IF q = q1 THEN k1 ELSE k2]

Delays == [a \in 1..MaxAttempts |-> a]
WorkersAlike == Permutations({w1, w2})
=============================================================================
