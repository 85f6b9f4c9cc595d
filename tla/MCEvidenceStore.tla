------------------------- MODULE MCEvidenceStore -------------------------
(* Instances of EvidenceStore for TLC.                                   *)
EXTENDS EvidenceStore, TLC

CONSTANTS f1, f2, r1, r2, w1, w2

OneFile == {f1}
TwoFiles == {f1, f2}
OneRequest == {r1}
TwoRequests == {r1, r2}
OneWorker == {w1}
TwoWorkers == {w1, w2}
Alike == Permutations({r1, r2}) \cup Permutations({w1, w2})
=============================================================================
