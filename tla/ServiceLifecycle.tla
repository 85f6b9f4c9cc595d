-------------------------- MODULE ServiceLifecycle --------------------------
(* What README.md promises of a service execution: an explicit lifecycle   *)
(* that only goes forward, and one history entry per completed execution.  *)
EXTENDS Naturals

VARIABLES stage, entries

Rank == [ABSENT |-> 0, SCHEDULED |-> 1, IN_PROGRESS |-> 2, COMPLETED |-> 3, CANCELLED |-> 3]

Init == stage = "ABSENT" /\ entries = 0

Advance ==
  /\ stage' \in DOMAIN Rank
  /\ Rank[stage] < Rank[stage']
  /\ stage' = "IN_PROGRESS" => stage = "SCHEDULED"
  /\ stage' = "COMPLETED" => stage = "IN_PROGRESS"
  /\ entries' = IF stage' = "COMPLETED" THEN entries + 1 ELSE entries

Spec == Init /\ [][Advance]_<<stage, entries>>
=============================================================================
