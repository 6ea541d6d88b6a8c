-------------------------- MODULE MCRecoveryPlanner --------------------------
(***************************************************************************)
(* Small instances of RecoveryPlanner for TLC.                             *)
(***************************************************************************)
EXTENDS RecoveryPlanner, TLC

CONSTANTS w1, w2, b1, b2, r1, r2

\* Every report about a plan of the instance, stale generation and boot included.
AllReports ==
  [plan_id: PlanIds, plan_generation: PlanIds, reporter_boot: Boots,
   outcome: {"SUCCEEDED", "AMBIGUOUS"}]

NoReports == {}

Symmetry == Permutations(Workers) \cup Permutations(Boots) \cup Permutations(Requests)

=============================================================================
