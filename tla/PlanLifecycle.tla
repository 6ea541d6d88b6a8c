---------------------------- MODULE PlanLifecycle ----------------------------
(***************************************************************************)
(* The guarded lifecycle of a recovery plan: the states of                 *)
(* PlanLifecycleState (plan.hpp) and the transition table of               *)
(* validate_plan_transition (plan.cpp).  There is no state here: every     *)
(* handler of the planner that changes a plan's state consults this table. *)
(***************************************************************************)

PlanLifecycleState ==
  { "REQUESTED", "EVALUATING", "PLANNED", "AUTHORIZED", "DISPATCHED",
    "EXECUTING", "SUCCEEDED", "FAILED", "SUPERSEDED", "CANCELLED",
    "EXPIRED", "INVALIDATED" }

\* The states no transition leaves.
Terminal ==
  { "SUCCEEDED", "FAILED", "CANCELLED", "EXPIRED", "INVALIDATED", "SUPERSEDED" }

\* The states in which an executor has been handed the plan.
InFlight == { "DISPATCHED", "EXECUTING" }

\* A plan the planner may still act on.
Live == PlanLifecycleState \ Terminal

(***************************************************************************)
(* validate_plan_transition: terminal states never transition; staying put *)
(* is allowed in every other state; the rest is the table.                 *)
(***************************************************************************)
ValidatePlanTransition(from, to) ==
  /\ from \notin Terminal
  /\ \/ to = from
     \/ /\ from = "REQUESTED"
        /\ to \in {"EVALUATING", "PLANNED", "CANCELLED", "INVALIDATED"}
     \/ /\ from = "EVALUATING"
        /\ to \in {"PLANNED", "CANCELLED", "INVALIDATED"}
     \/ /\ from = "PLANNED"
        /\ to \in {"AUTHORIZED", "CANCELLED", "INVALIDATED", "EXPIRED", "SUPERSEDED"}
     \/ /\ from = "AUTHORIZED"
        /\ to \in {"DISPATCHED", "CANCELLED", "INVALIDATED", "EXPIRED", "SUPERSEDED"}
     \/ /\ from = "DISPATCHED"
        /\ to \in {"EXECUTING", "FAILED", "SUCCEEDED", "INVALIDATED", "SUPERSEDED"}
     \/ /\ from = "EXECUTING"
        /\ to \in {"SUCCEEDED", "FAILED", "INVALIDATED", "SUPERSEDED"}

=============================================================================
