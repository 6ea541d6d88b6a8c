---------------------------- MODULE PlanSelection ----------------------------
(***************************************************************************)
(* The decision inside plan() (planner.cpp): from the feasible candidates  *)
(* keep those that meet the request's hard constraints, rank them, and     *)
(* build the plan for the first one, or for the best feasible candidate as *)
(* a labelled fallback.  The clock runs on while the plan waits.           *)
(*                                                                         *)
(* Feasibility verdicts are inputs here (module Feasibility decides them), *)
(* and what becomes of the plan is module RecoveryPlanner's: in this       *)
(* module only time passes.                                                *)
(***************************************************************************)
EXTENDS Economics, FiniteSets, Sequences

CONSTANTS
  Problems,   \* requests, each with a candidate vector, passed to plan()
  Start,      \* the clock when the planner starts
  MaxNow      \* bound: the clock

VARIABLES
  now,         \* clock_->now()
  request,     \* the request of the last plan() call
  candidates,  \* its candidates
  decision,    \* its RecoveryDecision: outcome, and the selected index
  plan         \* the plan it stored

vars == <<now, request, candidates, decision, plan>>

RecoveryRequest ==
  [recovery_deadline: Word \cup {Unknown},
   max_recovery_duration: Word \cup {Unknown},
   max_tolerated_progress_loss: Nat \cup {Unknown}]

RecoveryCandidate ==
  [candidate_id: Nat, generation: Nat, strategy: Strategy, feasible: BOOLEAN,
   cost: SUBSET CostEvidence, authority_confidence: Nat]

ASSUME SelectionAssumption ==
  /\ Problems \subseteq RecoveryRequest \X Seq(RecoveryCandidate)
  /\ Start \in Word /\ MaxNow \in Word /\ Start <= MaxNow

PlanOutcome ==
  {"PLAN_FOUND", "NO_VALID_PLAN", "NO_DEADLINE_FEASIBLE_PLAN", "NO_CANDIDATES"}
DeadlineOutcome == {"HARD_FEASIBLE", "VIOLATED", "NO_DEADLINE", "UNKNOWN"}

NoRequest  == [recovery_deadline |-> Unknown, max_recovery_duration |-> Unknown,
               max_tolerated_progress_loss |-> Unknown]
NoDecision == [outcome |-> "NONE", selected |-> 0]
NoPlan     == [deadline |-> Unknown]

-----------------------------------------------------------------------------
(***************************************************************************)
(* plan().                                                                 *)
(***************************************************************************)
FeasibleIdx(cs) == {i \in DOMAIN cs : cs[i].feasible}

HardDeadline(req) ==
  req.recovery_deadline # Unknown \/ req.max_recovery_duration # Unknown
HardProgress(req) == req.max_tolerated_progress_loss # Unknown

\* Mutant: an unknown verdict counts as in time.
DeadlineNotViolated(c, req, t) ==
  HardDeadline(req) => EvaluateDeadline(c, req, t) # "VIOLATED"

DeadlineOK(c, req, t) ==
  HardDeadline(req) => EvaluateDeadline(c, req, t) = "HARD_FEASIBLE"

\* Mutant: the tolerance is not consulted.
ProgressIgnored(c, req) == TRUE

ProgressOK(c, req) ==
  HardProgress(req) => ComputeEconomics(c, req).progress_loss_within_tolerance

Eligible(cs, req, t) ==
  {i \in FeasibleIdx(cs) : DeadlineOK(cs[i], req, t) /\ ProgressOK(cs[i], req)}

Precedes(cs, req, i, j) ==
  CandidatePrecedes(cs[i], cs[j],
                    ComputeEconomics(cs[i], req), ComputeEconomics(cs[j], req))

\* The indices that std::sort may put first in rank_feasible.
Front(cs, req, idx) ==
  {i \in idx : \A j \in idx : ~Precedes(cs, req, j, i)}

\* Indices that compete: the eligible ones, or else every feasible one.
Pool(cs, req, t) ==
  LET eligible == Eligible(cs, req, t) IN
  IF eligible # {} THEN eligible ELSE FeasibleIdx(cs)

OutcomeOf(cs, req, t) ==
  IF cs = <<>> THEN "NO_CANDIDATES"
  ELSE IF Eligible(cs, req, t) # {} THEN "PLAN_FOUND"
  ELSE IF FeasibleIdx(cs) = {} THEN "NO_VALID_PLAN"
  ELSE IF HardDeadline(req) THEN "NO_DEADLINE_FEASIBLE_PLAN"
  ELSE "NO_VALID_PLAN"

\* build_plan: the plan keeps the deadline evaluation made at planning time.
BuildPlan(c, req) ==
  [deadline |-> Deadline(req, now),
   deadline_outcome |-> EvaluateDeadline(c, req, now), created_at |-> now]

\* plan(), called once in a behaviour, at any time: a decision does not depend
\* on earlier ones, and what a later plan does to an earlier one is module
\* RecoveryPlanner's.
PlanRecovery(req, cs) ==
  /\ decision = NoDecision
  /\ request' = req
  /\ candidates' = cs
  /\ IF Pool(cs, req, now) = {}
     THEN /\ decision' = [outcome |-> OutcomeOf(cs, req, now), selected |-> 0]
          /\ plan' = NoPlan
     ELSE \E best \in Front(cs, req, Pool(cs, req, now)) :
            /\ decision' = [outcome |-> OutcomeOf(cs, req, now), selected |-> best]
            /\ plan' = BuildPlan(cs[best], req)
  /\ UNCHANGED now

\* external: the clock.
Tick ==
  /\ now < MaxNow
  /\ now' = now + 1
  /\ UNCHANGED <<request, candidates, decision, plan>>

-----------------------------------------------------------------------------
Init ==
  /\ now = Start
  /\ request = NoRequest
  /\ candidates = <<>>
  /\ decision = NoDecision
  /\ plan = NoPlan

Next ==
  \/ \E problem \in Problems : PlanRecovery(problem[1], problem[2])
  \/ Tick

Spec == Init /\ [][Next]_vars

-----------------------------------------------------------------------------
(***************************************************************************)
(* Properties.                                                             *)
(***************************************************************************)
Plan ==
  [deadline: Word \cup {Unknown}, deadline_outcome: DeadlineOutcome, created_at: Word]

\* Every variable keeps its type: deadlines and times stay within the word.
TypeOK ==
  /\ now \in Start..MaxNow
  /\ <<request, candidates>> \in Problems \cup {<<NoRequest, <<>>>>}
  /\ decision \in [outcome: PlanOutcome \cup {"NONE"}, selected: 0..Len(candidates)]
  /\ plan \in Plan \cup {NoPlan}

DistinctIds(cs) ==
  \A i, j \in DOMAIN cs : i # j => cs[i].candidate_id # cs[j].candidate_id

\* No two candidates of a pool can both come first, so the winner does not
\* depend on the order of the input vector nor on how std::sort treats ties
\* (candidate_precedes is total on distinct ids).
WinnerIsUnique ==
  DistinctIds(candidates) =>
    \A pool \in SUBSET DOMAIN candidates :
      \A i, j \in Front(candidates, request, pool) : i = j

\* Some candidate of every pool comes first: the order has no cycles, whatever
\* is unknown about the candidates and even when two of them share an id.
WinnerExists ==
  \A pool \in SUBSET DOMAIN candidates :
    pool # {} => Front(candidates, request, pool) # {}

NoWorse(a, b) == b = Unknown \/ (a # Unknown /\ a <= b)

\* a is at least as good as b in every named objective and better in one, both
\* preserved progress figures being known.
Dominates(a, b) ==
  /\ a.expected_preserved_progress # Unknown /\ b.expected_preserved_progress # Unknown
  /\ a.expected_preserved_progress >= b.expected_preserved_progress
  /\ NoWorse(a.expected_lost_progress, b.expected_lost_progress)
  /\ NoWorse(a.expected_time, b.expected_time)
  /\ NoWorse(a.cost_units, b.cost_units)
  /\ a.failover_domain_risk <= b.failover_domain_risk
  /\ a.confidence >= b.confidence
  /\ a # b

Economy(i) == ComputeEconomics(candidates[i], request)

\* No candidate that also met the hard constraints is better in some objective
\* and no worse in the others than the one plan() chose.
WinnerIsUndominated ==
  decision.selected # 0 =>
    \A i \in Pool(candidates, request, plan.created_at) :
      ~Dominates(Economy(i), Economy(decision.selected))

\* The last moment at which a recovery planned at time t is in time, as
\* evaluate_deadline sees it, computed without overflow: a past deadline counts
\* as now, and so does a negative duration.
LatestEnd(req, t) ==
  IF req.recovery_deadline # Unknown
  THEN IF req.recovery_deadline < t THEN t ELSE req.recovery_deadline
  ELSE t + NonNegative(req.max_recovery_duration)

\* Nothing is promised at the largest timestamp, where completion times saturate
\* (sat_add), nor when the clock is negative and now + duration falls below the
\* word: the sum wraps to a late deadline.
NoPromise(req, t) ==
  \/ MaxInt \in {t, LatestEnd(req, t)}
  \/ req.recovery_deadline = Unknown /\ t + req.max_recovery_duration < MinInt

\* PLAN_FOUND keeps the request's hard constraints: under a deadline, absolute or
\* relative, past or to come, the plan's time is known and it ends by the latest
\* end, also when now + duration overflows, in whichever way the build takes the
\* overflow; and a known loss of progress is within the tolerance.  An unknown
\* loss passes for a tolerable one (progress_loss_within_tolerance).
HardConstraintsKept ==
  decision.outcome = "PLAN_FOUND" =>
    LET c == candidates[decision.selected]
        loss == Economy(decision.selected).expected_lost_progress IN
    /\ HardDeadline(request) =>
         /\ ExpectedTime(c) # Unknown
         /\ \/ plan.created_at + NonNegative(ExpectedTime(c))
                  <= LatestEnd(request, plan.created_at)
            \/ NoPromise(request, plan.created_at)
    /\ HardProgress(request) /\ loss # Unknown =>
         loss <= request.max_tolerated_progress_loss

LatenessStep ==
  \A i \in DOMAIN candidates :
    /\ request.recovery_deadline # Unknown
    /\ UNCHANGED <<request, candidates>>
    /\ EvaluateDeadline(candidates[i], request, now)' = "HARD_FEASIBLE"
    => EvaluateDeadline(candidates[i], request, now) = "HARD_FEASIBLE"

\* A candidate that misses an absolute deadline now misses it for good: time
\* alone never turns the verdict of evaluate_deadline back (before the largest
\* timestamp, where a past deadline and every completion time saturate alike).
LatenessIsPermanent == [][LatenessStep]_vars

\* A recovery no longer than the request's maximum duration is in time whenever
\* it starts, as long as the deadline is a time the clock can show (the sum in
\* evaluate_deadline is not saturated).
DurationFits ==
  \A i \in DOMAIN candidates :
    /\ request.recovery_deadline = Unknown
    /\ request.max_recovery_duration # Unknown
    /\ now + request.max_recovery_duration <= MaxInt
    /\ ExpectedTime(candidates[i]) # Unknown
    /\ NonNegative(ExpectedTime(candidates[i])) <= request.max_recovery_duration
    => EvaluateDeadline(candidates[i], request, now) = "HARD_FEASIBLE"

=============================================================================
