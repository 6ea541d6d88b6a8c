------------------------------ MODULE Economics ------------------------------
(***************************************************************************)
(* Recovery economics (economics.cpp): the deadline verdict on a           *)
(* candidate, the objectives it is ranked by, and the ranking order.       *)
(* Times and durations are 64-bit in the code; here they are as wide as    *)
(* the constant MaxInt says.                                               *)
(***************************************************************************)
EXTENDS Integers

CONSTANTS
  Unknown,          \* an empty std::optional
  MaxInt,           \* INT64_MAX
  ClampDropped      \* the build folded away `dl < now` for a relative deadline

ASSUME EconomicsAssumption ==
  /\ Unknown \notin Int
  /\ MaxInt \in Nat \ {0}
  /\ ClampDropped \in BOOLEAN

MinInt == -MaxInt - 1
Word   == MinInt..MaxInt

Strategy == 0..6     \* RecoveryStrategy, in the order of the enum

\* The evidence that economics reads; cost {} is absent cost evidence.
CostEvidence ==
  [expected_time: Word \cup {Unknown},
   expected_preserved_progress: Nat \cup {Unknown},
   expected_lost_progress: Nat \cup {Unknown},
   cost_units: Nat \cup {Unknown},
   failover_domain_risk: Nat]

-----------------------------------------------------------------------------

\* Mutant: the addition wraps.
AddWithoutSaturation(a, b) == ((a + b - MinInt) % (2 * (MaxInt + 1))) + MinInt

(***************************************************************************)
(* Deadlines.                                                              *)
(***************************************************************************)
SatAdd(a, b) ==
  IF b > 0 /\ a > MaxInt - b THEN MaxInt
  ELSE IF b < 0 /\ a < MinInt - b THEN MinInt
  ELSE a + b

SatSub(a, b) ==
  IF b > 0 /\ a < MinInt + b THEN MinInt
  ELSE IF b < 0 /\ a > MaxInt + b THEN MaxInt
  ELSE a - b

\* Mutant: the sum is wider than the word.
AddUnbounded(a, b) == a + b

\* now.value() + max_recovery_duration: a plain addition, which wraps.
WrapAdd(a, b) == ((a + b - MinInt) % (2 * (MaxInt + 1))) + MinInt

\* Mutant: the duration is taken for a point in time.
DeadlineFromZero(req, now) ==
  IF req.recovery_deadline # Unknown THEN req.recovery_deadline
  ELSE req.max_recovery_duration

Deadline(req, now) ==
  IF req.recovery_deadline # Unknown THEN req.recovery_deadline
  ELSE IF req.max_recovery_duration # Unknown
       THEN WrapAdd(now, req.max_recovery_duration)
       ELSE Unknown

ExpectedTime(c) ==
  IF c.cost = {} THEN Unknown ELSE (CHOOSE k \in c.cost : TRUE).expected_time

NonNegative(t) == IF t < 0 THEN 0 ELSE t

\* A past deadline counts as now.  Signed overflow is undefined: a build may
\* decide that now + d < now exactly when d < 0.
EffectiveDeadline(req, now) ==
  LET dl == Deadline(req, now)
      past == IF ClampDropped /\ req.recovery_deadline = Unknown
              THEN req.max_recovery_duration < 0
              ELSE dl < now
  IN IF past THEN now ELSE dl

Slack(c, req, now) ==
  SatSub(EffectiveDeadline(req, now), SatAdd(now, NonNegative(ExpectedTime(c))))

\* evaluate_deadline's outcome.
EvaluateDeadline(c, req, now) ==
  IF Deadline(req, now) = Unknown THEN "NO_DEADLINE"
  ELSE IF ExpectedTime(c) = Unknown THEN "UNKNOWN"
  ELSE IF Slack(c, req, now) >= 0 THEN "HARD_FEASIBLE" ELSE "VIOLATED"

-----------------------------------------------------------------------------
(***************************************************************************)
(* Objectives.                                                             *)
(***************************************************************************)
NoCost == [expected_time |-> Unknown, expected_preserved_progress |-> Unknown,
           expected_lost_progress |-> Unknown, cost_units |-> Unknown,
           failover_domain_risk |-> 0]

\* The part of compute_economics that ranking and eligibility read.
ComputeEconomics(c, req) ==
  LET k == IF c.cost = {} THEN NoCost ELSE CHOOSE x \in c.cost : TRUE
      tolerance == req.max_tolerated_progress_loss
  IN [expected_time |-> k.expected_time,
      expected_preserved_progress |-> k.expected_preserved_progress,
      expected_lost_progress |-> k.expected_lost_progress,
      cost_units |-> k.cost_units,
      failover_domain_risk |-> k.failover_domain_risk,
      progress_loss_within_tolerance |->
        IF tolerance # Unknown /\ k.expected_lost_progress # Unknown
        THEN k.expected_lost_progress <= tolerance
        ELSE TRUE,
      confidence |-> IF c.cost = {} THEN 0 ELSE c.authority_confidence]

-----------------------------------------------------------------------------
(***************************************************************************)
(* Ranking.                                                                *)
(***************************************************************************)

\* Mutant: an unknown value is not comparable.
LowerOfKnown(a, b) == a # Unknown /\ b # Unknown /\ a < b

\* cmp_lower_better(a, b) < 0.  cmp_higher_better(a, b) is
\* cmp_lower_better(b, a).
Lower(a, b) == a # Unknown /\ (b = Unknown \/ a < b)

\* Lexicographic composition: the first comparison that is not a tie decides.
Then(better, tie, rest) == better \/ (tie /\ rest)

\* Mutant: an unknown preserved progress ties with every other.
PrecedesUnknownTies(l, r, le, re) ==
  Then(/\ le.expected_preserved_progress # Unknown
       /\ Lower(re.expected_preserved_progress, le.expected_preserved_progress),
       \/ Unknown \in {le.expected_preserved_progress, re.expected_preserved_progress}
       \/ le.expected_preserved_progress = re.expected_preserved_progress,
  Then(Lower(le.expected_lost_progress, re.expected_lost_progress),
       le.expected_lost_progress = re.expected_lost_progress,
  Then(Lower(le.expected_time, re.expected_time), le.expected_time = re.expected_time,
       l.candidate_id < r.candidate_id)))

\* Mutant: the less confident estimate comes first.
PrecedesLessConfident(l, r, le, re) ==
  Then(Lower(re.expected_preserved_progress, le.expected_preserved_progress),
       re.expected_preserved_progress = le.expected_preserved_progress,
  Then(Lower(le.cost_units, re.cost_units), le.cost_units = re.cost_units,
  Then(le.failover_domain_risk < re.failover_domain_risk,
       le.failover_domain_risk = re.failover_domain_risk,
  Then(le.confidence < re.confidence, le.confidence = re.confidence,
       l.candidate_id < r.candidate_id))))

\* candidate_precedes(lhs, rhs, le, re).
CandidatePrecedes(l, r, le, re) ==
  Then(Lower(re.expected_preserved_progress, le.expected_preserved_progress),
       re.expected_preserved_progress = le.expected_preserved_progress,
  Then(Lower(le.expected_lost_progress, re.expected_lost_progress),
       le.expected_lost_progress = re.expected_lost_progress,
  Then(Lower(le.expected_time, re.expected_time), le.expected_time = re.expected_time,
  Then(Lower(le.cost_units, re.cost_units), le.cost_units = re.cost_units,
  Then(le.failover_domain_risk < re.failover_domain_risk,
       le.failover_domain_risk = re.failover_domain_risk,
  Then(le.confidence > re.confidence, le.confidence = re.confidence,
  Then(l.candidate_id < r.candidate_id, l.candidate_id = r.candidate_id,
  Then(l.generation < r.generation, l.generation = r.generation,
       l.strategy < r.strategy))))))))

=============================================================================
