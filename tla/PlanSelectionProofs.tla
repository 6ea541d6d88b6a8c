------------------------- MODULE PlanSelectionProofs -------------------------
(***************************************************************************)
(* plan()'s decision, for every set of requests and candidate vectors and  *)
(* every width of the integers: some candidate wins and only one can, none *)
(* dominates it, a PLAN_FOUND keeps the hard constraints, and the deadline *)
(* verdict is in line with the clock.                                      *)
(***************************************************************************)
EXTENDS PlanSelection, FiniteSetTheorems, WellFoundedInduction, TLAPS

Optional(S) == S \cup {Unknown}

\* The objectives that candidate_precedes compares.
Rankable(e) ==
  /\ e.expected_time \in Optional(Int)
  /\ e.expected_preserved_progress \in Optional(Int)
  /\ e.expected_lost_progress \in Optional(Int)
  /\ e.cost_units \in Optional(Int)
  /\ e.failover_domain_risk \in Int
  /\ e.confidence \in Int

-----------------------------------------------------------------------------
(***************************************************************************)
(* Lower (cmp_lower_better) is a strict total order in which Unknown comes *)
(* last, and candidate_precedes is total and asymmetric on distinct ids.   *)
(***************************************************************************)

\* Of two different values one is the lower.
LEMMA LowerTotal ==
  \A a, b \in Optional(Int) : a = b \/ Lower(a, b) \/ Lower(b, a)
  BY EconomicsAssumption DEF Lower, Optional

\* Neither is both lower and higher.
LEMMA LowerAsymmetric == \A a, b \in Optional(Int) : ~(Lower(a, b) /\ Lower(b, a))
  BY EconomicsAssumption DEF Lower, Optional

\* Lower is transitive.
LEMMA LowerTransitive ==
  \A a, b, c \in Optional(Int) : Lower(a, b) /\ Lower(b, c) => Lower(a, c)
  BY EconomicsAssumption DEF Lower, Optional

\* candidate_precedes never holds both ways.
THEOREM PrecedesAsymmetric ==
  ASSUME NEW l \in RecoveryCandidate, NEW r \in RecoveryCandidate,
         NEW le, NEW re, Rankable(le), Rankable(re)
  PROVE  ~(CandidatePrecedes(l, r, le, re) /\ CandidatePrecedes(r, l, re, le))
  BY LowerAsymmetric
     DEF CandidatePrecedes, Then, Rankable, RecoveryCandidate, Strategy

\* Of two candidates with different ids one precedes the other.
THEOREM PrecedesTotal ==
  ASSUME NEW l \in RecoveryCandidate, NEW r \in RecoveryCandidate,
         l.candidate_id # r.candidate_id,
         NEW le, NEW re, Rankable(le), Rankable(re)
  PROVE  CandidatePrecedes(l, r, le, re) \/ CandidatePrecedes(r, l, re, le)
  BY LowerTotal DEF CandidatePrecedes, Then, Rankable, RecoveryCandidate

\* candidate_precedes is transitive.
THEOREM PrecedesTransitive ==
  ASSUME NEW a \in RecoveryCandidate, NEW b \in RecoveryCandidate,
         NEW c \in RecoveryCandidate,
         NEW ae, NEW be, NEW ce, Rankable(ae), Rankable(be), Rankable(ce),
         CandidatePrecedes(a, b, ae, be),
         CandidatePrecedes(b, c, be, ce)
  PROVE  CandidatePrecedes(a, c, ae, ce)
  BY LowerTransitive
     DEF CandidatePrecedes, Then, Rankable, RecoveryCandidate, Strategy

-----------------------------------------------------------------------------
(***************************************************************************)
(* The values that a candidate's economics take.                           *)
(***************************************************************************)

\* compute_economics gives every candidate objectives that can be compared.
LEMMA EconomicsRankable ==
  ASSUME NEW c \in RecoveryCandidate, NEW req \in RecoveryRequest
  PROVE  Rankable(ComputeEconomics(c, req))
<1> DEFINE k == IF c.cost = {} THEN NoCost ELSE CHOOSE x \in c.cost : TRUE
           e == ComputeEconomics(c, req)
<1>1. MinInt \in Int /\ MaxInt \in Int
  BY EconomicsAssumption DEF MinInt
<1>2. /\ k.expected_time \in Optional(Int)
      /\ k.expected_preserved_progress \in Optional(Int)
      /\ k.expected_lost_progress \in Optional(Int)
      /\ k.cost_units \in Optional(Int)
      /\ k.failover_domain_risk \in Int
  <2>1. CASE c.cost = {}
    BY <2>1 DEF NoCost, Optional
  <2>2. CASE c.cost # {}
    <3>1. k \in c.cost
      BY <2>2
    <3>2. k \in CostEvidence
      BY <3>1 DEF RecoveryCandidate
    <3> QED
      BY <3>2, <1>1 DEF CostEvidence, Optional, Word
  <2> QED
    BY <2>1, <2>2
<1>3. (IF c.cost = {} THEN 0 ELSE c.authority_confidence) \in Int
  BY DEF RecoveryCandidate
<1>4. /\ e.expected_time = k.expected_time
      /\ e.expected_preserved_progress = k.expected_preserved_progress
      /\ e.expected_lost_progress = k.expected_lost_progress
      /\ e.cost_units = k.cost_units
      /\ e.failover_domain_risk = k.failover_domain_risk
      /\ e.confidence = IF c.cost = {} THEN 0 ELSE c.authority_confidence
  BY DEF ComputeEconomics
<1> HIDE DEF k, e
<1>5. Rankable(e)
  BY <1>2, <1>3, <1>4 DEF Rankable
<1> QED
  BY <1>5 DEF e

-----------------------------------------------------------------------------
(***************************************************************************)
(* One winner.                                                             *)
(***************************************************************************)

\* What plan() was last asked stays well-typed.
InputsOK ==
  /\ request \in RecoveryRequest
  /\ candidates \in Seq(RecoveryCandidate)

\* The inputs of a decision are the caller's, and nothing changes them later.
LEMMA InputsTyped == Spec => []InputsOK
<1>1. Init => InputsOK
  BY DEF Init, InputsOK, NoRequest, RecoveryRequest
<1>2. InputsOK /\ [Next]_vars => InputsOK'
  <2> SUFFICES ASSUME InputsOK, [Next]_vars PROVE InputsOK'
    OBVIOUS
  <2>1. ASSUME NEW problem \in Problems, PlanRecovery(problem[1], problem[2])
        PROVE  InputsOK'
    BY <2>1, SelectionAssumption DEF PlanRecovery, InputsOK
  <2>2. CASE Tick \/ UNCHANGED vars
    BY <2>2 DEF Tick, vars, InputsOK
  <2> QED
    BY <2>1, <2>2 DEF Next
<1> QED
  BY <1>1, <1>2, PTL DEF Spec

\* Whatever competes, two candidates with different ids never both come first.
LEMMA FrontUnique == InputsOK => WinnerIsUnique
<1> SUFFICES ASSUME InputsOK, DistinctIds(candidates),
                    NEW pool \in SUBSET DOMAIN candidates,
                    NEW i \in Front(candidates, request, pool),
                    NEW j \in Front(candidates, request, pool),
                    i # j
             PROVE  FALSE
  BY DEF WinnerIsUnique
<1>1. /\ i \in DOMAIN candidates /\ j \in DOMAIN candidates
      /\ ~Precedes(candidates, request, j, i)
      /\ ~Precedes(candidates, request, i, j)
  BY DEF Front
<1>2. candidates[i] \in RecoveryCandidate /\ candidates[j] \in RecoveryCandidate
  BY <1>1 DEF InputsOK
<1>3. candidates[i].candidate_id # candidates[j].candidate_id
  BY <1>1 DEF DistinctIds
<1>4. /\ Rankable(ComputeEconomics(candidates[i], request))
      /\ Rankable(ComputeEconomics(candidates[j], request))
  BY <1>2, EconomicsRankable DEF InputsOK
<1>5. Precedes(candidates, request, i, j) \/ Precedes(candidates, request, j, i)
  BY <1>2, <1>3, <1>4, PrecedesTotal DEF Precedes
<1> QED
  BY <1>1, <1>5

\* The winner of plan() never depends on the order of the candidate vector:
\* in every reachable state at most one candidate of any pool comes first.
THEOREM UniqueWinner == Spec => []WinnerIsUnique
  BY InputsTyped, FrontUnique, PTL

-----------------------------------------------------------------------------
(***************************************************************************)
(* The hard constraints.  The inductive invariant says that the selected   *)
(* candidate was eligible at the time the plan was created.                *)
(***************************************************************************)
SelectedWasEligible ==
  decision.outcome = "PLAN_FOUND" =>
    /\ "created_at" \in DOMAIN plan
    /\ plan.created_at \in Word
    /\ decision.selected \in Eligible(candidates, request, plan.created_at)

SelectionInv == InputsOK /\ now \in Word /\ SelectedWasEligible

\* A front candidate is one of the pool.
LEMMA FrontInPool ==
  ASSUME NEW cs, NEW req, NEW idx, NEW i \in Front(cs, req, idx)
  PROVE  i \in idx
  BY DEF Front

\* plan() selects an eligible candidate whenever it reports PLAN_FOUND.
LEMMA PlanSelectsEligible ==
  ASSUME NEW req, NEW cs, now \in Word,
         PlanRecovery(req, cs)
  PROVE  SelectedWasEligible'
<1> SUFFICES ASSUME decision'.outcome = "PLAN_FOUND"
             PROVE  /\ "created_at" \in DOMAIN plan'
                    /\ plan'.created_at \in Word
                    /\ decision'.selected \in Eligible(cs, req, plan'.created_at)
  BY DEF SelectedWasEligible, PlanRecovery
<1>1. decision'.outcome = OutcomeOf(cs, req, now)
  BY DEF PlanRecovery
<1>2. Eligible(cs, req, now) # {}
  BY <1>1 DEF OutcomeOf
<1>3. Pool(cs, req, now) = Eligible(cs, req, now)
  BY <1>2 DEF Pool
<1>4. PICK best \in Front(cs, req, Pool(cs, req, now)) :
        /\ decision' = [outcome |-> OutcomeOf(cs, req, now), selected |-> best]
        /\ plan' = BuildPlan(cs[best], req)
  BY <1>2, <1>3 DEF PlanRecovery
<1>5. best \in Eligible(cs, req, now)
  BY <1>3, <1>4, FrontInPool
<1>6. "created_at" \in DOMAIN plan' /\ plan'.created_at = now
  BY <1>4 DEF BuildPlan
<1> QED
  BY <1>4, <1>5, <1>6

\* The selected candidate stays the one that was eligible, for good.
LEMMA EligibleInvariant == Spec => []SelectionInv
<1>1. Init => SelectionInv
  BY SelectionAssumption
     DEF Init, SelectionInv, InputsOK, NoRequest, RecoveryRequest,
         SelectedWasEligible, NoDecision
<1>2. SelectionInv /\ [Next]_vars => SelectionInv'
  <2> SUFFICES ASSUME SelectionInv, [Next]_vars PROVE SelectionInv'
    OBVIOUS
  <2> USE DEF SelectionInv
  <2>1. ASSUME NEW problem \in Problems, PlanRecovery(problem[1], problem[2])
        PROVE  SelectionInv'
    <3>1. SelectedWasEligible'
      BY <2>1, PlanSelectsEligible
    <3>2. InputsOK' /\ now' \in Word
      BY <2>1, SelectionAssumption DEF PlanRecovery, InputsOK
    <3> QED
      BY <3>1, <3>2
  <2>2. CASE Tick
    <3>1. now' \in Word
      BY <2>2, SelectionAssumption, EconomicsAssumption DEF Tick, Word, MinInt
    <3> QED
      BY <2>2, <3>1 DEF Tick, SelectedWasEligible, InputsOK
  <2>3. CASE UNCHANGED vars
    BY <2>3 DEF vars, SelectedWasEligible, InputsOK
  <2> QED
    BY <2>1, <2>2, <2>3 DEF Next
<1> QED
  BY <1>1, <1>2, PTL DEF Spec

\* The expected time of a candidate is a duration or unknown.
LEMMA ExpectedTimeType ==
  ASSUME NEW c \in RecoveryCandidate
  PROVE  ExpectedTime(c) \in Word \cup {Unknown}
<1>1. CASE c.cost = {}
  BY <1>1 DEF ExpectedTime
<1>2. CASE c.cost # {}
  <2>1. (CHOOSE k \in c.cost : TRUE) \in CostEvidence
    BY <1>2 DEF RecoveryCandidate
  <2>2. (CHOOSE k \in c.cost : TRUE).expected_time \in Word \cup {Unknown}
    BY <2>1 DEF CostEvidence
  <2> QED
    BY <1>2, <2>2 DEF ExpectedTime
<1> QED
  BY <1>1, <1>2

\* What is left of a number that is at most once too large.
LEMMA ModOnce ==
  ASSUME NEW m \in Nat \ {0}, NEW x \in Int, m <= x, x < 2 * m
  PROVE  x % m = x - m
OBVIOUS

\* The sum of two words is a word, the true sum when that is a word too, and less
\* than either when the true sum is too large.
LEMMA WrapAddWord ==
  ASSUME NEW a \in Word, NEW b \in Word
  PROVE  /\ WrapAdd(a, b) \in Word
         /\ a + b \in Word => WrapAdd(a, b) = a + b
         /\ a + b > MaxInt => WrapAdd(a, b) < a
<1> DEFINE m == 2 * (MaxInt + 1)
           x == a + b - MinInt
<1>1. m \in Nat \ {0} /\ x \in Int /\ MinInt \in Int /\ a \in Int /\ b \in Int
  BY EconomicsAssumption DEF MinInt, Word
<1>2. WrapAdd(a, b) = (x % m) + MinInt
  BY DEF WrapAdd
<1>3. a + b \in Word => x \in 0..(m - 1)
  BY EconomicsAssumption DEF MinInt, Word
<1>4. m - 1 + MinInt = MaxInt
  BY EconomicsAssumption DEF MinInt
<1>5. x = a + b - MinInt
  OBVIOUS
<1> HIDE DEF m, x
<1>6. x % m \in 0..(m - 1)
  BY <1>1
<1>7. x \in 0..(m - 1) => x % m = x
  BY <1>1
<1>8. WrapAdd(a, b) \in Word
  BY <1>1, <1>2, <1>4, <1>6, EconomicsAssumption DEF Word
<1>9. a + b > MaxInt => WrapAdd(a, b) < a
  <2> SUFFICES ASSUME a + b > MaxInt PROVE WrapAdd(a, b) < a
    OBVIOUS
  <2>1. m <= x /\ x < 2 * m /\ b < m
    BY <1>1, <1>5, EconomicsAssumption DEF m, MinInt, Word
  <2>2. x % m = x - m
    BY <1>1, <2>1, ModOnce
  <2> QED
    BY <1>1, <1>2, <1>5, <2>1, <2>2
<1> QED
  BY <1>1, <1>2, <1>3, <1>5, <1>7, <1>8, <1>9

\* A slack that is not negative: the recovery ends by the deadline, or the
\* deadline is the largest timestamp.
LEMMA SlackFits ==
  ASSUME NEW dl \in Word, NEW t \in Word, NEW e \in 0..MaxInt,
         SatSub(dl, SatAdd(t, e)) >= 0
  PROVE  dl = MaxInt \/ t + e <= dl
BY EconomicsAssumption DEF SatSub, SatAdd, Word, MinInt

\* HARD_FEASIBLE means what it says: the time is known, and the recovery ends by
\* the latest end wherever something is promised.
LEMMA HardFeasibleFits ==
  ASSUME NEW c \in RecoveryCandidate, NEW req \in RecoveryRequest, NEW t \in Word,
         HardDeadline(req), EvaluateDeadline(c, req, t) = "HARD_FEASIBLE"
  PROVE  /\ ExpectedTime(c) # Unknown
         /\ \/ t + NonNegative(ExpectedTime(c)) <= LatestEnd(req, t)
            \/ NoPromise(req, t)
<1> DEFINE e   == NonNegative(ExpectedTime(c))
           dl  == EffectiveDeadline(req, t)
           d   == req.max_recovery_duration
           end == LatestEnd(req, t)
<1>1. t \in Int /\ MaxInt \in Nat \ {0} /\ MinInt = -MaxInt - 1 /\ t <= MaxInt /\ t >= MinInt
  BY EconomicsAssumption DEF Word, MinInt
<1>2. ExpectedTime(c) # Unknown
  BY DEF EvaluateDeadline
<1>3. e \in 0..MaxInt
  BY <1>2, ExpectedTimeType, EconomicsAssumption DEF NonNegative, Word, MinInt
<1>4. SatSub(dl, SatAdd(t, e)) >= 0
  BY <1>2 DEF EvaluateDeadline, Slack
<1>5. CASE req.recovery_deadline # Unknown
  <2>1. req.recovery_deadline \in Word
    BY <1>5 DEF RecoveryRequest
  <2>2. dl = end /\ dl \in Word
    BY <1>5, <2>1 DEF EffectiveDeadline, Deadline, LatestEnd
  <2>3. dl = MaxInt \/ t + e <= dl
    BY <1>3, <1>4, <2>2, SlackFits
  <2> QED
    BY <1>2, <2>2, <2>3 DEF NoPromise
<1>6. CASE req.recovery_deadline = Unknown
  <2>1. d \in Word /\ d \in Int
    BY <1>6, EconomicsAssumption DEF HardDeadline, RecoveryRequest, Word, MinInt
  <2>2. Deadline(req, t) = WrapAdd(t, d)
    BY <1>6, <2>1, EconomicsAssumption DEF Deadline, HardDeadline
  <2>3. dl \in {t, WrapAdd(t, d)} /\ dl \in Word
    BY <2>1, <2>2, WrapAddWord DEF EffectiveDeadline
  <2>4. dl = MaxInt \/ t + e <= dl
    BY <1>3, <1>4, <2>3, SlackFits
  <2>5. end = t + NonNegative(d)
    BY <1>6 DEF LatestEnd
  <2>6. WrapAdd(t, d) \in Int
    BY <2>1, WrapAddWord, EconomicsAssumption DEF Word, MinInt
  <2>7. CASE t + d < MinInt
    BY <1>2, <1>6, <2>7 DEF NoPromise
  <2>8. CASE t + d > MaxInt
    <3>1. WrapAdd(t, d) < t /\ NonNegative(d) = d /\ d > 0
      BY <1>1, <2>1, <2>8, WrapAddWord DEF NonNegative
    <3>2. dl <= t
      BY <1>1, <2>3, <2>6, <3>1
    <3>3. dl \in Int /\ e \in Int /\ e >= 0
      BY <1>1, <1>3, <2>3, <2>6
    <3> HIDE DEF dl, e
    <3>4. t = MaxInt \/ t + e <= t + d
      BY <1>1, <2>1, <2>4, <3>1, <3>2, <3>3
    <3> QED
      BY <1>2, <2>5, <3>1, <3>4 DEF NoPromise, e
  <2>9. CASE t + d \in Word
    <3>1. WrapAdd(t, d) = t + d
      BY <2>1, <2>9, WrapAddWord
    <3>2. dl <= t + NonNegative(d) /\ dl \in Int
      BY <1>1, <2>1, <2>3, <3>1 DEF NonNegative
    <3>3. t + NonNegative(d) \in Word
      BY <1>1, <2>1, <2>9 DEF NonNegative, Word
    <3>4. e \in Int /\ t + NonNegative(d) <= MaxInt /\ t + NonNegative(d) \in Int
      BY <1>1, <1>3, <3>3 DEF Word
    <3> HIDE DEF dl, e
    <3>5. t + NonNegative(d) = MaxInt \/ t + e <= t + NonNegative(d)
      BY <1>1, <2>4, <3>2, <3>4
    <3> QED
      BY <1>2, <2>5, <3>5 DEF NoPromise, e
  <2> QED
    BY <1>1, <2>1, <2>7, <2>8, <2>9 DEF Word
<1> QED
  BY <1>5, <1>6

\* PLAN_FOUND keeps the request's hard constraints for every request, candidate
\* vector, clock value and integer width, within the limits HardConstraintsKept
\* names: the largest timestamp and a sum below the word promise nothing, a past
\* deadline counts as now, and only a known loss is held against the tolerance.
THEOREM HardConstraints == Spec => []HardConstraintsKept
<1>1. SelectionInv => HardConstraintsKept
  <2> SUFFICES ASSUME SelectionInv, decision.outcome = "PLAN_FOUND"
               PROVE  HardConstraintsKept
    BY DEF HardConstraintsKept
  <2> DEFINE c == candidates[decision.selected]
             loss == Economy(decision.selected).expected_lost_progress
  <2>1. /\ decision.selected \in DOMAIN candidates
        /\ DeadlineOK(c, request, plan.created_at)
        /\ ProgressOK(c, request)
        /\ plan.created_at \in Word
    BY DEF SelectionInv, SelectedWasEligible, Eligible, FeasibleIdx
  <2>2. c \in RecoveryCandidate /\ request \in RecoveryRequest
    BY <2>1 DEF SelectionInv, InputsOK
  <2>3. ASSUME HardDeadline(request)
        PROVE  /\ ExpectedTime(c) # Unknown
               /\ \/ plan.created_at + NonNegative(ExpectedTime(c))
                        <= LatestEnd(request, plan.created_at)
                  \/ NoPromise(request, plan.created_at)
    <3>1. EvaluateDeadline(c, request, plan.created_at) = "HARD_FEASIBLE"
      BY <2>1, <2>3 DEF DeadlineOK
    <3> QED
      BY <2>1, <2>2, <2>3, <3>1, HardFeasibleFits
  <2>4. ASSUME HardProgress(request), loss # Unknown
        PROVE  loss <= request.max_tolerated_progress_loss
    BY <2>1, <2>4 DEF ProgressOK, HardProgress, ComputeEconomics, Economy
  <2> QED
    BY <2>3, <2>4 DEF HardConstraintsKept
<1> QED
  BY <1>1, EligibleInvariant, PTL

-----------------------------------------------------------------------------
(***************************************************************************)
(* Some winner.  Every candidate of a pool has finitely many predecessors  *)
(* in it; one with the fewest has none, for a predecessor has fewer.       *)
(***************************************************************************)
Before(cs, req, pool, i) == {j \in pool : Precedes(cs, req, j, i)}

\* A nonempty set of naturals has a least element.
LEMMA LeastNatural ==
  ASSUME NEW T \in SUBSET Nat, T # {}
  PROVE  \E m \in T : \A n \in T : m <= n
<1> DEFINE less == OpToRel(<, Nat)
<1>1. IsWellFoundedOn(less, Nat)
  BY NatLessThanWellFounded
<1>2. \A n, m \in Nat : n < m => <<n, m>> \in less
  BY DEF OpToRel
<1> HIDE DEF less
<1>3. PICK m \in T : \A n \in T : ~(<<n, m>> \in less)
  BY <1>1, WFMin
<1>4. \A n \in T : m \in Nat /\ n \in Nat /\ ~(n < m)
  BY <1>2, <1>3
<1> QED
  BY <1>4

\* Precedes is a strict partial order on the candidates of a vector.
LEMMA PrecedesStrict ==
  ASSUME InputsOK,
         NEW i \in DOMAIN candidates, NEW j \in DOMAIN candidates,
         NEW k \in DOMAIN candidates
  PROVE  /\ ~Precedes(candidates, request, i, i)
         /\ Precedes(candidates, request, i, j) /\ Precedes(candidates, request, j, k)
              => Precedes(candidates, request, i, k)
<1>1. /\ candidates[i] \in RecoveryCandidate
      /\ candidates[j] \in RecoveryCandidate
      /\ candidates[k] \in RecoveryCandidate
      /\ request \in RecoveryRequest
  BY DEF InputsOK
<1>2. /\ Rankable(ComputeEconomics(candidates[i], request))
      /\ Rankable(ComputeEconomics(candidates[j], request))
      /\ Rankable(ComputeEconomics(candidates[k], request))
  BY <1>1, EconomicsRankable
<1>3. ~Precedes(candidates, request, i, i)
  BY <1>1, <1>2, PrecedesAsymmetric DEF Precedes
<1>4. Precedes(candidates, request, i, j) /\ Precedes(candidates, request, j, k)
        => Precedes(candidates, request, i, k)
  BY <1>1, <1>2, PrecedesTransitive DEF Precedes
<1> QED
  BY <1>3, <1>4

\* Some candidate of a nonempty pool has no predecessor.
LEMMA FrontExists == InputsOK => WinnerExists
<1> SUFFICES ASSUME InputsOK,
                    NEW pool \in SUBSET DOMAIN candidates, pool # {}
             PROVE  Front(candidates, request, pool) # {}
  BY DEF WinnerExists
<1> DEFINE P(i) == Before(candidates, request, pool, i)
           sizes == {Cardinality(P(i)) : i \in pool}
<1>1. IsFiniteSet(pool)
  <2>1. DOMAIN candidates = 1..Len(candidates) /\ Len(candidates) \in Int
    BY DEF InputsOK
  <2>2. IsFiniteSet(1..Len(candidates))
    BY <2>1, FS_Interval
  <2> QED
    BY <2>1, <2>2, FS_Subset
<1>2. \A i \in pool : IsFiniteSet(P(i)) /\ Cardinality(P(i)) \in Nat
  <2> SUFFICES ASSUME NEW i \in pool
               PROVE  IsFiniteSet(P(i)) /\ Cardinality(P(i)) \in Nat
    OBVIOUS
  <2>1. P(i) \in SUBSET pool
    BY DEF Before
  <2>2. IsFiniteSet(P(i))
    BY <1>1, <2>1, FS_Subset
  <2> QED
    BY <2>2, FS_CardinalityType
<1>3. ASSUME NEW i \in pool, NEW j \in P(i)
      PROVE  Cardinality(P(j)) < Cardinality(P(i))
  <2>1. j \in pool /\ Precedes(candidates, request, j, i)
    BY <1>3 DEF Before
  <2>2. P(j) \in SUBSET P(i)
    <3> SUFFICES ASSUME NEW k \in P(j) PROVE k \in P(i)
      OBVIOUS
    <3>1. k \in pool /\ Precedes(candidates, request, k, j)
      BY DEF Before
    <3>2. Precedes(candidates, request, k, i)
      BY <2>1, <3>1, PrecedesStrict
    <3> QED
      BY <3>1, <3>2 DEF Before
  <2>3. j \notin P(j)
    BY <2>1, PrecedesStrict DEF Before
  <2>4. P(j) # P(i)
    BY <1>3, <2>3
  <2>5. /\ Cardinality(P(j)) <= Cardinality(P(i))
        /\ Cardinality(P(i)) = Cardinality(P(j)) => P(i) = P(j)
    BY <1>2, <2>2, FS_Subset
  <2>6. Cardinality(P(j)) \in Nat /\ Cardinality(P(i)) \in Nat
    BY <1>2, <2>1
  <2> HIDE DEF P
  <2> QED
    BY <2>4, <2>5, <2>6
<1> HIDE DEF P
<1>4. sizes \in SUBSET Nat /\ sizes # {}
  BY <1>2
<1>5. PICK m \in sizes : \A n \in sizes : m <= n
  BY <1>4, LeastNatural
<1>6. PICK i \in pool : m = Cardinality(P(i))
  BY <1>5
<1>7. P(i) = {}
  <2> SUFFICES ASSUME NEW j \in P(i) PROVE FALSE
    OBVIOUS
  <2>1. j \in pool
    BY DEF P, Before
  <2>2. Cardinality(P(i)) <= Cardinality(P(j))
    BY <1>5, <1>6, <2>1
  <2>3. Cardinality(P(j)) < Cardinality(P(i))
    BY <1>3
  <2> QED
    BY <1>2, <2>1, <2>2, <2>3
<1>8. i \in Front(candidates, request, pool)
  BY <1>7 DEF P, Before, Front
<1> QED
  BY <1>8

\* plan() always has a candidate to select: in every reachable state some
\* candidate of every nonempty pool comes first, so that the one std::sort puts
\* there is a minimum of candidate_precedes.
THEOREM WinnerFound == Spec => []WinnerExists
  BY InputsTyped, FrontExists, PTL

-----------------------------------------------------------------------------
(***************************************************************************)
(* The best of the pool.  The inductive invariant says that the selected   *)
(* candidate came first among those that competed when the plan was made.  *)
(***************************************************************************)
SelectedCameFirst ==
  decision.selected # 0 =>
    decision.selected \in
      Front(candidates, request, Pool(candidates, request, plan.created_at))

\* The selected candidate stays the first of its pool.
LEMMA FirstInvariant == Spec => []SelectedCameFirst
<1>1. Init => SelectedCameFirst
  BY DEF Init, SelectedCameFirst, NoDecision
<1>2. SelectedCameFirst /\ [Next]_vars => SelectedCameFirst'
  <2> SUFFICES ASSUME SelectedCameFirst, [Next]_vars PROVE SelectedCameFirst'
    OBVIOUS
  <2>1. ASSUME NEW problem \in Problems, PlanRecovery(problem[1], problem[2])
        PROVE  SelectedCameFirst'
    <3> DEFINE req == problem[1]
               cs == problem[2]
    <3>1. request' = req /\ candidates' = cs
      BY <2>1 DEF PlanRecovery
    <3>2. CASE Pool(cs, req, now) = {}
      <4>1. decision'.selected = 0
        BY <2>1, <3>2 DEF PlanRecovery
      <4> QED
        BY <4>1 DEF SelectedCameFirst
    <3>3. CASE Pool(cs, req, now) # {}
      <4>1. PICK best \in Front(cs, req, Pool(cs, req, now)) :
              /\ decision' = [outcome |-> OutcomeOf(cs, req, now), selected |-> best]
              /\ plan' = BuildPlan(cs[best], req)
        BY <2>1, <3>3 DEF PlanRecovery
      <4>2. decision'.selected = best /\ plan'.created_at = now
        BY <4>1 DEF BuildPlan
      <4> QED
        BY <3>1, <4>1, <4>2 DEF SelectedCameFirst
    <3> QED
      BY <3>2, <3>3
  <2>2. CASE Tick \/ UNCHANGED vars
    BY <2>2 DEF Tick, vars, SelectedCameFirst
  <2> QED
    BY <2>1, <2>2 DEF Next
<1> QED
  BY <1>1, <1>2, PTL DEF Spec

\* A value no worse than another and different from it is the lower.
LEMMA NoWorseLower ==
  \A a, b \in Optional(Int) : NoWorse(a, b) => a = b \/ Lower(a, b)
  BY EconomicsAssumption DEF NoWorse, Lower, Optional

\* A candidate whose economics dominate another's precedes it.
LEMMA DominatesPrecedes ==
  ASSUME NEW l \in RecoveryCandidate, NEW r \in RecoveryCandidate,
         NEW req \in RecoveryRequest,
         Dominates(ComputeEconomics(l, req), ComputeEconomics(r, req))
  PROVE  CandidatePrecedes(l, r, ComputeEconomics(l, req), ComputeEconomics(r, req))
<1> DEFINE a == ComputeEconomics(l, req)
           b == ComputeEconomics(r, req)
<1>1. Rankable(a) /\ Rankable(b)
  BY EconomicsRankable
<1>2. \/ a.expected_preserved_progress # b.expected_preserved_progress
      \/ a.expected_lost_progress # b.expected_lost_progress
      \/ a.expected_time # b.expected_time
      \/ a.cost_units # b.cost_units
      \/ a.failover_domain_risk # b.failover_domain_risk
      \/ a.confidence # b.confidence
  <2>1. a # b
    BY DEF Dominates
  <2> QED
    BY <2>1 DEF ComputeEconomics
<1> HIDE DEF a, b
<1>3. Dominates(a, b)
  BY DEF a, b
<1>4. Lower(b.expected_preserved_progress, a.expected_preserved_progress)
        \/ a.expected_preserved_progress = b.expected_preserved_progress
  BY <1>1, <1>3, EconomicsAssumption DEF Dominates, Rankable, Lower, Optional
<1>5. /\ a.expected_lost_progress = b.expected_lost_progress
           \/ Lower(a.expected_lost_progress, b.expected_lost_progress)
      /\ a.expected_time = b.expected_time \/ Lower(a.expected_time, b.expected_time)
      /\ a.cost_units = b.cost_units \/ Lower(a.cost_units, b.cost_units)
  BY <1>1, <1>3, NoWorseLower DEF Dominates, Rankable
<1>6. /\ a.failover_domain_risk = b.failover_domain_risk
           \/ a.failover_domain_risk < b.failover_domain_risk
      /\ a.confidence = b.confidence \/ a.confidence > b.confidence
  BY <1>1, <1>3 DEF Dominates, Rankable
<1>7. CandidatePrecedes(l, r, a, b)
  BY <1>2, <1>4, <1>5, <1>6 DEF CandidatePrecedes, Then
<1> QED
  BY <1>7 DEF a, b

\* plan() never chooses a candidate when another that competed was at least as
\* good in every objective and better in one.
THEOREM Undominated == Spec => []WinnerIsUndominated
<1>1. InputsOK /\ SelectedCameFirst => WinnerIsUndominated
  <2> SUFFICES ASSUME InputsOK, SelectedCameFirst, decision.selected # 0,
                      NEW i \in Pool(candidates, request, plan.created_at),
                      Dominates(Economy(i), Economy(decision.selected))
               PROVE  FALSE
    BY DEF WinnerIsUndominated
  <2> DEFINE pool == Pool(candidates, request, plan.created_at)
             best == decision.selected
  <2>1. best \in pool /\ ~Precedes(candidates, request, i, best)
    BY DEF SelectedCameFirst, Front
  <2>2. i \in DOMAIN candidates /\ best \in DOMAIN candidates
    BY <2>1 DEF Pool, Eligible, FeasibleIdx
  <2>3. /\ candidates[i] \in RecoveryCandidate
        /\ candidates[best] \in RecoveryCandidate
        /\ request \in RecoveryRequest
    BY <2>2 DEF InputsOK
  <2>4. Precedes(candidates, request, i, best)
    BY <2>3, DominatesPrecedes DEF Economy, Precedes
  <2> QED
    BY <2>1, <2>4
<1> QED
  BY <1>1, InputsTyped, FirstInvariant, PTL

-----------------------------------------------------------------------------
(***************************************************************************)
(* Deadlines and the clock.                                                *)
(***************************************************************************)

\* A duration that leaves enough time gives a deadline that is met.
LEMMA DurationMet ==
  ASSUME NEW c \in RecoveryCandidate, NEW req \in RecoveryRequest, NEW t \in Word,
         req.recovery_deadline = Unknown, req.max_recovery_duration # Unknown,
         t + req.max_recovery_duration <= MaxInt,
         ExpectedTime(c) # Unknown,
         NonNegative(ExpectedTime(c)) <= req.max_recovery_duration
  PROVE  EvaluateDeadline(c, req, t) = "HARD_FEASIBLE"
<1> DEFINE d == req.max_recovery_duration
           e == NonNegative(ExpectedTime(c))
<1>1. d \in Word
  BY DEF RecoveryRequest
<1>2. e \in Nat /\ e <= d
  BY ExpectedTimeType, EconomicsAssumption DEF NonNegative, Word, MinInt
<1>3. t + d \in Word /\ t \in Int /\ d \in Nat /\ MaxInt \in Nat \ {0}
  BY <1>1, <1>2, EconomicsAssumption DEF Word, MinInt
<1>4. Deadline(req, t) = t + d
  BY <1>1, <1>3, WrapAddWord DEF Deadline
<1>5. EffectiveDeadline(req, t) = t + d
  BY <1>3, <1>4 DEF EffectiveDeadline
<1>6. Slack(c, req, t) = SatSub(t + d, SatAdd(t, e))
  BY <1>5 DEF Slack
<1>7. t + d # Unknown
  BY <1>3, EconomicsAssumption
<1> HIDE DEF d, e
<1>8. SatSub(t + d, SatAdd(t, e)) >= 0
  <2>1. SatAdd(t, e) = t + e
    BY <1>2, <1>3, EconomicsAssumption DEF SatAdd, d, e, Word, MinInt
  <2>2. t + d >= t + e /\ t + d \in Int /\ t + e \in Int
    BY <1>2, <1>3
  <2> QED
    BY <1>3, <2>1, <2>2 DEF SatSub, MinInt
<1> QED
  BY <1>4, <1>6, <1>7, <1>8 DEF EvaluateDeadline

\* A recovery no longer than the maximum duration is never turned down, at any
\* time of planning, unless the sum now + max_recovery_duration overflows.
THEOREM DurationKept == Spec => []DurationFits
<1>1. SelectionInv => DurationFits
  BY DurationMet DEF SelectionInv, InputsOK, DurationFits
<1> QED
  BY <1>1, EligibleInvariant, PTL

\* An absolute deadline that is met later was met before, below the largest
\* timestamp.
LEMMA LaterIsLater ==
  ASSUME NEW c \in RecoveryCandidate, NEW req \in RecoveryRequest,
         NEW t \in Word, t + 1 < MaxInt,
         req.recovery_deadline # Unknown,
         EvaluateDeadline(c, req, t + 1) = "HARD_FEASIBLE"
  PROVE  EvaluateDeadline(c, req, t) = "HARD_FEASIBLE"
<1> DEFINE dl == req.recovery_deadline
           e  == NonNegative(ExpectedTime(c))
           at(u) == IF dl < u THEN u ELSE dl
<1>1. dl \in Word
  BY DEF RecoveryRequest
<1>2. ExpectedTime(c) # Unknown
  BY DEF EvaluateDeadline
<1>3. e \in 0..MaxInt
  BY <1>2, ExpectedTimeType, EconomicsAssumption DEF NonNegative, Word, MinInt
<1>4. t \in Int /\ t >= MinInt /\ MaxInt \in Nat \ {0} /\ MinInt = -MaxInt - 1
  BY EconomicsAssumption DEF Word, MinInt
<1>5. \A u \in Int : /\ Deadline(req, u) = dl
                     /\ Slack(c, req, u) = SatSub(at(u), SatAdd(u, e))
  BY DEF Deadline, EffectiveDeadline, Slack
<1>6. SatSub(at(t + 1), SatAdd(t + 1, e)) >= 0
  <2>1. t + 1 \in Int
    BY <1>4
  <2> QED
    BY <1>2, <1>5, <2>1 DEF EvaluateDeadline
<1> HIDE DEF e, dl
<1>7. SatSub(at(t), SatAdd(t, e)) >= 0
  BY <1>1, <1>3, <1>4, <1>6 DEF SatSub, SatAdd, Word
<1> QED
  BY <1>2, <1>4, <1>5, <1>7 DEF EvaluateDeadline, dl

\* Time alone never turns a missed absolute deadline into a met one, as long as
\* the clock does not show the largest timestamp.
THEOREM LatenessPermanent ==
  ASSUME MaxNow < MaxInt
  PROVE  Spec => LatenessIsPermanent
<1>1. SelectionInv /\ [Next]_vars => LatenessStep \/ UNCHANGED vars
  <2> SUFFICES ASSUME SelectionInv, Next PROVE LatenessStep
    BY DEF vars
  <2> USE DEF SelectionInv
  <2>1. CASE Tick
    <3> SUFFICES ASSUME NEW i \in DOMAIN candidates,
                        request.recovery_deadline # Unknown,
                        EvaluateDeadline(candidates[i], request, now + 1) = "HARD_FEASIBLE"
                 PROVE  EvaluateDeadline(candidates[i], request, now) = "HARD_FEASIBLE"
      BY <2>1 DEF Tick, LatenessStep
    <3>1. candidates[i] \in RecoveryCandidate /\ request \in RecoveryRequest
      BY DEF InputsOK
    <3>2. now \in Word /\ now + 1 < MaxInt
      BY <2>1, SelectionAssumption, EconomicsAssumption DEF Tick, Word, MinInt
    <3> QED
      BY <3>1, <3>2, LaterIsLater
  <2>2. ASSUME NEW problem \in Problems, PlanRecovery(problem[1], problem[2])
        PROVE  LatenessStep
    BY <2>2 DEF PlanRecovery, LatenessStep
  <2> QED
    BY <2>1, <2>2 DEF Next
<1> QED
  BY <1>1, EligibleInvariant, PTL DEF Spec, LatenessIsPermanent

-----------------------------------------------------------------------------
(***************************************************************************)
(* Types.  Only that now is a time, the inputs were the caller's and the   *)
(* decision is about them is needed to keep them.                          *)
(***************************************************************************)

\* The plan that build_plan makes holds words and a verdict.
LEMMA BuildPlanType ==
  ASSUME NEW c \in RecoveryCandidate, NEW req \in RecoveryRequest, now \in Word
  PROVE  BuildPlan(c, req) \in Plan
<1>1. Deadline(req, now) \in Word \cup {Unknown}
  BY WrapAddWord DEF Deadline, RecoveryRequest
<1>2. EvaluateDeadline(c, req, now) \in DeadlineOutcome
  BY DEF EvaluateDeadline, DeadlineOutcome
<1> QED
  BY <1>1, <1>2 DEF BuildPlan, Plan

\* Every variable of the decision keeps its type: the plan's deadline is a word
\* even when now + max_recovery_duration wraps.
THEOREM SelectionTypeCorrect == Spec => []TypeOK
<1>1. Init => TypeOK
  BY SelectionAssumption, EconomicsAssumption
     DEF Init, TypeOK, NoRequest, NoDecision, NoPlan, Word, MinInt
<1>2. TypeOK /\ [Next]_vars => TypeOK'
  <2> SUFFICES ASSUME TypeOK, [Next]_vars PROVE TypeOK'
    OBVIOUS
  <2>0. now \in Word
    BY SelectionAssumption, EconomicsAssumption DEF TypeOK, Word, MinInt
  <2>1. ASSUME NEW problem \in Problems, PlanRecovery(problem[1], problem[2])
        PROVE  TypeOK'
    <3> DEFINE req == problem[1]
               cs == problem[2]
    <3>1. /\ problem = <<req, cs>>
          /\ req \in RecoveryRequest /\ cs \in Seq(RecoveryCandidate)
      BY SelectionAssumption
    <3> HIDE DEF req, cs
    <3>2. /\ request' = req /\ candidates' = cs /\ now' = now
          /\ IF Pool(cs, req, now) = {}
             THEN /\ decision' = [outcome |-> OutcomeOf(cs, req, now), selected |-> 0]
                  /\ plan' = NoPlan
             ELSE \E best \in Front(cs, req, Pool(cs, req, now)) :
                    /\ decision' = [outcome |-> OutcomeOf(cs, req, now), selected |-> best]
                    /\ plan' = BuildPlan(cs[best], req)
      BY <2>1 DEF PlanRecovery, req, cs
    <3>3. OutcomeOf(cs, req, now) \in PlanOutcome
      BY DEF OutcomeOf, PlanOutcome
    <3>4. Len(cs) \in Nat /\ DOMAIN cs = 1..Len(cs)
      BY <3>1
    <3>5. CASE Pool(cs, req, now) = {}
      <4>1. decision' = [outcome |-> OutcomeOf(cs, req, now), selected |-> 0]
            /\ plan' = NoPlan
        BY <3>2, <3>5
      <4>2. decision' \in [outcome: PlanOutcome \cup {"NONE"}, selected: 0..Len(cs)]
        BY <3>3, <3>4, <4>1
      <4> QED
        BY <3>1, <3>2, <4>1, <4>2 DEF TypeOK
    <3>6. CASE Pool(cs, req, now) # {}
      <4>1. PICK best \in Front(cs, req, Pool(cs, req, now)) :
              /\ decision' = [outcome |-> OutcomeOf(cs, req, now), selected |-> best]
              /\ plan' = BuildPlan(cs[best], req)
        BY <3>2, <3>6
      <4>2. best \in DOMAIN cs
        BY FrontInPool DEF Pool, Eligible, FeasibleIdx
      <4>3. cs[best] \in RecoveryCandidate /\ best \in 0..Len(cs)
        BY <3>1, <3>4, <4>2
      <4>4. decision' \in [outcome: PlanOutcome \cup {"NONE"}, selected: 0..Len(cs)]
        BY <3>3, <4>1, <4>3
      <4>5. plan' \in Plan
        BY <2>0, <3>1, <4>1, <4>3, BuildPlanType
      <4> QED
        BY <3>1, <3>2, <4>4, <4>5 DEF TypeOK
    <3> QED
      BY <3>5, <3>6
  <2>2. CASE Tick
    <3>1. now' \in Start..MaxNow
      BY <2>2, SelectionAssumption, EconomicsAssumption DEF Tick, TypeOK, Word, MinInt
    <3> QED
      BY <2>2, <3>1 DEF Tick, TypeOK
  <2>3. CASE UNCHANGED vars
    BY <2>3 DEF vars, TypeOK
  <2> QED
    BY <2>1, <2>2, <2>3 DEF Next
<1> QED
  BY <1>1, <1>2, PTL DEF Spec

=============================================================================
