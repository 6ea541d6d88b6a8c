----------------------- MODULE DistributedRecoveryProofs -----------------------
(***************************************************************************)
(* Proofs about DistributedRecovery: for every set of scenarios and all    *)
(* bounds, a published verdict is what the worker did, the planner is      *)
(* never to blame, and a recovery that fails has a cause.                  *)
(***************************************************************************)
EXTENDS DistributedRecovery, TLAPS

-----------------------------------------------------------------------------
(***************************************************************************)
(* The inductive invariant.  The coordinator is one thread, so most of it  *)
(* says what holds at a step of its program.                               *)
(***************************************************************************)

\* The steps before the planner is constructed.
Opening ==
  {"bind", "spawnA", "spawnB", "spawnC", "accept1", "accept2", "reg1", "reg2",
   "run", "done", "shadowRun", "shadowDone", "kill"}
Closing == {"staleBoot", "staleAttempt", "staleDispatch", "staleCompletion", "stop"}
Unsent  == Opening \cup {"register", "plan", "authorize", "dispatch"}

\* Steps before a process is spawned, or before a connection is accepted.
BeforeA == {"bind", "spawnA"}
BeforeB == BeforeA \cup {"spawnB"}
BeforeC == BeforeA \cup {"accept1", "reg1", "run", "done", "kill", "spawnC"}
BeforeFirst  == BeforeB \cup {"accept1"}
BeforeSecond == IF Restart THEN BeforeC \cup {"accept2"} ELSE BeforeFirst \cup {"accept2"}

\* Steps up to the end of worker A.
Together ==
  BeforeFirst \cup {"reg1", "run", "done", "shadowRun", "shadowDone", "kill"}
    \cup (IF Restart THEN {} ELSE {"accept2", "reg2"})

StepOK ==
  /\ pc \in Unsent \cup {"await", "deliver", "receipt", "check"} \cup Closing
  /\ pc \in {"spawnB", "shadowRun", "shadowDone"} => ~Restart
  /\ pc = "spawnC" => Restart
  /\ scenario \in Scenarios

\* The planner's variables, by the one plan it ever holds.
Only(ids, x, default) == [i \in ids |-> IF i = 1 THEN x ELSE default]

ThePlan(state, outcome, published, attempt) ==
  [generation |-> 1, request |-> Req, target_worker |-> TargetWorker,
   target_boot |-> TargetBoot, coordinator_epoch |-> 1, workload_generation |-> 1,
   deadline_violated |-> FALSE, state |-> state, execution_outcome |-> outcome,
   outcome_published |-> published, last_attempt |-> attempt]
Succeeded == ThePlan("SUCCEEDED", "SUCCEEDED", TRUE, 1)

Holds(plan, handed, entry, reports) ==
  /\ plans = Only(PlanIds, plan, NoPlan)
  /\ backend = Only(PlanIds, handed, IdleBackend)
  /\ dispatch_meta = Only(DispatchIds, entry, NoMeta)
  /\ completions = reports

Entry    == [plan_id |-> 1, plan_generation |-> 1, target_boot |-> TargetBoot]
Earned   == [plan_id |-> 1, plan_generation |-> 1, reporter_boot |-> TargetBoot,
             outcome |-> "SUCCEEDED"]
Handed(outcome) == [sends |-> 1, dispatch_id |-> 1, outcome |-> outcome]

WorldOK ==
  /\ epoch = 1
  /\ pc \in Opening \cup {"register"} =>
       recompute = {} /\ worker_boots = [w \in Workers |-> NoBoot]
  /\ pc \notin Opening \cup {"register"} =>
       /\ TargetWorker \in alive_workers /\ worker_boots[TargetWorker] = TargetBoot
       /\ resource_available = {100000} /\ recompute = IF Restart THEN {} ELSE {1}

PlannerOK ==
  /\ pc \in Opening \cup {"register", "plan"} =>
       /\ Holds(NoPlan, IdleBackend, NoMeta, {})
       /\ next_plan_id = 1 /\ next_generation = 1
  /\ pc = "authorize" =>
       Holds(ThePlan("PLANNED", "UNKNOWN", FALSE, 0), IdleBackend, NoMeta, {})
  /\ pc = "dispatch" =>
       Holds(ThePlan("AUTHORIZED", "UNKNOWN", FALSE, 0), IdleBackend, NoMeta, {})
  /\ pc = "await" =>
       Holds(ThePlan("DISPATCHED", "UNKNOWN", FALSE, 1), Handed("PENDING"), Entry, {})
  /\ pc = "deliver" =>
       /\ Holds(ThePlan("DISPATCHED", "UNKNOWN", FALSE, 1), Handed("SUCCEEDED"), NoMeta,
                {Earned})
       /\ status = "DISPATCHED"
  /\ pc \in {"receipt", "check"} =>
       \/ plans = Only(PlanIds, Succeeded, NoPlan) /\ status = "DISPATCHED"
       \/ /\ plans = Only(PlanIds,
                         ThePlan(IF pc = "receipt" THEN "DISPATCHED" ELSE "FAILED",
                                 "UNKNOWN", FALSE, 1), NoPlan)
          /\ status \in {"REJECTED", "UNKNOWN"}
  /\ pc \in Closing => plans = Only(PlanIds, Succeeded, NoPlan) /\ status = "DISPATCHED"

\* Processes, connections and channels keep their types.
Orders  == {Msg(type, NoBoot) : type \in {"RUN", "DISPATCH", "STOP"}}
Answers == {Msg(type, b) : type \in {"REGISTER", "WORK_DONE", "COMPLETE"}, b \in Boots}

ProcStates == {"absent", "connecting", "connected", "serving", "ended"}

NetTypeOK ==
  /\ proc \in [Boots -> ProcStates]
  /\ killed \in SUBSET Boots
  /\ backlog \in Seq(Boots)
  /\ conn \in [first: Boots \cup {NoBoot}, second: Boots \cup {NoBoot}]
  /\ toWorker \in [Boots -> Seq(Orders)]
  /\ toCoord \in [Boots -> Seq(Answers)]
  /\ performed \in [Boots -> Nat]

\* A boot connects once and is behind one connection.
ConnOK ==
  /\ pc \in BeforeA => proc[BootA] = "absent"
  /\ Restart \/ pc \in BeforeB => proc[BootB] = "absent"
  /\ ~Restart \/ pc \in BeforeC => proc[BootC] = "absent"
  /\ pc \in BeforeFirst => conn.first = NoBoot
  /\ conn.first = NoBoot => pc \in BeforeFirst \/ (pc = "accept2" /\ ~Restart)
  /\ Running /\ pc \in BeforeSecond => conn.second = NoBoot
  /\ conn.second = NoBoot => pc \in BeforeSecond
  /\ \A i, j \in 1..Len(backlog) : backlog[i] = backlog[j] => i = j
  /\ \A i \in 1..Len(backlog) :
       /\ proc[backlog[i]] \notin {"absent", "connecting"}
       /\ backlog[i] # conn.first /\ backlog[i] # conn.second
  /\ \A b \in Boots : b \in {conn.first, conn.second} =>
       proc[b] \notin {"absent", "connecting"}
  /\ Restart => conn.first \in {NoBoot, BootA}
  /\ pc \notin BeforeSecond /\ conn.second = TargetBoot => conn.first = BootA
  /\ conn.first = NoBoot \/ conn.first # conn.second

Has(q, type)  == \E i \in 1..Len(q) : q[i].type = type
Once(q, type) == \A i, j \in 1..Len(q) : q[i].type = type /\ q[j].type = type => i = j

\* The plan is performed once, after it was sent, and an answer says so.
WorkOK ==
  /\ \A b \in Boots :
       /\ pc \in Unsent => performed[b] = 0 /\ ~Has(toWorker[b], "DISPATCH")
       /\ Once(toWorker[b], "DISPATCH")
       /\ performed[b] \in {0, 1}
       /\ performed[b] = 1 => ~Has(toWorker[b], "DISPATCH")
       /\ Has(toCoord[b], "COMPLETE") => performed[b] = 1
  /\ status = "DISPATCHED" => conn.second \in Boots /\ performed[conn.second] = 1

\* No worker died of itself, and the workers did not connect in the other order.
Clean == faulted = {} /\ conn.second \in {NoBoot, TargetBoot}

\* What a worker's process and its two channels are in an exchange.
With(b) == <<proc[b], toWorker[b], toCoord[b]>>

Absent     == {<<"absent", <<>>, <<>>>>}
Joining(b) == {<<"connecting", <<>>, <<>>>>, <<"connected", <<>>, <<>>>>,
               <<"serving", <<>>, <<Msg("REGISTER", b)>>>>}
Ready      == {<<"serving", <<>>, <<>>>>}
Busy(b, order, answer) == {<<"serving", <<Msg(order, NoBoot)>>, <<>>>>,
                           <<"serving", <<>>, <<Msg(answer, b)>>>>}

SourceOK ==
  /\ pc \in BeforeA => With(BootA) \in Absent
  /\ pc \in {"spawnB", "accept1", "reg1"} \/ (pc = "accept2" /\ ~Restart) =>
       With(BootA) \in Joining(BootA)
  /\ pc = "run" \/ (pc = "reg2" /\ ~Restart) => With(BootA) \in Ready
  /\ pc = "done" => With(BootA) \in Busy(BootA, "RUN", "WORK_DONE")

TargetOK(b) ==
  /\ pc \in (IF Restart THEN BeforeC ELSE BeforeB) => With(b) \in Absent
  /\ pc \in {"accept2", "reg2"} \/ (pc \in {"accept1", "reg1"} /\ ~Restart) =>
       With(b) \in Joining(b)
  /\ \/ pc \in {"register", "plan", "authorize", "dispatch"}
     \/ pc \in {"run", "done", "shadowRun", "kill"} /\ ~Restart
     => With(b) \in Ready
  /\ pc = "shadowDone" => With(b) \in Busy(b, "RUN", "WORK_DONE")
  /\ pc = "await" => With(b) \in Busy(b, "DISPATCH", "COMPLETE")
  /\ pc \in {"receipt", "check"} => status = "DISPATCHED"

HeardOK ==
  /\ pc \notin BeforeSecond \cup {"reg1"} => heard = TRUE
  /\ Restart /\ pc \notin BeforeFirst \cup {"reg1"} => heard = TRUE

\* As long as nothing has gone wrong, no answer is missing or out of turn.
Orderly == SourceOK /\ HeardOK /\ \A b \in Boots : b = TargetBoot => TargetOK(b)

CleanOK ==
  /\ Running => killed \subseteq {BootA}
  /\ Running /\ pc \in Together => killed = {}
  /\ Running /\ Clean => Orderly

DistributedInv ==
  /\ StepOK /\ WorldOK /\ PlannerOK /\ NetTypeOK /\ ConnOK /\ WorkOK /\ CleanOK
  /\ PlannerNeverToBlame /\ FailureHasCause

-----------------------------------------------------------------------------
(***************************************************************************)
(* The decision: what plan() makes of the candidates of build_candidate.   *)
(***************************************************************************)
\* The theorems about the evaluator, for the candidates built here.
FP == INSTANCE FeasibilityProofs
       WITH Requests <- {}, Strategies <- {}, Amounts <- {}, Needed <- {},
            Generations <- {1}, MaxDefects <- 0, MaxEpoch <- 1,
            request <- <<>>, candidate <- {}, observed_epoch <- 0, defects <- 0

\* The evaluator instantiated by DistributedRecovery is the one that
\* FeasibilityProofs proves about.
LEMMA SameVerdict ==
  ASSUME NEW c, NEW r
  PROVE  F!Feasible(c, r) = FP!Feasible(c, r)
BY DEF F!Feasible, FP!Feasible, F!EvaluateFeasibility, FP!EvaluateFeasibility,
   F!Aggregate, FP!Aggregate,
  F!FeasFlags, FP!FeasFlags, F!IdentityFlags, FP!IdentityFlags,
  F!AuthorityFlags, FP!AuthorityFlags, F!OfOptional, FP!OfOptional, F!Flag, FP!Flag,
  F!Mandatory, FP!Mandatory,
  F!ContextGeneration, FP!ContextGeneration, F!StateFlags, FP!StateFlags,
  F!CheckpointFlags, FP!CheckpointFlags,
  F!CompatibilityFlags, FP!CompatibilityFlags, F!AvailabilityFlags, FP!AvailabilityFlags,
  F!ResourceFlags, FP!ResourceFlags,
  F!StrategyFlags, FP!StrategyFlags, F!AgeFlags, FP!AgeFlags, F!NeedsLiveTarget,
  FP!NeedsLiveTarget,
  F!ResourceSufficient, FP!ResourceSufficient, F!MigrateFlags, FP!MigrateFlags,
  F!ShadowFlags, FP!ShadowFlags,
  F!RecomputeFlags, FP!RecomputeFlags

\* A candidate is feasible exactly when its evidence is good (FeasibleExactly).
LEMMA FeasibleGood == \A c, r : F!Feasible(c, r) <=> FP!EvidenceGood(c, r)
<1>1. FP!EvidenceAssumption
  BY NoBootAssumption DEF FP!EvidenceAssumption
<1>2. FP!RequestsAssumption
  BY DEF FP!RequestsAssumption
<1>3. \A x, y : FP!Feasible(x, y) <=> FP!EvidenceGood(x, y)
  BY FP!FeasibleExactly, <1>1, <1>2
<1> QED BY <1>3, SameVerdict

\* The worker and the boot a candidate names.
Worker(s) == IF OnTarget(s) THEN TargetWorker ELSE WorkerA
Boot(s) == IF OnTarget(s) THEN TargetBoot ELSE BootA

\* What evaluate_feasibility makes of the four candidates of build_candidate: in the
\* restart proof only RESTART can be had, and the shadow only in its own scenario.
LEMMA Verdicts ==
  ASSUME WorldOK, pc = "plan", NEW s \in {"RESTORE", "RECOMPUTE", "SHADOW_PROMOTE",
         "RESTART"}
  PROVE  LET feasible == F!Feasible(BuildCandidate(s), EvaluatedRequest) IN
         /\ s \in {"RESTORE", "RECOMPUTE"} => (feasible <=> ~Restart)
         /\ s = "SHADOW_PROMOTE" => (feasible <=> scenario = "SHADOW")
         /\ s = "RESTART" => feasible
<1> DEFINE c == BuildCandidate(s)
           r == EvaluatedRequest
<1>0. epoch = 1 /\ resource_available = {100000}
      /\ TargetWorker \in alive_workers /\ worker_boots[TargetWorker] = TargetBoot
      /\ recompute = IF Restart THEN {} ELSE {1}
  BY DEF WorldOK, Opening
<1>1. c.strategy = s /\ c.valid_identity = TRUE /\ c.state_generation = 1
        /\ c.checkpoint = {}
  BY DEF BuildCandidate, Worker, Boot
<1>r. r.workload_generation = 1 /\ r.forbidden = {} /\ r.has_requirements = FALSE
  BY DEF EvaluatedRequest
<1>2. FP!AuthorityGood(c)
  <2>1. c.authority = {[coordinator_epoch |-> 1, policy_generation |-> 1]}
    BY DEF BuildCandidate, Worker, Boot
  <2> HIDE DEF c
  <2> QED BY <1>0, <2>1 DEF FP!AuthorityGood, FP!ContextGeneration
<1>3. FP!StateGood(c, r)
  <2>1. c.state = {[workload_generation |-> 1, state_generation |-> 1,
                        integrity |-> "VALID", freshness |-> "CURRENT",
                        is_durable |-> TRUE]}
    BY DEF BuildCandidate, Worker, Boot
  <2> HIDE DEF c, r
  <2> QED BY <1>1, <1>r, <2>1 DEF FP!StateGood, FP!Fresh
<1>4. FP!CheckpointGood(c)
  BY <1>1 DEF FP!CheckpointGood
<1>5. FP!CompatibilityGood(c, r)
  <2>1. c.compatibility = {[result |-> "EXACT", freshness |-> "CURRENT",
                                compatibility_generation |-> 1,
                                reference_rejects |-> FALSE]}
    BY DEF BuildCandidate, Worker, Boot
  <2> HIDE DEF c, r
  <2> QED BY <1>r, <2>1 DEF FP!CompatibilityGood, FP!ContextGeneration
<1>6. FP!ResourceGood(c)
  <2>1. c.resource = {[status |-> "AVAILABLE", generation |-> 1,
                           freshness |-> "CURRENT", required |-> {512},
                           available |-> {100000}]}
    BY DEF BuildCandidate, Worker, Boot
  <2> HIDE DEF c
  <2> QED BY <1>0, <2>1 DEF FP!ResourceGood, FP!ContextGeneration, FP!ResourceSufficient,
             FP!Fresh
<1>7. FP!AvailabilityGood(c) <=> s = "RECOMPUTE" \/ OnTarget(s)
  <2>1. c.availability =
              {[worker |-> Worker(s), boot |-> Boot(s), is_alive |-> TRUE,
                readiness |-> IF OnTarget(s) THEN "READY" ELSE "NOT_READY",
                freshness |-> "CURRENT"]}
    BY DEF BuildCandidate, Worker, Boot
  <2>2. OnTarget(s) => Worker(s) = TargetWorker /\ Boot(s) = TargetBoot
    BY DEF Worker, Boot
  <2> HIDE DEF c
  <2> QED BY <1>0, <1>1, <2>1, <2>2 DEF FP!AvailabilityGood, FP!NeedsLiveTarget, FP!Fresh
<1>8. FP!ShadowGood(c) <=> scenario = "SHADOW"
  <2>1. c.shadow = {[readiness |-> IF scenario = "SHADOW" THEN "READY" ELSE "NOT_READY",
                         lag_bounded |-> TRUE, compatibility |-> "EXACT"]}
    BY DEF BuildCandidate, Worker, Boot
  <2> HIDE DEF c
  <2> QED BY <2>1 DEF FP!ShadowGood
<1>9. ASSUME s = "RECOMPUTE" PROVE FP!RecomputeGood(c, r) <=> ~Restart
  <2>1. c.cost = {[has_recompute_time |-> (s = "RECOMPUTE")]}
    BY DEF BuildCandidate, Worker, Boot
  <2> HIDE DEF c, r
  <2>2. [has_recompute_time |-> (s = "RECOMPUTE")] \in c.cost
    BY <2>1
  <2>3. [has_recompute_time |-> (s = "RECOMPUTE")].has_recompute_time
    BY <1>9
  <2>4. \E k \in c.cost : k.has_recompute_time
    BY <2>2, <2>3, Zenon
  <2> QED BY <1>0, <1>r, <2>4 DEF FP!RecomputeGood
<1> HIDE DEF c, r
<1>10. F!Feasible(c, r) <=> FP!AvailabilityGood(c) /\ FP!StrategyGood(c, r)
  BY FeasibleGood, <1>1, <1>r, <1>2, <1>3, <1>4, <1>5, <1>6 DEF FP!EvidenceGood
<1>11. /\ s = "SHADOW_PROMOTE" => (FP!StrategyGood(c, r) <=> FP!ShadowGood(c))
       /\ s = "RECOMPUTE" => (FP!StrategyGood(c, r) <=> FP!RecomputeGood(c, r))
       /\ s \in {"RESTORE", "RESTART"} => FP!StrategyGood(c, r)
  <2> HIDE DEF FP!MigrateGood, FP!ShadowGood, FP!RecomputeGood
  <2>1. CASE s = "SHADOW_PROMOTE"
    BY <1>1, <2>1, Zenon DEF FP!StrategyGood
  <2>2. CASE s = "RECOMPUTE"
    BY <1>1, <2>2, Zenon DEF FP!StrategyGood
  <2>3. CASE s \in {"RESTORE", "RESTART"}
    BY <1>1, <2>3, Zenon DEF FP!StrategyGood
  <2> QED BY <2>1, <2>2, <2>3
<1>12. OnTarget(s) <=> ~Restart \/ s = "RESTART"
  BY DEF OnTarget
<1>13. Restart <=> scenario = "RESTART"
  BY DEF Restart
<1>14. /\ s \in {"RESTORE", "RECOMPUTE"} => (F!Feasible(c, r) <=> ~Restart)
       /\ s = "SHADOW_PROMOTE" => (F!Feasible(c, r) <=> scenario = "SHADOW")
       /\ s = "RESTART" => F!Feasible(c, r)
  BY <1>7, <1>8, <1>9, <1>10, <1>11, <1>12, <1>13
<1> QED BY <1>14 DEF c, r

\* The figures that the ranking reads are those build_candidate wrote.
LEMMA Economies ==
  ASSUME NEW i \in 1..4
  PROVE  LET c == Ranked(i)
             e == S!ComputeEconomics(c, RankedRequest)
             s == Candidates[i] IN
         /\ s \in {"RESTORE", "RECOMPUTE", "SHADOW_PROMOTE", "RESTART"}
         /\ c.feasible = F!Feasible(BuildCandidate(s), EvaluatedRequest)
         /\ S!ExpectedTime(c) = ExpectedTime(s)
         /\ e.expected_preserved_progress = Preserved(s)
         /\ e.expected_lost_progress = IF s = "RESTART" THEN 100 ELSE 0
         /\ e.expected_time = ExpectedTime(s)
<1> DEFINE c == Ranked(i)
           s == Candidates[i]
           k == [expected_time |-> ExpectedTime(s),
                 expected_preserved_progress |-> Preserved(s),
                 expected_lost_progress |-> IF s = "RESTART" THEN 100 ELSE 0,
                 cost_units |-> Unknown, failover_domain_risk |-> 0]
<1>1. s \in {"RESTORE", "RECOMPUTE", "SHADOW_PROMOTE", "RESTART"}
  BY DEF Candidates
<1>2. c.feasible = F!Feasible(BuildCandidate(s), EvaluatedRequest) /\ c.cost = {k}
  BY DEF Ranked
<1>3. k.expected_time = ExpectedTime(s) /\ k.expected_preserved_progress = Preserved(s)
      /\ k.expected_lost_progress = IF s = "RESTART" THEN 100 ELSE 0
  OBVIOUS
<1> HIDE DEF c, s, k
<1>4. c.cost # {} /\ (CHOOSE x \in c.cost : TRUE) = k
  BY <1>2
<1>5. S!ExpectedTime(c) = ExpectedTime(s)
  BY <1>3, <1>4 DEF S!ExpectedTime
<1>6. LET e == S!ComputeEconomics(c, RankedRequest) IN
        /\ e.expected_preserved_progress = k.expected_preserved_progress
        /\ e.expected_lost_progress = k.expected_lost_progress
        /\ e.expected_time = k.expected_time
  BY <1>4 DEF S!ComputeEconomics
<1> QED BY <1>1, <1>2, <1>3, <1>5, <1>6 DEF c, s

\* Only RESTORE in the recompute scenario misses the deadline.
LEMMA Deadlines ==
  ASSUME NEW i \in 1..4
  PROVE  /\ scenario # "RECOMPUTE" => S!DeadlineOK(Ranked(i), RankedRequest, 0)
         /\ scenario = "RECOMPUTE" =>
              (S!DeadlineOK(Ranked(i), RankedRequest, 0) <=> Candidates[i] # "RESTORE")
         /\ S!ProgressOK(Ranked(i), RankedRequest)
<1> DEFINE c == Ranked(i)
           s == Candidates[i]
           r == RankedRequest
           t == ExpectedTime(s)
<1>1. /\ r.recovery_deadline = IF scenario = "RECOMPUTE" THEN 10000 ELSE Unknown
      /\ r.max_recovery_duration = Unknown /\ r.max_tolerated_progress_loss = Unknown
  BY DEF RankedRequest
<1>2. s \in {"RESTORE", "RECOMPUTE", "SHADOW_PROMOTE", "RESTART"} /\ S!ExpectedTime(c) = t
  BY Economies
<1>3. t \in Nat /\ t <= 500000 /\ (scenario = "RECOMPUTE" =>
          (t <= 10000 <=> s # "RESTORE"))
  BY <1>2 DEF ExpectedTime
<1>4. Unknown # 10000 /\ Unknown # t /\ MaxInt \in Nat /\ MaxInt >= 500000
  BY <1>3, FiguresAssumption
<1> HIDE DEF c, s, r, t
<1>5. S!ProgressOK(c, r)
  BY <1>1 DEF S!ProgressOK, S!HardProgress
<1>6. CASE scenario # "RECOMPUTE"
  <2>1. S!DeadlineOK(c, r, 0)
    BY <1>1, <1>6 DEF S!DeadlineOK, S!HardDeadline
  <2> QED BY <2>1, <1>5, <1>6 DEF c, r
<1>7. CASE scenario = "RECOMPUTE"
  <2>1. S!Deadline(r, 0) = 10000 /\ S!HardDeadline(r)
    BY <1>1, <1>4, <1>7 DEF S!Deadline, S!HardDeadline
  <2>2. S!EffectiveDeadline(r, 0) = 10000
    BY <2>1 DEF S!EffectiveDeadline
  <2>3. S!NonNegative(t) = t
    BY <1>3 DEF S!NonNegative
  <2>4. S!SatAdd(0, t) = t
    BY <1>3, <1>4 DEF S!SatAdd, S!MinInt
  <2>5. S!SatSub(10000, t) = 10000 - t
    BY <1>3, <1>4 DEF S!SatSub, S!MinInt
  <2>6. S!Slack(c, r, 0) = 10000 - t
    BY <1>2, <2>2, <2>3, <2>4, <2>5 DEF S!Slack
  <2>7. S!Slack(c, r, 0) >= 0 <=> t <= 10000
    BY <1>3, <2>6
  <2>8. S!EvaluateDeadline(c, r, 0) = "HARD_FEASIBLE" <=> t <= 10000
    BY <1>2, <1>4, <2>1, <2>7 DEF S!EvaluateDeadline
  <2>9. S!DeadlineOK(c, r, 0) <=> s # "RESTORE"
    BY <1>3, <1>7, <2>1, <2>8 DEF S!DeadlineOK
  <2> QED BY <1>5, <1>7, <2>9 DEF c, r, s
<1> QED BY <1>6, <1>7

\* More preserved progress wins; with as much preserved and lost, the shorter time.
LEMMA Wins ==
  ASSUME NEW l, NEW r, NEW le, NEW re,
         {le.expected_preserved_progress, re.expected_preserved_progress,
          le.expected_lost_progress, re.expected_lost_progress,
          le.expected_time, re.expected_time} \subseteq Nat,
         \/ re.expected_preserved_progress < le.expected_preserved_progress
         \/ /\ re.expected_preserved_progress = le.expected_preserved_progress
            /\ le.expected_lost_progress = re.expected_lost_progress
            /\ le.expected_time < re.expected_time
  PROVE  S!CandidatePrecedes(l, r, le, re)
BY FiguresAssumption DEF S!CandidatePrecedes, S!Then, S!Lower

\* plan() finds a plan, and the candidate it selects is the expected one, on the target.
LEMMA Decision ==
  ASSUME StepOK, WorldOK, pc = "plan", NEW cs,
         cs = <<Ranked(1), Ranked(2), Ranked(3), Ranked(4)>>
  PROVE  /\ S!Pool(cs, RankedRequest, 0) # {}
         /\ S!OutcomeOf(cs, RankedRequest, 0) = "PLAN_FOUND"
         /\ \A i \in S!Front(cs, RankedRequest, S!Pool(cs, RankedRequest, 0)) :
              /\ i \in 1..4
              /\ Candidates[i] = Expected
              /\ BuildCandidate(Candidates[i]).target_worker = TargetWorker
              /\ BuildCandidate(Candidates[i]).target_boot = TargetBoot
<1> DEFINE r == RankedRequest
           feasible(i) == F!Feasible(BuildCandidate(Candidates[i]), EvaluatedRequest)
           E(i) == S!ComputeEconomics(Ranked(i), r)
           meets(i) == feasible(i) /\ (scenario = "RECOMPUTE" =>
               Candidates[i] # "RESTORE")
           eligible == S!Eligible(cs, r, 0)
<1>1. cs # <<>> /\ DOMAIN cs = 1..4 /\ \A i \in 1..4 : cs[i] = Ranked(i)
  <2>1. cs # <<>> /\ DOMAIN cs = 1..4 /\ cs[1] = Ranked(1) /\ cs[2] = Ranked(2)
         /\ cs[3] = Ranked(3) /\ cs[4] = Ranked(4)
    OBVIOUS
  <2> QED BY <2>1
<1>2. /\ Candidates[1] = "RESTORE" /\ Candidates[2] = "RECOMPUTE"
      /\ Candidates[3] = "SHADOW_PROMOTE" /\ Candidates[4] = "RESTART"
  BY DEF Candidates
<1>3. /\ feasible(1) <=> ~Restart
      /\ feasible(2) <=> ~Restart
      /\ feasible(3) <=> scenario = "SHADOW"
      /\ feasible(4)
  BY <1>2, Verdicts
<1>4. eligible = {i \in 1..4 : meets(i)}
  <2>1. \A i \in 1..4 : cs[i].feasible = feasible(i)
    BY <1>1, Economies
  <2>2. \A i \in 1..4 : S!DeadlineOK(cs[i], r, 0) <=> (scenario = "RECOMPUTE" =>
            Candidates[i] # "RESTORE")
    BY <1>1, Deadlines
  <2>3. \A i \in 1..4 : S!ProgressOK(cs[i], r)
    BY <1>1, Deadlines
  <2> HIDE DEF feasible, r
  <2> QED BY <1>1, <2>1, <2>2, <2>3 DEF S!Eligible, S!FeasibleIdx
<1>5. scenario \in {"RESTORE", "RECOMPUTE", "SHADOW", "RESTART"}
  BY DistributedAssumption DEF StepOK
<1>6. PICK w \in 1..4 : Candidates[w] = Expected
  BY <1>2, <1>5 DEF Expected
<1> HIDE DEF feasible, r, E
<1>7. w \in eligible
  BY <1>2, <1>3, <1>4, <1>5, <1>6 DEF Expected, Restart
<1>8. S!Pool(cs, r, 0) = eligible
  BY <1>7 DEF S!Pool
<1>9. ASSUME NEW i \in eligible, i # w PROVE S!Precedes(cs, r, w, i)
  <2>1. \A j \in 1..4 : /\ E(j).expected_preserved_progress = Preserved(Candidates[j])
                        /\ E(j).expected_lost_progress = IF Candidates[j] =
                               "RESTART" THEN 100 ELSE 0
                        /\ E(j).expected_time = ExpectedTime(Candidates[j])
    BY Economies DEF E, r
  <2>2. i \in 1..4 /\ meets(i)
    BY <1>4, <1>9
  <2>3. {E(w).expected_preserved_progress, E(i).expected_preserved_progress,
          E(w).expected_lost_progress, E(i).expected_lost_progress,
          E(w).expected_time, E(i).expected_time} \subseteq Nat
    BY <1>2, <2>1, <2>2 DEF Preserved, ExpectedTime
  <2>4. \/ E(i).expected_preserved_progress < E(w).expected_preserved_progress
         \/ /\ E(i).expected_preserved_progress = E(w).expected_preserved_progress
            /\ E(w).expected_lost_progress = E(i).expected_lost_progress
            /\ E(w).expected_time < E(i).expected_time
    BY <1>2, <1>3, <1>5, <1>6, <1>9, <2>1, <2>2 DEF Preserved, ExpectedTime, Expected,
       Restart
  <2>5. S!CandidatePrecedes(Ranked(w), Ranked(i), E(w), E(i))
    BY <2>3, <2>4, Wins
  <2> QED BY <1>1, <2>2, <2>5 DEF S!Precedes, E
<1>10. S!OutcomeOf(cs, r, 0) = "PLAN_FOUND"
  BY <1>1, <1>7 DEF S!OutcomeOf
<1>11. \A i \in S!Front(cs, r, eligible) : i = w
  BY <1>7, <1>9 DEF S!Front
<1>12. OnTarget(Candidates[w])
  BY <1>5, <1>6 DEF OnTarget, Expected, Restart
<1>13. /\ BuildCandidate(Candidates[w]).target_worker = TargetWorker
       /\ BuildCandidate(Candidates[w]).target_boot = TargetBoot
  BY <1>12 DEF BuildCandidate
<1> QED BY <1>6, <1>7, <1>8, <1>10, <1>11, <1>13 DEF r

-----------------------------------------------------------------------------
(***************************************************************************)
(* The program's steps, and the planner's actions on the one plan it holds.*)
(***************************************************************************)

\* The step that follows each step of the coordinator's program.
LEMMA Program ==
  /\ Following("bind") = "spawnA"
  /\ Following("spawnA") = IF Restart THEN "accept1" ELSE "spawnB"
  /\ Following("spawnB") = "accept1"
  /\ Following("accept1") = IF Restart THEN "reg1" ELSE "accept2"
  /\ Following("accept2") = IF Restart THEN "reg2" ELSE "reg1"
  /\ Following("reg1") = IF Restart THEN "run" ELSE "reg2"
  /\ Following("reg2") = IF Restart THEN "register" ELSE "run"
  /\ Following("run") = "done"
  /\ Following("done") = IF scenario = "SHADOW" THEN "shadowRun" ELSE "kill"
  /\ Following("shadowRun") = "shadowDone"
  /\ Following("shadowDone") = "kill"
  /\ Following("kill") = IF Restart THEN "spawnC" ELSE "register"
  /\ Following("spawnC") = "accept2"
  /\ Following("register") = "plan"
  /\ Following("plan") = "authorize"
  /\ Following("authorize") = "dispatch"
  /\ Following("dispatch") = "await"
  /\ Following("await") = "deliver"
  /\ Following("deliver") = "receipt"
  /\ Following("receipt") = "check"
  /\ Following("check") = "staleBoot"
  /\ Following("staleBoot") = IF Restart THEN "staleAttempt" ELSE "stop"
  /\ Following("staleAttempt") = "staleDispatch"
  /\ Following("staleDispatch") = "staleCompletion"
  /\ Following("staleCompletion") = "stop"
BY DEF Following

\* The one entry that differs from the default.
LEMMA OnlyAt ==
  ASSUME NEW ids, 1 \in ids, NEW x, NEW d
  PROVE  Only(ids, x, d)[1] = x
BY DEF Only

\* Assigning to that entry.
LEMMA OnlySet ==
  ASSUME NEW ids, 1 \in ids, NEW x, NEW y, NEW d
  PROVE  [Only(ids, x, d) EXCEPT ![1] = y] = Only(ids, y, d)
BY DEF Only

\* The bounds admit the plan and dispatch id 1.
LEMMA OneId == 1 \in PlanIds /\ 1 \in DispatchIds
BY FiguresAssumption, BoundsAssumption DEF PlanIds, DispatchIds

\* What depends on the scenario alone does not change.
LEMMA SameScenario ==
  ASSUME scenario' = scenario
  PROVE  /\ Restart' = Restart /\ TargetBoot' = TargetBoot /\ TargetWorker' = TargetWorker
         /\ \A s, o, p, a : ThePlan(s, o, p, a)' = ThePlan(s, o, p, a)
         /\ Succeeded' = Succeeded /\ Entry' = Entry /\ Earned' = Earned
BY DEF Restart, TargetBoot, TargetWorker, ThePlan, Succeeded, Entry, Earned

\* Two plans with equal fields are equal.
PlanFields == {"generation", "request", "target_worker", "target_boot",
               "coordinator_epoch", "workload_generation", "deadline_violated",
               "state", "execution_outcome", "outcome_published", "last_attempt"}
IsPlan(x) == x = [f \in PlanFields |-> x[f]]
FieldsAgree(x, y) ==
  /\ x.generation = y.generation /\ x.request = y.request
  /\ x.target_worker = y.target_worker /\ x.target_boot = y.target_boot
  /\ x.coordinator_epoch = y.coordinator_epoch
  /\ x.workload_generation = y.workload_generation
  /\ x.deadline_violated = y.deadline_violated /\ x.state = y.state
  /\ x.execution_outcome = y.execution_outcome
  /\ x.outcome_published = y.outcome_published /\ x.last_attempt = y.last_attempt

\* Two plans with equal fields are equal.
LEMMA SamePlan ==
  ASSUME NEW x, NEW y, IsPlan(x), IsPlan(y), FieldsAgree(x, y)
  PROVE  x = y
<1>1. \A f \in PlanFields : x[f] = y[f]
  BY DEF FieldsAgree, PlanFields
<1> QED BY <1>1 DEF IsPlan

\* The fields of the plan.
LEMMA ThePlanFields ==
  ASSUME NEW s, NEW o, NEW p, NEW a
  PROVE  LET plan == ThePlan(s, o, p, a) IN
         /\ plan.generation = 1 /\ plan.target_boot = TargetBoot /\ plan.state = s
         /\ plan.execution_outcome = o /\ plan.outcome_published = p
              /\ plan.last_attempt = a
BY DEF ThePlan

\* plan() stores the one plan.
LEMMA FirstPlan ==
  ASSUME Holds(NoPlan, IdleBackend, NoMeta, {}), epoch = 1, next_plan_id = 1,
         next_generation = 1, StorePlan(Req, TargetWorker, TargetBoot, 1, FALSE)
  PROVE  /\ plans' = Only(PlanIds, ThePlan("PLANNED", "UNKNOWN", FALSE, 0), NoPlan)
         /\ backend' = backend /\ dispatch_meta' = dispatch_meta
              /\ completions' = completions
         /\ epoch' = epoch /\ alive_workers' = alive_workers
              /\ worker_boots' = worker_boots
<1>1. plans = Only(PlanIds, NoPlan, NoPlan)
        /\ backend = Only(PlanIds, IdleBackend, IdleBackend)
  BY DEF Holds
<1>2. BuildPlan(Req, TargetWorker, TargetBoot, 1, FALSE) =
          ThePlan("PLANNED", "UNKNOWN", FALSE, 0)
  BY DEF BuildPlan, ThePlan
<1>3. \A id \in PlanIds : SupersedeOlder(plans[id], Req) = NoPlan
  BY <1>1 DEF Only, SupersedeOlder
<1>4. plans' = [id \in PlanIds |-> IF id =
          1 THEN ThePlan("PLANNED", "UNKNOWN", FALSE, 0) ELSE NoPlan]
  BY <1>2, <1>3 DEF StorePlan
<1>5. backend' = [backend EXCEPT ![1] = IdleBackend]
  BY DEF StorePlan
<1>6. backend' = backend
  BY <1>1, <1>5, OnlySet, OneId
<1> QED BY <1>4, <1>6 DEF Only, StorePlan, ctxVars

\* authorize_plan on it.
LEMMA AuthorizeFirst ==
  ASSUME Holds(ThePlan("PLANNED", "UNKNOWN", FALSE, 0), IdleBackend, NoMeta, {}),
         AuthorizePlan(1)
  PROVE  plans' = Only(PlanIds, ThePlan("AUTHORIZED", "UNKNOWN", FALSE, 0), NoPlan)
<1> DEFINE p == ThePlan("PLANNED", "UNKNOWN", FALSE, 0)
           q == [p EXCEPT !.state = "AUTHORIZED"]
<1>q. q = ThePlan("AUTHORIZED", "UNKNOWN", FALSE, 0)
  <2> DEFINE r == ThePlan("AUTHORIZED", "UNKNOWN", FALSE, 0)
  <2>1. IsPlan(q) /\ IsPlan(r)
    BY DEF IsPlan, PlanFields, ThePlan
  <2>2. FieldsAgree(q, r)
    BY DEF FieldsAgree, ThePlan
  <2> HIDE DEF q, r
  <2>3. q = r
    BY <2>1, <2>2, SamePlan
  <2> QED BY <2>3 DEF r
<1>1. plans = Only(PlanIds, p, NoPlan)
  BY DEF Holds
<1> HIDE DEF p
<1>2. plans[1] = p
  BY <1>1, OnlyAt, OneId
<1>3. plans' = [plans EXCEPT ![1] = [plans[1] EXCEPT !.state = "AUTHORIZED"]]
  BY DEF AuthorizePlan
<1>4. plans' = [plans EXCEPT ![1] = q]
  BY <1>2, <1>3
<1> HIDE DEF q
<1>5. [Only(PlanIds, p, NoPlan) EXCEPT ![1] = q] = Only(PlanIds, q, NoPlan)
  BY OnlySet, OneId
<1>6. plans' = Only(PlanIds, q, NoPlan)
  BY <1>1, <1>4, <1>5
<1> QED BY <1>6, <1>q

\* dispatch_plan on it, up to the unlock.
LEMMA DispatchFirst ==
  ASSUME Holds(ThePlan("AUTHORIZED", "UNKNOWN", FALSE, 0), IdleBackend, NoMeta, {}),
         DispatchPlan(1)
  PROVE  /\ plans' = Only(PlanIds, ThePlan("DISPATCHED", "UNKNOWN", FALSE, 1), NoPlan)
         /\ backend' = Only(PlanIds, Handed("PENDING"), IdleBackend)
         /\ dispatch_meta' = Only(DispatchIds, Entry, NoMeta)
         /\ completions' = {}
<1> DEFINE p == ThePlan("AUTHORIZED", "UNKNOWN", FALSE, 0)
           q == [p EXCEPT !.state = "DISPATCHED", !.last_attempt = 1]
<1>q. q = ThePlan("DISPATCHED", "UNKNOWN", FALSE, 1)
  <2> DEFINE r == ThePlan("DISPATCHED", "UNKNOWN", FALSE, 1)
  <2>1. IsPlan(q) /\ IsPlan(r)
    BY DEF IsPlan, PlanFields, ThePlan
  <2>2. FieldsAgree(q, r)
    BY DEF FieldsAgree, ThePlan
  <2> HIDE DEF q, r
  <2>3. q = r
    BY <2>1, <2>2, SamePlan
  <2> QED BY <2>3 DEF r
<1>1. /\ plans = Only(PlanIds, p, NoPlan)
      /\ backend = Only(PlanIds, IdleBackend, IdleBackend)
      /\ dispatch_meta = Only(DispatchIds, NoMeta, NoMeta)
      /\ completions = {}
  BY DEF Holds
<1>2. p.last_attempt = 0 /\ p.generation = 1 /\ p.target_boot = TargetBoot
  BY DEF ThePlan
<1>3. IdleBackend.sends = 0
  BY DEF IdleBackend
<1> HIDE DEF p
<1>4. plans[1] = p /\ backend[1] = IdleBackend
  BY <1>1, OnlyAt, OneId
<1> DEFINE n == plans[1].last_attempt + 1
<1>5. n = 1
  BY <1>2, <1>4
<1>6. /\ plans' = [plans EXCEPT ![1] = [plans[1] EXCEPT !.state =
             "DISPATCHED", !.last_attempt = n]]
      /\ dispatch_meta' = [dispatch_meta EXCEPT ![n] =
                              [plan_id         |-> 1,
                               plan_generation |-> plans[1].generation,
                               target_boot     |-> plans[1].target_boot]]
      /\ backend' = [backend EXCEPT ![1] =
                        [sends       |-> backend[1].sends + 1,
                         dispatch_id |-> n,
                         outcome     |-> "PENDING"]]
      /\ completions' = completions
  BY DEF DispatchPlan
<1> HIDE DEF n
<1>7. plans' = [plans EXCEPT ![1] = q]
  BY <1>4, <1>5, <1>6
<1>8. backend' = [backend EXCEPT ![1] = Handed("PENDING")]
  BY <1>3, <1>4, <1>5, <1>6 DEF Handed
<1>9. dispatch_meta' = [dispatch_meta EXCEPT ![1] = Entry]
  BY <1>2, <1>4, <1>5, <1>6 DEF Entry
<1> HIDE DEF q
<1>10. /\ [Only(PlanIds, p, NoPlan) EXCEPT ![1] = q] = Only(PlanIds, q, NoPlan)
       /\ [Only(PlanIds, IdleBackend, IdleBackend) EXCEPT ![1] = Handed("PENDING")] =
            Only(PlanIds, Handed("PENDING"), IdleBackend)
       /\ [Only(DispatchIds, NoMeta, NoMeta) EXCEPT ![1] = Entry] =
            Only(DispatchIds, Entry, NoMeta)
  BY OnlySet, OneId
<1>11. plans' = Only(PlanIds, q, NoPlan)
  BY <1>1, <1>7, <1>10
<1> QED BY <1>1, <1>q, <1>6, <1>8, <1>9, <1>10, <1>11

\* on_adapter_completion takes its entry and earns one report.
LEMMA CompleteFirst ==
  ASSUME Holds(ThePlan("DISPATCHED", "UNKNOWN", FALSE, 1), Handed("PENDING"), Entry, {}),
         OnAdapterCompletion(1, "SUCCEEDED")
  PROVE  /\ plans' = plans
         /\ backend' = Only(PlanIds, Handed("SUCCEEDED"), IdleBackend)
         /\ dispatch_meta' = Only(DispatchIds, NoMeta, NoMeta)
         /\ completions' = {Earned}
<1>1. /\ backend = Only(PlanIds, Handed("PENDING"), IdleBackend)
      /\ dispatch_meta = Only(DispatchIds, Entry, NoMeta)
      /\ completions = {}
  BY DEF Holds
<1>2. backend[1] = Handed("PENDING") /\ dispatch_meta[1] = Entry
  BY <1>1, OnlyAt, OneId
<1>3. backend[1].dispatch_id = 1
  BY <1>2 DEF Handed
<1>4. Entry # NoMeta /\ Entry.plan_id = 1 /\ Entry.plan_generation = 1
      /\ Entry.target_boot = TargetBoot
  BY DEF Entry, NoMeta
<1>5. [Handed("PENDING") EXCEPT !.outcome = "SUCCEEDED"] = Handed("SUCCEEDED")
  BY DEF Handed
<1>6. backend' = [backend EXCEPT ![1] = Handed("SUCCEEDED")]
  <2>1. backend[1].outcome = "PENDING"
    BY <1>2 DEF Handed
  <2>2. backend' = [backend EXCEPT ![1].outcome = "SUCCEEDED"]
    BY <2>1 DEF OnAdapterCompletion
  <2> QED BY <1>1, <1>2, <1>5, <2>2, OneId
<1>7. /\ dispatch_meta' = [dispatch_meta EXCEPT ![1] = NoMeta]
      /\ completions' = {} \cup {[plan_id |-> 1, plan_generation |-> 1,
                                  reporter_boot |-> TargetBoot, outcome |-> "SUCCEEDED"]}
  BY <1>1, <1>2, <1>3, <1>4 DEF OnAdapterCompletion
<1>8. completions' = {Earned}
  BY <1>7 DEF Earned
<1>9. plans' = plans
  BY DEF OnAdapterCompletion
<1> QED BY <1>1, <1>6, <1>7, <1>8, <1>9, OnlySet, OneId

\* The earned report publishes success.
LEMMA DeliverFirst ==
  ASSUME plans = Only(PlanIds, ThePlan("DISPATCHED", "UNKNOWN", FALSE, 1), NoPlan),
         ApplyReport(Earned)
  PROVE  plans' = Only(PlanIds, Succeeded, NoPlan)
<1> DEFINE p == ThePlan("DISPATCHED", "UNKNOWN", FALSE, 1)
           q == [p EXCEPT !.state = "SUCCEEDED", !.execution_outcome = "SUCCEEDED",
                          !.outcome_published = TRUE]
<1>q. q = Succeeded
  <2> DEFINE r == Succeeded
  <2>1. IsPlan(q) /\ IsPlan(r)
    BY DEF IsPlan, PlanFields, ThePlan, Succeeded
  <2>2. FieldsAgree(q, r)
    BY DEF FieldsAgree, ThePlan, Succeeded
  <2> HIDE DEF q, r
  <2>3. q = r
    BY <2>1, <2>2, SamePlan
  <2> QED BY <2>3 DEF r
<1>1. p.state = "DISPATCHED" /\ p.generation = 1 /\ p.target_boot = TargetBoot
  BY DEF ThePlan
<1>p. plans = Only(PlanIds, p, NoPlan)
  OBVIOUS
<1> HIDE DEF p
<1>2. plans[1] = p
  <2>1. Only(PlanIds, p, NoPlan)[1] = p
    BY OnlyAt, OneId, Zenon
  <2> QED BY <1>p, <2>1, Zenon
<1>3. /\ Earned.plan_id = 1 /\ Earned.plan_generation = 1
      /\ Earned.reporter_boot = TargetBoot /\ Earned.outcome = "SUCCEEDED"
  BY DEF Earned
<1>4. ReportAccepted(Earned)
  BY <1>1, <1>2, <1>3 DEF ReportAccepted, Stored, Terminal, ValidatePlanTransition
<1>5. plans' = [plans EXCEPT ![1] = Concluded(plans[1], "SUCCEEDED")]
  BY <1>3, <1>4 DEF ApplyReport
<1>6. Concluded(p, "SUCCEEDED") = q
  BY DEF Concluded
<1> HIDE DEF q
<1>7. plans' = [plans EXCEPT ![1] = q]
  BY <1>2, <1>5, <1>6
<1>8. [Only(PlanIds, p, NoPlan) EXCEPT ![1] = q] = Only(PlanIds, q, NoPlan)
  BY OnlySet, OneId
<1> QED BY <1>p, <1>7, <1>8, <1>q

\* A receipt after the publication leaves the plan alone.
LEMMA ReceiptOfSuccess ==
  ASSUME plans = Only(PlanIds, Succeeded, NoPlan), DispatchReturn(1, "DISPATCHED")
  PROVE  plans' = plans
<1> DEFINE q == [Succeeded EXCEPT !.state = "SUCCEEDED"]
<1>q. q = Succeeded
  <2> DEFINE r == Succeeded
  <2>1. IsPlan(q) /\ IsPlan(r)
    BY DEF IsPlan, PlanFields, ThePlan, Succeeded
  <2>2. FieldsAgree(q, r)
    BY DEF FieldsAgree, ThePlan, Succeeded
  <2> HIDE DEF q, r
  <2>3. q = r
    BY <2>1, <2>2, SamePlan
  <2> QED BY <2>3 DEF r
<1>1. Succeeded.state = "SUCCEEDED"
  BY DEF Succeeded, ThePlan
<1>2. plans[1] = Succeeded
  BY OnlyAt, OneId
<1>3. plans' = [plans EXCEPT ![1] = [plans[1] EXCEPT !.state =
          AfterReceipt(plans[1].state, "DISPATCHED")]]
  BY <1>1, <1>2 DEF DispatchReturn, Stored
<1>4. AfterReceipt("SUCCEEDED", "DISPATCHED") = "SUCCEEDED"
  BY DEF AfterReceipt
<1>5. plans' = [plans EXCEPT ![1] = q]
  BY <1>1, <1>2, <1>3, <1>4
<1> HIDE DEF q
<1> QED BY <1>5, <1>q, OnlySet, OneId

\* A receipt without an accepted answer fails the plan and publishes nothing.
LEMMA ReceiptOfFailure ==
  ASSUME plans = Only(PlanIds, ThePlan("DISPATCHED", "UNKNOWN", FALSE, 1), NoPlan),
         NEW result \in {"REJECTED", "UNKNOWN"}, DispatchReturn(1, result)
  PROVE  plans' = Only(PlanIds, ThePlan("FAILED", "UNKNOWN", FALSE, 1), NoPlan)
<1> DEFINE p == ThePlan("DISPATCHED", "UNKNOWN", FALSE, 1)
           q == [p EXCEPT !.state = "FAILED"]
<1>q. q = ThePlan("FAILED", "UNKNOWN", FALSE, 1)
  <2> DEFINE r == ThePlan("FAILED", "UNKNOWN", FALSE, 1)
  <2>1. IsPlan(q) /\ IsPlan(r)
    BY DEF IsPlan, PlanFields, ThePlan, Succeeded
  <2>2. FieldsAgree(q, r)
    BY DEF FieldsAgree, ThePlan, Succeeded
  <2> HIDE DEF q, r
  <2>3. q = r
    BY <2>1, <2>2, SamePlan
  <2> QED BY <2>3 DEF r
<1>1. p.state = "DISPATCHED"
  BY DEF ThePlan
<1>p. plans = Only(PlanIds, p, NoPlan)
  OBVIOUS
<1> HIDE DEF p
<1>2. plans[1] = p
  <2>1. Only(PlanIds, p, NoPlan)[1] = p
    BY OnlyAt, OneId, Zenon
  <2> QED BY <1>p, <2>1, Zenon
<1>3. plans' = [plans EXCEPT ![1] = [plans[1] EXCEPT !.state =
          AfterReceipt(plans[1].state, result)]]
  BY <1>1, <1>2 DEF DispatchReturn, Stored
<1>4. AfterReceipt("DISPATCHED", result) = "FAILED"
  BY DEF AfterReceipt, ValidatePlanTransition, Terminal
<1>5. plans' = [plans EXCEPT ![1] = q]
  BY <1>1, <1>2, <1>3, <1>4
<1> HIDE DEF q
<1>6. [Only(PlanIds, p, NoPlan) EXCEPT ![1] = q] = Only(PlanIds, q, NoPlan)
  BY OnlySet, OneId
<1> QED BY <1>p, <1>5, <1>6, <1>q

\* A succeeded plan is not dispatched again and no report changes it.
LEMMA SuccessIsFinal ==
  ASSUME plans = Only(PlanIds, Succeeded, NoPlan)
  PROVE  /\ plans[1].state = "SUCCEEDED" /\ ~DispatchAccepts(1)
         /\ \A boot, outcome : ReportExecution(Report(boot, outcome)) => plans' = plans
<1>1. plans[1].state = "SUCCEEDED"
  <2>1. plans[1] = Succeeded
    BY OnlyAt, OneId
  <2> QED BY <2>1 DEF Succeeded, ThePlan
<1>2. ASSUME NEW boot, NEW outcome, ReportExecution(Report(boot, outcome))
      PROVE  plans' = plans
  <2>1. Report(boot, outcome).plan_id = 1
    BY DEF Report
  <2> QED BY <1>1, <1>2, <2>1 DEF ReportExecution, ApplyReport, ReportAccepted, Terminal
<1> QED BY <1>1, <1>2 DEF DispatchAccepts

-----------------------------------------------------------------------------
(***************************************************************************)
(* The coordinator and its planner.                                        *)
(***************************************************************************)
\* The invariant of the coordinator and its planner.
CoordOK == StepOK /\ WorldOK /\ PlannerOK /\ PlannerNeverToBlame

\* A step that leaves the planner and the position alone.
LEMMA CoordStands ==
  ASSUME CoordOK, UNCHANGED <<vars, scenario, pc, status, rejected, world>>,
         exit' = exit \/ exit' \notin {"no_plan", "unexpected", "stale_accepted"}
  PROVE  CoordOK'
<1>1. UNCHANGED <<plans, backend, dispatch_meta, completions, epoch, worker_boots, alive_workers,
        next_plan_id, next_generation, resource_available, recompute>>
  BY DEF vars, ctxVars, idVars, execVars, world
<1>2. StepOK' /\ WorldOK'
  BY <1>1 DEF CoordOK, StepOK, WorldOK, Restart, TargetWorker, TargetBoot
<1>3. PlannerOK'
  BY <1>1 DEF CoordOK, PlannerOK, Holds, Only, ThePlan, Succeeded, Entry, Earned,
     TargetWorker, TargetBoot, Restart
<1>4. PlannerNeverToBlame'
  BY DEF CoordOK, PlannerNeverToBlame
<1> QED BY <1>2, <1>3, <1>4 DEF CoordOK

\* A step of the program before the planner is constructed.
LEMMA CoordOpens ==
  ASSUME CoordOK, UNCHANGED <<vars, scenario, exit, status, rejected, world>>,
         pc \in Opening, pc' = Following(pc)
  PROVE  CoordOK'
<1>1. UNCHANGED <<plans, backend, dispatch_meta, completions, epoch, worker_boots, alive_workers,
        next_plan_id, next_generation, resource_available, recompute>>
  BY DEF vars, ctxVars, idVars, execVars, world
<1>2. pc' \in Opening \cup {"register"}
  BY Program DEF Opening
<1>3. /\ pc' \in {"spawnB", "shadowRun", "shadowDone"} => ~Restart
      /\ pc' = "spawnC" => Restart
  BY Program DEF Opening, Restart, CoordOK, StepOK
<1>4. StepOK'
  BY <1>2, <1>3 DEF CoordOK, StepOK, Unsent, Opening, Restart
<1>5. WorldOK'
  BY <1>1, <1>2 DEF CoordOK, WorldOK
<1>6. PlannerOK'
  <2>1. /\ Holds(NoPlan, IdleBackend, NoMeta, {})
        /\ next_plan_id = 1 /\ next_generation = 1
    BY DEF CoordOK, PlannerOK
  <2>2. /\ Holds(NoPlan, IdleBackend, NoMeta, {})'
        /\ next_plan_id' = 1 /\ next_generation' = 1
    BY <1>1, <2>1 DEF Holds
  <2>3. pc' \notin {"authorize", "dispatch", "await", "deliver", "receipt", "check"} \cup Closing
    BY <1>2 DEF Opening, Closing
  <2> QED BY <2>2, <2>3 DEF PlannerOK
<1>7. PlannerNeverToBlame'
  BY DEF CoordOK, PlannerNeverToBlame
<1> QED BY <1>4, <1>5, <1>6, <1>7 DEF CoordOK

\* The steps with a plan.
WithPlan == {"authorize", "dispatch", "await", "deliver", "receipt", "check"} \cup Closing

\* A step of the program with a planner keeps the world.
LEMMA CoordMoves ==
  ASSUME CoordOK, pc = "plan" \/ pc \in WithPlan, pc' \in WithPlan,
         UNCHANGED <<scenario, exit, world, ctxVars>>, rejected' = rejected \/ rejected'
  PROVE  StepOK' /\ WorldOK' /\ PlannerNeverToBlame'
<1>1. StepOK'
  BY DEF CoordOK, StepOK, WithPlan, Unsent, Opening, Closing, Restart
<1>2. WorldOK'
  <2>1. pc \notin Opening \cup {"register"} /\ pc' \notin Opening \cup {"register"}
    BY DEF WithPlan, Opening, Closing
  <2>2. /\ TargetWorker \in alive_workers /\ worker_boots[TargetWorker] = TargetBoot
        /\ resource_available = {100000} /\ recompute = IF Restart THEN {} ELSE {1}
        /\ epoch = 1
    BY <2>1 DEF CoordOK, WorldOK
  <2>3. /\ TargetWorker' = TargetWorker /\ TargetBoot' = TargetBoot /\ Restart' = Restart
        /\ alive_workers' = alive_workers /\ worker_boots' = worker_boots
             /\ epoch' = epoch
        /\ resource_available' = resource_available /\ recompute' = recompute
    BY SameScenario DEF ctxVars, world
  <2> QED BY <2>1, <2>2, <2>3 DEF WorldOK
<1>3. PlannerNeverToBlame'
  BY DEF CoordOK, PlannerNeverToBlame
<1> QED BY <1>1, <1>2, <1>3

\* RegisterTarget preserves the invariant.
LEMMA CoordRegister == ASSUME CoordOK, RegisterTarget PROVE CoordOK'
<1>1. /\ pc = "register" /\ pc' = "plan" /\ exit' = exit /\ scenario' = scenario
      /\ status' = status /\ rejected' = rejected
      /\ resource_available' = {100000}
      /\ recompute' = IF Restart THEN recompute ELSE recompute \cup {1}
  BY Program DEF RegisterTarget, At, Advance
<1>2. /\ worker_boots' = [worker_boots EXCEPT ![TargetWorker] = TargetBoot]
      /\ alive_workers' = alive_workers \cup {TargetWorker}
      /\ UNCHANGED <<epoch, plans, next_plan_id, next_generation, dispatch_meta, completions, backend>>
  BY DEF RegisterTarget, RegisterWorker, idVars, execVars
<1>3. /\ TargetWorker' = TargetWorker /\ TargetBoot' = TargetBoot /\ Restart' = Restart
  BY <1>1, SameScenario
<1>4. StepOK'
  BY <1>1 DEF CoordOK, StepOK, Unsent
<1>5. WorldOK'
  <2>1. TargetWorker \in Workers
    BY DistributedAssumption DEF TargetWorker
  <2>2. worker_boots = [w \in Workers |-> NoBoot] /\ recompute = {} /\ epoch = 1
    BY <1>1 DEF CoordOK, WorldOK
  <2>3. worker_boots'[TargetWorker] = TargetBoot
    BY <1>2, <2>1, <2>2
  <2>4. recompute' = IF Restart THEN {} ELSE {1}
    BY <1>1, <2>2
  <2>5. pc' \notin Opening \cup {"register"}
    BY <1>1 DEF Opening
  <2> QED BY <1>1, <1>2, <1>3, <2>2, <2>3, <2>4, <2>5 DEF WorldOK
<1>6. PlannerOK'
  <2>1. /\ Holds(NoPlan, IdleBackend, NoMeta, {})
        /\ next_plan_id = 1 /\ next_generation = 1
    BY <1>1 DEF CoordOK, PlannerOK
  <2>2. /\ Holds(NoPlan, IdleBackend, NoMeta, {})'
        /\ next_plan_id' = 1 /\ next_generation' = 1
    BY <1>2, <2>1 DEF Holds
  <2> QED BY <1>1, <2>2 DEF PlannerOK, Closing
<1>7. PlannerNeverToBlame'
  BY <1>1 DEF CoordOK, PlannerNeverToBlame
<1> QED BY <1>4, <1>5, <1>6, <1>7 DEF CoordOK

\* Decide does: the fallback and both early returns are never taken.
LEMMA CoordDecide == ASSUME CoordOK, Decide PROVE CoordOK'
<1>1. /\ pc = "plan" /\ UNCHANGED <<scenario, status, rejected, world>>
  BY DEF Decide, At, notes
<1> DEFINE cs == <<Ranked(1), Ranked(2), Ranked(3), Ranked(4)>>
           pool == S!Pool(cs, RankedRequest, 0)
           front == S!Front(cs, RankedRequest, pool)
           fits(i) == /\ Candidates[i] = Expected
                      /\ BuildCandidate(Candidates[i]).target_worker = TargetWorker
                      /\ BuildCandidate(Candidates[i]).target_boot = TargetBoot
<1>2. /\ pool # {} /\ S!OutcomeOf(cs, RankedRequest, 0) = "PLAN_FOUND"
      /\ \A i \in front : fits(i)
  BY <1>1, Decision DEF CoordOK
<1>3. pool # {} /\ S!OutcomeOf(cs, RankedRequest, 0) = "PLAN_FOUND" =>
      \E i \in front :
        /\ PlanFound(Req, BuildCandidate(Candidates[i]).target_worker,
                          BuildCandidate(Candidates[i]).target_boot, 1)
        /\ AdvanceIf(Candidates[i] = Expected, "unexpected")
  BY DEF Decide
<1> HIDE DEF cs, pool, front
<1>4. PICK i \in front :
        /\ PlanFound(Req, BuildCandidate(Candidates[i]).target_worker,
                          BuildCandidate(Candidates[i]).target_boot, 1)
        /\ AdvanceIf(Candidates[i] = Expected, "unexpected")
  BY <1>2, <1>3
<1>5. fits(i)
  BY <1>2, <1>4
<1>6. StorePlan(Req, TargetWorker, TargetBoot, 1, FALSE) /\ pc' = "authorize"
        /\ exit' = exit
  BY <1>1, <1>4, <1>5, Program DEF PlanFound, AdvanceIf, Advance
<1>7. /\ Holds(NoPlan, IdleBackend, NoMeta, {}) /\ epoch = 1
      /\ next_plan_id = 1 /\ next_generation = 1
  BY <1>1 DEF CoordOK, PlannerOK, WorldOK
<1>8. /\ plans' = Only(PlanIds, ThePlan("PLANNED", "UNKNOWN", FALSE, 0), NoPlan)
      /\ backend' = backend /\ dispatch_meta' = dispatch_meta
           /\ completions' = completions
      /\ epoch' = epoch /\ alive_workers' = alive_workers /\ worker_boots' = worker_boots
  BY <1>6, <1>7, FirstPlan
<1>9. StepOK' /\ WorldOK' /\ PlannerNeverToBlame'
  BY <1>1, <1>6, <1>8, CoordMoves DEF WithPlan, ctxVars
<1>10. ThePlan("PLANNED", "UNKNOWN", FALSE, 0)' = ThePlan("PLANNED", "UNKNOWN", FALSE, 0)
  BY <1>1, SameScenario
<1>11. Holds(ThePlan("PLANNED", "UNKNOWN", FALSE, 0), IdleBackend, NoMeta, {})'
  BY <1>7, <1>8, <1>10 DEF Holds
<1>12. PlannerOK'
  BY <1>6, <1>11 DEF PlannerOK, Opening, Closing
<1> QED BY <1>9, <1>12 DEF CoordOK

\* Authorize does.
LEMMA CoordAuthorize == ASSUME CoordOK, Authorize PROVE CoordOK'
<1>1. /\ pc = "authorize" /\ pc' = "dispatch" /\ UNCHANGED <<scenario, exit, status, rejected, world>>
      /\ AuthorizePlan(1)
  BY Program DEF Authorize, At, notes, Advance
<1>2. Holds(ThePlan("PLANNED", "UNKNOWN", FALSE, 0), IdleBackend, NoMeta, {})
  BY <1>1 DEF CoordOK, PlannerOK
<1>3. plans' = Only(PlanIds, ThePlan("AUTHORIZED", "UNKNOWN", FALSE, 0), NoPlan)
  BY <1>1, <1>2, AuthorizeFirst
<1>4. UNCHANGED <<ctxVars, backend, dispatch_meta, completions>>
  BY <1>1 DEF AuthorizePlan, execVars
<1>5. StepOK' /\ WorldOK' /\ PlannerNeverToBlame'
  BY <1>1, <1>4, CoordMoves DEF WithPlan
<1>6. ThePlan("AUTHORIZED", "UNKNOWN", FALSE, 0)' =
          ThePlan("AUTHORIZED", "UNKNOWN", FALSE, 0)
  BY <1>1, SameScenario
<1>7. Holds(ThePlan("AUTHORIZED", "UNKNOWN", FALSE, 0), IdleBackend, NoMeta, {})'
  BY <1>2, <1>3, <1>4, <1>6 DEF Holds
<1>8. PlannerOK'
  BY <1>1, <1>7 DEF PlannerOK, Opening, Closing
<1> QED BY <1>5, <1>8 DEF CoordOK

\* Dispatch does, whether or not the send is noticed to fail.
LEMMA CoordDispatch ==
  ASSUME CoordOK, NEW sent \in BOOLEAN, Dispatch(sent)
  PROVE  CoordOK'
<1> DEFINE p == ThePlan("DISPATCHED", "UNKNOWN", FALSE, 1)
<1>1. /\ pc = "dispatch" /\ UNCHANGED <<scenario, exit, rejected, world>> /\ DispatchPlan(1)
      /\ \/ pc' = "await" /\ status' = status
         \/ pc' = "receipt" /\ status' = "REJECTED"
  <2>1. pc = "dispatch" /\ UNCHANGED <<scenario, rejected, world>> /\ DispatchPlan(1)
    BY DEF Dispatch, At
  <2>2. CASE sent
    BY <2>1, <2>2, Program DEF Dispatch, Advance
  <2>3. CASE ~sent
    BY <2>1, <2>3 DEF Dispatch
  <2> QED BY <2>1, <2>2, <2>3
<1>2. Holds(ThePlan("AUTHORIZED", "UNKNOWN", FALSE, 0), IdleBackend, NoMeta, {})
  BY <1>1 DEF CoordOK, PlannerOK
<1>3. /\ plans' = Only(PlanIds, p, NoPlan)
      /\ backend' = Only(PlanIds, Handed("PENDING"), IdleBackend)
      /\ dispatch_meta' = Only(DispatchIds, Entry, NoMeta)
      /\ completions' = {}
  BY <1>1, <1>2, DispatchFirst
<1>4. UNCHANGED ctxVars
  BY <1>1 DEF DispatchPlan
<1>5. StepOK' /\ WorldOK' /\ PlannerNeverToBlame'
  BY <1>1, <1>4, CoordMoves DEF WithPlan
<1>6. p' = p /\ Entry' = Entry
  BY <1>1, SameScenario
<1>7. CASE pc' = "await"
  <2>1. Holds(p, Handed("PENDING"), Entry, {})'
    BY <1>3, <1>6 DEF Holds
  <2>2. PlannerOK'
    BY <1>7, <2>1 DEF PlannerOK, Opening, Closing
  <2> QED BY <1>5, <2>2 DEF CoordOK
<1>8. CASE pc' = "receipt" /\ status' = "REJECTED"
  <2>1. plans' = Only(PlanIds, p', NoPlan)
    BY <1>3, <1>6
  <2> HIDE DEF p
  <2>2. (IF pc' = "receipt" THEN "DISPATCHED" ELSE "FAILED") = "DISPATCHED"
    BY <1>8
  <2>3. plans' = Only(PlanIds, ThePlan(IF pc = "receipt" THEN "DISPATCHED" ELSE "FAILED",
                                           "UNKNOWN", FALSE, 1), NoPlan)'
    BY <2>1, <2>2 DEF p
  <2>4. PlannerOK'
    BY <1>8, <2>3 DEF PlannerOK, Opening, Closing
  <2> QED BY <1>5, <2>4 DEF CoordOK
<1> QED BY <1>1, <1>7, <1>8

\* An answer is taken exactly if it is a COMPLETE, and reports a success.
LEMMA Answer ==
  ASSUME NEW m \in Messages
  PROVE  /\ Answered(m) = "DISPATCHED" <=> m.type = "COMPLETE"
         /\ Answered(m) \in {"DISPATCHED", "REJECTED", "UNKNOWN"}
         /\ ReportedOutcome(m) = "SUCCEEDED"
BY DEF Messages, Msg, NoMsg, Answered, ReportedOutcome

\* Await does, whatever is received.
LEMMA CoordAwait == ASSUME CoordOK, Await PROVE CoordOK'
<1> DEFINE p == ThePlan("DISPATCHED", "UNKNOWN", FALSE, 1)
<1>1. PICK m \in Messages :
        /\ status' = Answered(m)
        /\ IF Answered(m) = "DISPATCHED"
           THEN OnAdapterCompletion(1, "SUCCEEDED") /\ Advance
           ELSE pc' = "receipt" /\ UNCHANGED <<vars, exit>>
  BY Answer DEF Await
<1>2. pc = "await" /\ UNCHANGED <<scenario, rejected, world>>
  BY DEF Await, At
<1>3. Holds(p, Handed("PENDING"), Entry, {})
  BY <1>2 DEF CoordOK, PlannerOK
<1>4. p' = p /\ Earned' = Earned
  BY <1>2, SameScenario
<1>5. CASE Answered(m) = "DISPATCHED"
  <2>1. OnAdapterCompletion(1, "SUCCEEDED") /\ pc' = "deliver" /\ exit' = exit
        /\ status' = "DISPATCHED"
    BY <1>1, <1>2, <1>5, Program DEF Advance
  <2>2. /\ plans' = plans
        /\ backend' = Only(PlanIds, Handed("SUCCEEDED"), IdleBackend)
        /\ dispatch_meta' = Only(DispatchIds, NoMeta, NoMeta)
        /\ completions' = {Earned}
    BY <1>3, <2>1, CompleteFirst
  <2>3. UNCHANGED ctxVars
    BY <2>1 DEF OnAdapterCompletion
  <2>4. StepOK' /\ WorldOK' /\ PlannerNeverToBlame'
    BY <1>2, <2>1, <2>3, CoordMoves DEF WithPlan
  <2>5. Holds(p, Handed("SUCCEEDED"), NoMeta, {Earned})'
    BY <1>3, <1>4, <2>2 DEF Holds
  <2>6. PlannerOK'
    BY <2>1, <2>5 DEF PlannerOK, Opening, Closing
  <2> QED BY <2>4, <2>6 DEF CoordOK
<1>6. CASE Answered(m) # "DISPATCHED"
  <2>1. pc' = "receipt" /\ exit' = exit /\ UNCHANGED <<ctxVars, plans>>
        /\ status' \in {"REJECTED", "UNKNOWN"}
    BY <1>1, <1>6, Answer DEF vars
  <2>2. StepOK' /\ WorldOK' /\ PlannerNeverToBlame'
    BY <1>2, <2>1, CoordMoves DEF WithPlan
  <2>3. plans' = Only(PlanIds, p', NoPlan)
    BY <1>3, <1>4, <2>1 DEF Holds
  <2> HIDE DEF p
  <2>4. (IF pc' = "receipt" THEN "DISPATCHED" ELSE "FAILED") = "DISPATCHED"
    BY <2>1
  <2>5. plans' = Only(PlanIds, ThePlan(IF pc = "receipt" THEN "DISPATCHED" ELSE "FAILED",
                                           "UNKNOWN", FALSE, 1), NoPlan)'
    BY <2>3, <2>4 DEF p
  <2>6. PlannerOK'
    BY <2>1, <2>5 DEF PlannerOK, Opening, Closing
  <2> QED BY <2>2, <2>6 DEF CoordOK
<1> QED BY <1>5, <1>6

\* Deliver does.
LEMMA CoordDeliver == ASSUME CoordOK, Deliver PROVE CoordOK'
<1>1. /\ pc = "deliver" /\ pc' = "receipt" /\ UNCHANGED <<scenario, exit, status, rejected, world>>
      /\ \E r \in completions : DeliverCompletion(r)
  BY Program DEF Deliver, At, notes, Advance
<1>2. /\ plans = Only(PlanIds, ThePlan("DISPATCHED", "UNKNOWN", FALSE, 1), NoPlan)
      /\ completions = {Earned} /\ status = "DISPATCHED"
  BY <1>1 DEF CoordOK, PlannerOK, Holds
<1>3. DeliverCompletion(Earned)
  BY <1>1, <1>2
<1>4. ApplyReport(Earned) /\ UNCHANGED ctxVars
  BY <1>3 DEF DeliverCompletion
<1>5. plans' = Only(PlanIds, Succeeded, NoPlan)
  BY <1>2, <1>4, DeliverFirst
<1>6. Succeeded' = Succeeded
  BY <1>1, SameScenario
<1>7. StepOK' /\ WorldOK' /\ PlannerNeverToBlame'
  BY <1>1, <1>4, CoordMoves DEF WithPlan
<1>8. PlannerOK'
  BY <1>1, <1>2, <1>5, <1>6 DEF PlannerOK, Opening, Closing
<1> QED BY <1>7, <1>8 DEF CoordOK

\* Receipt does.
LEMMA CoordReceipt == ASSUME CoordOK, Receipt PROVE CoordOK'
<1>1. /\ pc = "receipt" /\ pc' = "check" /\ UNCHANGED <<scenario, exit, status, rejected, world>>
      /\ DispatchReturn(1, status)
  BY Program DEF Receipt, At, notes, Advance
<1>2. UNCHANGED ctxVars
  BY <1>1 DEF DispatchReturn
<1>3. StepOK' /\ WorldOK' /\ PlannerNeverToBlame'
  BY <1>1, <1>2, CoordMoves DEF WithPlan
<1>4. /\ Succeeded' = Succeeded
      /\ ThePlan("FAILED", "UNKNOWN", FALSE, 1)' = ThePlan("FAILED", "UNKNOWN", FALSE, 1)
  BY <1>1, SameScenario
<1>5. \/ plans = Only(PlanIds, Succeeded, NoPlan) /\ status = "DISPATCHED"
      \/ /\ plans = Only(PlanIds, ThePlan("DISPATCHED", "UNKNOWN", FALSE, 1), NoPlan)
         /\ status \in {"REJECTED", "UNKNOWN"}
  BY <1>1 DEF CoordOK, PlannerOK
<1>6. CASE plans = Only(PlanIds, Succeeded, NoPlan) /\ status = "DISPATCHED"
  <2>1. plans' = plans
    BY <1>1, <1>6, ReceiptOfSuccess
  <2>2. PlannerOK'
    BY <1>1, <1>4, <1>6, <2>1 DEF PlannerOK, Opening, Closing
  <2> QED BY <1>3, <2>2 DEF CoordOK
<1>7. CASE /\ plans = Only(PlanIds, ThePlan("DISPATCHED", "UNKNOWN", FALSE, 1), NoPlan)
           /\ status \in {"REJECTED", "UNKNOWN"}
  <2> DEFINE q == ThePlan("FAILED", "UNKNOWN", FALSE, 1)
  <2>1. plans' = Only(PlanIds, q, NoPlan)
    BY <1>1, <1>7, ReceiptOfFailure
  <2>2. plans' = Only(PlanIds, q', NoPlan)
    BY <1>4, <2>1
  <2> HIDE DEF q
  <2>3. (IF pc' = "receipt" THEN "DISPATCHED" ELSE "FAILED") = "FAILED"
    BY <1>1
  <2>4. plans' = Only(PlanIds, ThePlan(IF pc = "receipt" THEN "DISPATCHED" ELSE "FAILED",
                                           "UNKNOWN", FALSE, 1), NoPlan)'
    BY <2>2, <2>3 DEF q
  <2>5. PlannerOK'
    BY <1>1, <1>7, <2>4 DEF PlannerOK, Opening, Closing
  <2> QED BY <1>3, <2>5 DEF CoordOK
<1> QED BY <1>5, <1>6, <1>7

\* CheckSucceeded does.
LEMMA CoordCheck == ASSUME CoordOK, CheckSucceeded PROVE CoordOK'
<1>1. pc = "check" /\ UNCHANGED <<vars, scenario, status, rejected, world>>
      /\ AdvanceIf(plans[1].state = "SUCCEEDED", "failed")
  BY DEF CheckSucceeded, At, notes
<1>2. CASE plans[1].state = "SUCCEEDED"
  <2>1. pc' = "staleBoot" /\ exit' = exit
    BY <1>1, <1>2, Program DEF AdvanceIf, Advance
  <2>2. UNCHANGED <<ctxVars, plans>>
    BY <1>1 DEF vars
  <2>3. StepOK' /\ WorldOK' /\ PlannerNeverToBlame'
    BY <1>1, <2>1, <2>2, CoordMoves DEF WithPlan, Closing
  <2>4. Succeeded' = Succeeded
    BY <1>1, SameScenario
  <2>5. plans = Only(PlanIds, Succeeded, NoPlan) /\ status = "DISPATCHED"
    <3> DEFINE q == ThePlan("FAILED", "UNKNOWN", FALSE, 1)
    <3>1. \/ plans = Only(PlanIds, Succeeded, NoPlan) /\ status = "DISPATCHED"
          \/ plans = Only(PlanIds, q, NoPlan)
      BY <1>1 DEF CoordOK, PlannerOK
    <3>2. q.state = "FAILED"
      BY DEF ThePlan
    <3> HIDE DEF q
    <3>3. Only(PlanIds, q, NoPlan)[1] = q
      BY OnlyAt, OneId, Zenon
    <3> QED BY <1>2, <3>1, <3>2, <3>3
  <2>6. PlannerOK'
    BY <1>1, <2>1, <2>2, <2>4, <2>5 DEF PlannerOK, Opening, Closing
  <2> QED BY <2>3, <2>6 DEF CoordOK
<1>3. CASE plans[1].state # "SUCCEEDED"
  <2>1. exit' = "failed" /\ pc' = pc
    BY <1>1, <1>3 DEF AdvanceIf, Exit
  <2> QED BY <1>1, <2>1, CoordStands
<1> QED BY <1>2, <1>3

\* A step of the program after success.
LEMMA CoordCloses ==
  ASSUME CoordOK, pc \in Closing, pc # "stop", pc' = Following(pc),
         UNCHANGED <<ctxVars, plans, scenario, exit, status, world>>, rejected'
  PROVE  CoordOK'
<1>1. pc' \in Closing
  BY Program DEF Closing
<1>2. StepOK' /\ WorldOK' /\ PlannerNeverToBlame'
  BY <1>1, CoordMoves DEF WithPlan
<1>3. Succeeded' = Succeeded
  BY SameScenario
<1>4. plans = Only(PlanIds, Succeeded, NoPlan) /\ status = "DISPATCHED"
  BY DEF CoordOK, PlannerOK
<1>5. PlannerOK'
  BY <1>1, <1>3, <1>4 DEF PlannerOK, Opening, Closing
<1> QED BY <1>2, <1>5 DEF CoordOK

\* The stale traffic does: all of it is rejected.
LEMMA CoordStale ==
  ASSUME CoordOK, NEW step \in Closing \ {"stop"}, NEW boot, NEW outcome,
         \/ StaleReport(step, boot, outcome)
         \/ StaleAttempt
         \/ StaleDispatch
  PROVE  CoordOK'
<1>1. rejected
  BY DEF CoordOK, PlannerNeverToBlame
<1>2. ASSUME pc \in Closing
      PROVE  /\ plans[1].state = "SUCCEEDED" /\ ~DispatchAccepts(1)
             /\ ReportExecution(Report(boot, outcome)) => plans' = plans
  <2>1. plans = Only(PlanIds, Succeeded, NoPlan)
    BY <1>2 DEF CoordOK, PlannerOK
  <2> QED BY <2>1, SuccessIsFinal
<1>3. CASE StaleReport(step, boot, outcome)
  <2>1. /\ pc = step /\ pc' = Following(pc) /\ UNCHANGED <<scenario, exit, status, world>>
        /\ ReportExecution(Report(boot, outcome))
        /\ rejected' = (rejected /\ plans'[1].state = "SUCCEEDED")
    BY <1>3 DEF StaleReport, At, Advance, StillSucceeded
  <2>2. UNCHANGED ctxVars
    BY <2>1 DEF ReportExecution
  <2>3. plans' = plans /\ plans[1].state = "SUCCEEDED"
    BY <1>2, <2>1
  <2>4. rejected'
    BY <1>1, <2>1, <2>3, Zenon
  <2> QED BY <2>1, <2>2, <2>3, <2>4, CoordCloses
<1>4. CASE StaleAttempt
  <2>1. /\ pc = "staleAttempt" /\ pc' = Following(pc)
        /\ UNCHANGED <<ctxVars, plans, scenario, exit, status, world>>
        /\ rejected' = (rejected /\ plans'[1].state = "SUCCEEDED")
    BY <1>4 DEF StaleAttempt, At, Advance, StillSucceeded, vars
  <2>2. plans' = plans /\ plans[1].state = "SUCCEEDED"
    BY <1>2, <2>1 DEF Closing
  <2>3. rejected'
    BY <1>1, <2>1, <2>2, Zenon
  <2> QED BY <2>1, <2>3, CoordCloses DEF Closing
<1>5. CASE StaleDispatch
  <2>1. /\ pc = "staleDispatch" /\ pc' = Following(pc)
        /\ UNCHANGED <<ctxVars, plans, scenario, exit, status, world>>
        /\ rejected' = (rejected /\ ~DispatchAccepts(1))
    BY <1>5 DEF StaleDispatch, At, Advance, vars
  <2>2. ~DispatchAccepts(1)
    BY <1>2, <2>1 DEF Closing
  <2>3. rejected'
    BY <1>1, <2>1, <2>2, Zenon
  <2> QED BY <2>1, <2>3, CoordCloses DEF Closing
<1> QED BY <1>3, <1>4, <1>5

\* Stop does, and the proof ends well.
LEMMA CoordStop == ASSUME CoordOK, Stop PROVE CoordOK'
<1>1. UNCHANGED <<vars, scenario, pc, status, rejected, world>>
      /\ exit' = IF Restart /\ ~rejected THEN "stale_accepted" ELSE "ok"
  BY DEF Stop, Exit, notes
<1>2. exit' = "ok"
  BY <1>1 DEF CoordOK, PlannerNeverToBlame
<1> QED BY <1>1, <1>2, CoordStands

\* A step of the opening, if it goes on and if it is given up.
LEMMA CoordWaits ==
  ASSUME CoordOK, UNCHANGED <<vars, scenario, status, rejected, world>>, pc \in Opening,
         NEW ok, NEW how, how \in {"bind", "spawn", "accept", "registration", "no_work"},
         AdvanceIf(ok, how) \/ Advance
  PROVE  CoordOK'
<1>1. CASE Advance
  BY <1>1, CoordOpens DEF Advance
<1>2. CASE AdvanceIf(ok, how) /\ ok
  BY <1>2, CoordOpens DEF Advance, AdvanceIf
<1>3. CASE AdvanceIf(ok, how) /\ ~ok
  BY <1>3, CoordStands DEF Exit, AdvanceIf
<1> QED BY <1>1, <1>2, <1>3

\* The steps of the opening do.
LEMMA CoordOpening ==
  ASSUME CoordOK,
         \/ \E ok \in BOOLEAN : \/ Bind(ok) \/ Spawn("spawnA", BootA, ok)
                                \/ Spawn("spawnB", BootB, ok)
                                     \/ Spawn("spawnC", BootC, ok)
         \/ Accept("accept1", "first") \/ Accept("accept2", "second")
         \/ AcceptFailure \/ Registration1 \/ Registration2
         \/ SendRun("run", conn.first) \/ SendRun("shadowRun", conn.second)
         \/ WorkDone \/ ShadowDone \/ KillA
  PROVE  CoordOK'
<1>1. UNCHANGED <<vars, scenario, status, rejected, world>> /\ pc \in Opening
  BY DEF Bind, Spawn, Accept, AcceptFailure, AcceptFails, Registration1, Registration2,
         SendRun, WorkDone, ShadowDone, KillA, notes, At, Opening
<1>2. \E o, how : how \in {"bind", "spawn", "accept", "registration", "no_work"}
                  /\ (AdvanceIf(o, how) \/ Advance)
  BY DEF Bind, Spawn, Accept, AcceptFailure, AcceptFails, Registration1, Registration2,
     SendRun, WorkDone, ShadowDone, KillA
<1> QED BY <1>1, <1>2, CoordWaits

\* Every step does.
LEMMA CoordStep == ASSUME CoordOK, [DistributedNext]_allVars PROVE CoordOK'
<1>1. CASE UNCHANGED allVars
  BY <1>1, CoordStands DEF allVars, coordVars
<1>2. CASE CoordinatorDies
  BY <1>2, CoordStands DEF CoordinatorDies, Exit, notes
<1>3. ASSUME NEW b \in Boots, WorkerStep(b) \/ DieSomehow(b) PROVE CoordOK'
  <2>1. UNCHANGED <<vars, coordVars>>
    BY <1>3 DEF WorkerStep, DieSomehow, Connect, SendRegister, Serve, HangUp, Die
  <2> QED BY <2>1, CoordStands DEF coordVars
<1>4. CASE CoordinatorStep
  <2>1. CASE \E sent \in BOOLEAN : Dispatch(sent)
    BY <2>1, CoordDispatch
  <2>2. CASE StaleReport("staleBoot", BootA, "SUCCEEDED")
             \/ StaleReport("staleCompletion", BootC, "FAILED") \/ StaleAttempt
                  \/ StaleDispatch
    <3>1. "staleBoot" \in Closing \ {"stop"} /\ "staleCompletion" \in Closing \ {"stop"}
      BY DEF Closing
    <3> QED BY <2>2, <3>1, CoordStale
  <2> QED
    BY <1>4, <2>1, <2>2, CoordOpening, CoordRegister, CoordDecide, CoordAuthorize,
       CoordAwait,
       CoordDeliver, CoordReceipt, CoordCheck, CoordStop DEF CoordinatorStep
<1> QED BY <1>1, <1>2, <1>3, <1>4, CoordOpening DEF DistributedNext

-----------------------------------------------------------------------------
\* The coordinator takes steps only while it runs.
LEMMA OnlyRunning == CoordinatorStep \/ AcceptFailure \/ CoordinatorDies => Running
<1>1. /\ \A ok : Bind(ok) => Running
      /\ \A step, b, ok : Spawn(step, b, ok) => Running
      /\ \A step, slot : Accept(step, slot) => Running
      /\ AcceptFailure => Running
  BY DEF Bind, Spawn, Accept, AcceptFailure, AcceptFails, At
<1>2. Registration1 \/ Registration2 \/ WorkDone \/ ShadowDone \/ KillA => Running
  BY DEF Registration1, Registration2, WorkDone, ShadowDone, KillA, At
<1>3. \A step, b : SendRun(step, b) => Running
  BY DEF SendRun, At
<1>4. RegisterTarget \/ Decide \/ Authorize \/ Await \/ Deliver \/ Receipt
        \/ CheckSucceeded => Running
  BY DEF RegisterTarget, Decide, Authorize, Await, Deliver, Receipt, CheckSucceeded, At
<1>5. \A sent : Dispatch(sent) => Running
  BY DEF Dispatch, At
<1>6. /\ \A step, b, o : StaleReport(step, b, o) => Running
      /\ StaleAttempt \/ StaleDispatch \/ Stop \/ CoordinatorDies => Running
  BY DEF StaleReport, StaleAttempt, StaleDispatch, Stop, CoordinatorDies, At
<1> QED BY <1>1, <1>2, <1>3, <1>4, <1>5, <1>6 DEF CoordinatorStep

\* What has ended does not run again.
LEMMA StaysEnded == ASSUME [DistributedNext]_allVars, ~Running PROVE exit' = exit
<1>1. ~CoordinatorStep /\ ~AcceptFailure /\ ~CoordinatorDies
  BY OnlyRunning
<1> QED BY <1>1 DEF DistributedNext, WorkerStep, DieSomehow, Connect, SendRegister, Serve,
             HangUp, Die, coordVars, allVars

\* The steps of the program that neither spawn nor accept.
Moves ==
  \/ pc' = pc
  \/ pc' = Following(pc)
       /\ pc \notin {"spawnA", "spawnB", "spawnC", "accept1", "accept2", "stop"}
  \/ pc \in {"dispatch", "await"} /\ pc' = "receipt"

\* A step that leaves processes, backlog and connections alone.
LEMMA Quietly ==
  ASSUME StepOK, NetTypeOK, ConnOK, scenario' = scenario, UNCHANGED <<proc, backlog, conn>>,
         Moves, Running' => Running
  PROVE  ConnOK'
<1>1. Restart' = Restart /\ TargetBoot' = TargetBoot
  BY SameScenario
<1>2. /\ pc \in BeforeA <=> pc' \in BeforeA'
      /\ pc \in BeforeB <=> pc' \in BeforeB'
      /\ Restart => (pc \in BeforeC <=> pc' \in BeforeC')
      /\ pc \in BeforeFirst <=> pc' \in BeforeFirst'
      /\ pc \in BeforeSecond <=> pc' \in BeforeSecond'
      /\ pc = "accept2" <=> pc' = "accept2"
  BY <1>1, Program DEF BeforeA, BeforeB, BeforeC, BeforeFirst, BeforeSecond, StepOK,
     Unsent, Opening, Closing, Restart, Moves
<1> QED BY <1>1, <1>2 DEF ConnOK

\* The types, where they are used.
LEMMA NetTypes ==
  ASSUME NetTypeOK
  PROVE  /\ proc \in [Boots -> ProcStates]
         /\ backlog \in Seq(Boots)
         /\ conn.first \in Boots \cup {NoBoot} /\ conn.second \in Boots \cup {NoBoot}
         /\ conn \in [first: Boots \cup {NoBoot}, second: Boots \cup {NoBoot}]
         /\ NoBoot \notin Boots
         /\ BootA \in Boots /\ BootB \in Boots /\ BootC \in Boots
         /\ TargetBoot \in Boots
BY NoBootAssumption, DistributedAssumption DEF NetTypeOK, TargetBoot

\* A spawned boot was absent.
LEMMA SpawnConn ==
  ASSUME StepOK, NetTypeOK, ConnOK, NEW step, NEW b, NEW ok \in BOOLEAN, Spawn(step, b,
         ok),
         <<step, b>> \in {<<"spawnA", BootA>>, <<"spawnB", BootB>>, <<"spawnC", BootC>>}
  PROVE  ConnOK' /\ proc' \in [Boots -> ProcStates]
<1>1. /\ pc = step /\ Running /\ UNCHANGED <<scenario, backlog, conn>>
      /\ ok => pc' = Following(pc) /\ proc' = [proc EXCEPT ![b] = "connecting"]
      /\ ~ok => pc' = pc /\ proc' = proc
  BY DEF Spawn, At, AdvanceIf, Advance, Exit, notes
<1>2. CASE ~ok
  BY <1>1, <1>2, Quietly, NetTypes DEF Moves
<1>3. CASE ok
  <2>1. /\ proc' = [proc EXCEPT ![b] = "connecting"] /\ pc' = Following(pc)
        /\ pc = step /\ b \in Boots /\ proc \in [Boots -> ProcStates]
    BY <1>1, <1>3, NetTypes
  <2>2. Restart' = Restart /\ TargetBoot' = TargetBoot
    BY <1>1, SameScenario
  <2>3. proc[b] = "absent"
    BY <2>1 DEF ConnOK, BeforeA, BeforeB, BeforeC
  <2>4. \A c \in Boots : proc[c] \notin {"absent", "connecting"} => proc'[c] = proc[c]
    BY <2>1, <2>3
  <2>5. /\ \A i \in 1..Len(backlog) :
            /\ proc'[backlog[i]] \notin {"absent", "connecting"}
            /\ backlog[i] # conn.first /\ backlog[i] # conn.second
        /\ \A c \in Boots : c \in {conn.first, conn.second} =>
             proc'[c] \notin {"absent", "connecting"}
    BY <2>4, NetTypes DEF ConnOK
  <2>6. /\ pc' \in BeforeA' => proc'[BootA] = "absent"
        /\ Restart \/ pc' \in BeforeB' => proc'[BootB] = "absent"
        /\ ~Restart \/ pc' \in BeforeC' => proc'[BootC] = "absent"
    BY <2>1, <2>2, Program, DistributedAssumption DEF StepOK, ConnOK, BeforeA, BeforeB,
       BeforeC
  <2>7. /\ pc \in BeforeFirst <=> pc' \in BeforeFirst'
        /\ pc \in BeforeSecond <=> pc' \in BeforeSecond'
        /\ pc # "accept2" /\ (pc' = "accept2" => Restart)
    BY <2>1, <2>2, Program DEF StepOK, BeforeA, BeforeB, BeforeC, BeforeFirst,
       BeforeSecond
  <2> QED BY <1>1, <2>1, <2>2, <2>5, <2>6, <2>7 DEF ConnOK, ProcStates
<1> QED BY <1>2, <1>3

\* A boot that connects is behind no connection and not in the backlog.
LEMMA ConnectConn ==
  ASSUME StepOK, NetTypeOK, ConnOK, NEW b \in Boots, Connect(b)
  PROVE  ConnOK' /\ proc' \in [Boots -> ProcStates]
         /\ backlog' \in Seq(Boots)
<1>1. /\ proc[b] = "connecting" /\ UNCHANGED <<scenario, pc, exit, conn>>
      /\ \/ proc' = [proc EXCEPT ![b] = "connected"] /\ backlog' = Append(backlog, b)
         \/ proc' = [proc EXCEPT ![b] = "ended"] /\ backlog' = backlog
  BY DEF Connect, End, coordVars
<1>2. proc \in [Boots -> ProcStates] /\ backlog \in Seq(Boots)
  BY NetTypes
<1>3. /\ proc'[b] \notin {"absent", "connecting"} /\ \A c \in Boots : c # b =>
             proc'[c] = proc[c]
      /\ proc' \in [Boots -> ProcStates]
  BY <1>1, <1>2 DEF ProcStates
<1>4. Restart' = Restart /\ TargetBoot' = TargetBoot
  BY <1>1, SameScenario
<1>5. b # conn.first /\ b # conn.second /\ \A i \in 1..Len(backlog) : backlog[i] # b
  BY <1>1 DEF ConnOK
<1>6. /\ \A i \in 1..Len(backlog) : backlog[i] \in Boots
      /\ \A c \in Boots : proc[c] \notin {"absent", "connecting"} =>
             proc'[c] \notin {"absent", "connecting"}
      /\ \A c \in Boots : proc[c] = "absent" => proc'[c] = "absent"
  BY <1>1, <1>2, <1>3
<1>7. /\ \A i, j \in 1..Len(backlog') : backlog'[i] = backlog'[j] => i = j
      /\ \A i \in 1..Len(backlog') :
           /\ proc'[backlog'[i]] \notin {"absent", "connecting"}
           /\ backlog'[i] # conn.first /\ backlog'[i] # conn.second
      /\ backlog' \in Seq(Boots)
  <2>1. CASE backlog' = backlog
    BY <1>2, <1>6, <2>1 DEF ConnOK
  <2>2. CASE backlog' = Append(backlog, b)
    <3>1. /\ Len(backlog') = Len(backlog) + 1 /\ backlog'[Len(backlog) + 1] = b
          /\ \A i \in 1..Len(backlog) : backlog'[i] = backlog[i]
          /\ Len(backlog) \in Nat /\ backlog' \in Seq(Boots)
      BY <1>2, <2>2
    <3>2. \A i \in 1..Len(backlog') : i \in 1..Len(backlog) \/ i = Len(backlog) + 1
      BY <3>1
    <3>3. /\ \A i, j \in 1..Len(backlog) : backlog[i] = backlog[j] => i = j
          /\ \A i \in 1..Len(backlog) :
               /\ proc[backlog[i]] \notin {"absent", "connecting"}
               /\ backlog[i] # conn.first /\ backlog[i] # conn.second
      BY DEF ConnOK
    <3> QED BY <1>3, <1>5, <1>6, <3>1, <3>2, <3>3
  <2> QED BY <1>1, <2>1, <2>2
<1>8. /\ pc' \in BeforeA' => proc'[BootA] = "absent"
      /\ Restart \/ pc' \in BeforeB' => proc'[BootB] = "absent"
      /\ ~Restart \/ pc' \in BeforeC' => proc'[BootC] = "absent"
  BY <1>1, <1>4, <1>6, NetTypes DEF ConnOK, BeforeA, BeforeB, BeforeC
<1>9. /\ BeforeFirst' = BeforeFirst /\ BeforeSecond' = BeforeSecond
      /\ Running' = Running
  BY <1>1, <1>4 DEF Running, BeforeA, BeforeB, BeforeC, BeforeFirst, BeforeSecond
<1>10. \A c \in Boots : c \in {conn.first, conn.second} =>
           proc'[c] \notin {"absent", "connecting"}
  BY <1>6 DEF ConnOK
<1> QED BY <1>1, <1>3, <1>4, <1>7, <1>8, <1>9, <1>10 DEF ConnOK

\* An accepted boot leaves the backlog; in the expected order A comes first.
LEMMA AcceptConn ==
  ASSUME StepOK, NetTypeOK, ConnOK,
         Accept("accept1", "first") \/ Accept("accept2", "second")
  PROVE  /\ ConnOK' /\ backlog' \in Seq(Boots)
         /\ conn' \in [first: Boots \cup {NoBoot}, second: Boots \cup {NoBoot}]
<1> DEFINE b == Head(backlog)
<1>1. /\ \/ pc = "accept1" /\ conn' = [conn EXCEPT !["first"] = b]
         \/ pc = "accept2" /\ conn' = [conn EXCEPT !["second"] = b]
      /\ Running /\ UNCHANGED <<scenario, proc>>
      /\ conn'.first # NoBoot => pc' = Following(pc)
      /\ conn'.first = NoBoot => pc' = pc /\ ~Running'
      /\ backlog # <<>> /\ backlog' = Tail(backlog)
  BY DEF Accept, At, AdvanceIf, Advance, Exit, Running, notes
<1>2. /\ proc \in [Boots -> ProcStates] /\ backlog \in Seq(Boots)
      /\ conn.first \in Boots \cup {NoBoot} /\ conn.second \in Boots \cup {NoBoot}
      /\ conn \in [first: Boots \cup {NoBoot}, second: Boots \cup {NoBoot}]
      /\ NoBoot \notin Boots
  BY NetTypes
<1>3. /\ Len(backlog) \in Nat /\ Len(backlog) >= 1 /\ b = backlog[1] /\ b \in Boots
      /\ Len(backlog') = Len(backlog) - 1
           /\ \A i \in 1..Len(backlog') : backlog'[i] = backlog[i + 1]
      /\ backlog' \in Seq(Boots)
  BY <1>1, <1>2
<1> HIDE DEF b
<1>4. /\ \/ pc = "accept1" /\ conn'.first = b /\ conn'.second = conn.second
         \/ pc = "accept2" /\ conn'.second = b /\ conn'.first = conn.first
      /\ conn' \in [first: Boots \cup {NoBoot}, second: Boots \cup {NoBoot}]
  BY <1>1, <1>2, <1>3
<1>5. /\ proc[b] \notin {"absent", "connecting"} /\ b # conn.first /\ b # conn.second
      /\ \A i \in 1..Len(backlog') : backlog'[i] # b
  <2>1. \A i \in 1..Len(backlog') : i + 1 \in 1..Len(backlog) /\ 1 \in 1..Len(backlog)
          /\ i + 1 # 1
    BY <1>3
  <2>2. 1 \in 1..Len(backlog)
    BY <1>3
  <2> QED BY <1>3, <2>1, <2>2 DEF ConnOK
<1>6. /\ \A i, j \in 1..Len(backlog') : backlog'[i] = backlog'[j] => i = j
      /\ \A i \in 1..Len(backlog') :
           /\ proc[backlog'[i]] \notin {"absent", "connecting"}
           /\ backlog'[i] # conn.first /\ backlog'[i] # conn.second
  <2>1. \A i \in 1..Len(backlog') : i + 1 \in 1..Len(backlog)
          /\ backlog'[i] = backlog[i + 1]
    BY <1>3
  <2>2. \A i, j \in 1..Len(backlog') : i + 1 = j + 1 => i = j
    OBVIOUS
  <2> QED BY <2>1, <2>2 DEF ConnOK
<1>7. Restart' = Restart /\ TargetBoot' = TargetBoot
  BY <1>1, SameScenario
<1>8. /\ pc' \in BeforeA' => proc[BootA] = "absent"
      /\ Restart \/ pc' \in BeforeB' => proc[BootB] = "absent"
      /\ ~Restart \/ pc' \in BeforeC' => proc[BootC] = "absent"
      /\ pc = "accept1" => pc' \notin BeforeFirst' /\ pc' \in BeforeSecond'
           /\ pc \in BeforeFirst /\ pc \in BeforeSecond
      /\ pc = "accept2" => pc' \notin BeforeFirst' /\ (pc' # pc => pc' \notin BeforeSecond')
           /\ pc \notin BeforeFirst /\ pc \in BeforeSecond
      /\ pc = "accept1" => pc \in BeforeC
  BY <1>1, <1>2, <1>3, <1>4, <1>7, Program
     DEF ConnOK, BeforeA, BeforeB, BeforeC, BeforeFirst, BeforeSecond
<1>9. /\ pc' \in BeforeFirst' => conn'.first = NoBoot
      /\ conn'.first = NoBoot => pc' = "accept2" /\ ~Restart
  BY <1>1, <1>2, <1>3, <1>4, <1>8 DEF ConnOK
<1>10. /\ Running' /\ pc' \in BeforeSecond' => conn'.second = NoBoot
       /\ conn'.second = NoBoot => pc' \in BeforeSecond'
  BY <1>1, <1>2, <1>3, <1>4, <1>8, Program DEF ConnOK
<1>11. /\ \A c \in Boots : c \in {conn'.first, conn'.second} =>
              proc[c] \notin {"absent", "connecting"}
       /\ \A i \in 1..Len(backlog') : backlog'[i] # conn'.first
            /\ backlog'[i] # conn'.second
  BY <1>4, <1>5, <1>6 DEF ConnOK
<1>12. Boots = {BootA, BootB, BootC}
  BY DistributedAssumption
<1>13. Restart => conn'.first \in {NoBoot, BootA}
  BY <1>3, <1>4, <1>5, <1>8, <1>12 DEF ConnOK
<1>14. pc' \notin BeforeSecond' /\ conn'.second = TargetBoot => conn'.first = BootA
  <2>1. CASE pc = "accept1"
    BY <1>8, <2>1
  <2>2. CASE pc = "accept2" /\ pc' \notin BeforeSecond'
    <3>1. conn.first \in Boots /\ conn'.first = conn.first /\ conn'.second = b
            /\ b # conn.first
      BY <1>1, <1>2, <1>4, <1>5, <1>7, <2>2 DEF BeforeSecond
    <3>2. CASE Restart
      BY <3>1, <3>2, <1>2 DEF ConnOK
    <3>3. CASE ~Restart
      <4>1. conn.first # BootC
        BY <3>1, <3>3 DEF ConnOK
      <4> QED BY <3>1, <3>3, <4>1, <1>12 DEF TargetBoot
    <3> QED BY <3>2, <3>3
  <2> QED BY <1>4, <2>1, <2>2
<1>15. conn'.first = NoBoot \/ conn'.first # conn'.second
  BY <1>2, <1>3, <1>4, <1>5
<1> QED BY <1>1, <1>3, <1>4, <1>6, <1>7, <1>8, <1>9, <1>10, <1>11, <1>13, <1>14, <1>15
       DEF ConnOK

\* A failed accept leaves the connections; main goes on to the second one.
LEMMA FailureConn == ASSUME StepOK, NetTypeOK, ConnOK, AcceptFailure PROVE ConnOK'
<1>1. /\ Running /\ UNCHANGED <<scenario, proc, backlog, conn>>
      /\ \/ pc = "accept1" /\ ~Restart /\ pc' = Following(pc)
         \/ pc' = pc
  BY DEF AcceptFailure, AcceptFails, At, AdvanceIf, Advance, Exit, notes, netVars
<1>2. CASE pc' = pc
  BY <1>1, <1>2, Quietly DEF Moves
<1>3. CASE pc = "accept1" /\ ~Restart /\ pc' = Following(pc)
  <2>1. Restart' = Restart /\ TargetBoot' = TargetBoot /\ pc' = "accept2"
    BY <1>1, <1>3, SameScenario, Program
  <2>2. /\ BeforeA' = BeforeA /\ BeforeB' = BeforeB /\ BeforeC' = BeforeC
        /\ BeforeFirst' = BeforeFirst /\ BeforeSecond' = BeforeSecond
    BY <2>1 DEF BeforeA, BeforeB, BeforeC, BeforeFirst, BeforeSecond
  <2>3. /\ pc' \notin BeforeA /\ pc' \notin BeforeB /\ pc' \notin BeforeFirst
        /\ pc' \in BeforeSecond /\ pc \in BeforeFirst /\ pc \in BeforeSecond
    BY <1>3, <2>1 DEF BeforeA, BeforeB, BeforeFirst, BeforeSecond
  <2> QED BY <1>1, <1>3, <2>1, <2>2, <2>3 DEF ConnOK
<1> QED BY <1>1, <1>2, <1>3

\* A process that goes on or ends.
LEMMA ProcConn ==
  ASSUME StepOK, NetTypeOK, ConnOK, UNCHANGED <<scenario, pc, exit, backlog, conn>>,
         NEW b \in Boots, proc[b] # "absent",
         NEW to \in {"connected", "serving", "ended"}, proc' = [proc EXCEPT ![b] = to],
         to = "connected" => proc[b] = "connected"
  PROVE  ConnOK' /\ proc' \in [Boots -> ProcStates]
<1>1. /\ proc \in [Boots -> ProcStates] /\ backlog \in Seq(Boots)
  BY NetTypes
<1>2. /\ \A c \in Boots : proc[c] \notin {"absent", "connecting"} =>
             proc'[c] \notin {"absent", "connecting"}
      /\ \A c \in Boots : proc[c] = "absent" => proc'[c] = "absent"
      /\ \A i \in 1..Len(backlog) : backlog[i] \in Boots
  BY <1>1
<1>3. Restart' = Restart /\ TargetBoot' = TargetBoot
  BY SameScenario
<1>4. /\ BeforeA' = BeforeA /\ BeforeB' = BeforeB /\ BeforeC' = BeforeC
      /\ BeforeFirst' = BeforeFirst /\ BeforeSecond' = BeforeSecond
      /\ Running' = Running
  BY <1>3 DEF BeforeA, BeforeB, BeforeC, BeforeFirst, BeforeSecond, Running
<1> QED BY <1>1, <1>2, <1>3, <1>4, NetTypes DEF ConnOK, ProcStates

\* What a coordinator step other than a spawn or an accept does to the network.
Exchanges ==
  /\ UNCHANGED <<scenario, proc, backlog, conn, performed, faulted>> /\ Moves
  /\ killed' = killed \/ KillA \/ Stop
  /\ \/ toWorker' = toWorker
     \/ \E b, m : m \in Orders /\ m.type # "DISPATCH" /\ Send(b, m)
     \/ \E sent \in BOOLEAN : Dispatch(sent)
  /\ status' = status \/ Await \/ \E sent \in BOOLEAN : Dispatch(sent)
  /\ toCoord' = toCoord \/ \E b, m : m \in Messages /\ Recv(b, m)

\* Every coordinator step is a spawn, an accept, or such an exchange.
LEMMA CoordinatorNet ==
  ASSUME CoordinatorStep \/ AcceptFailure \/ CoordinatorDies
  PROVE  \/ \E ok \in BOOLEAN : \/ Spawn("spawnA", BootA, ok) \/ Spawn("spawnB", BootB, ok)
                                \/ Spawn("spawnC", BootC, ok)
         \/ Accept("accept1", "first") \/ Accept("accept2", "second") \/ AcceptFailure
         \/ Exchanges
<1>0. /\ Msg("RUN", NoBoot) \in Orders /\ Msg("RUN", NoBoot).type # "DISPATCH"
      /\ Msg("STOP", NoBoot) \in Orders /\ Msg("STOP", NoBoot).type # "DISPATCH"
  BY DEF Orders, Msg
<1>1. ASSUME NEW ok \in BOOLEAN, Bind(ok) PROVE Exchanges
  BY <1>1 DEF Bind, At, AdvanceIf, Advance, Exit, Exchanges, Moves, notes, netVars,
     history
<1>2. CASE Registration1
  BY <1>2 DEF Registration1, At, AdvanceIf, Advance, Exit, Exchanges, Moves, procs,
     history
<1>3. CASE Registration2
  BY <1>3 DEF Registration2, At, AdvanceIf, Advance, Exit, Exchanges, Moves, notes,
     procs, history
<1>4. CASE SendRun("run", conn.first) \/ SendRun("shadowRun", conn.second)
  BY <1>0, <1>4 DEF SendRun, At, Advance, Exchanges, Moves, notes, procs, history
<1>5. CASE WorkDone
  BY <1>5 DEF WorkDone, At, AdvanceIf, Advance, Exit, Exchanges, Moves, notes, procs,
     history
<1>6. CASE ShadowDone
  BY <1>6 DEF ShadowDone, At, Advance, Exchanges, Moves, notes, procs, history
<1>7. CASE KillA
  <2>1. /\ UNCHANGED <<scenario, proc, backlog, conn, performed, faulted, status, toWorker, toCoord>>
        /\ Moves
    BY <1>7 DEF KillA, At, Advance, Moves, notes, history
  <2> QED BY <1>7, <2>1 DEF Exchanges
<1>8. CASE RegisterTarget
  BY <1>8 DEF RegisterTarget, At, Advance, Exchanges, Moves, netVars, history
<1>9. CASE Decide
  <2>1. pc = "plan" /\ UNCHANGED <<notes, netVars>>
    BY <1>9 DEF Decide, At
  <2>2. pc' = pc \/ pc' = Following(pc)
    BY <1>9 DEF Decide, AdvanceIf, Advance, Exit
  <2> QED BY <2>1, <2>2 DEF Exchanges, Moves, notes, netVars, history
<1>10. CASE Authorize
  BY <1>10 DEF Authorize, At, Advance, Exchanges, Moves, notes, netVars, history
<1>11. ASSUME NEW sent \in BOOLEAN, Dispatch(sent) PROVE Exchanges
  <2>1. /\ UNCHANGED <<scenario, proc, backlog, conn, performed, faulted, killed, toCoord>> /\ Moves
    BY <1>11 DEF Dispatch, At, Advance, Moves, procs, history
  <2> QED BY <1>11, <2>1 DEF Exchanges
<1>12. CASE Await
  <2>1. /\ UNCHANGED <<scenario, proc, backlog, conn, performed, faulted, killed, toWorker>> /\ Moves
        /\ \E m \in Messages : Recv(conn.second, m)
    BY <1>12 DEF Await, At, Advance, Moves, procs, history
  <2> QED BY <1>12, <2>1 DEF Exchanges
<1>13. CASE Deliver
  BY <1>13 DEF Deliver, At, Advance, Exchanges, Moves, notes, netVars, history
<1>14. CASE Receipt
  BY <1>14 DEF Receipt, At, Advance, Exchanges, Moves, notes, netVars, history
<1>15. CASE CheckSucceeded
  BY <1>15 DEF CheckSucceeded, At, AdvanceIf, Advance, Exit, Exchanges, Moves, notes,
     netVars, history
<1>16. CASE \/ StaleReport("staleBoot", BootA, "SUCCEEDED")
            \/ StaleReport("staleCompletion", BootC, "FAILED")
  BY <1>16 DEF StaleReport, At, Advance, Exchanges, Moves, netVars, history
<1>17. CASE StaleAttempt
  BY <1>17 DEF StaleAttempt, At, Advance, Exchanges, Moves, netVars, history
<1>18. CASE StaleDispatch
  BY <1>18 DEF StaleDispatch, At, Advance, Exchanges, Moves, netVars, history
<1>19. CASE Stop
  <2>1. /\ UNCHANGED <<scenario, proc, backlog, conn, performed, faulted, status, toCoord>> /\ Moves
        /\ Send(conn.second, Msg("STOP", NoBoot))
    BY <1>19 DEF Stop, Exit, Moves, notes, history
  <2> QED BY <1>0, <1>19, <2>1 DEF Exchanges
<1>20. CASE CoordinatorDies
  BY <1>20 DEF CoordinatorDies, Exit, Exchanges, Moves, notes, netVars, history
<1> QED BY <1>1, <1>2, <1>3, <1>4, <1>5, <1>6, <1>7, <1>8, <1>9, <1>10, <1>11, <1>12,
           <1>13,
  <1>14, <1>15, <1>16, <1>17, <1>18, <1>19, <1>20 DEF CoordinatorStep

\* send_frame and recv_frame keep the types of the channels.
LEMMA ChannelTypes ==
  ASSUME NetTypeOK, NEW b
  PROVE  /\ \A m \in Orders : Send(b, m) => toWorker' \in [Boots -> Seq(Orders)]
         /\ \A m : Recv(b, m) => toCoord' \in [Boots -> Seq(Answers)]
<1>1. toWorker \in [Boots -> Seq(Orders)] /\ toCoord \in [Boots -> Seq(Answers)]
  BY DEF NetTypeOK
<1>2. ASSUME NEW m \in Orders, Send(b, m) PROVE toWorker' \in [Boots -> Seq(Orders)]
  <2>1. toWorker' = toWorker
          \/ toWorker' = [toWorker EXCEPT ![b] = Append(toWorker[b], m)]
    BY <1>2 DEF Send
  <2>2. b \in Boots => Append(toWorker[b], m) \in Seq(Orders)
    BY <1>1
  <2> QED BY <1>1, <2>1, <2>2
<1>3. ASSUME NEW m, Recv(b, m) PROVE toCoord' \in [Boots -> Seq(Answers)]
  <2>1. toCoord' = toCoord \/ (toCoord' = [toCoord EXCEPT ![b] = Tail(toCoord[b])]
          /\ toCoord[b] # <<>>)
    BY <1>3 DEF Recv
  <2>2. b \in Boots /\ toCoord[b] # <<>> => Tail(toCoord[b]) \in Seq(Answers)
    BY <1>1
  <2> QED BY <1>1, <2>1, <2>2
<1> QED BY <1>2, <1>3

\* An exchange keeps types and connections.
LEMMA ExchangeTypes ==
  ASSUME StepOK, NetTypeOK, ConnOK, Exchanges, Running' => Running
  PROVE  NetTypeOK' /\ ConnOK'
<1>1. ConnOK'
  BY Quietly DEF Exchanges, Moves
<1>2. toWorker' \in [Boots -> Seq(Orders)]
  <2>1. toWorker' = toWorker \/ \E b, m : m \in Orders /\ Send(b, m)
    BY DEF Exchanges, Dispatch, Orders
  <2> QED BY <2>1, ChannelTypes DEF NetTypeOK
<1>3. toCoord' \in [Boots -> Seq(Answers)]
  BY ChannelTypes DEF Exchanges, NetTypeOK
<1>4. killed' \in SUBSET Boots
  BY NetTypes DEF Exchanges, NetTypeOK, KillA, Stop
<1>5. Orders' = Orders /\ Answers' = Answers
  BY DEF Orders, Answers, Msg
<1> QED BY <1>1, <1>2, <1>3, <1>4, <1>5 DEF Exchanges, NetTypeOK

\* A worker's steps, and its death, do.
LEMMA WorkerNet ==
  ASSUME StepOK, NetTypeOK, ConnOK, NEW b \in Boots, WorkerStep(b) \/ DieSomehow(b)
  PROVE  NetTypeOK' /\ ConnOK'
<1>0. Orders' = Orders /\ Answers' = Answers
  BY DEF Orders, Answers, Msg
<1>1. /\ toWorker \in [Boots -> Seq(Orders)] /\ toCoord \in [Boots -> Seq(Answers)]
      /\ performed \in [Boots -> Nat] /\ killed \in SUBSET Boots /\ backlog \in Seq(Boots)
      /\ proc \in [Boots -> ProcStates]
      /\ conn \in [first: Boots \cup {NoBoot}, second: Boots \cup {NoBoot}]
  BY DEF NetTypeOK
<1>2. \A t \in {"REGISTER", "WORK_DONE", "COMPLETE"} : Msg(t, b) \in Answers
  BY DEF Answers
<1>3. \A m \in Answers : Append(toCoord[b], m) \in Seq(Answers)
  BY <1>1
<1>4. CASE Connect(b)
  <2>1. UNCHANGED <<conn, toWorker, toCoord, killed, performed>>
    BY <1>4 DEF Connect, history
  <2> QED BY <1>0, <1>1, <1>4, <2>1, ConnectConn DEF NetTypeOK
<1>5. CASE SendRegister(b)
  <2>1. /\ proc[b] = "connected" /\ proc' = [proc EXCEPT ![b] = "serving"]
        /\ toCoord' = [toCoord EXCEPT ![b] = Append(toCoord[b], Msg("REGISTER", b))]
        /\ UNCHANGED <<scenario, pc, exit, conn, backlog, toWorker, killed, performed>>
    BY <1>5 DEF SendRegister, history, coordVars
  <2>2. ConnOK' /\ proc' \in [Boots -> ProcStates]
    BY <2>1, ProcConn
  <2>3. toCoord' \in [Boots -> Seq(Answers)]
    BY <1>1, <1>2, <1>3, <2>1
  <2> QED BY <1>0, <1>1, <2>1, <2>2, <2>3 DEF NetTypeOK
<1>6. CASE Serve(b)
  <2>1. /\ proc[b] = "serving" /\ (proc' = proc \/ proc' = [proc EXCEPT ![b] = "ended"])
        /\ \/ toCoord' = toCoord
           \/ \E t \in {"WORK_DONE", "COMPLETE"} :
                toCoord' = [toCoord EXCEPT ![b] = Append(toCoord[b], Msg(t, b))]
        /\ performed' = performed
             \/ performed' = [performed EXCEPT ![b] = performed[b] + 1]
        /\ toWorker[b] # <<>> /\ toWorker' = [toWorker EXCEPT ![b] = Tail(toWorker[b])]
        /\ UNCHANGED <<scenario, pc, exit, conn, backlog, killed>>
    BY <1>6 DEF Serve, Reply, End, coordVars
  <2>2. ConnOK' /\ proc' \in [Boots -> ProcStates]
    <3>1. CASE proc' = proc
      BY <1>1, <2>1, <3>1, Quietly DEF Moves, Running
    <3>2. CASE proc' = [proc EXCEPT ![b] = "ended"]
      BY <2>1, <3>2, ProcConn
    <3> QED BY <2>1, <3>1, <3>2
  <2>3. toCoord' \in [Boots -> Seq(Answers)]
    <3>1. CASE toCoord' = toCoord
      BY <1>1, <3>1
    <3>2. ASSUME NEW m \in Answers, toCoord' = [toCoord EXCEPT ![b] =
              Append(toCoord[b], m)]
          PROVE  toCoord' \in [Boots -> Seq(Answers)]
      BY <1>1, <1>3, <3>2
    <3> QED BY <1>2, <2>1, <3>1, <3>2
  <2>4. performed' \in [Boots -> Nat]
    <3>1. performed[b] + 1 \in Nat
      BY <1>1
    <3>2. CASE performed' = performed
      BY <1>1, <3>2
    <3>3. CASE performed' = [performed EXCEPT ![b] = performed[b] + 1]
      BY <1>1, <3>1, <3>3
    <3> QED BY <2>1, <3>2, <3>3
  <2>5. toWorker' \in [Boots -> Seq(Orders)]
    <3>1. Tail(toWorker[b]) \in Seq(Orders)
      BY <1>1, <2>1
    <3> QED BY <1>1, <2>1, <3>1
  <2> QED BY <1>0, <1>1, <2>1, <2>2, <2>3, <2>4, <2>5 DEF NetTypeOK
<1>7. CASE HangUp(b)
  <2>1. /\ proc[b] = "serving" /\ proc' = [proc EXCEPT ![b] = "ended"]
        /\ UNCHANGED <<scenario, pc, exit, conn, backlog, toWorker, toCoord, killed, performed>>
    BY <1>7 DEF HangUp, End, history, coordVars
  <2>2. ConnOK' /\ proc' \in [Boots -> ProcStates]
    BY <2>1, ProcConn
  <2> QED BY <1>0, <1>1, <2>1, <2>2 DEF NetTypeOK
<1>8. CASE DieSomehow(b)
  <2>1. PICK n \in 0..Len(toCoord[b]) : Die(b, n)
    BY <1>8 DEF DieSomehow
  <2>2. /\ proc[b] # "absent" /\ proc' = [proc EXCEPT ![b] = "ended"]
        /\ toCoord' = [toCoord EXCEPT ![b] = SubSeq(toCoord[b], 1, n)]
        /\ UNCHANGED <<scenario, pc, exit, conn, backlog, toWorker, killed, performed>>
    BY <2>1 DEF Die, Alive, End, coordVars
  <2>3. ConnOK' /\ proc' \in [Boots -> ProcStates]
    BY <2>2, ProcConn
  <2>4. toCoord' \in [Boots -> Seq(Answers)]
    <3>1. SubSeq(toCoord[b], 1, n) \in Seq(Answers)
      <4>1. toCoord[b] \in Seq(Answers) /\ n \in Nat /\ n <= Len(toCoord[b])
        BY <1>1
      <4> QED BY <4>1
    <3> QED BY <1>1, <2>2, <3>1
  <2> QED BY <1>0, <1>1, <2>2, <2>3, <2>4 DEF NetTypeOK
<1> QED BY <1>4, <1>5, <1>6, <1>7, <1>8 DEF WorkerStep

\* Every step does.
LEMMA NetStep ==
  ASSUME StepOK, NetTypeOK, ConnOK, [DistributedNext]_allVars
  PROVE  NetTypeOK' /\ ConnOK'
<1>0. Orders' = Orders /\ Answers' = Answers
  BY DEF Orders, Answers, Msg
<1>1. CASE UNCHANGED allVars
  <2>1. UNCHANGED <<scenario, pc, exit, proc, killed, backlog, conn, toWorker, toCoord,
                    performed>>
    BY <1>1 DEF allVars, netVars, coordVars, history
  <2>2. ConnOK'
    BY <2>1, Quietly DEF Moves, Running
  <2> QED BY <1>0, <2>1, <2>2 DEF NetTypeOK
<1>2. ASSUME NEW b \in Boots, WorkerStep(b) \/ DieSomehow(b) PROVE NetTypeOK' /\ ConnOK'
  BY <1>2, WorkerNet
<1>3. CASE Exchanges
  BY <1>3, ExchangeTypes, StaysEnded DEF Running
<1>4. CASE Accept("accept1", "first") \/ Accept("accept2", "second")
  <2>1. UNCHANGED <<proc, killed, toWorker, toCoord, performed>>
    BY <1>4 DEF Accept, history
  <2> QED BY <1>0, <1>4, <2>1, AcceptConn DEF NetTypeOK
<1>5. ASSUME NEW ok \in BOOLEAN, \/ Spawn("spawnA", BootA, ok)
        \/ Spawn("spawnB", BootB, ok)
                                 \/ Spawn("spawnC", BootC, ok)
      PROVE  NetTypeOK' /\ ConnOK'
  <2>1. UNCHANGED <<killed, backlog, conn, toWorker, toCoord, performed>>
    BY <1>5 DEF Spawn, history
  <2>2. ConnOK' /\ proc' \in [Boots -> ProcStates]
    BY <1>5, SpawnConn
  <2> QED BY <1>0, <1>5, <2>1, <2>2 DEF NetTypeOK
<1>6. CASE AcceptFailure
  <2>1. UNCHANGED <<proc, killed, backlog, conn, toWorker, toCoord, performed>>
    BY <1>6 DEF AcceptFailure, AcceptFails, netVars, history
  <2> QED BY <1>0, <1>6, <2>1, FailureConn DEF NetTypeOK
<1> QED BY <1>1, <1>2, <1>3, <1>4, <1>5, <1>6, CoordinatorNet DEF DistributedNext

-----------------------------------------------------------------------------
(***************************************************************************)
(* What is sent, performed and answered.                                   *)
(***************************************************************************)
\* Receiving the first message.
LEMMA HasTail ==
  ASSUME NEW T, NEW q \in Seq(T), q # <<>>, NEW t
  PROVE  /\ Has(Tail(q), t) => Has(q, t)
         /\ Once(q, t) => Once(Tail(q), t)
         /\ Once(q, t) /\ Head(q).type = t => ~Has(Tail(q), t)
         /\ Head(q).type = t => Has(q, t)
<1>1. /\ Len(q) \in Nat /\ Len(q) >= 1 /\ Len(Tail(q)) = Len(q) - 1 /\ Head(q) = q[1]
      /\ \A i \in 1..Len(Tail(q)) : Tail(q)[i] = q[i + 1]
  OBVIOUS
<1>2. \A i \in 1..Len(Tail(q)) : i + 1 \in 1..Len(q) /\ i + 1 # 1
  BY <1>1
<1>3. 1 \in 1..Len(q)
  BY <1>1
<1>4. Has(Tail(q), t) => Has(q, t)
  BY <1>1, <1>2 DEF Has
<1>5. Once(q, t) => Once(Tail(q), t)
  <2>1. \A i, j \in 1..Len(Tail(q)) : i + 1 = j + 1 => i = j
    BY <1>1
  <2> QED BY <1>1, <1>2, <2>1 DEF Once
<1>6. Once(q, t) /\ Head(q).type = t => ~Has(Tail(q), t)
  BY <1>1, <1>2, <1>3 DEF Once, Has
<1>7. Head(q).type = t => Has(q, t)
  BY <1>1, <1>3 DEF Has
<1> QED BY <1>4, <1>5, <1>6, <1>7

\* Sending a message.
LEMMA HasAppend ==
  ASSUME NEW T, NEW q \in Seq(T), NEW m \in T, NEW t
  PROVE  /\ Has(Append(q, m), t) <=> Has(q, t) \/ m.type = t
         /\ Once(q, t) /\ (m.type = t => ~Has(q, t)) => Once(Append(q, m), t)
<1> DEFINE n == Len(q)
           a == Append(q, m)
<1>1. n \in Nat /\ Len(a) = n + 1 /\ a[n + 1] = m /\ \A i \in 1..n : a[i] = q[i]
  OBVIOUS
<1>2. \A i \in 1..Len(a) : i \in 1..n \/ i = n + 1
  BY <1>1
<1>3. n + 1 \in 1..Len(a) /\ \A i \in 1..n : i \in 1..Len(a)
  BY <1>1
<1> HIDE DEF a
<1>4. Has(a, t) <=> Has(q, t) \/ m.type = t
  BY <1>1, <1>2, <1>3 DEF Has
<1>5. Once(q, t) /\ (m.type = t => ~Has(q, t)) => Once(a, t)
  BY <1>1, <1>2, <1>3 DEF Has, Once
<1> QED BY <1>4, <1>5 DEF a

\* Losing the end of what was sent.
LEMMA HasPrefix ==
  ASSUME NEW T, NEW q \in Seq(T), NEW n \in 0..Len(q), NEW t, Has(SubSeq(q, 1, n), t)
  PROVE  Has(q, t)
<1>1. n \in Nat /\ n <= Len(q) /\ Len(q) \in Nat
  OBVIOUS
<1>2. Len(SubSeq(q, 1, n)) = n /\ \A i \in 1..n : SubSeq(q, 1, n)[i] = q[i]
  BY <1>1
<1>3. \A i \in 1..n : i \in 1..Len(q)
  BY <1>1
<1> QED BY <1>2, <1>3 DEF Has

\* The program does not return to the steps before the plan is sent.
LEMMA UnsentBefore ==
  ASSUME StepOK, \/ Moves
                 \/ pc' = Following(pc)
                      /\ pc \in {"spawnA", "spawnB", "spawnC", "accept1", "accept2"},
         pc' \in Unsent
  PROVE  pc \in Unsent
BY Program DEF Moves, StepOK, Unsent, Opening, Closing

\* A step that performs nothing and adds no DISPATCH and no COMPLETE.
LEMMA WorkStands ==
  ASSUME WorkOK, pc' \in Unsent => pc \in Unsent, performed' = performed,
         \A b \in Boots :
           /\ Has(toWorker'[b], "DISPATCH") => Has(toWorker[b], "DISPATCH")
           /\ Once(toWorker[b], "DISPATCH") => Once(toWorker'[b], "DISPATCH")
           /\ Has(toCoord'[b], "COMPLETE") => Has(toCoord[b], "COMPLETE"),
         status' = status \/ status' # "DISPATCHED",
         status = "DISPATCHED" => conn' = conn
  PROVE  WorkOK'
<1>1. Unsent' = Unsent
  BY DEF Unsent, Opening
<1>2. \A b \in Boots :
       /\ pc' \in Unsent => performed'[b] = 0 /\ ~Has(toWorker'[b], "DISPATCH")
       /\ Once(toWorker'[b], "DISPATCH")
       /\ performed'[b] \in {0, 1}
       /\ performed'[b] = 1 => ~Has(toWorker'[b], "DISPATCH")
       /\ Has(toCoord'[b], "COMPLETE") => performed'[b] = 1
  BY DEF WorkOK
<1>3. status' = "DISPATCHED" => conn'.second \in Boots /\ performed'[conn'.second] = 1
  BY DEF WorkOK
<1> QED BY <1>1, <1>2, <1>3 DEF WorkOK

\* Sending another order, or the first DISPATCH.
LEMMA SendWork ==
  ASSUME NetTypeOK, NEW b, NEW m \in Orders, Send(b, m), NEW c \in Boots
  PROVE  /\ m.type # "DISPATCH" =>
              /\ Has(toWorker'[c], "DISPATCH") => Has(toWorker[c], "DISPATCH")
              /\ Once(toWorker[c], "DISPATCH") => Once(toWorker'[c], "DISPATCH")
         /\ ~Has(toWorker[c], "DISPATCH") => Once(toWorker'[c], "DISPATCH")
<1>1. toWorker \in [Boots -> Seq(Orders)]
  BY DEF NetTypeOK
<1>2. CASE toWorker'[c] = toWorker[c]
  BY <1>2 DEF Has, Once
<1>3. CASE toWorker'[c] # toWorker[c]
  <2>1. toWorker'[c] = Append(toWorker[c], m)
    BY <1>1, <1>3 DEF Send
  <2>2. toWorker[c] \in Seq(Orders)
    BY <1>1
  <2>3. ~Has(toWorker[c], "DISPATCH") => Once(toWorker[c], "DISPATCH")
    BY DEF Has, Once
  <2> QED BY <2>1, <2>2, <2>3, HasAppend
<1> QED BY <1>2, <1>3

\* Receiving.
LEMMA RecvWork ==
  ASSUME NetTypeOK, NEW b, NEW m, Recv(b, m)
  PROVE  /\ \A c \in Boots : Has(toCoord'[c], "COMPLETE") => Has(toCoord[c], "COMPLETE")
         /\ b \in Boots /\ m.type = "COMPLETE" => Has(toCoord[b], "COMPLETE")
<1>1. toCoord \in [Boots -> Seq(Answers)]
  BY DEF NetTypeOK
<1>2. CASE toCoord[b] # <<>> /\ m = Head(toCoord[b])
        /\ toCoord' = [toCoord EXCEPT ![b] = Tail(toCoord[b])]
  <2>1. CASE b \in Boots
    <3>1. toCoord[b] \in Seq(Answers)
      BY <1>1, <2>1
    <3>2. /\ Has(Tail(toCoord[b]), "COMPLETE") => Has(toCoord[b], "COMPLETE")
          /\ m.type = "COMPLETE" => Has(toCoord[b], "COMPLETE")
      BY <1>2, <3>1, HasTail
    <3>3. toCoord'[b] = Tail(toCoord[b]) /\ \A c \in Boots : c # b =>
              toCoord'[c] = toCoord[c]
      BY <1>1, <1>2, <2>1
    <3>4. ASSUME NEW c \in Boots, Has(toCoord'[c], "COMPLETE")
          PROVE  Has(toCoord[c], "COMPLETE")
      BY <3>2, <3>3, <3>4
    <3> QED BY <3>2, <3>4
  <2>2. CASE b \notin Boots
    BY <1>1, <1>2, <2>2
  <2> QED BY <2>1, <2>2
<1>3. CASE m = NoMsg /\ toCoord' = toCoord
  BY <1>3 DEF NoMsg, Msg
<1> QED BY <1>2, <1>3 DEF Recv

\* The plan is sent for the first time.
LEMMA DispatchWork ==
  ASSUME CoordOK, NetTypeOK, WorkOK, NEW sent \in BOOLEAN, Dispatch(sent)
  PROVE  WorkOK'
<1>1. /\ pc = "dispatch" /\ UNCHANGED <<toCoord, performed, conn>>
      /\ \/ pc' = "await" /\ status' = status
              /\ Send(conn.second, Msg("DISPATCH", NoBoot))
         \/ pc' = "receipt" /\ status' = "REJECTED" /\ toWorker' = toWorker
  <2>1. pc = "dispatch" /\ UNCHANGED <<toCoord, performed, conn>>
    BY DEF Dispatch, At, procs, history
  <2>2. CASE sent
    BY <2>1, <2>2, Program DEF Dispatch, Advance
  <2>3. CASE ~sent
    BY <2>1, <2>3 DEF Dispatch
  <2> QED BY <2>1, <2>2, <2>3
<1>2. CASE toWorker' = toWorker /\ status' = "REJECTED" /\ pc' = "receipt"
  BY <1>1, <1>2, WorkStands DEF Unsent, Opening
<1>3. CASE pc' = "await" /\ status' = status /\ Send(conn.second, Msg("DISPATCH", NoBoot))
  <2>1. \A c \in Boots : performed[c] = 0 /\ ~Has(toWorker[c], "DISPATCH")
          /\ ~Has(toCoord[c], "COMPLETE")
    <3>1. pc \in Unsent
      BY <1>1 DEF Unsent
    <3>2. \A c \in Boots : performed[c] = 0 /\ ~Has(toWorker[c], "DISPATCH")
      BY <3>1 DEF WorkOK
    <3>3. \A c \in Boots : ~Has(toCoord[c], "COMPLETE")
      BY <3>2 DEF WorkOK
    <3> QED BY <3>2, <3>3
  <2>2. Msg("DISPATCH", NoBoot) \in Orders
    BY DEF Orders
  <2>3. \A c \in Boots : Once(toWorker'[c], "DISPATCH")
    BY <1>3, <2>1, <2>2, SendWork
  <2>4. pc' \notin Unsent'
    BY <1>3 DEF Unsent, Opening
  <2>5. status' = "DISPATCHED" => conn'.second \in Boots /\ performed'[conn'.second] = 1
    BY <1>1, <1>3 DEF WorkOK
  <2> QED BY <1>1, <2>1, <2>3, <2>4, <2>5 DEF WorkOK
<1> QED BY <1>1, <1>2, <1>3

\* A COMPLETE means that the worker has performed the plan.
LEMMA AwaitWork ==
  ASSUME CoordOK, NetTypeOK, ConnOK, WorkOK, Await
  PROVE  WorkOK'
<1>1. PICK m \in Messages :
        /\ Recv(conn.second, m) /\ status' = Answered(m)
        /\ pc' = "receipt" \/ Advance
  BY DEF Await
<1>2. pc = "await" /\ UNCHANGED <<toWorker, performed, conn>>
  BY DEF Await, At, procs, history
<1>3. pc' \notin Unsent' /\ pc \notin Unsent
  BY <1>1, <1>2, Program DEF Unsent, Opening, Advance
<1>4. conn.second \in Boots
  BY <1>2, NetTypes DEF ConnOK, BeforeA, BeforeB, BeforeC, BeforeFirst, BeforeSecond
<1>5. status' = "DISPATCHED" => performed[conn.second] = 1
  BY <1>1, <1>4, Answer, RecvWork DEF WorkOK
<1>6. \A c \in Boots : Has(toCoord'[c], "COMPLETE") => Has(toCoord[c], "COMPLETE")
  BY <1>1, RecvWork
<1>7. \A b \in Boots :
       /\ pc' \in Unsent' => performed'[b] = 0 /\ ~Has(toWorker'[b], "DISPATCH")
       /\ Once(toWorker'[b], "DISPATCH")
       /\ performed'[b] \in {0, 1}
       /\ performed'[b] = 1 => ~Has(toWorker'[b], "DISPATCH")
       /\ Has(toCoord'[b], "COMPLETE") => performed'[b] = 1
  BY <1>2, <1>3, <1>6 DEF WorkOK
<1> QED BY <1>2, <1>4, <1>5, <1>7 DEF WorkOK

\* Every exchange preserves the invariant.
LEMMA ExchangeWork ==
  ASSUME CoordOK, NetTypeOK, ConnOK, WorkOK, Exchanges
  PROVE  WorkOK'
<1>1. CASE Await
  BY <1>1, AwaitWork
<1>2. CASE \E sent \in BOOLEAN : Dispatch(sent)
  BY <1>2, DispatchWork
<1>3. CASE ~Await /\ ~\E sent \in BOOLEAN : Dispatch(sent)
  <2>1. pc' \in Unsent => pc \in Unsent
    BY UnsentBefore DEF Exchanges, CoordOK
  <2>2. UNCHANGED <<conn, performed, status>>
    BY <1>3 DEF Exchanges
  <2>3. ASSUME NEW c \in Boots
        PROVE  /\ Has(toWorker'[c], "DISPATCH") => Has(toWorker[c], "DISPATCH")
               /\ Once(toWorker[c], "DISPATCH") => Once(toWorker'[c], "DISPATCH")
    <3>1. \/ toWorker' = toWorker
          \/ \E b, m : m \in Orders /\ m.type # "DISPATCH" /\ Send(b, m)
      BY <1>3 DEF Exchanges
    <3> QED BY <3>1, SendWork
  <2>4. ASSUME NEW c \in Boots
        PROVE  Has(toCoord'[c], "COMPLETE") => Has(toCoord[c], "COMPLETE")
    <3>1. toCoord' = toCoord \/ \E b, m : Recv(b, m)
      BY DEF Exchanges
    <3> QED BY <3>1, RecvWork
  <2> QED BY <2>1, <2>2, <2>3, <2>4, WorkStands
<1> QED BY <1>1, <1>2, <1>3

\* A turn of the worker's loop does: the plan is performed when its DISPATCH is taken.
LEMMA ServeWork ==
  ASSUME NetTypeOK, WorkOK, NEW b \in Boots, Serve(b)
  PROVE  WorkOK'
<1> DEFINE type == Head(toWorker[b]).type
<1>1. /\ toWorker[b] # <<>> /\ toWorker' = [toWorker EXCEPT ![b] = Tail(toWorker[b])]
      /\ UNCHANGED <<pc, status, conn>>
      /\ \/ type = "STOP" /\ UNCHANGED <<toCoord, performed>>
         \/ /\ type = "RUN" /\ performed' = performed
            /\ toCoord' = [toCoord EXCEPT ![b] = Append(toCoord[b], Msg("WORK_DONE", b))]
         \/ /\ type = "DISPATCH"
                 /\ performed' = [performed EXCEPT ![b] = performed[b] + 1]
            /\ toCoord' = [toCoord EXCEPT ![b] = Append(toCoord[b], Msg("COMPLETE", b))]
  BY DEF Serve, Reply, coordVars
<1>2. /\ toWorker \in [Boots -> Seq(Orders)] /\ toCoord \in [Boots -> Seq(Answers)]
      /\ performed \in [Boots -> Nat]
  BY DEF NetTypeOK
<1>3. toWorker[b] \in Seq(Orders) /\ toCoord[b] \in Seq(Answers)
  BY <1>2
<1>4. /\ Has(Tail(toWorker[b]), "DISPATCH") => Has(toWorker[b], "DISPATCH")
      /\ Once(toWorker[b], "DISPATCH") => Once(Tail(toWorker[b]), "DISPATCH")
      /\ Once(toWorker[b], "DISPATCH") /\ type = "DISPATCH" =>
             ~Has(Tail(toWorker[b]), "DISPATCH")
      /\ type = "DISPATCH" => Has(toWorker[b], "DISPATCH")
  BY <1>1, <1>3, HasTail
<1>5. toWorker'[b] = Tail(toWorker[b]) /\ \A c \in Boots : c # b =>
          toWorker'[c] = toWorker[c]
  BY <1>1, <1>2
<1>6. /\ Msg("WORK_DONE", b) \in Answers /\ Msg("WORK_DONE", b).type = "WORK_DONE"
      /\ Msg("COMPLETE", b) \in Answers /\ Msg("COMPLETE", b).type = "COMPLETE"
  BY DEF Answers, Msg
<1> HIDE DEF type
<1>7. \A c \in Boots :
        /\ Has(toWorker'[c], "DISPATCH") => Has(toWorker[c], "DISPATCH")
        /\ Once(toWorker[c], "DISPATCH") => Once(toWorker'[c], "DISPATCH")
  BY <1>4, <1>5
<1>8. CASE type \in {"STOP", "RUN"}
  <2>1. performed' = performed
    BY <1>1, <1>8
  <2>2. ASSUME NEW c \in Boots PROVE Has(toCoord'[c], "COMPLETE") =>
            Has(toCoord[c], "COMPLETE")
    <3>1. CASE toCoord'[c] = toCoord[c]
      BY <3>1
    <3>2. CASE toCoord'[c] # toCoord[c]
      <4>1. c = b /\ toCoord'[c] = Append(toCoord[b], Msg("WORK_DONE", b))
        BY <1>1, <1>2, <1>8, <3>2
      <4>2. Has(Append(toCoord[b], Msg("WORK_DONE", b)), "COMPLETE") =>
                Has(toCoord[b], "COMPLETE")
        BY <1>3, <1>6, HasAppend
      <4> QED BY <4>1, <4>2
    <3> QED BY <3>1, <3>2
  <2> QED BY <1>1, <1>7, <2>1, <2>2, WorkStands
<1>9. CASE type = "DISPATCH"
  <2>1. /\ performed' = [performed EXCEPT ![b] = performed[b] + 1]
        /\ toCoord' = [toCoord EXCEPT ![b] = Append(toCoord[b], Msg("COMPLETE", b))]
    BY <1>1, <1>9
  <2>2. Has(toWorker[b], "DISPATCH") /\ ~Has(toWorker'[b], "DISPATCH")
    BY <1>4, <1>5, <1>9 DEF WorkOK
  <2>3. performed[b] = 0 /\ pc \notin Unsent
    BY <2>2 DEF WorkOK
  <2>4. performed'[b] = 1 /\ \A c \in Boots : c # b => performed'[c] = performed[c]
          /\ toCoord'[c] = toCoord[c]
    BY <1>2, <2>1, <2>3
  <2>5. pc' \notin Unsent'
    BY <1>1, <2>3 DEF Unsent, Opening
  <2>6. \A c \in Boots :
       /\ Once(toWorker'[c], "DISPATCH")
       /\ performed'[c] \in {0, 1}
       /\ performed'[c] = 1 => ~Has(toWorker'[c], "DISPATCH")
       /\ Has(toCoord'[c], "COMPLETE") => performed'[c] = 1
    <3>1. ASSUME NEW c \in Boots, c # b
          PROVE  /\ Once(toWorker'[c], "DISPATCH")
                 /\ performed'[c] \in {0, 1}
                 /\ performed'[c] = 1 => ~Has(toWorker'[c], "DISPATCH")
                 /\ Has(toCoord'[c], "COMPLETE") => performed'[c] = 1
      <4>1. toCoord'[c] = toCoord[c] /\ performed'[c] = performed[c]
              /\ toWorker'[c] = toWorker[c]
        BY <1>5, <2>4, <3>1
      <4> QED BY <4>1 DEF WorkOK
    <3>2. Once(toWorker'[b], "DISPATCH")
      BY <1>7 DEF WorkOK
    <3> QED BY <2>2, <2>4, <3>1, <3>2
  <2>7. status' = "DISPATCHED" => conn'.second \in Boots /\ performed'[conn'.second] = 1
    BY <1>1, <2>4 DEF WorkOK
  <2> QED BY <2>5, <2>6, <2>7 DEF WorkOK
<1> QED BY <1>1, <1>8, <1>9

\* A worker's steps, and its death, do.
LEMMA WorkerWork ==
  ASSUME NetTypeOK, WorkOK, NEW b \in Boots, WorkerStep(b) \/ DieSomehow(b)
  PROVE  WorkOK'
<1>1. CASE Serve(b)
  BY <1>1, ServeWork
<1>2. CASE Connect(b) \/ HangUp(b)
  <2>1. UNCHANGED <<pc, status, conn, toWorker, toCoord, performed>>
    BY <1>2 DEF Connect, HangUp, coordVars, history
  <2> QED BY <2>1, WorkStands
<1>3. toCoord \in [Boots -> Seq(Answers)]
  BY DEF NetTypeOK
<1>4. toCoord[b] \in Seq(Answers)
  BY <1>3
<1>5. CASE SendRegister(b)
  <2> DEFINE m == Msg("REGISTER", b)
  <2>1. /\ UNCHANGED <<pc, status, conn, toWorker, performed>>
        /\ toCoord' = [toCoord EXCEPT ![b] = Append(toCoord[b], m)]
    BY <1>5 DEF SendRegister, coordVars, history
  <2>2. m \in Answers /\ m.type = "REGISTER"
    BY DEF Answers, Msg
  <2> HIDE DEF m
  <2>3. Has(Append(toCoord[b], m), "COMPLETE") => Has(toCoord[b], "COMPLETE")
    BY <1>4, <2>2, HasAppend
  <2>4. ASSUME NEW c \in Boots PROVE Has(toCoord'[c], "COMPLETE") =>
            Has(toCoord[c], "COMPLETE")
    <3>1. toCoord'[c] = toCoord[c] \/ (c = b /\ toCoord'[c] = Append(toCoord[b], m))
      BY <1>3, <2>1
    <3> QED BY <2>3, <3>1
  <2> QED BY <2>1, <2>4, WorkStands
<1>6. CASE DieSomehow(b)
  <2>1. PICK n \in 0..Len(toCoord[b]) : Die(b, n)
    BY <1>6 DEF DieSomehow
  <2>2. /\ UNCHANGED <<pc, status, conn, toWorker, performed>>
        /\ toCoord' = [toCoord EXCEPT ![b] = SubSeq(toCoord[b], 1, n)]
    BY <2>1 DEF Die, coordVars
  <2>3. Has(SubSeq(toCoord[b], 1, n), "COMPLETE") => Has(toCoord[b], "COMPLETE")
    BY <1>4, HasPrefix
  <2>4. ASSUME NEW c \in Boots PROVE Has(toCoord'[c], "COMPLETE") =>
            Has(toCoord[c], "COMPLETE")
    <3>1. toCoord'[c] = toCoord[c] \/ (c = b /\ toCoord'[c] = SubSeq(toCoord[b], 1, n))
      BY <1>3, <2>2
    <3> QED BY <2>3, <3>1
  <2> QED BY <2>2, <2>4, WorkStands
<1> QED BY <1>1, <1>2, <1>5, <1>6 DEF WorkerStep

\* Every step does.
LEMMA WorkStep ==
  ASSUME CoordOK, NetTypeOK, ConnOK, WorkOK, [DistributedNext]_allVars
  PROVE  WorkOK'
<1>1. CASE UNCHANGED allVars
  <2>1. UNCHANGED <<pc, status, conn, toWorker, toCoord, performed>>
    BY <1>1 DEF allVars, netVars, coordVars, history
  <2> QED BY <2>1, WorkStands
<1>2. ASSUME NEW b \in Boots, WorkerStep(b) \/ DieSomehow(b) PROVE WorkOK'
  BY <1>2, WorkerWork
<1>3. CASE Exchanges
  BY <1>3, ExchangeWork
<1>4. CASE Accept("accept1", "first") \/ Accept("accept2", "second")
  <2>1. /\ UNCHANGED <<status, toWorker, toCoord, performed>>
        /\ Running /\ (pc' = pc \/ pc' = Following(pc)) /\ pc \in {"accept1", "accept2"}
    BY <1>4 DEF Accept, notes, history, At, AdvanceIf, Advance, Exit
  <2>2. pc' \in Unsent => pc \in Unsent
    BY <2>1, UnsentBefore DEF CoordOK
  <2>3. status # "DISPATCHED"
    <3>1. conn.second = NoBoot
      BY <2>1 DEF ConnOK, BeforeA, BeforeB, BeforeC, BeforeFirst, BeforeSecond
    <3> QED BY <3>1, NetTypes DEF WorkOK
  <2> QED BY <2>1, <2>2, <2>3, WorkStands
<1>5. ASSUME NEW ok \in BOOLEAN, \/ Spawn("spawnA", BootA, ok)
        \/ Spawn("spawnB", BootB, ok)
                                 \/ Spawn("spawnC", BootC, ok)
      PROVE  WorkOK'
  <2>1. /\ UNCHANGED <<conn, status, toWorker, toCoord, performed>>
        /\ pc \in {"spawnA", "spawnB", "spawnC"} /\ (pc' = pc \/ pc' = Following(pc))
    BY <1>5 DEF Spawn, notes, history, At, AdvanceIf, Advance, Exit
  <2>2. pc' \in Unsent => pc \in Unsent
    BY <2>1, UnsentBefore DEF CoordOK
  <2> QED BY <2>1, <2>2, WorkStands
<1>6. CASE AcceptFailure
  <2>1. /\ UNCHANGED <<conn, status, toWorker, toCoord, performed>>
        /\ pc \in {"accept1", "accept2"} /\ (pc' = pc \/ pc' = Following(pc))
    BY <1>6 DEF AcceptFailure, AcceptFails, notes, netVars, history, At, AdvanceIf,
       Advance, Exit
  <2>2. pc' \in Unsent => pc \in Unsent
    BY <2>1, UnsentBefore DEF CoordOK
  <2> QED BY <2>1, <2>2, WorkStands
<1> QED BY <1>1, <1>2, <1>3, <1>4, <1>5, <1>6, CoordinatorNet DEF DistributedNext

-----------------------------------------------------------------------------
(***************************************************************************)
(* The exchanges with the workers, as long as nothing has gone wrong.      *)
(***************************************************************************)

\* Who is behind the connections when nothing has gone wrong.
LEMMA Behind ==
  ASSUME NetTypeOK, ConnOK, Clean
  PROVE  /\ pc \notin BeforeSecond => conn.second = TargetBoot /\ conn.first = BootA
         /\ Restart /\ pc \notin BeforeFirst => conn.first = BootA
         /\ BootA \in Boots /\ TargetBoot \in Boots /\ BootA # TargetBoot
BY DistributedAssumption DEF ConnOK, Clean, TargetBoot

\* A worker's own steps carry its exchange on.
LEMMA ExchangeGoesOn ==
  ASSUME NetTypeOK, Running, NEW b \in Boots, WorkerStep(b)
  PROVE  /\ With(b) \in Absent => With(b)' \in Absent
         /\ With(b) \in Joining(b) => With(b)' \in Joining(b)
         /\ With(b) \in Ready => With(b)' \in Ready
         /\ With(b) \in Busy(b, "RUN", "WORK_DONE") =>
                With(b)' \in Busy(b, "RUN", "WORK_DONE")
         /\ With(b) \in Busy(b, "DISPATCH", "COMPLETE") =>
                With(b)' \in Busy(b, "DISPATCH", "COMPLETE")
<1>1. /\ proc \in [Boots -> ProcStates]
      /\ toWorker \in [Boots -> Seq(Orders)] /\ toCoord \in [Boots -> Seq(Answers)]
  BY DEF NetTypeOK
<1>2. CASE Connect(b)
  <2>1. proc[b] = "connecting" /\ With(b)' = <<"connected", toWorker[b], toCoord[b]>>
    BY <1>1, <1>2 DEF Connect, With
  <2> QED BY <2>1 DEF With, Absent, Joining, Ready, Busy
<1>3. CASE SendRegister(b)
  <2>1. proc[b] = "connected"
          /\ With(b)' = <<"serving", toWorker[b], Append(toCoord[b], Msg("REGISTER", b))>>
    BY <1>1, <1>3 DEF SendRegister, With
  <2>2. Append(<<>>, Msg("REGISTER", b)) = <<Msg("REGISTER", b)>>
    OBVIOUS
  <2> QED BY <2>1, <2>2 DEF With, Absent, Joining, Ready, Busy
<1>4. CASE Serve(b)
  <2>1. proc[b] = "serving" /\ toWorker[b] # <<>>
    BY <1>4 DEF Serve
  <2>2. With(b) \notin Absent \cup Joining(b) \cup Ready
    BY <2>1 DEF With, Absent, Joining, Ready
  <2>3. ASSUME NEW o, NEW a, <<o, a>> \in {<<"RUN", "WORK_DONE">>, <<"DISPATCH",
               "COMPLETE">>},
               With(b) \in Busy(b, o, a)
        PROVE  With(b)' \in Busy(b, o, a)
    <3>1. toWorker[b] = <<Msg(o, NoBoot)>> /\ toCoord[b] = <<>>
      BY <2>1, <2>3 DEF With, Busy
    <3>2. Head(toWorker[b]).type = o
      BY <3>1 DEF Msg
    <3>3. toWorker'[b] = <<>> /\ toCoord'[b] = <<Msg(a, b)>> /\ proc'[b] = "serving"
      BY <1>1, <1>4, <2>1, <2>3, <3>1, <3>2 DEF Serve, Reply
    <3> QED BY <3>3 DEF With, Busy
  <2> QED BY <2>2, <2>3
<1>5. ~HangUp(b)
  BY DEF HangUp
<1> QED BY <1>2, <1>3, <1>4, <1>5 DEF WorkerStep

\* They leave the other workers alone.
LEMMA WorkerFrame ==
  ASSUME NetTypeOK, NEW b \in Boots, WorkerStep(b) \/ DieSomehow(b), NEW c \in Boots,
         c # b
  PROVE  With(c)' = With(c)
<1>1. /\ proc \in [Boots -> ProcStates]
      /\ toWorker \in [Boots -> Seq(Orders)] /\ toCoord \in [Boots -> Seq(Answers)]
  BY DEF NetTypeOK
<1>2. proc'[c] = proc[c]
  BY <1>1 DEF WorkerStep, DieSomehow, Connect, SendRegister, Serve, HangUp, Die, End
<1>3. toWorker'[c] = toWorker[c]
  BY <1>1 DEF WorkerStep, DieSomehow, Connect, SendRegister, Serve, HangUp, Die
<1>4. toCoord'[c] = toCoord[c]
  BY <1>1 DEF WorkerStep, DieSomehow, Connect, SendRegister, Serve, HangUp, Die, Reply
<1> QED BY <1>2, <1>3, <1>4 DEF With

\* The coordinator receives the answer that is due.
LEMMA Received ==
  ASSUME NetTypeOK, NEW b \in Boots, NEW m, Recv(b, m), UNCHANGED <<proc, toWorker>>
  PROVE  /\ With(b) \in Joining(b) => m = Msg("REGISTER", b) /\ With(b)' \in Ready
         /\ \A o, a : With(b) \in Busy(b, o, a) => m = Msg(a, b) /\ With(b)' \in Ready
         /\ \A c \in Boots : c # b => With(c)' = With(c)
<1>1. /\ toWorker \in [Boots -> Seq(Orders)] /\ toCoord \in [Boots -> Seq(Answers)]
  BY DEF NetTypeOK
<1>2. \A c \in Boots : c # b => With(c)' = With(c)
  BY <1>1 DEF Recv, With
<1>3. ASSUME proc[b] \in {"connecting", "connected", "serving"}
      PROVE  toCoord[b] # <<>> /\ m = Head(toCoord[b]) /\ toCoord'[b] = Tail(toCoord[b])
  BY <1>1, <1>3 DEF Recv, Alive
<1>4. \A x : Head(<<x>>) = x /\ Tail(<<x>>) = <<>>
  OBVIOUS
<1>5. With(b)' = <<proc[b], toWorker[b], toCoord'[b]>>
  BY DEF With
<1>6. ASSUME With(b) \in Joining(b) PROVE m = Msg("REGISTER", b) /\ With(b)' \in Ready
  BY <1>3, <1>4, <1>5, <1>6 DEF With, Joining, Ready
<1>7. ASSUME NEW o, NEW a, With(b) \in Busy(b, o, a) PROVE m = Msg(a, b)
        /\ With(b)' \in Ready
  BY <1>3, <1>4, <1>5, <1>7 DEF With, Busy, Ready
<1> QED BY <1>2, <1>6, <1>7

\* An order to a worker that is ready makes it busy.
LEMMA Sent ==
  ASSUME NetTypeOK, NEW b \in Boots, NEW o, Send(b, Msg(o, NoBoot)), UNCHANGED <<proc, toCoord>>
  PROVE  /\ \A a : With(b) \in Ready => With(b)' \in Busy(b, o, a)
         /\ \A c \in Boots : c # b => With(c)' = With(c)
<1>1. /\ toWorker \in [Boots -> Seq(Orders)] /\ toCoord \in [Boots -> Seq(Answers)]
  BY DEF NetTypeOK
<1>2. \A c \in Boots : c # b => With(c)' = With(c)
  BY <1>1 DEF Send, With
<1>3. ASSUME NEW a, With(b) \in Ready PROVE With(b)' \in Busy(b, o, a)
  <2>1. proc[b] = "serving" /\ toWorker[b] = <<>> /\ toCoord[b] = <<>>
    BY <1>3 DEF With, Ready
  <2>2. toWorker'[b] = Append(toWorker[b], Msg(o, NoBoot))
    BY <1>1, <2>1 DEF Send, Alive
  <2>3. toWorker'[b] = <<Msg(o, NoBoot)>>
    BY <2>1, <2>2
  <2> QED BY <2>1, <2>3 DEF With, Busy
<1> QED BY <1>2, <1>3

\* A step of the program that exchanges nothing.
LEMMA OrderlyMoves ==
  ASSUME StepOK, Orderly, UNCHANGED <<scenario, heard, status>>, NEW t \in Boots, t = TargetBoot,
         With(BootA)' = With(BootA), With(t)' = With(t), pc' = Following(pc),
         \/ pc \in {"bind", "accept1", "accept2", "kill", "register", "plan", "authorize", "receipt",
                    "check"}
         \/ pc = "deliver" /\ status = "DISPATCHED"
         \/ pc \in Closing \ {"stop"}
  PROVE  Orderly'
<1>1. Restart' = Restart /\ TargetBoot' = t
  BY SameScenario
<1>2. /\ BeforeA' = BeforeA /\ BeforeB' = BeforeB /\ BeforeC' = BeforeC
      /\ BeforeFirst' = BeforeFirst /\ BeforeSecond' = BeforeSecond
  BY <1>1 DEF BeforeA, BeforeB, BeforeC, BeforeFirst, BeforeSecond
<1>3. SourceOK'
  <2>1. SourceOK
    BY DEF Orderly
  <2> QED BY <1>1, <1>2, <2>1, Program DEF SourceOK, StepOK, Closing, BeforeA
<1>4. TargetOK(t)'
  <2>1. TargetOK(t)
    BY DEF Orderly
  <2> QED BY <1>1, <1>2, <2>1, Program DEF TargetOK, StepOK, Closing, BeforeA, BeforeB,
             BeforeC
<1>5. HeardOK'
  <2>1. HeardOK
    BY DEF Orderly
  <2> QED BY <1>1, <1>2, <2>1, Program DEF HeardOK, StepOK, Closing, BeforeA, BeforeB,
             BeforeC, BeforeFirst, BeforeSecond
<1> QED BY <1>1, <1>3, <1>4, <1>5 DEF Orderly

\* The steps that exchange nothing, and the check of success.
LEMMA OrderlyPlanner ==
  ASSUME CoordOK, Orderly, NetTypeOK,
         \/ \E ok \in BOOLEAN : Bind(ok)
         \/ Accept("accept1", "first") \/ Accept("accept2", "second")
         \/ AcceptFailure \/ KillA
         \/ RegisterTarget \/ Decide \/ Authorize \/ Deliver \/ Receipt \/ CheckSucceeded
         \/ StaleReport("staleBoot", BootA, "SUCCEEDED")
         \/ StaleReport("staleCompletion", BootC, "FAILED")
         \/ StaleAttempt \/ StaleDispatch \/ Stop \/ CoordinatorDies
  PROVE  /\ exit' = "none" => Orderly'
         /\ exit' \notin {"registration", "no_work", "failed"}
<1>0. Running
  BY DEF Bind, Accept, AcceptFailure, AcceptFails, KillA, RegisterTarget, Decide,
     Authorize, Deliver, Receipt, CheckSucceeded, StaleReport, StaleAttempt,
     StaleDispatch, Stop, CoordinatorDies, At
<1>1. PICK t \in Boots : t = TargetBoot
  BY NetTypes
<1>2. CASE Stop \/ CoordinatorDies
  BY <1>2 DEF Stop, CoordinatorDies, Exit
<1>3. ASSUME ~Stop, ~CoordinatorDies
      PROVE  /\ UNCHANGED <<scenario, heard, status, proc, toWorker, toCoord>>
             /\ \/ pc \in {"bind", "accept1", "accept2", "kill", "register", "plan", "authorize", "receipt",
                    "check", "deliver"}
                \/ pc \in Closing \ {"stop"}
  BY <1>3 DEF Bind, Accept, AcceptFailure, AcceptFails, KillA, RegisterTarget, Decide,
     Authorize, Deliver, Receipt, CheckSucceeded, StaleReport, StaleAttempt, StaleDispatch, At, notes, netVars, Closing
<1>4. pc = "deliver" => status = "DISPATCHED"
  BY DEF CoordOK, PlannerOK
<1>5. CheckSucceeded => pc' = Following(pc) /\ exit' = exit
  <2> SUFFICES ASSUME CheckSucceeded PROVE pc' = Following(pc) /\ exit' = exit
    OBVIOUS
  <2>1. pc = "check" /\ AdvanceIf(plans[1].state = "SUCCEEDED", "failed")
    BY DEF CheckSucceeded, At
  <2>2. status = "DISPATCHED"
    BY <1>1, <2>1 DEF Orderly, TargetOK
  <2>3. plans = Only(PlanIds, Succeeded, NoPlan)
    BY <2>1, <2>2 DEF CoordOK, PlannerOK
  <2>4. plans[1].state = "SUCCEEDED"
    BY <2>3, SuccessIsFinal
  <2> QED BY <2>1, <2>4 DEF AdvanceIf, Advance
<1>6. ASSUME ~Stop, ~CoordinatorDies
      PROVE  (pc' = Following(pc) /\ exit' = exit)
        \/ exit' \in {"bind", "accept", "no_plan", "unexpected"}
  BY <1>3, <1>5, <1>6 DEF Bind, Accept, AcceptFailure, AcceptFails, KillA, RegisterTarget, Decide, Authorize,
     Deliver, Receipt,
       StaleReport, StaleAttempt, StaleDispatch, AdvanceIf, Advance, Exit
<1>7. ASSUME ~Stop, ~CoordinatorDies, exit' = "none" PROVE Orderly'
  <2>1. pc' = Following(pc)
    BY <1>6, <1>7
  <2>2. With(BootA)' = With(BootA) /\ With(t)' = With(t)
    BY <1>3, <1>7 DEF With
  <2> QED BY <1>1, <1>3, <1>4, <1>7, <2>1, <2>2, OrderlyMoves DEF CoordOK
<1> QED BY <1>0, <1>2, <1>6, <1>7 DEF Running

\* A spawned worker joins.
LEMMA OrderlySpawn ==
  ASSUME StepOK, Orderly, NetTypeOK, NEW ok \in BOOLEAN, NEW step, NEW b, Spawn(step, b,
         ok),
         <<step, b>> \in {<<"spawnA", BootA>>, <<"spawnB", BootB>>, <<"spawnC", BootC>>}
  PROVE  /\ exit' = "none" => Orderly'
         /\ exit' \notin {"registration", "no_work", "failed"}
<1>1. /\ Running /\ pc = step /\ UNCHANGED <<scenario, heard, status, toWorker, toCoord>>
      /\ ok => pc' = Following(pc) /\ exit' = exit
           /\ proc' = [proc EXCEPT ![b] = "connecting"]
      /\ ~ok => exit' = "spawn"
  BY DEF Spawn, At, AdvanceIf, Advance, Exit, notes
<1>2. ASSUME ok PROVE Orderly'
  <2>1. PICK t \in Boots : t = TargetBoot /\ t # BootA
    BY NetTypes, DistributedAssumption DEF TargetBoot
  <2>2. Restart' = Restart /\ TargetBoot' = t
    BY <1>1, <2>1, SameScenario
  <2>3. /\ proc \in [Boots -> ProcStates] /\ b \in Boots
    BY NetTypes
  <2>4. /\ With(b)' = <<"connecting", toWorker[b], toCoord[b]>>
        /\ \A c \in Boots : c # b => With(c)' = With(c)
    BY <1>1, <1>2, <2>3 DEF With
  <2>5. With(b) \in Absent => With(b)' \in Joining(b)
    BY <2>4 DEF With, Absent, Joining
  <2>6. SourceOK /\ HeardOK /\ TargetOK(t)
    BY <2>1 DEF Orderly
  <2>7. CASE step = "spawnA" /\ b = BootA
    <3>1. pc' = IF Restart THEN "accept1" ELSE "spawnB"
      BY <1>1, <1>2, <2>7, Program
    <3>2. With(BootA)' \in Joining(BootA) /\ With(t)' \in Absent
      BY <1>1, <2>1, <2>4, <2>5, <2>6, <2>7 DEF SourceOK, TargetOK, BeforeA, BeforeB,
         BeforeC
    <3>3. SourceOK'
      BY <2>2, <3>1, <3>2 DEF SourceOK, BeforeA
    <3>4. TargetOK(t)'
      BY <2>2, <3>1, <3>2 DEF TargetOK, BeforeA, BeforeB, BeforeC
    <3>5. HeardOK'
      BY <2>2, <3>1 DEF HeardOK, BeforeA, BeforeB, BeforeC, BeforeFirst, BeforeSecond
    <3> QED BY <2>2, <3>3, <3>4, <3>5 DEF Orderly
  <2>8. CASE step = "spawnB" /\ b = BootB
    <3>1. pc' = "accept1" /\ ~Restart /\ b = t
      BY <1>1, <1>2, <2>1, <2>8, Program DEF StepOK, TargetBoot
    <3>2. With(BootA)' \in Joining(BootA) /\ With(t)' \in Joining(t)
      BY <1>1, <2>1, <2>4, <2>5, <2>6, <2>8, <3>1, NetTypes DEF SourceOK, TargetOK,
         BeforeA, BeforeB
    <3>3. SourceOK'
      BY <2>2, <3>1, <3>2 DEF SourceOK, BeforeA
    <3>4. TargetOK(t)'
      BY <2>2, <3>1, <3>2 DEF TargetOK, BeforeA, BeforeB, BeforeC
    <3>5. HeardOK'
      BY <2>2, <3>1 DEF HeardOK, BeforeA, BeforeB, BeforeC, BeforeFirst, BeforeSecond
    <3> QED BY <2>2, <3>3, <3>4, <3>5 DEF Orderly
  <2>9. CASE step = "spawnC" /\ b = BootC
    <3>1. pc' = "accept2" /\ Restart /\ b = t
      BY <1>1, <1>2, <2>1, <2>9, Program DEF StepOK, TargetBoot
    <3>2. With(t)' \in Joining(t)
      BY <1>1, <2>5, <2>6, <2>9, <3>1 DEF TargetOK, BeforeC
    <3>3. SourceOK'
      BY <2>2, <3>1 DEF SourceOK, BeforeA
    <3>4. TargetOK(t)'
      BY <2>2, <3>1, <3>2 DEF TargetOK, BeforeA, BeforeB, BeforeC
    <3>5. HeardOK'
      BY <1>1, <2>2, <2>6, <2>9, <3>1 DEF HeardOK, BeforeA, BeforeB, BeforeC,
         BeforeFirst, BeforeSecond
    <3> QED BY <2>2, <3>3, <3>4, <3>5 DEF Orderly
  <2> QED BY <2>7, <2>8, <2>9
<1> QED BY <1>1, <1>2 DEF Running

\* The exchanges: each receives what is due, so none gives up.
LEMMA OrderlyExchange ==
  ASSUME StepOK, NetTypeOK, ConnOK, Clean, Orderly,
         \/ Registration1 \/ Registration2
         \/ SendRun("run", conn.first) \/ SendRun("shadowRun", conn.second)
         \/ WorkDone \/ ShadowDone
         \/ (\E sent \in BOOLEAN : Dispatch(sent)) \/ Await
  PROVE  Orderly' /\ exit' = exit
<1>1. PICK t \in Boots : t = TargetBoot /\ t # BootA
  BY NetTypes, DistributedAssumption DEF TargetBoot
<1>2. scenario' = scenario
  BY DEF Registration1, Registration2, SendRun, WorkDone, ShadowDone, Dispatch, Await,
     notes
<1>3. Restart' = Restart /\ TargetBoot' = t
  BY <1>1, <1>2, SameScenario
<1>4. SourceOK /\ HeardOK /\ TargetOK(t) /\ BootA \in Boots
  BY <1>1, NetTypes DEF Orderly
<1>5. /\ BeforeA' = BeforeA /\ BeforeB' = BeforeB /\ BeforeC' = BeforeC
      /\ BeforeFirst' = BeforeFirst /\ BeforeSecond' = BeforeSecond
  BY <1>3 DEF BeforeA, BeforeB, BeforeC, BeforeFirst, BeforeSecond
<1>6. pc \notin BeforeSecond => conn.second = t /\ conn.first = BootA
  BY <1>1, Behind
<1>7. pc \in {"reg1", "run", "done"} => conn.first = BootA
  BY <1>6, Behind DEF BeforeA, BeforeB, BeforeFirst, BeforeSecond
<1>8. pc \in {"reg2", "shadowRun", "shadowDone", "dispatch", "await"} => conn.second = t
  BY <1>6 DEF StepOK, BeforeA, BeforeB, BeforeC, BeforeFirst, BeforeSecond
<1>9. CASE Registration1
  <2>1. PICK m \in Messages :
          /\ Recv(conn.first, m) /\ heard' = (m.type = "REGISTER")
          /\ AdvanceIf(Restart => m.type = "REGISTER", "registration")
    BY <1>9 DEF Registration1
  <2>2. pc = "reg1" /\ UNCHANGED <<status, proc, toWorker>>
    BY <1>9 DEF Registration1, At, procs
  <2>3. With(BootA) \in Joining(BootA) /\ Recv(BootA, m)
    BY <1>4, <1>7, <2>1, <2>2 DEF SourceOK
  <2>4. m = Msg("REGISTER", BootA)
    BY <1>4, <2>2, <2>3, Received
  <2>5. m.type = "REGISTER"
    BY <2>4 DEF Msg
  <2>w. With(BootA)' \in Ready /\ With(t)' = With(t)
    BY <1>1, <1>4, <2>2, <2>3, Received
  <2>6. heard' = TRUE
    BY <2>1, <2>5
  <2>p. /\ pc = "reg1" /\ pc' = (IF Restart THEN "run" ELSE "reg2") /\ exit' = exit
        /\ status' = status /\ heard' = TRUE
    BY <2>1, <2>2, <2>5, <2>6, Program DEF AdvanceIf, Advance
  <2>s. SourceOK'
    BY <1>3, <1>4, <1>5, <2>p, <2>w DEF SourceOK, StepOK, BeforeA
  <2>t. TargetOK(t)'
    BY <1>3, <1>4, <1>5, <2>p, <2>w DEF TargetOK, StepOK, BeforeA, BeforeB, BeforeC
  <2>h. HeardOK'
    BY <1>3, <1>4, <1>5, <2>p DEF HeardOK, StepOK, BeforeA, BeforeB, BeforeC,
       BeforeFirst, BeforeSecond
  <2> QED BY <1>3, <2>p, <2>s, <2>t, <2>h DEF Orderly
<1>10. CASE Registration2
  <2>1. PICK m \in Messages :
          /\ Recv(conn.second, m)
          /\ AdvanceIf(/\ heard /\ m.type = "REGISTER"
                       /\ Restart => m.boot = BootC, "registration")
    BY <1>10 DEF Registration2
  <2>2. pc = "reg2" /\ UNCHANGED <<heard, status, proc, toWorker>>
    BY <1>10 DEF Registration2, At, procs, notes
  <2>3. With(t) \in Joining(t) /\ Recv(t, m)
    BY <1>4, <1>8, <2>1, <2>2 DEF TargetOK
  <2>4. m = Msg("REGISTER", t)
    BY <2>2, <2>3, Received
  <2>5. m.type = "REGISTER" /\ (Restart => m.boot = BootC)
    BY <1>1, <2>4 DEF Msg, TargetBoot
  <2>w. With(t)' \in Ready /\ With(BootA)' = With(BootA)
    BY <1>1, <1>4, <2>2, <2>3, Received
  <2>6. heard = TRUE
    BY <1>4, <2>2 DEF HeardOK, BeforeA, BeforeB, BeforeC, BeforeFirst, BeforeSecond
  <2>p. /\ pc = "reg2" /\ pc' = (IF Restart THEN "register" ELSE "run") /\ exit' = exit
        /\ status' = status /\ heard' = TRUE
    BY <2>1, <2>2, <2>5, <2>6, Program DEF AdvanceIf, Advance
  <2>s. SourceOK'
    BY <1>3, <1>4, <1>5, <2>p, <2>w DEF SourceOK, StepOK, BeforeA
  <2>t. TargetOK(t)'
    BY <1>3, <1>4, <1>5, <2>p, <2>w DEF TargetOK, StepOK, BeforeA, BeforeB, BeforeC
  <2>h. HeardOK'
    BY <1>3, <1>4, <1>5, <2>p DEF HeardOK, StepOK, BeforeA, BeforeB, BeforeC,
       BeforeFirst, BeforeSecond
  <2> QED BY <1>3, <2>p, <2>s, <2>t, <2>h DEF Orderly
<1>11. CASE SendRun("run", conn.first)
  <2>p. /\ pc = "run" /\ pc' = "done" /\ exit' = exit /\ UNCHANGED <<heard, status, proc, toCoord>>
    BY <1>11, Program DEF SendRun, At, Advance, notes, procs
  <2>1. Send(BootA, Msg("RUN", NoBoot)) /\ With(BootA) \in Ready
    BY <1>4, <1>7, <1>11, <2>p DEF SendRun, SourceOK
  <2>w. With(BootA)' \in Busy(BootA, "RUN", "WORK_DONE") /\ With(t)' = With(t)
    BY <1>1, <1>4, <2>p, <2>1, Sent
  <2>s. SourceOK'
    BY <1>3, <1>4, <1>5, <2>p, <2>w DEF SourceOK, StepOK, BeforeA
  <2>t. TargetOK(t)'
    BY <1>3, <1>4, <1>5, <2>p, <2>w DEF TargetOK, StepOK, BeforeA, BeforeB, BeforeC
  <2>h. HeardOK'
    BY <1>3, <1>4, <1>5, <2>p DEF HeardOK, StepOK, BeforeA, BeforeB, BeforeC,
       BeforeFirst, BeforeSecond
  <2> QED BY <1>3, <2>p, <2>s, <2>t, <2>h DEF Orderly
<1>12. CASE SendRun("shadowRun", conn.second)
  <2>p. /\ pc = "shadowRun" /\ pc' = "shadowDone" /\ exit' = exit
             /\ UNCHANGED <<heard, status, proc, toCoord>>
    BY <1>12, Program DEF SendRun, At, Advance, notes, procs
  <2>1. Send(t, Msg("RUN", NoBoot)) /\ With(t) \in Ready
    BY <1>4, <1>8, <1>12, <2>p DEF SendRun, TargetOK, StepOK
  <2>w. With(t)' \in Busy(t, "RUN", "WORK_DONE") /\ With(BootA)' = With(BootA)
    BY <1>1, <1>4, <2>p, <2>1, Sent
  <2>s. SourceOK'
    BY <1>3, <1>4, <1>5, <2>p, <2>w DEF SourceOK, StepOK, BeforeA
  <2>t. TargetOK(t)'
    BY <1>3, <1>4, <1>5, <2>p, <2>w DEF TargetOK, StepOK, BeforeA, BeforeB, BeforeC
  <2>h. HeardOK'
    BY <1>3, <1>4, <1>5, <2>p DEF HeardOK, StepOK, BeforeA, BeforeB, BeforeC,
       BeforeFirst, BeforeSecond
  <2> QED BY <1>3, <2>p, <2>s, <2>t, <2>h DEF Orderly
<1>13. CASE WorkDone
  <2>1. PICK m \in Messages : Recv(conn.first, m)
          /\ AdvanceIf(m.type = "WORK_DONE", "no_work")
    BY <1>13 DEF WorkDone
  <2>2. pc = "done" /\ UNCHANGED <<heard, status, proc, toWorker>>
    BY <1>13 DEF WorkDone, At, procs, notes
  <2>3. With(BootA) \in Busy(BootA, "RUN", "WORK_DONE") /\ Recv(BootA, m)
    BY <1>4, <1>7, <2>1, <2>2 DEF SourceOK
  <2>4. m = Msg("WORK_DONE", BootA)
    BY <1>4, <2>2, <2>3, Received
  <2>5. m.type = "WORK_DONE"
    BY <2>4 DEF Msg
  <2>w. With(BootA)' \in Ready /\ With(t)' = With(t)
    BY <1>1, <1>4, <2>2, <2>3, Received
  <2>p. /\ pc = "done" /\ pc' = (IF scenario = "SHADOW" THEN "shadowRun" ELSE "kill")
             /\ exit' = exit
        /\ status' = status /\ heard' = heard /\ (scenario = "SHADOW" => ~Restart)
    BY <2>1, <2>2, <2>5, Program DEF AdvanceIf, Advance, Restart
  <2>s. SourceOK'
    BY <1>3, <1>4, <1>5, <2>p, <2>w DEF SourceOK, StepOK, BeforeA
  <2>t. TargetOK(t)'
    BY <1>3, <1>4, <1>5, <2>p, <2>w DEF TargetOK, StepOK, BeforeA, BeforeB, BeforeC
  <2>h. HeardOK'
    BY <1>3, <1>4, <1>5, <2>p DEF HeardOK, StepOK, BeforeA, BeforeB, BeforeC,
       BeforeFirst, BeforeSecond
  <2> QED BY <1>3, <2>p, <2>s, <2>t, <2>h DEF Orderly
<1>14. CASE ShadowDone
  <2>1. PICK m \in Messages : Recv(conn.second, m)
    BY <1>14 DEF ShadowDone
  <2>p. /\ pc = "shadowDone" /\ pc' = "kill" /\ exit' = exit /\ UNCHANGED <<heard, status, proc, toWorker>>
    BY <1>14, Program DEF ShadowDone, At, Advance, procs, notes
  <2>3. With(t) \in Busy(t, "RUN", "WORK_DONE") /\ Recv(t, m)
    BY <1>4, <1>8, <2>1, <2>p DEF TargetOK
  <2>w. With(t)' \in Ready /\ With(BootA)' = With(BootA)
    BY <1>1, <1>4, <2>p, <2>3, Received
  <2>s. SourceOK'
    BY <1>3, <1>4, <1>5, <2>p, <2>w DEF SourceOK, StepOK, BeforeA
  <2>t. TargetOK(t)'
    BY <1>3, <1>4, <1>5, <2>p, <2>w DEF TargetOK, StepOK, BeforeA, BeforeB, BeforeC
  <2>h. HeardOK'
    BY <1>3, <1>4, <1>5, <2>p DEF HeardOK, StepOK, BeforeA, BeforeB, BeforeC,
       BeforeFirst, BeforeSecond
  <2> QED BY <1>3, <2>p, <2>s, <2>t, <2>h DEF Orderly
<1>15. ASSUME NEW sent \in BOOLEAN, Dispatch(sent) PROVE Orderly' /\ exit' = exit
  <2>1. pc = "dispatch" /\ UNCHANGED <<heard, proc, toCoord>> /\ (sent \/ ~Alive(conn.second))
    BY <1>15 DEF Dispatch, At, procs
  <2>2. With(t) \in Ready /\ conn.second = t
    BY <1>4, <1>8, <2>1 DEF TargetOK
  <2>3. Alive(t)
    BY <2>2 DEF With, Ready, Alive
  <2>4. Send(t, Msg("DISPATCH", NoBoot)) /\ Advance /\ status' = status
    BY <1>15, <2>1, <2>2, <2>3 DEF Dispatch
  <2>w. With(t)' \in Busy(t, "DISPATCH", "COMPLETE") /\ With(BootA)' = With(BootA)
    BY <1>1, <1>4, <2>1, <2>2, <2>4, Sent
  <2>p. /\ pc = "dispatch" /\ pc' = "await" /\ exit' = exit /\ UNCHANGED <<heard, status>>
    BY <2>1, <2>4, Program DEF Advance
  <2>s. SourceOK'
    BY <1>3, <1>4, <1>5, <2>p, <2>w DEF SourceOK, StepOK, BeforeA
  <2>t. TargetOK(t)'
    BY <1>3, <1>4, <1>5, <2>p, <2>w DEF TargetOK, StepOK, BeforeA, BeforeB, BeforeC
  <2>h. HeardOK'
    BY <1>3, <1>4, <1>5, <2>p DEF HeardOK, StepOK, BeforeA, BeforeB, BeforeC,
       BeforeFirst, BeforeSecond
  <2> QED BY <1>3, <2>p, <2>s, <2>t, <2>h DEF Orderly
<1>16. CASE Await
  <2>1. PICK m \in Messages :
        /\ Recv(conn.second, m) /\ status' = Answered(m)
        /\ Answered(m) = "DISPATCHED" => Advance
    BY <1>16 DEF Await
  <2>2. pc = "await" /\ UNCHANGED <<heard, proc, toWorker>>
    BY <1>16 DEF Await, At, procs
  <2>3. With(t) \in Busy(t, "DISPATCH", "COMPLETE") /\ Recv(t, m)
    BY <1>4, <1>8, <2>1, <2>2 DEF TargetOK
  <2>4. m = Msg("COMPLETE", t)
    BY <2>2, <2>3, Received
  <2>5. m.type = "COMPLETE"
    BY <2>4 DEF Msg
  <2>6. Answered(m) = "DISPATCHED"
    BY <2>5, Answer
  <2>w. With(t)' \in Ready /\ With(BootA)' = With(BootA)
    BY <1>1, <1>4, <2>2, <2>3, Received
  <2>p. /\ pc = "await" /\ pc' = "deliver" /\ exit' = exit /\ UNCHANGED heard
    BY <2>1, <2>2, <2>6, Program DEF Advance
  <2>s. SourceOK'
    BY <1>3, <1>4, <1>5, <2>p, <2>w DEF SourceOK, StepOK, BeforeA
  <2>t. TargetOK(t)'
    BY <1>3, <1>4, <1>5, <2>p, <2>w DEF TargetOK, StepOK, BeforeA, BeforeB, BeforeC
  <2>h. HeardOK'
    BY <1>3, <1>4, <1>5, <2>p DEF HeardOK, StepOK, BeforeA, BeforeB, BeforeC,
       BeforeFirst, BeforeSecond
  <2> QED BY <1>3, <2>p, <2>s, <2>t, <2>h DEF Orderly
<1> QED BY <1>9, <1>10, <1>11, <1>12, <1>13, <1>14, <1>15, <1>16

\* The program does not return to the steps before worker A is killed.
LEMMA TogetherBefore ==
  ASSUME StepOK, scenario' = scenario,
         \/ Moves
         \/ pc' = Following(pc)
              /\ pc \in {"spawnA", "spawnB", "spawnC", "accept1", "accept2"},
         pc' \in Together'
  PROVE  pc \in Together /\ (pc' = Following(pc) => pc # "kill")
<1>1. Restart' = Restart
  BY SameScenario
<1>2. Together' = Together
  BY <1>1 DEF Together, BeforeFirst, BeforeB, BeforeA
<1> QED BY <1>1, <1>2, Program DEF Moves, StepOK, Unsent, Opening, Closing, Together,
           BeforeFirst, BeforeB, BeforeA

\* A worker's steps; only a killed worker may have died.
LEMMA WorkerOrderly ==
  ASSUME StepOK, NetTypeOK, CleanOK, Running, Clean, Clean', NEW b \in Boots,
         WorkerStep(b) \/ DieSomehow(b)
  PROVE  Orderly'
<1>1. UNCHANGED <<scenario, pc, heard, status>>
  BY DEF WorkerStep, DieSomehow, Connect, SendRegister, Serve, HangUp, Die, coordVars
<1>2. PICK t \in Boots : t = TargetBoot /\ t # BootA
  BY NetTypes, DistributedAssumption DEF TargetBoot
<1>3. Restart' = Restart /\ TargetBoot' = t
  BY <1>1, <1>2, SameScenario
<1>4. SourceOK /\ HeardOK /\ TargetOK(t) /\ BootA \in Boots
  BY <1>2, NetTypes DEF CleanOK, Orderly
<1>5. /\ BeforeA' = BeforeA /\ BeforeB' = BeforeB /\ BeforeC' = BeforeC
      /\ BeforeFirst' = BeforeFirst /\ BeforeSecond' = BeforeSecond
  BY <1>3 DEF BeforeA, BeforeB, BeforeC, BeforeFirst, BeforeSecond
<1>6. HeardOK'
  BY <1>1, <1>3, <1>4, <1>5 DEF HeardOK
<1>7. DieSomehow(b) => b = BootA /\ pc \notin Together
  <2> SUFFICES ASSUME DieSomehow(b) PROVE b = BootA /\ pc \notin Together
    OBVIOUS
  <2>1. faulted' = IF b \in killed THEN faulted ELSE faulted \cup {b}
    BY DEF DieSomehow, Die
  <2>2. b \in killed
    BY <2>1 DEF Clean
  <2> QED BY <2>2 DEF CleanOK
<1>8. TargetOK(t)'
  <2>1. CASE b = t
    <3>1. WorkerStep(b)
      BY <1>2, <1>7, <2>1
    <3>2. /\ With(t) \in Absent => With(t)' \in Absent
          /\ With(t) \in Joining(t) => With(t)' \in Joining(t)
          /\ With(t) \in Ready => With(t)' \in Ready
          /\ With(t) \in Busy(t, "RUN", "WORK_DONE") =>
                 With(t)' \in Busy(t, "RUN", "WORK_DONE")
          /\ With(t) \in Busy(t, "DISPATCH", "COMPLETE") =>
                 With(t)' \in Busy(t, "DISPATCH", "COMPLETE")
      BY <2>1, <3>1, ExchangeGoesOn
    <3> QED BY <1>1, <1>3, <1>4, <1>5, <3>2 DEF TargetOK
  <2>2. CASE b # t
    <3>1. With(t)' = With(t)
      BY <2>2, WorkerFrame
    <3> QED BY <1>1, <1>3, <1>4, <1>5, <3>1 DEF TargetOK
  <2> QED BY <2>1, <2>2
<1>9. SourceOK'
  <2>1. CASE b # BootA
    <3>1. With(BootA)' = With(BootA)
      BY <1>4, <2>1, WorkerFrame
    <3> QED BY <1>1, <1>3, <1>4, <1>5, <3>1 DEF SourceOK
  <2>2. CASE b = BootA /\ WorkerStep(b)
    <3>2. /\ With(BootA) \in Absent => With(BootA)' \in Absent
          /\ With(BootA) \in Joining(BootA) => With(BootA)' \in Joining(BootA)
          /\ With(BootA) \in Ready => With(BootA)' \in Ready
          /\ With(BootA) \in Busy(BootA, "RUN", "WORK_DONE") =>
                 With(BootA)' \in Busy(BootA, "RUN", "WORK_DONE")
      BY <2>2, ExchangeGoesOn
    <3> QED BY <1>1, <1>3, <1>4, <1>5, <3>2 DEF SourceOK
  <2>3. CASE DieSomehow(b)
    <3>1. pc \notin Together
      BY <1>7, <2>3
    <3> QED BY <1>1, <1>3, <1>5, <3>1 DEF SourceOK, Together, BeforeFirst, BeforeB,
               BeforeA
  <2> QED BY <2>1, <2>2, <2>3
<1> QED BY <1>3, <1>6, <1>8, <1>9 DEF Orderly

\* Before the step nothing had gone wrong either.
LEMMA CleanBefore ==
  ASSUME NetTypeOK, ConnOK, [DistributedNext]_allVars, Clean'
  PROVE  Clean
<1>1. CASE UNCHANGED allVars
  BY <1>1 DEF allVars, netVars, coordVars, history, Clean, TargetBoot, Restart
<1>2. ASSUME NEW b \in Boots, WorkerStep(b) \/ DieSomehow(b) PROVE Clean
  <2>1. UNCHANGED <<scenario, conn>> /\ faulted \subseteq faulted'
    BY <1>2 DEF WorkerStep, DieSomehow, Connect, SendRegister, Serve, HangUp, Die,
       coordVars, history
  <2> QED BY <2>1, SameScenario DEF Clean
<1>3. CASE Exchanges
  BY <1>3, SameScenario DEF Exchanges, Clean
<1>4. CASE Accept("accept1", "first") \/ Accept("accept2", "second")
  <2>1. UNCHANGED <<scenario, faulted>> /\ Running /\ pc \in {"accept1", "accept2"}
    BY <1>4 DEF Accept, notes, history, At
  <2>2. conn.second = NoBoot
    BY <2>1 DEF ConnOK, BeforeA, BeforeB, BeforeC, BeforeFirst, BeforeSecond
  <2> QED BY <2>1, <2>2 DEF Clean
<1>5. ASSUME NEW ok \in BOOLEAN, \/ Spawn("spawnA", BootA, ok)
        \/ Spawn("spawnB", BootB, ok)
                                 \/ Spawn("spawnC", BootC, ok)
      PROVE  Clean
  <2>1. UNCHANGED <<scenario, conn, faulted>>
    BY <1>5 DEF Spawn, notes, history
  <2> QED BY <2>1, SameScenario DEF Clean
<1>6. CASE AcceptFailure
  <2>1. UNCHANGED <<scenario, conn, faulted>>
    BY <1>6 DEF AcceptFailure, AcceptFails, notes, netVars, history
  <2> QED BY <2>1, SameScenario DEF Clean
<1> QED BY <1>1, <1>2, <1>3, <1>4, <1>5, <1>6, CoordinatorNet DEF DistributedNext

\* The coordinator kills only worker A before it ends.
LEMMA KilledStep ==
  ASSUME StepOK, CleanOK, Running, Running', [DistributedNext]_allVars
  PROVE  killed' \subseteq {BootA} /\ (pc' \in Together' => killed' = {})
<1>1. CASE UNCHANGED <<scenario, pc, killed>>
  <2>1. Together' = Together
    BY <1>1, SameScenario DEF Together, BeforeFirst, BeforeB, BeforeA
  <2> QED BY <1>1, <2>1 DEF CleanOK
<1>2. ASSUME NEW b \in Boots, WorkerStep(b) \/ DieSomehow(b) PROVE UNCHANGED <<scenario, pc, killed>>
  BY <1>2 DEF WorkerStep, DieSomehow, Connect, SendRegister, Serve, HangUp, Die, coordVars
<1>3. CASE UNCHANGED allVars
  BY <1>1, <1>3 DEF allVars, coordVars, netVars
<1>4. CASE Exchanges
  <2>1. pc' \in Together' => pc \in Together /\ (pc' = Following(pc) => pc # "kill")
    BY <1>4, TogetherBefore DEF Exchanges
  <2>2. ~Stop
    BY DEF Stop, Exit, Running
  <2>3. KillA => pc = "kill" /\ pc' = Following(pc) /\ killed' = killed \cup {BootA}
    BY DEF KillA, At, Advance
  <2> QED BY <1>4, <2>1, <2>2, <2>3 DEF Exchanges, CleanOK
<1>5. CASE \/ \E ok \in BOOLEAN : \/ Spawn("spawnA", BootA, ok) \/ Spawn("spawnB", BootB, ok)
                                  \/ Spawn("spawnC", BootC, ok)
           \/ Accept("accept1", "first") \/ Accept("accept2", "second") \/ AcceptFailure
  <2>1. /\ UNCHANGED <<scenario, killed>>
        /\ \/ pc' = pc
           \/ pc' = Following(pc)
                /\ pc \in {"spawnA", "spawnB", "spawnC", "accept1", "accept2"}
    BY <1>5 DEF Spawn, Accept, AcceptFailure, AcceptFails, notes, netVars, history, At,
       AdvanceIf, Advance, Exit
  <2>2. pc' \in Together' => pc \in Together
    BY <2>1, TogetherBefore DEF Moves
  <2> QED BY <2>1, <2>2 DEF CleanOK
<1> QED BY <1>1, <1>2, <1>3, <1>4, <1>5, CoordinatorNet DEF DistributedNext

\* A coordinator step when nothing has gone wrong.
LEMMA CoordinatorOrderly ==
  ASSUME CoordOK, NetTypeOK, ConnOK, Clean, Orderly, Running,
         CoordinatorStep \/ AcceptFailure \/ CoordinatorDies
  PROVE  /\ exit' = "none" => Orderly'
         /\ exit' \notin {"registration", "no_work", "failed"}
<1>1. ASSUME NEW ok \in BOOLEAN, \/ Spawn("spawnA", BootA, ok)
        \/ Spawn("spawnB", BootB, ok)
                                 \/ Spawn("spawnC", BootC, ok)
      PROVE  /\ exit' = "none" => Orderly'
             /\ exit' \notin {"registration", "no_work", "failed"}
  BY <1>1, OrderlySpawn DEF CoordOK
<1>2. CASE \/ Registration1 \/ Registration2
           \/ SendRun("run", conn.first) \/ SendRun("shadowRun", conn.second)
           \/ WorkDone \/ ShadowDone
           \/ (\E sent \in BOOLEAN : Dispatch(sent)) \/ Await
  BY <1>2, OrderlyExchange DEF CoordOK, Running
<1>3. CASE \/ \E ok \in BOOLEAN : Bind(ok)
           \/ Accept("accept1", "first") \/ Accept("accept2", "second")
           \/ AcceptFailure \/ KillA
           \/ RegisterTarget \/ Decide \/ Authorize \/ Deliver \/ Receipt
                \/ CheckSucceeded
           \/ StaleReport("staleBoot", BootA, "SUCCEEDED")
           \/ StaleReport("staleCompletion", BootC, "FAILED")
           \/ StaleAttempt \/ StaleDispatch \/ Stop \/ CoordinatorDies
  BY <1>3, OrderlyPlanner
<1> QED BY <1>1, <1>2, <1>3 DEF CoordinatorStep

\* Every step keeps the order, and a failure has its cause.
LEMMA CleanStep ==
  ASSUME CoordOK, NetTypeOK, ConnOK, CleanOK, FailureHasCause, [DistributedNext]_allVars
  PROVE  CleanOK' /\ FailureHasCause'
<1>1. Clean' => Clean
  BY CleanBefore
<1>2. ASSUME Running, Clean' PROVE /\ Running' => Orderly'
                                   /\ exit' \notin {"registration", "no_work", "failed"}
  <2>1. Clean /\ Orderly
    BY <1>1, <1>2 DEF CleanOK
  <2>2. CASE CoordinatorStep \/ AcceptFailure \/ CoordinatorDies
    BY <1>2, <2>1, <2>2, CoordinatorOrderly DEF Running
  <2>3. ASSUME NEW b \in Boots, WorkerStep(b) \/ DieSomehow(b)
        PROVE  Orderly' /\ exit' = exit
    <3>1. exit' = exit
      BY <2>3 DEF WorkerStep, DieSomehow, Connect, SendRegister, Serve, HangUp, Die,
         coordVars
    <3> QED BY <1>2, <2>1, <2>3, <3>1, WorkerOrderly DEF CoordOK
  <2>4. CASE UNCHANGED allVars
    <3>1. UNCHANGED <<scenario, exit, pc, heard, status, proc, toWorker, toCoord>>
      BY <2>4 DEF allVars, coordVars, netVars
    <3>2. PICK t \in Boots : t = TargetBoot
      BY NetTypes
    <3>3. /\ Restart' = Restart /\ TargetBoot' = t /\ With(t)' = With(t)
               /\ With(BootA)' = With(BootA)
      BY <3>1, <3>2, SameScenario DEF With
    <3>4. /\ BeforeA' = BeforeA /\ BeforeB' = BeforeB /\ BeforeC' = BeforeC
          /\ BeforeFirst' = BeforeFirst /\ BeforeSecond' = BeforeSecond
      BY <3>3 DEF BeforeA, BeforeB, BeforeC, BeforeFirst, BeforeSecond
    <3>5. SourceOK'
      BY <2>1, <3>1, <3>3, <3>4 DEF Orderly, SourceOK
    <3>6. TargetOK(t)'
      BY <2>1, <3>1, <3>2, <3>3, <3>4 DEF Orderly, TargetOK
    <3>7. HeardOK'
      BY <2>1, <3>1, <3>3, <3>4 DEF Orderly, HeardOK
    <3>8. Orderly'
      BY <3>3, <3>5, <3>6, <3>7 DEF Orderly
    <3> QED BY <1>2, <3>1, <3>8 DEF Running
  <2> QED BY <1>2, <2>2, <2>3, <2>4 DEF DistributedNext, Running
<1>3. ASSUME ~Running PROVE exit' = exit /\ ~Running'
  BY <1>3, StaysEnded DEF Running
<1>4. exit' \in {"registration", "no_work", "failed"} => ~Clean'
  <2>1. ~Running /\ exit \in {"registration", "no_work", "failed"} => ~Clean
    BY DEF FailureHasCause, Clean
  <2> QED BY <1>1, <1>2, <1>3, <2>1
<1>5. FailureHasCause'
  BY <1>4 DEF FailureHasCause, Clean
<1>6. CleanOK'
  <2>1. CASE Running /\ Running'
    BY <1>2, <2>1, KilledStep DEF CoordOK, CleanOK
  <2>2. CASE ~Running'
    BY <2>2 DEF CleanOK
  <2> QED BY <1>3, <2>1, <2>2
<1> QED BY <1>5, <1>6

-----------------------------------------------------------------------------
(***************************************************************************)
(* The theorems.                                                           *)
(***************************************************************************)

\* The invariant holds at the start.
LEMMA DistributedStart == DistributedInit => DistributedInv
<1> SUFFICES ASSUME DistributedInit PROVE DistributedInv
  OBVIOUS
<1>1. /\ scenario \in Scenarios /\ pc = "bind" /\ exit = "none" /\ status = "NONE"
           /\ rejected = TRUE
      /\ recompute = {} /\ proc = [b \in Boots |-> "absent"] /\ killed = {}
           /\ backlog = <<>>
      /\ conn = [first |-> NoBoot, second |-> NoBoot]
      /\ toWorker = [b \in Boots |-> <<>>] /\ toCoord = [b \in Boots |-> <<>>]
      /\ performed = [b \in Boots |-> 0]
  BY DEF DistributedInit
<1>2. /\ epoch = 1 /\ worker_boots = [w \in Workers |-> NoBoot]
      /\ plans = [id \in PlanIds |-> NoPlan] /\ backend = [id \in PlanIds |-> IdleBackend]
      /\ dispatch_meta = [d \in DispatchIds |-> NoMeta] /\ completions = {}
      /\ next_plan_id = 1 /\ next_generation = 1
  BY DEF DistributedInit, Init
<1>3. StepOK
  BY <1>1 DEF StepOK, Unsent, Opening
<1>4. WorldOK
  BY <1>1, <1>2 DEF WorldOK, Opening
<1>5. PlannerOK
  <2>1. Holds(NoPlan, IdleBackend, NoMeta, {})
    BY <1>2 DEF Holds, Only
  <2> QED BY <1>1, <1>2, <2>1 DEF PlannerOK, Closing
<1>6. NetTypeOK
  <2>1. <<>> \in Seq(Boots) /\ <<>> \in Seq(Orders) /\ <<>> \in Seq(Answers)
    OBVIOUS
  <2> QED BY <1>1, <2>1 DEF NetTypeOK, ProcStates
<1>7. ConnOK
  <2>1. BootA \in Boots /\ BootB \in Boots /\ BootC \in Boots /\ TargetBoot \in Boots
          /\ NoBoot \notin Boots
    BY <1>6, NetTypes
  <2>2. Len(backlog) = 0
    BY <1>1
  <2> QED BY <1>1, <2>1, <2>2 DEF ConnOK, BeforeA, BeforeB, BeforeC, BeforeFirst,
             BeforeSecond
<1>8. WorkOK
  <2>1. \A t : ~Has(<<>>, t) /\ Once(<<>>, t)
    BY DEF Has, Once
  <2> QED BY <1>1, <2>1 DEF WorkOK
<1>9. CleanOK
  <2>1. \A b \in Boots : With(b) \in Absent
    BY <1>1 DEF With, Absent
  <2>2. SourceOK
    BY <1>1, <2>1, DistributedAssumption DEF SourceOK
  <2>3. HeardOK
    BY <1>1 DEF HeardOK, BeforeA, BeforeB, BeforeC, BeforeFirst, BeforeSecond
  <2>4. \A b \in Boots : TargetOK(b)
    BY <1>1, <2>1 DEF TargetOK
  <2> QED BY <1>1, <2>2, <2>3, <2>4 DEF CleanOK, Orderly
<1>10. PlannerNeverToBlame /\ FailureHasCause
  BY <1>1 DEF PlannerNeverToBlame, FailureHasCause
<1> QED BY <1>3, <1>4, <1>5, <1>6, <1>7, <1>8, <1>9, <1>10 DEF DistributedInv

\* Every step preserves it.
LEMMA DistributedInductive == DistributedInv /\ [DistributedNext]_allVars =>
    DistributedInv'
<1> SUFFICES ASSUME DistributedInv, [DistributedNext]_allVars PROVE DistributedInv'
  OBVIOUS
<1>1. CoordOK
  BY DEF DistributedInv, CoordOK
<1>2. NetTypeOK /\ ConnOK /\ WorkOK /\ CleanOK /\ FailureHasCause
  BY DEF DistributedInv
<1>3. CoordOK'
  BY <1>1, CoordStep
<1>4. NetTypeOK' /\ ConnOK'
  BY <1>1, <1>2, NetStep DEF CoordOK
<1>5. WorkOK'
  BY <1>1, <1>2, WorkStep
<1>6. CleanOK' /\ FailureHasCause'
  BY <1>1, <1>2, CleanStep
<1> QED BY <1>3, <1>4, <1>5, <1>6 DEF DistributedInv, CoordOK

\* The invariant holds throughout: the coordinator, its planner, the connections and the
\* exchanges with the workers are where its program expects them.
THEOREM DistributedInvariant == DistributedSpec => []DistributedInv
BY DistributedStart, DistributedInductive, PTL DEF DistributedSpec

\* A published verdict is what the worker behind the second connection did, exactly
\* once, and that worker is the plan's target if the workers connected in the order of
\* the spawns, and always in the restart proof (NetworkExecutor::dispatch,
\* on_adapter_completion and the receipt).
THEOREM VerdictIsAlwaysTheWorkers == DistributedSpec => []VerdictIsTheWorkers
<1>1. DistributedInv => VerdictIsTheWorkers
  <2> SUFFICES ASSUME DistributedInv, Stored(1), plans[1].outcome_published
               PROVE  /\ plans[1].execution_outcome = "SUCCEEDED"
                      /\ performed[conn.second] = 1
                      /\ Restart \/ conn.first = BootA => performed[TargetBoot] = 1
    BY DEF VerdictIsTheWorkers
  <2>1. StepOK /\ PlannerOK /\ WorkOK /\ NetTypeOK /\ ConnOK
    BY DEF DistributedInv
  <2>2. \A p : Only(PlanIds, p, NoPlan)[1] = p
    BY OnlyAt, OneId
  <2>3. \A s, o, a : ThePlan(s, o, FALSE, a).outcome_published = FALSE
    BY DEF ThePlan
  <2>4. NoPlan.state = "ABSENT"
    BY DEF NoPlan
  <2>5. Succeeded.execution_outcome = "SUCCEEDED"
    BY DEF Succeeded, ThePlan
  <2>6. plans = Only(PlanIds, Succeeded, NoPlan) /\ status = "DISPATCHED"
    <3>1. plans # Only(PlanIds, NoPlan, NoPlan)
      BY <2>2, <2>4 DEF Stored
    <3>2. ASSUME NEW s, NEW o, NEW a, plans = Only(PlanIds, ThePlan(s, o, FALSE, a),
                 NoPlan)
          PROVE  FALSE
      <4>1. plans[1] = ThePlan(s, o, FALSE, a)
        BY <2>2, <3>2, Zenon
      <4>2. plans[1].outcome_published = FALSE
        BY <2>3, <4>1, Zenon
      <4> QED BY <4>2, Zenon
    <3>3. \/ plans = Only(PlanIds, NoPlan, NoPlan)
          \/ \E s, o, a : plans = Only(PlanIds, ThePlan(s, o, FALSE, a), NoPlan)
          \/ plans = Only(PlanIds, Succeeded, NoPlan) /\ status = "DISPATCHED"
      BY <2>1 DEF PlannerOK, Holds, StepOK, Unsent
    <3> QED BY <3>1, <3>2, <3>3
  <2>7. conn.second \in Boots /\ performed[conn.second] = 1
    BY <2>1, <2>6 DEF WorkOK
  <2>8. Restart \/ conn.first = BootA => conn.second = TargetBoot
    <3>1. /\ proc[conn.second] # "absent"
          /\ conn.first = BootA => conn.second # BootA
          /\ Restart => proc[BootB] = "absent" /\ conn.first \in {NoBoot, BootA}
          /\ ~Restart => proc[BootC] = "absent"
      BY <2>1, <2>7, NetTypes DEF ConnOK
    <3>2. conn.first # NoBoot \/ ~Restart
      <4>1. plans # Only(PlanIds, NoPlan, NoPlan)
        BY <2>2, <2>4 DEF Stored
      <4>2. pc \notin Opening
        BY <2>1, <4>1 DEF PlannerOK, Holds
      <4> QED BY <2>1, <4>2 DEF ConnOK, Opening, BeforeFirst, BeforeB, BeforeA
    <3> QED BY <2>7, <3>1, <3>2, DistributedAssumption DEF TargetBoot
  <2> QED BY <2>2, <2>5, <2>6, <2>7, <2>8
<1> QED BY <1>1, DistributedInvariant, PTL

\* The planner finds the plan each scenario is about and rejects all stale traffic
\* (plan() on the candidates of build_candidate, report_execution, dispatch_plan).
THEOREM PlannerIsNeverToBlame == DistributedSpec => []PlannerNeverToBlame
<1>1. DistributedInv => PlannerNeverToBlame
  BY DEF DistributedInv
<1> QED BY <1>1, DistributedInvariant, PTL

\* The coordinator gives up only if a worker died of itself or the workers connected in
\* the other order (the order of sends and receives in main and worker_main).
THEOREM FailureAlwaysHasCause == DistributedSpec => []FailureHasCause
<1>1. DistributedInv => FailureHasCause
  BY DEF DistributedInv
<1> QED BY <1>1, DistributedInvariant, PTL
================================================================================
