----------------------------- MODULE Feasibility -----------------------------
(***************************************************************************)
(* evaluate_feasibility (feasibility.cpp): the verdict on one recovery     *)
(* candidate, as a function of its evidence, the request and the planner's *)
(* current world view (PlannerContext).  The world changes between the     *)
(* moment a candidate's evidence is observed and the moment it is judged;  *)
(* that drift is what the state machine below is about.                    *)
(*                                                                         *)
(* A std::optional is a set with at most one element, {} being absence.    *)
(***************************************************************************)
EXTENDS Integers, FiniteSets

CONSTANTS
  Workers, Boots,
  NoBoot,        \* worker_boots has no entry for the worker
  Requests,      \* the requests candidates are judged for
  Strategies,    \* strategies that candidates propose
  Amounts,       \* resource amounts
  Needed,        \* resource amounts that candidates require
  Generations,   \* generations that evidence may carry
  WorkloadGenerations, \* workload generations whose recompute lineage may be known
  MaxEpoch,      \* bound: coordinator restarts
  MaxDefects     \* bound: ways in which a candidate differs from a good one

Strategy == {"RESTORE", "RESTART", "MIGRATE", "REHYDRATE", "SHADOW_PROMOTE",
             "FAILOVER", "RECOMPUTE"}
Freshness == {"CURRENT", "STALE", "REVALIDATION_REQUIRED", "EXPIRED", "UNKNOWN"}
StateIntegrity == {"VALID", "CORRUPT", "UNCERTAIN", "NOT_VERIFIED", "UNKNOWN"}
CompatibilityResult ==
  {"EXACT", "COMPATIBLE", "COMPATIBLE_WITH_ADAPTATION", "CONDITIONAL",
   "INCOMPATIBLE", "UNKNOWN", "INSUFFICIENT_EVIDENCE"}
CandidateReadiness == {"READY", "NOT_READY", "WARMING", "UNKNOWN"}
ResourceStatus == {"AVAILABLE", "UNAVAILABLE", "CONTENDED", "UNKNOWN"}

ASSUME EvidenceAssumption ==
  /\ NoBoot \notin Boots
  /\ Strategies \subseteq Strategy
  /\ Amounts \subseteq Nat /\ Needed \subseteq Amounts
  /\ 1 \in Generations
  /\ MaxEpoch \in Nat \ {0}
  /\ MaxDefects \in Nat

RequestType ==
  [workload_generation: Generations \cup {0}, forbidden: SUBSET Strategy, has_requirements: BOOLEAN]
ASSUME RequestsAssumption == Requests \subseteq RequestType

VARIABLES
  epoch,               \* ctx.epoch
  worker_boots,        \* ctx.worker_boots
  alive_workers,       \* ctx.alive_workers
  resource_available,  \* ctx.resource_available for the one kind candidates need
  recompute,           \* ctx.recompute_lineage_available, original_inputs_available
  request,             \* the request being planned
  candidate,           \* {} until a candidate was observed
  observed_epoch,      \* history: the epoch the candidate was observed in
  defects              \* how often the candidate's evidence was altered

ctxVars  == <<epoch, worker_boots, alive_workers, resource_available, recompute>>
candVars == <<request, candidate, observed_epoch, defects>>
vars     == <<ctxVars, candVars>>

\* The policy, compatibility, resource, topology and workload generations of the
\* context are set to 1 by the planner's constructor and never change.
ContextGeneration == 1

-----------------------------------------------------------------------------
(***************************************************************************)
(* The evaluator.  Each section of the code raises some of four flags.     *)
(***************************************************************************)
Flag(condition, name) == IF condition THEN {name} ELSE {}

AgeFlags(freshness) ==
  Flag(freshness \in {"STALE", "EXPIRED"}, "insufficient")
    \cup Flag(freshness = "REVALIDATION_REQUIRED", "revalidation")

\* What absent evidence raises, or else what the record raises.
OfOptional(evidence, absent, Flags(_)) ==
  IF evidence = {} THEN absent ELSE UNION {Flags(e) : e \in evidence}

Mandatory == {"insufficient"}

IdentityFlags(c) == Flag(~c.valid_identity, "infeasible")

\* Mutant: the epoch of the evidence is not compared.
AuthorityFlagsAnyEpoch(c) ==
  LET Flags(a) == Flag(a.policy_generation # ContextGeneration, "infeasible")
  IN OfOptional(c.authority, Mandatory, Flags)

AuthorityFlags(c) ==
  LET Flags(a) == Flag(\/ a.coordinator_epoch # epoch
                       \/ a.policy_generation # ContextGeneration, "infeasible")
  IN OfOptional(c.authority, Mandatory, Flags)

\* Mutant: unknown integrity is taken for valid.
StateFlagsTrusting(c, r) ==
  LET Flags(s) ==
        Flag(\/ s.workload_generation \notin {0, r.workload_generation}
             \/ s.integrity = "CORRUPT"
             \/ s.freshness = "EXPIRED"
             \/ s.state_generation # c.state_generation, "infeasible")
        \cup AgeFlags(s.freshness)
  IN OfOptional(c.state, Mandatory, Flags)

\* Generation 0 is the invalid one: a state without a workload generation passes.
StateFlags(c, r) ==
  LET Flags(s) ==
        Flag(\/ s.workload_generation \notin {0, r.workload_generation}
             \/ s.integrity = "CORRUPT"
             \/ s.freshness = "EXPIRED"
             \/ s.state_generation # c.state_generation, "infeasible")
        \cup Flag(s.integrity \in {"UNCERTAIN", "NOT_VERIFIED", "UNKNOWN"}, "insufficient")
        \cup AgeFlags(s.freshness)
  IN OfOptional(c.state, Mandatory, Flags)

CheckpointFlags(c) ==
  LET Flags(k) == Flag(k.state_generation # c.state_generation, "infeasible")
  IN OfOptional(c.checkpoint, {}, Flags)

\* reference_rejects: the context's reference table knows the subject and does
\* not list the target.
CompatibilityFlags(c, r) ==
  LET Flags(k) ==
        Flag(\/ k.result = "INCOMPATIBLE"
             \/ k.compatibility_generation # ContextGeneration
             \/ k.reference_rejects, "infeasible")
        \cup Flag(k.result \in {"UNKNOWN", "INSUFFICIENT_EVIDENCE"}, "insufficient")
        \cup Flag(k.freshness = "REVALIDATION_REQUIRED", "revalidation")
  IN OfOptional(c.compatibility, Flag(r.has_requirements, "insufficient"), Flags)

NeedsLiveTarget(c) == c.strategy # "RECOMPUTE"

\* Mutant: the boot is not compared with the registration.
AvailabilityFlagsAnyBoot(c) ==
  LET Flags(a) ==
        Flag(\/ ~a.is_alive
             \/ a.worker \notin alive_workers
             \/ a.readiness = "NOT_READY", "infeasible")
        \cup Flag(a.readiness = "WARMING", "defer")
        \cup Flag(a.readiness = "UNKNOWN", "insufficient")
        \cup AgeFlags(a.freshness)
  IN IF NeedsLiveTarget(c) THEN OfOptional(c.availability, Mandatory, Flags) ELSE {}

\* Mutant: the evidence only has to agree with the registration.
AvailabilityFlagsAgreeing(c) ==
  LET Flags(a) ==
        Flag(\/ a.is_alive # (a.worker \in alive_workers)
             \/ worker_boots[a.worker] # a.boot
             \/ a.readiness = "NOT_READY", "infeasible")
        \cup Flag(a.readiness = "WARMING", "defer")
        \cup Flag(a.readiness = "UNKNOWN", "insufficient")
        \cup AgeFlags(a.freshness)
  IN IF NeedsLiveTarget(c) THEN OfOptional(c.availability, Mandatory, Flags) ELSE {}

AvailabilityFlags(c) ==
  LET Flags(a) ==
        Flag(\/ ~a.is_alive
             \/ a.worker \notin alive_workers
             \/ worker_boots[a.worker] # a.boot
             \/ a.readiness = "NOT_READY", "infeasible")
        \cup Flag(a.readiness = "WARMING", "defer")
        \cup Flag(a.readiness = "UNKNOWN", "insufficient")
        \cup AgeFlags(a.freshness)
  IN IF NeedsLiveTarget(c) THEN OfOptional(c.availability, Mandatory, Flags) ELSE {}

ResourceSufficient(amount) == \E have \in resource_available : have >= amount

\* Mutant: absent resource evidence raises nothing.
ResourceFlagsOptional(c) ==
  LET Flags(s) ==
        Flag(\/ s.status = "UNAVAILABLE"
             \/ \E need \in s.required, have \in s.available : have < need
             \/ s.generation # ContextGeneration, "infeasible")
        \cup Flag(\/ s.status = "UNKNOWN"
                  \/ \E need \in s.required :
                       s.available = {} \/ ~ResourceSufficient(need), "insufficient")
        \cup AgeFlags(s.freshness)
  IN OfOptional(c.resource, {}, Flags)

\* The evidence's own amounts, and then the planner's current view.
ResourceFlags(c) ==
  LET Flags(s) ==
        Flag(\/ s.status = "UNAVAILABLE"
             \/ \E need \in s.required, have \in s.available : have < need
             \/ s.generation # ContextGeneration, "infeasible")
        \cup Flag(\/ s.status = "UNKNOWN"
                  \/ \E need \in s.required :
                       s.available = {} \/ ~ResourceSufficient(need), "insufficient")
        \cup AgeFlags(s.freshness)
  IN OfOptional(c.resource, Mandatory, Flags)

\* source_distinct: the source worker is valid and is not the target.
MigrateFlags(c) ==
  LET Flags(t) == Flag(~t.path_possible \/ t.generation # ContextGeneration, "infeasible")
  IN OfOptional(c.topology, Mandatory, Flags)
       \cup Flag(~c.source_distinct, "infeasible")
       \cup Flag(\/ c.transfer = {}
                 \/ ~\E s \in c.state : s.is_durable, "insufficient")

\* Mutant: the shadow need not be ready.
ShadowFlagsAnyReadiness(c) ==
  LET Flags(s) == Flag(~s.lag_bounded \/ s.compatibility = "INCOMPATIBLE", "infeasible")
  IN OfOptional(c.shadow, Mandatory, Flags)

\* lag_bounded: at most 2^40 ns behind the primary.
ShadowFlags(c) ==
  LET Flags(s) == Flag(\/ s.readiness # "READY"
                       \/ ~s.lag_bounded
                       \/ s.compatibility = "INCOMPATIBLE", "infeasible")
  IN OfOptional(c.shadow, Mandatory, Flags)

RecomputeFlags(c, r) ==
  Flag(r.workload_generation \notin recompute, "infeasible")
    \cup Flag(~\E k \in c.cost : k.has_recompute_time, "insufficient")

StrategyFlags(c, r) ==
  CASE c.strategy = "MIGRATE"        -> MigrateFlags(c)
    [] c.strategy = "SHADOW_PROMOTE" -> ShadowFlags(c)
    [] c.strategy = "RECOMPUTE"      -> RecomputeFlags(c, r)
    [] c.strategy = "REHYDRATE"      -> Flag(c.state = {}, "insufficient")
    [] OTHER                         -> {}

FeasFlags(c, r) ==
  UNION {IdentityFlags(c), AuthorityFlags(c), StateFlags(c, r), CheckpointFlags(c),
         CompatibilityFlags(c, r), AvailabilityFlags(c), ResourceFlags(c),
         StrategyFlags(c, r)}

Aggregate(flags) ==
  CASE "infeasible"   \in flags -> "INFEASIBLE"
    [] "infeasible" \notin flags /\ "insufficient" \in flags -> "INSUFFICIENT_EVIDENCE"
    [] flags \in {{"revalidation"}, {"revalidation", "defer"}} -> "REVALIDATION_REQUIRED"
    [] flags = {"defer"} -> "DEFER"
    [] flags = {} -> "FEASIBLE"

\* evaluate_feasibility.
EvaluateFeasibility(c, r) ==
  IF c.strategy \in r.forbidden THEN "INFEASIBLE" ELSE Aggregate(FeasFlags(c, r))

Feasible(c, r) == EvaluateFeasibility(c, r) = "FEASIBLE"

\* plan_authority_current for the plan that build_plan makes of c and r now: the
\* workload generation is the request's, all else is copied from the context.
AuthorityCurrent(c, r) ==
  /\ r.workload_generation = ContextGeneration
  /\ c.target_worker \in alive_workers
  /\ worker_boots[c.target_worker] = c.target_boot

-----------------------------------------------------------------------------
(***************************************************************************)
(* external: candidates and their evidence come from the callers of        *)
(* plan().  A candidate starts as a faithful observation of the world and  *)
(* is then altered in up to MaxDefects respects, each of which drops one   *)
(* piece of evidence or changes one field.                                 *)
(***************************************************************************)
AuthorityEvidence == [coordinator_epoch: 1..MaxEpoch, policy_generation: Generations]
StateEvidence ==
  [workload_generation: Generations \cup {0}, state_generation: Generations,
   integrity: StateIntegrity, freshness: Freshness, is_durable: BOOLEAN]
CheckpointEvidence == [state_generation: Generations]
CompatibilityEvidence ==
  [result: CompatibilityResult, freshness: Freshness,
   compatibility_generation: Generations, reference_rejects: BOOLEAN]
AvailabilityEvidence ==
  [worker: Workers, boot: Boots, is_alive: BOOLEAN,
   readiness: CandidateReadiness, freshness: Freshness]
Optional(S) == {{}} \cup {{x} : x \in S}
ResourceEvidence ==
  [status: ResourceStatus, generation: Generations, freshness: Freshness,
   required: Optional(Amounts), available: Optional(Amounts)]
TopologyEvidence == [path_possible: BOOLEAN, generation: Generations]
TransferEvidence == {"transfer"}
ShadowEvidence ==
  [readiness: CandidateReadiness, lag_bounded: BOOLEAN,
   compatibility: CompatibilityResult]
CostEvidence == [has_recompute_time: BOOLEAN]

RecoveryCandidate ==
  [valid_identity: BOOLEAN, source_distinct: BOOLEAN, strategy: Strategy,
   target_worker: Workers, target_boot: Boots, state_generation: Generations,
   authority: SUBSET AuthorityEvidence, state: SUBSET StateEvidence,
   checkpoint: SUBSET CheckpointEvidence,
   compatibility: SUBSET CompatibilityEvidence,
   availability: SUBSET AvailabilityEvidence,
   resource: SUBSET ResourceEvidence, topology: SUBSET TopologyEvidence,
   transfer: SUBSET TransferEvidence, shadow: SUBSET ShadowEvidence,
   cost: SUBSET CostEvidence]

\* What a careful observer reports of worker w now.
Observation(s, w, r, need) ==
  [valid_identity |-> TRUE, source_distinct |-> TRUE, strategy |-> s,
   target_worker |-> w, target_boot |-> worker_boots[w], state_generation |-> 1,
   authority |-> {[coordinator_epoch |-> epoch,
                   policy_generation |-> ContextGeneration]},
   state |-> {[workload_generation |-> r.workload_generation, state_generation |-> 1,
               integrity |-> "VALID", freshness |-> "CURRENT", is_durable |-> TRUE]},
   checkpoint |-> {[state_generation |-> 1]},
   compatibility |-> {[result |-> "EXACT", freshness |-> "CURRENT",
                       compatibility_generation |-> ContextGeneration,
                       reference_rejects |-> FALSE]},
   availability |-> {[worker |-> w, boot |-> worker_boots[w],
                      is_alive |-> w \in alive_workers,
                      readiness |-> "READY", freshness |-> "CURRENT"]},
   resource |-> {[status |-> "AVAILABLE", generation |-> ContextGeneration,
                  freshness |-> "CURRENT", required |-> {need},
                  available |-> resource_available]},
   topology |-> {[path_possible |-> TRUE, generation |-> ContextGeneration]},
   transfer |-> {"transfer"},
   shadow |-> {[readiness |-> "READY", lag_bounded |-> TRUE,
                compatibility |-> "EXACT"]},
   cost |-> {[has_recompute_time |-> TRUE]}]

Observe(s, w, r, need) ==
  /\ worker_boots[w] \in Boots
  /\ request' = r
  /\ candidate' = {Observation(s, w, r, need)}
  /\ observed_epoch' = epoch
  /\ defects' = 0
  /\ UNCHANGED ctxVars

OneFieldOff(e, S) ==
  {x \in S : \E k \in DOMAIN e : /\ x[k] # e[k]
                                 /\ \A j \in DOMAIN e \ {k} : x[j] = e[j]}

Records ==
  [authority |-> AuthorityEvidence, state |-> StateEvidence,
   checkpoint |-> CheckpointEvidence, compatibility |-> CompatibilityEvidence,
   availability |-> AvailabilityEvidence, resource |-> ResourceEvidence,
   topology |-> TopologyEvidence, shadow |-> ShadowEvidence, cost |-> CostEvidence]

Drop(c, field) == [c EXCEPT ![field] = {}]

DropEvidence(field) ==
  /\ defects < MaxDefects
  /\ \E c \in candidate : c[field] # {} /\ candidate' = {Drop(c, field)}
  /\ defects' = defects + 1
  /\ UNCHANGED <<ctxVars, request, observed_epoch>>

AlterEvidence(field) ==
  /\ defects < MaxDefects
  /\ \E c \in candidate : \E e \in c[field] : \E x \in OneFieldOff(e, Records[field]) :
       candidate' = {[c EXCEPT ![field] = {x}]}
  /\ defects' = defects + 1
  /\ UNCHANGED <<ctxVars, request, observed_epoch>>

AlterCandidate ==
  /\ defects < MaxDefects
  /\ \E c \in candidate :
       \/ candidate' = {[c EXCEPT !.valid_identity = FALSE]}
       \/ candidate' = {[c EXCEPT !.source_distinct = FALSE]}
       \/ \E w \in Workers, b \in Boots :
            candidate' = {[c EXCEPT !.target_worker = w, !.target_boot = b]}
       \/ \E g \in Generations : candidate' = {[c EXCEPT !.state_generation = g]}
  /\ defects' = defects + 1
  /\ UNCHANGED <<ctxVars, request, observed_epoch>>

-----------------------------------------------------------------------------
(***************************************************************************)
(* The planner's world view.                                               *)
(***************************************************************************)
RegisterWorker(w, b) ==
  /\ worker_boots' = [worker_boots EXCEPT ![w] = b]
  /\ alive_workers' = alive_workers \cup {w}
  /\ UNCHANGED <<epoch, resource_available, recompute, candVars>>

UnregisterWorker(w) ==
  /\ alive_workers' = alive_workers \ {w}
  /\ UNCHANGED <<epoch, worker_boots, resource_available, recompute, candVars>>

\* Mutant: amounts accumulate instead of being replaced.
SetResourceAccumulates(amount) ==
  /\ resource_available' = resource_available \cup {amount}
  /\ UNCHANGED <<epoch, worker_boots, alive_workers, recompute, candVars>>

SetResource(amount) ==
  /\ resource_available' = {amount}
  /\ UNCHANGED <<epoch, worker_boots, alive_workers, recompute, candVars>>

SetRecomputeAvailable(gen, available) ==
  /\ recompute' = IF available THEN recompute \cup {gen} ELSE recompute \ {gen}
  /\ UNCHANGED <<epoch, worker_boots, alive_workers, resource_available, candVars>>

\* restart_coordinator: the dynamic evidence is cleared, the boots are kept.
RestartCoordinator ==
  /\ epoch < MaxEpoch
  /\ epoch' = epoch + 1
  /\ alive_workers' = {}
  /\ resource_available' = {}
  /\ recompute' = {}
  /\ UNCHANGED <<worker_boots, candVars>>

-----------------------------------------------------------------------------
Init ==
  /\ epoch = 1
  /\ worker_boots = [w \in Workers |-> NoBoot]
  /\ alive_workers = {}
  /\ resource_available = {}
  /\ recompute = {}
  /\ request \in Requests
  /\ candidate = {}
  /\ observed_epoch = 1
  /\ defects = 0

Next ==
  \/ \E s \in Strategies, w \in Workers, r \in Requests, need \in Needed :
       Observe(s, w, r, need)
  \/ \E field \in DOMAIN Records : DropEvidence(field) \/ AlterEvidence(field)
  \/ DropEvidence("transfer")
  \/ AlterCandidate
  \/ \E w \in Workers : UnregisterWorker(w) \/ \E b \in Boots : RegisterWorker(w, b)
  \/ \E amount \in Amounts : SetResource(amount)
  \/ \E gen \in WorkloadGenerations, available \in BOOLEAN : SetRecomputeAvailable(gen, available)
  \/ RestartCoordinator

Spec == Init /\ [][Next]_vars

-----------------------------------------------------------------------------
(***************************************************************************)
(* Properties.                                                             *)
(***************************************************************************)
\* Every variable keeps its type, the candidate's evidence records included.
TypeOK ==
  /\ epoch \in 1..MaxEpoch
  /\ worker_boots \in [Workers -> Boots \cup {NoBoot}]
  /\ alive_workers \in SUBSET Workers
  /\ resource_available \in Optional(Amounts)
  /\ recompute \in SUBSET WorkloadGenerations
  /\ request \in Requests
  /\ candidate \subseteq RecoveryCandidate /\ Cardinality(candidate) <= 1
  /\ \A c \in candidate, field \in DOMAIN Records : Cardinality(c[field]) <= 1
  /\ observed_epoch \in 1..MaxEpoch
  /\ defects \in 0..MaxDefects

\* Evidence that the evaluator treats as mandatory for a candidate.
MandatoryEvidence(c, r) ==
  {"authority", "state", "resource"}
    \cup (IF NeedsLiveTarget(c) THEN {"availability"} ELSE {"cost"})
    \cup (CASE c.strategy = "MIGRATE"        -> {"topology", "transfer"}
            [] c.strategy = "SHADOW_PROMOTE" -> {"shadow"}
            [] OTHER                         -> {})
    \cup (IF r.has_requirements THEN {"compatibility"} ELSE {})

\* Absent evidence is never optimism: whatever the world has become, taking a
\* piece of mandatory evidence away never yields a FEASIBLE candidate
\* (every `else f.insufficient = true` of evaluate_feasibility).
AbsenceNeverFeasible ==
  \A c \in candidate : \A field \in MandatoryEvidence(c, request) :
    ~Feasible(Drop(c, field), request)

\* A candidate observed before a coordinator restart is not feasible after it,
\* even when the same workers register again with the same boots (sections 3,
\* 6 and 7 against the cleared context).
RestartEndsFeasibility ==
  \A c \in candidate :
    (\A a \in c.authority : a.coordinator_epoch = observed_epoch)
      /\ observed_epoch < epoch => ~Feasible(c, request)

\* The candidate's availability evidence is about the target it names.
OwnTarget(c) ==
  \A a \in c.availability : a.worker = c.target_worker /\ a.boot = c.target_boot

\* A feasible candidate with a live target and evidence about that target gives
\* a plan that authorize_plan and dispatch_plan accept, for a request of the
\* context's workload generation: everything else that plan_authority_current
\* compares, the evaluator has compared too.
FeasibleIsAuthorizable ==
  \A c \in candidate :
    /\ Feasible(c, request)
    /\ NeedsLiveTarget(c)
    /\ OwnTarget(c)
    /\ request.workload_generation = ContextGeneration
    => AuthorityCurrent(c, request)

\* The context loses workers, capacity or recompute lineage and gains nothing.
WorldShrinks ==
  /\ alive_workers' \subseteq alive_workers
  /\ worker_boots' = worker_boots
  /\ \A have \in resource_available' : \E had \in resource_available : had >= have
  /\ recompute' \subseteq recompute
LossStep ==
  \A c \in candidate : UNCHANGED candVars /\ WorldShrinks =>
    (Feasible(c, request)' => Feasible(c, request))

\* A world that only loses workers, capacity or recompute lineage never turns a
\* candidate feasible (unregister_worker, set_resource, set_recompute_available
\* and restart_coordinator against evaluate_feasibility).
LossNeverHelps == [][LossStep]_vars

\* The integrity of the state, the result of the compatibility check, the
\* readiness of the target and of the shadow, and the status of the resource: an
\* UNKNOWN in one of these is never read as good by a strategy that relies on
\* it.  The compatibility of the shadow and the freshness of the evidence are not
\* among them: evaluate_feasibility takes UNKNOWN there for good.
UnknownStatusRejected ==
  \A c \in candidate :
    Feasible(c, request) =>
      /\ \A e \in c.state : e.integrity = "VALID"
      /\ \A e \in c.compatibility : e.result \notin {"UNKNOWN", "INSUFFICIENT_EVIDENCE"}
      /\ NeedsLiveTarget(c) => \A e \in c.availability : e.readiness = "READY"
      /\ \A e \in c.resource : e.status # "UNKNOWN"
      /\ c.strategy = "SHADOW_PROMOTE" => \A e \in c.shadow : e.readiness = "READY"

=============================================================================
