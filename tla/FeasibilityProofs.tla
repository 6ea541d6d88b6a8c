-------------------------- MODULE FeasibilityProofs --------------------------
(***************************************************************************)
(* What a FEASIBLE verdict of evaluate_feasibility implies, for every      *)
(* world, request and candidate.  Each section of the evaluator is shown   *)
(* to be silent exactly when its evidence is good; a verdict is FEASIBLE   *)
(* exactly when every section is silent.                                   *)
(***************************************************************************)
EXTENDS Feasibility, FiniteSetTheorems, TLAPS

AllFlags == {"infeasible", "insufficient", "revalidation", "defer"}

\* A flag is raised exactly on its condition.
LEMMA FlagRaised ==
  ASSUME NEW condition, NEW name
  PROVE  /\ Flag(condition, name) = {} <=> ~condition
         /\ Flag(condition, name) \subseteq {name}
BY DEF Flag

\* Evidence raises no age flag unless it is stale, expired or to be revalidated.
Fresh(freshness) == freshness \notin {"STALE", "EXPIRED", "REVALIDATION_REQUIRED"}

\* age_flags is silent exactly on such freshness.
LEMMA AgeRaised ==
  ASSUME NEW freshness
  PROVE  /\ AgeFlags(freshness) = {} <=> Fresh(freshness)
         /\ AgeFlags(freshness) \subseteq AllFlags
BY DEF AgeFlags, Flag, Fresh, AllFlags

-----------------------------------------------------------------------------
(***************************************************************************)
(* The sections, in the order of the code: the evidence each of them       *)
(* accepts.                                                                *)
(***************************************************************************)
AuthorityGood(c) ==
  /\ c.authority # {}
  /\ \A a \in c.authority : /\ a.coordinator_epoch = epoch
                            /\ a.policy_generation = ContextGeneration

\* Section 1 is silent exactly on current authority.
LEMMA AuthoritySection ==
  ASSUME NEW c
  PROVE  /\ AuthorityFlags(c) = {} <=> AuthorityGood(c)
         /\ AuthorityFlags(c) \subseteq AllFlags
BY DEF AuthorityFlags, OfOptional, Mandatory, Flag, AuthorityGood, AllFlags

StateGood(c, r) ==
  /\ c.state # {}
  /\ \A s \in c.state :
       /\ s.workload_generation \in {0, r.workload_generation}
       /\ s.integrity \notin {"CORRUPT", "UNCERTAIN", "NOT_VERIFIED", "UNKNOWN"}
       /\ s.state_generation = c.state_generation
       /\ Fresh(s.freshness)

\* The state section is silent exactly on good state evidence.
LEMMA StateSection ==
  ASSUME NEW c, NEW r
  PROVE  /\ StateFlags(c, r) = {} <=> StateGood(c, r)
         /\ StateFlags(c, r) \subseteq AllFlags
<1> DEFINE F(s) ==
        Flag(\/ s.workload_generation \notin {0, r.workload_generation}
             \/ s.integrity = "CORRUPT"
             \/ s.freshness = "EXPIRED"
             \/ s.state_generation # c.state_generation, "infeasible")
        \cup Flag(s.integrity \in {"UNCERTAIN", "NOT_VERIFIED", "UNKNOWN"}, "insufficient")
        \cup AgeFlags(s.freshness)
<1>1. StateFlags(c, r) = IF c.state = {} THEN Mandatory ELSE UNION {F(s) : s \in c.state}
  BY DEF StateFlags, OfOptional
<1>2. \A s : /\ F(s) = {} <=> /\ s.workload_generation \in {0, r.workload_generation}
                              /\ s.integrity \notin {"CORRUPT", "UNCERTAIN", "NOT_VERIFIED", "UNKNOWN"}
                              /\ s.state_generation = c.state_generation
                              /\ Fresh(s.freshness)
             /\ F(s) \subseteq AllFlags
  BY DEF Flag, AgeFlags, Fresh, AllFlags
<1> HIDE DEF F
<1>3. UNION {F(s) : s \in c.state} = {} <=> \A s \in c.state : F(s) = {}
  OBVIOUS
<1>4. UNION {F(s) : s \in c.state} \subseteq AllFlags
  BY <1>2
<1>5. CASE c.state = {}
  BY <1>1, <1>5 DEF StateGood, Mandatory, AllFlags
<1>6. CASE c.state # {}
  <2>1. StateFlags(c, r) = UNION {F(s) : s \in c.state}
    BY <1>1, <1>6
  <2>2. StateGood(c, r) <=> \A s \in c.state : F(s) = {}
    BY <1>2, <1>6 DEF StateGood
  <2> QED BY <1>3, <1>4, <2>1, <2>2
<1> QED BY <1>5, <1>6

CheckpointGood(c) == \A k \in c.checkpoint : k.state_generation = c.state_generation

\* The checkpoint section is silent exactly on good checkpoint evidence.
LEMMA CheckpointSection ==
  ASSUME NEW c
  PROVE  /\ CheckpointFlags(c) = {} <=> CheckpointGood(c)
         /\ CheckpointFlags(c) \subseteq AllFlags
BY DEF CheckpointFlags, OfOptional, Flag, CheckpointGood, AllFlags

CompatibilityGood(c, r) ==
  /\ r.has_requirements => c.compatibility # {}
  /\ \A k \in c.compatibility :
       /\ k.result \notin {"INCOMPATIBLE", "UNKNOWN", "INSUFFICIENT_EVIDENCE"}
       /\ k.compatibility_generation = ContextGeneration
       /\ ~k.reference_rejects
       /\ k.freshness # "REVALIDATION_REQUIRED"

\* The compatibility section is silent exactly on good evidence.
LEMMA CompatibilitySection ==
  ASSUME NEW c, NEW r
  PROVE  /\ CompatibilityFlags(c, r) = {} <=> CompatibilityGood(c, r)
         /\ CompatibilityFlags(c, r) \subseteq AllFlags
BY DEF CompatibilityFlags, OfOptional, Flag, CompatibilityGood, AllFlags

AvailabilityGood(c) ==
  NeedsLiveTarget(c) =>
    /\ c.availability # {}
    /\ \A a \in c.availability :
         /\ a.is_alive
         /\ a.worker \in alive_workers
         /\ worker_boots[a.worker] = a.boot
         /\ a.readiness \notin {"NOT_READY", "WARMING", "UNKNOWN"}
         /\ Fresh(a.freshness)

\* The availability section is silent exactly on a good live target.
LEMMA AvailabilitySection ==
  ASSUME NEW c
  PROVE  /\ AvailabilityFlags(c) = {} <=> AvailabilityGood(c)
         /\ AvailabilityFlags(c) \subseteq AllFlags
BY DEF AvailabilityFlags, OfOptional, Mandatory, Flag, AgeFlags, Fresh, AvailabilityGood, AllFlags

ResourceGood(c) ==
  /\ c.resource # {}
  /\ \A s \in c.resource :
       /\ s.status \notin {"UNAVAILABLE", "UNKNOWN"}
       /\ \A need \in s.required :
            /\ s.available # {}
            /\ \A have \in s.available : ~(have < need)
            /\ ResourceSufficient(need)
       /\ s.generation = ContextGeneration
       /\ Fresh(s.freshness)

\* The resource section is silent exactly when the resources suffice.
LEMMA ResourceSection ==
  ASSUME NEW c
  PROVE  /\ ResourceFlags(c) = {} <=> ResourceGood(c)
         /\ ResourceFlags(c) \subseteq AllFlags
BY DEF ResourceFlags, OfOptional, Mandatory, Flag, AgeFlags, Fresh, ResourceGood, AllFlags

MigrateGood(c) ==
  /\ c.topology # {}
  /\ \A t \in c.topology : t.path_possible /\ t.generation = ContextGeneration
  /\ c.source_distinct
  /\ c.transfer # {}
  /\ \E s \in c.state : s.is_durable

\* The migration section is silent exactly on good evidence for a migration.
LEMMA MigrateSection ==
  ASSUME NEW c
  PROVE  /\ MigrateFlags(c) = {} <=> MigrateGood(c)
         /\ MigrateFlags(c) \subseteq AllFlags
BY DEF MigrateFlags, OfOptional, Mandatory, Flag, MigrateGood, AllFlags

ShadowGood(c) ==
  /\ c.shadow # {}
  /\ \A s \in c.shadow : /\ s.readiness = "READY"
                         /\ s.lag_bounded
                         /\ s.compatibility # "INCOMPATIBLE"

\* The shadow section is silent exactly on a good shadow.
LEMMA ShadowSection ==
  ASSUME NEW c
  PROVE  /\ ShadowFlags(c) = {} <=> ShadowGood(c)
         /\ ShadowFlags(c) \subseteq AllFlags
BY DEF ShadowFlags, OfOptional, Mandatory, Flag, ShadowGood, AllFlags

RecomputeGood(c, r) ==
  /\ r.workload_generation \in recompute
  /\ \E k \in c.cost : k.has_recompute_time

\* The recompute section is silent exactly on good lineage.
LEMMA RecomputeSection ==
  ASSUME NEW c, NEW r
  PROVE  /\ RecomputeFlags(c, r) = {} <=> RecomputeGood(c, r)
         /\ RecomputeFlags(c, r) \subseteq AllFlags
BY DEF RecomputeFlags, Flag, RecomputeGood, AllFlags

StrategyGood(c, r) ==
  /\ c.strategy = "MIGRATE" => MigrateGood(c)
  /\ c.strategy = "SHADOW_PROMOTE" => ShadowGood(c)
  /\ c.strategy = "RECOMPUTE" => RecomputeGood(c, r)
  /\ c.strategy = "REHYDRATE" => c.state # {}

\* The strategy sections are silent exactly when the one that applies is.
LEMMA StrategySection ==
  ASSUME NEW c, NEW r
  PROVE  /\ StrategyFlags(c, r) = {} <=> StrategyGood(c, r)
         /\ StrategyFlags(c, r) \subseteq AllFlags
<1>1. CASE c.strategy = "MIGRATE"
  BY <1>1, MigrateSection DEF StrategyFlags, StrategyGood
<1>2. CASE c.strategy = "SHADOW_PROMOTE"
  BY <1>2, ShadowSection DEF StrategyFlags, StrategyGood
<1>3. CASE c.strategy = "RECOMPUTE"
  BY <1>3, RecomputeSection DEF StrategyFlags, StrategyGood
<1>4. CASE c.strategy = "REHYDRATE"
  BY <1>4 DEF StrategyFlags, StrategyGood, Flag, AllFlags
<1>5. CASE c.strategy \notin {"MIGRATE", "SHADOW_PROMOTE", "RECOMPUTE", "REHYDRATE"}
  BY <1>5 DEF StrategyFlags, StrategyGood
<1> QED BY <1>1, <1>2, <1>3, <1>4, <1>5

-----------------------------------------------------------------------------
(***************************************************************************)
(* The verdict.                                                            *)
(***************************************************************************)

\* No flag is the only way to FEASIBLE.
LEMMA AggregateFeasible ==
  ASSUME NEW flags, flags \subseteq AllFlags
  PROVE  Aggregate(flags) = "FEASIBLE" <=> flags = {}
<1>1. CASE "infeasible" \in flags
  BY <1>1 DEF Aggregate
<1>2. CASE "infeasible" \notin flags /\ "insufficient" \in flags
  BY <1>2 DEF Aggregate
<1>3. CASE "infeasible" \notin flags /\ "insufficient" \notin flags
  <2>1. flags \in {{}, {"revalidation"}, {"defer"}, {"revalidation", "defer"}}
    <3>1. flags \subseteq {"revalidation", "defer"}
      BY <1>3 DEF AllFlags
    <3> QED BY <3>1
  <2> QED BY <1>3, <2>1 DEF Aggregate
<1> QED BY <1>1, <1>2, <1>3

EvidenceGood(c, r) ==
  /\ c.strategy \notin r.forbidden
  /\ c.valid_identity
  /\ AuthorityGood(c)
  /\ StateGood(c, r)
  /\ CheckpointGood(c)
  /\ CompatibilityGood(c, r)
  /\ AvailabilityGood(c)
  /\ ResourceGood(c)
  /\ StrategyGood(c, r)

\* evaluate_feasibility answers FEASIBLE exactly when every section accepts the
\* candidate's evidence.
LEMMA FeasibleExactly ==
  \A c, r : Feasible(c, r) <=> EvidenceGood(c, r)
<1> SUFFICES ASSUME NEW c, NEW r PROVE Feasible(c, r) <=> EvidenceGood(c, r)
  OBVIOUS
<1>1. /\ IdentityFlags(c) = {} <=> c.valid_identity
      /\ IdentityFlags(c) \subseteq AllFlags
  BY DEF IdentityFlags, Flag, AllFlags
<1>2. FeasFlags(c, r) \subseteq AllFlags
  BY <1>1, AuthoritySection, StateSection, CheckpointSection, CompatibilitySection,
     AvailabilitySection, ResourceSection, StrategySection
  DEF FeasFlags
<1>3. FeasFlags(c, r) = {} <=>
        /\ IdentityFlags(c) = {} /\ AuthorityFlags(c) = {} /\ StateFlags(c, r) = {}
        /\ CheckpointFlags(c) = {} /\ CompatibilityFlags(c, r) = {}
        /\ AvailabilityFlags(c) = {} /\ ResourceFlags(c) = {} /\ StrategyFlags(c, r) = {}
  BY DEF FeasFlags
<1>4. FeasFlags(c, r) = {} /\ c.strategy \notin r.forbidden <=> EvidenceGood(c, r)
  BY <1>1, <1>3, AuthoritySection, StateSection, CheckpointSection, CompatibilitySection,
     AvailabilitySection, ResourceSection, StrategySection
  DEF EvidenceGood
<1> QED BY <1>2, <1>4, AggregateFeasible DEF Feasible, EvaluateFeasibility

-----------------------------------------------------------------------------
(***************************************************************************)
(* Types.                                                                  *)
(***************************************************************************)
Fields == {"authority", "state", "checkpoint", "compatibility", "availability",
           "resource", "topology", "shadow", "cost"}

\* A candidate has records of every kind of evidence.
LEMMA RecordFields == DOMAIN Records = Fields
BY DEF Records, Fields

\* At most one record per kind of evidence.
Single(c) == \A field \in Fields : Cardinality(c[field]) <= 1

\* Evidence is a set of at most one record: absent, or present once.
LEMMA OneIsFew == /\ Cardinality({}) <= 1
                  /\ \A x : Cardinality({x}) <= 1
BY FS_EmptySet, FS_Singleton

\* The observation of a worker whose boot is known is a candidate.
LEMMA ObservationType ==
  ASSUME TypeOK, NEW s \in Strategies, NEW w \in Workers, NEW r \in Requests,
         NEW need \in Needed, worker_boots[w] \in Boots
  PROVE  Observation(s, w, r, need) \in RecoveryCandidate /\ Single(Observation(s, w, r, need))
<1>1. /\ s \in Strategy /\ r.workload_generation \in Generations \cup {0}
      /\ need \in Amounts /\ resource_available \in Optional(Amounts)
      /\ 1 \in Generations /\ epoch \in 1..MaxEpoch
  BY EvidenceAssumption, RequestsAssumption DEF RequestType, TypeOK
<1>2. /\ [coordinator_epoch |-> epoch, policy_generation |-> ContextGeneration] \in AuthorityEvidence
      /\ [workload_generation |-> r.workload_generation, state_generation |-> 1,
          integrity |-> "VALID", freshness |-> "CURRENT", is_durable |-> TRUE] \in StateEvidence
      /\ [state_generation |-> 1] \in CheckpointEvidence
      /\ [result |-> "EXACT", freshness |-> "CURRENT",
          compatibility_generation |-> ContextGeneration,
          reference_rejects |-> FALSE] \in CompatibilityEvidence
  BY <1>1 DEF AuthorityEvidence, StateEvidence, CheckpointEvidence, CompatibilityEvidence,
              ContextGeneration, StateIntegrity, Freshness, CompatibilityResult
<1>3. [worker |-> w, boot |-> worker_boots[w], is_alive |-> w \in alive_workers,
       readiness |-> "READY", freshness |-> "CURRENT"] \in AvailabilityEvidence
  BY DEF AvailabilityEvidence, CandidateReadiness, Freshness
<1>4. [status |-> "AVAILABLE", generation |-> ContextGeneration, freshness |-> "CURRENT",
       required |-> {need}, available |-> resource_available] \in ResourceEvidence
  BY <1>1 DEF ResourceEvidence, ResourceStatus, Freshness, ContextGeneration, Optional
<1>5. /\ [path_possible |-> TRUE, generation |-> ContextGeneration] \in TopologyEvidence
      /\ "transfer" \in TransferEvidence
      /\ [readiness |-> "READY", lag_bounded |-> TRUE, compatibility |-> "EXACT"] \in ShadowEvidence
      /\ [has_recompute_time |-> TRUE] \in CostEvidence
  BY <1>1 DEF TopologyEvidence, TransferEvidence, ShadowEvidence, CostEvidence,
              ContextGeneration, CandidateReadiness, CompatibilityResult
<1>6. Observation(s, w, r, need) \in RecoveryCandidate
  BY <1>1, <1>2, <1>3, <1>4, <1>5 DEF Observation, RecoveryCandidate
<1>7. Single(Observation(s, w, r, need))
  <2> DEFINE o == Observation(s, w, r, need)
             Few(field) == \E x : o[field] = {x}
  <2>1. Few("authority") /\ Few("state") /\ Few("checkpoint") /\ Few("compatibility")
    BY DEF Observation
  <2>2. Few("availability")
    BY Zenon DEF Observation
  <2>3. Few("resource") /\ Few("topology") /\ Few("shadow") /\ Few("cost")
    BY DEF Observation
  <2> HIDE DEF o
  <2>4. \A field \in Fields : Few(field)
    BY <2>1, <2>2, <2>3 DEF Fields
  <2>5. Single(o)
    BY <2>4, OneIsFew DEF Single
  <2> QED BY <2>5 DEF o
<1> QED BY <1>6, <1>7

\* Altered evidence is still evidence.
LEMMA DropType ==
  ASSUME NEW c \in RecoveryCandidate, Single(c), NEW field \in Fields \cup {"transfer"}
  PROVE  Drop(c, field) \in RecoveryCandidate /\ Single(Drop(c, field))
<1>1. Drop(c, field) \in RecoveryCandidate
  BY DEF Drop, RecoveryCandidate, Fields
<1>2. Single(Drop(c, field))
  BY OneIsFew DEF Drop, RecoveryCandidate, Fields, Single
<1> QED BY <1>1, <1>2

\* Altering one record of evidence keeps the candidate well-formed.
LEMMA AlterType ==
  ASSUME NEW c \in RecoveryCandidate, Single(c), NEW field \in Fields, NEW x \in Records[field]
  PROVE  [c EXCEPT ![field] = {x}] \in RecoveryCandidate /\ Single([c EXCEPT ![field] = {x}])
<1>1. [c EXCEPT ![field] = {x}] \in RecoveryCandidate
  BY DEF Records, RecoveryCandidate, Fields
<1>2. Single([c EXCEPT ![field] = {x}])
  BY OneIsFew DEF RecoveryCandidate, Fields, Single
<1> QED BY <1>1, <1>2

\* TypeOK with its domain of fields spelled out.
CandidateOK == \A c \in candidate : c \in RecoveryCandidate /\ Single(c)

\* TypeOK makes the candidate well-formed, and a well-formed one meets TypeOK.
LEMMA TypeParts ==
  /\ TypeOK => CandidateOK
  /\ \A x : x \in RecoveryCandidate /\ Single(x) /\ candidate' = {x} =>
       /\ candidate' \subseteq RecoveryCandidate /\ Cardinality(candidate') <= 1
       /\ \A c \in candidate', field \in DOMAIN Records : Cardinality(c[field]) <= 1
BY RecordFields, OneIsFew DEF TypeOK, CandidateOK, Single

\* The evidence of a candidate and the context keep their types, whatever the
\* callers drop or alter and whatever becomes of the world.
THEOREM TypeCorrect == Spec => []TypeOK
<1>1. Init => TypeOK
  BY EvidenceAssumption, OneIsFew DEF Init, TypeOK, Optional
<1>2. ASSUME TypeOK, [Next]_vars PROVE TypeOK'
  <2>0. CandidateOK /\ defects \in 0..MaxDefects /\ MaxDefects \in Nat
    BY <1>2, TypeParts, EvidenceAssumption DEF TypeOK
  <2>1. ASSUME NEW s \in Strategies, NEW w \in Workers, NEW r \in Requests,
               NEW need \in Needed, Observe(s, w, r, need)
        PROVE  TypeOK'
    <3> DEFINE x == Observation(s, w, r, need)
    <3>1. x \in RecoveryCandidate /\ Single(x) /\ candidate' = {x}
      BY <1>2, <2>1, ObservationType DEF Observe
    <3> HIDE DEF x
    <3>2. /\ candidate' \subseteq RecoveryCandidate /\ Cardinality(candidate') <= 1
          /\ \A c \in candidate', field \in DOMAIN Records : Cardinality(c[field]) <= 1
      BY <3>1, TypeParts
    <3>3. /\ request' \in Requests /\ observed_epoch' = epoch /\ defects' = 0
          /\ UNCHANGED <<epoch, worker_boots, alive_workers, resource_available, recompute>>
      BY <2>1 DEF Observe, ctxVars
    <3> QED BY <1>2, <2>0, <3>2, <3>3 DEF TypeOK
  <2>2. ASSUME NEW x, x \in RecoveryCandidate, Single(x), candidate' = {x},
               defects < MaxDefects, defects' = defects + 1,
               UNCHANGED <<ctxVars, request, observed_epoch>>
        PROVE  TypeOK'
    BY <1>2, <2>0, <2>2, TypeParts DEF TypeOK, ctxVars
  <2>3. ASSUME NEW field \in Fields \cup {"transfer"}, DropEvidence(field) PROVE TypeOK'
    BY <2>0, <2>2, <2>3, DropType DEF DropEvidence, CandidateOK
  <2>4. ASSUME NEW field \in Fields, AlterEvidence(field) PROVE TypeOK'
    <3>1. PICK c \in candidate : \E e \in c[field] : \E x \in OneFieldOff(e, Records[field]) :
                                   candidate' = {[c EXCEPT ![field] = {x}]}
      BY <2>4 DEF AlterEvidence
    <3>2. PICK x \in Records[field] : candidate' = {[c EXCEPT ![field] = {x}]}
      BY <3>1 DEF OneFieldOff
    <3> QED BY <2>0, <2>2, <2>4, <3>2, AlterType DEF AlterEvidence, CandidateOK
  <2>5. CASE AlterCandidate
    <3>1. PICK c \in candidate :
            \/ candidate' = {[c EXCEPT !.valid_identity = FALSE]}
            \/ candidate' = {[c EXCEPT !.source_distinct = FALSE]}
            \/ \E w \in Workers, b \in Boots :
                 candidate' = {[c EXCEPT !.target_worker = w, !.target_boot = b]}
            \/ \E g \in Generations : candidate' = {[c EXCEPT !.state_generation = g]}
      BY <2>5 DEF AlterCandidate
    <3>2. \E x : x \in RecoveryCandidate /\ Single(x) /\ candidate' = {x}
      <4>0. c \in RecoveryCandidate /\ Single(c)
        BY <2>0 DEF CandidateOK
      <4>1. CASE candidate' = {[c EXCEPT !.valid_identity = FALSE]}
        BY <4>0, <4>1 DEF RecoveryCandidate, Single, Fields
      <4>2. CASE candidate' = {[c EXCEPT !.source_distinct = FALSE]}
        BY <4>0, <4>2 DEF RecoveryCandidate, Single, Fields
      <4>3. ASSUME NEW w \in Workers, NEW b \in Boots,
                   candidate' = {[c EXCEPT !.target_worker = w, !.target_boot = b]}
            PROVE  \E x : x \in RecoveryCandidate /\ Single(x) /\ candidate' = {x}
        BY <4>0, <4>3 DEF RecoveryCandidate, Single, Fields
      <4>4. ASSUME NEW g \in Generations, candidate' = {[c EXCEPT !.state_generation = g]}
            PROVE  \E x : x \in RecoveryCandidate /\ Single(x) /\ candidate' = {x}
        BY <4>0, <4>4 DEF RecoveryCandidate, Single, Fields
      <4> QED BY <3>1, <4>1, <4>2, <4>3, <4>4
    <3> QED BY <2>2, <2>5, <3>2 DEF AlterCandidate
  <2>6. ASSUME NEW w \in Workers, UnregisterWorker(w) \/ \E b \in Boots : RegisterWorker(w, b)
        PROVE  TypeOK'
    BY <1>2, <2>6 DEF UnregisterWorker, RegisterWorker, candVars, TypeOK
  <2>7. ASSUME NEW amount \in Amounts, SetResource(amount) PROVE TypeOK'
    BY <1>2, <2>7 DEF SetResource, candVars, TypeOK, Optional
  <2>8. ASSUME NEW gen \in WorkloadGenerations, NEW available \in BOOLEAN,
               SetRecomputeAvailable(gen, available)
        PROVE  TypeOK'
    BY <1>2, <2>8 DEF SetRecomputeAvailable, candVars, TypeOK
  <2>9. CASE RestartCoordinator
    BY <1>2, <2>9, EvidenceAssumption DEF RestartCoordinator, candVars, TypeOK, Optional
  <2>10. CASE UNCHANGED vars
    BY <1>2, <2>10 DEF vars, ctxVars, candVars, TypeOK
  <2> QED BY <1>2, <2>1, <2>3, <2>4, <2>5, <2>6, <2>7, <2>8, <2>9, <2>10, RecordFields DEF Next
<1> QED BY <1>1, <1>2, PTL DEF Spec

-----------------------------------------------------------------------------
(***************************************************************************)
(* What a FEASIBLE verdict is worth.                                       *)
(***************************************************************************)

\* In every world, a feasible candidate's state is VALID, its compatibility known,
\* its live target and its shadow READY and its resource status known.  Nothing is
\* said of the shadow's compatibility and of the freshness of the evidence, where
\* evaluate_feasibility accepts UNKNOWN.
THEOREM UnknownRejected == Spec => []UnknownStatusRejected
<1>1. TypeOK => UnknownStatusRejected
  <2> SUFFICES ASSUME TypeOK, NEW c \in candidate, Feasible(c, request)
               PROVE  /\ \A e \in c.state : e.integrity = "VALID"
                      /\ \A e \in c.compatibility :
                           e.result \notin {"UNKNOWN", "INSUFFICIENT_EVIDENCE"}
                      /\ NeedsLiveTarget(c) => \A e \in c.availability : e.readiness = "READY"
                      /\ \A e \in c.resource : e.status # "UNKNOWN"
                      /\ c.strategy = "SHADOW_PROMOTE" => \A e \in c.shadow : e.readiness = "READY"
    BY DEF UnknownStatusRejected
  <2>1. c \in RecoveryCandidate /\ EvidenceGood(c, request)
    BY FeasibleExactly DEF TypeOK
  <2>2. /\ \A e \in c.state : e.integrity \in StateIntegrity
        /\ \A e \in c.availability : e.readiness \in CandidateReadiness
    BY <2>1 DEF RecoveryCandidate, StateEvidence, AvailabilityEvidence
  <2>3. \A e \in c.state : e.integrity = "VALID"
    BY <2>1, <2>2 DEF EvidenceGood, StateGood, StateIntegrity
  <2>4. \A e \in c.compatibility : e.result \notin {"UNKNOWN", "INSUFFICIENT_EVIDENCE"}
    BY <2>1 DEF EvidenceGood, CompatibilityGood
  <2>5. NeedsLiveTarget(c) => \A e \in c.availability : e.readiness = "READY"
    BY <2>1, <2>2 DEF EvidenceGood, AvailabilityGood, CandidateReadiness
  <2>6. \A e \in c.resource : e.status # "UNKNOWN"
    BY <2>1 DEF EvidenceGood, ResourceGood
  <2>7. c.strategy = "SHADOW_PROMOTE" => \A e \in c.shadow : e.readiness = "READY"
    BY <2>1 DEF EvidenceGood, StrategyGood, ShadowGood
  <2> QED BY <2>3, <2>4, <2>5, <2>6, <2>7
<1> QED BY <1>1, TypeCorrect, PTL

\* Section 6 of the evaluator and plan_authority_current agree for requests of the
\* context's workload generation: a feasible candidate with evidence about its
\* own live target yields a plan that can be authorized in the same world.  The
\* generation itself is a hypothesis: no section compares the request's with the
\* context's.
THEOREM FeasibleAuthorizable == Spec => []FeasibleIsAuthorizable
<1>1. FeasibleIsAuthorizable
  <2> SUFFICES ASSUME NEW c \in candidate, Feasible(c, request), NeedsLiveTarget(c),
                      OwnTarget(c), request.workload_generation = ContextGeneration
               PROVE  AuthorityCurrent(c, request)
    BY DEF FeasibleIsAuthorizable
  <2>1. AvailabilityGood(c)
    BY FeasibleExactly DEF EvidenceGood
  <2>2. PICK a \in c.availability : a.worker \in alive_workers /\ worker_boots[a.worker] = a.boot
    BY <2>1 DEF AvailabilityGood
  <2>3. a.worker = c.target_worker /\ a.boot = c.target_boot
    BY DEF OwnTarget
  <2> QED BY <2>2, <2>3 DEF AuthorityCurrent
<1> QED BY <1>1, PTL

\* A candidate observed in an earlier coordinator epoch is never feasible, with
\* whatever workers, resources and lineage the world was refilled.
THEOREM RestartEnds == Spec => []RestartEndsFeasibility
<1>1. TypeOK => RestartEndsFeasibility
  <2> SUFFICES ASSUME TypeOK, NEW c \in candidate,
                      \A a \in c.authority : a.coordinator_epoch = observed_epoch,
                      observed_epoch < epoch, Feasible(c, request)
               PROVE  FALSE
    BY DEF RestartEndsFeasibility
  <2>1. AuthorityGood(c)
    BY FeasibleExactly DEF EvidenceGood
  <2>2. observed_epoch = epoch
    BY <2>1 DEF AuthorityGood
  <2> QED BY <2>2, EvidenceAssumption DEF TypeOK
<1> QED BY <1>1, TypeCorrect, PTL

\* Whatever piece of mandatory evidence is missing, in whatever world, the
\* verdict is not FEASIBLE.
THEOREM AbsenceRejected == Spec => []AbsenceNeverFeasible
<1>1. TypeOK => AbsenceNeverFeasible
  <2> SUFFICES ASSUME TypeOK, NEW c \in candidate, NEW field \in MandatoryEvidence(c, request),
                      Feasible(Drop(c, field), request)
               PROVE  FALSE
    BY DEF AbsenceNeverFeasible
  <2> DEFINE d == Drop(c, field)
  <2>1. c \in RecoveryCandidate
    BY DEF TypeOK
  <2>2. field \in Fields \cup {"transfer"}
    BY DEF MandatoryEvidence, Fields
  <2>3. d.strategy = c.strategy /\ d[field] = {}
    BY <2>1, <2>2 DEF Drop, RecoveryCandidate, Fields
  <2>4. EvidenceGood(d, request)
    BY FeasibleExactly
  <2> HIDE DEF d
  <2>5. d.authority # {} /\ d.state # {} /\ d.resource # {}
    BY <2>4 DEF EvidenceGood, AuthorityGood, StateGood, ResourceGood
  <2>6. CASE field \in {"authority", "state", "resource"}
    BY <2>3, <2>5, <2>6
  <2>7. CASE field = "availability"
    <3>1. NeedsLiveTarget(d)
      BY <2>3, <2>7 DEF MandatoryEvidence, NeedsLiveTarget
    <3> QED BY <2>3, <2>4, <2>7, <3>1 DEF EvidenceGood, AvailabilityGood
  <2>8. CASE field = "cost"
    <3>1. c.strategy = "RECOMPUTE"
      BY <2>8 DEF MandatoryEvidence, NeedsLiveTarget
    <3> QED BY <2>3, <2>4, <2>8, <3>1 DEF EvidenceGood, StrategyGood, RecomputeGood
  <2>9. CASE field \in {"topology", "transfer"}
    <3>1. c.strategy = "MIGRATE"
      BY <2>9 DEF MandatoryEvidence
    <3> QED BY <2>3, <2>4, <2>9, <3>1 DEF EvidenceGood, StrategyGood, MigrateGood
  <2>10. CASE field = "shadow"
    <3>1. c.strategy = "SHADOW_PROMOTE"
      BY <2>10 DEF MandatoryEvidence
    <3> QED BY <2>3, <2>4, <2>10, <3>1 DEF EvidenceGood, StrategyGood, ShadowGood
  <2>11. CASE field = "compatibility"
    <3>1. request.has_requirements
      BY <2>11 DEF MandatoryEvidence
    <3> QED BY <2>3, <2>4, <2>11, <3>1 DEF EvidenceGood, CompatibilityGood
  <2>12. field \in {"authority", "state", "resource", "availability", "cost", "topology",
                    "transfer", "shadow", "compatibility"}
    BY DEF MandatoryEvidence
  <2> QED BY <2>6, <2>7, <2>8, <2>9, <2>10, <2>11, <2>12
<1> QED BY <1>1, TypeCorrect, PTL

-----------------------------------------------------------------------------
(***************************************************************************)
(* Losing workers, capacity or lineage.                                    *)
(***************************************************************************)

\* The next state's verdict, section by section.
LEMMA FeasibleNext == (\A c, r : Feasible(c, r) <=> EvidenceGood(c, r))'
BY FeasibleExactly, PTL

\* Within an epoch, a smaller world accepts no more evidence.
LEMMA ShrinkingKeeps ==
  ASSUME TypeOK, TypeOK', WorldShrinks, epoch' = epoch,
         NEW c \in RecoveryCandidate, NEW r, EvidenceGood(c, r)'
  PROVE  EvidenceGood(c, r)
<1>1. /\ c.strategy \notin r.forbidden /\ c.valid_identity
      /\ AuthorityGood(c)' /\ StateGood(c, r)' /\ CheckpointGood(c)'
      /\ CompatibilityGood(c, r)' /\ AvailabilityGood(c)' /\ ResourceGood(c)'
      /\ StrategyGood(c, r)'
  BY DEF EvidenceGood
<1>2. AuthorityGood(c)
  BY <1>1 DEF AuthorityGood, ContextGeneration
<1>3. StateGood(c, r) /\ CheckpointGood(c) /\ CompatibilityGood(c, r)
  BY <1>1 DEF StateGood, CheckpointGood, CompatibilityGood, Fresh, ContextGeneration
<1>4. AvailabilityGood(c)
  BY <1>1 DEF AvailabilityGood, WorldShrinks, NeedsLiveTarget, Fresh
<1>5. ASSUME NEW s \in c.resource, NEW need \in s.required
      PROVE  ResourceSufficient(need)
  <2>1. need \in Nat
    BY EvidenceAssumption DEF RecoveryCandidate, ResourceEvidence, Optional
  <2>2. PICK have \in resource_available' : have >= need
    BY <1>1 DEF ResourceGood, ResourceSufficient
  <2>3. PICK had \in resource_available : had >= have
    BY DEF WorldShrinks
  <2>4. have \in Nat /\ had \in Nat
    BY EvidenceAssumption DEF TypeOK, Optional
  <2> QED BY <2>1, <2>2, <2>3, <2>4 DEF ResourceSufficient
<1>6. ResourceGood(c)
  BY <1>1, <1>5 DEF ResourceGood, Fresh, ContextGeneration
<1>7. StrategyGood(c, r)
  BY <1>1 DEF StrategyGood, MigrateGood, ShadowGood, RecomputeGood, WorldShrinks,
              ContextGeneration
<1> QED BY <1>1, <1>2, <1>3, <1>4, <1>6, <1>7 DEF EvidenceGood

\* After a restart nothing is alive and no lineage is known, so no strategy has
\* what it needs.
LEMMA RestartAcceptsNothing ==
  ASSUME RestartCoordinator, NEW c, NEW r, EvidenceGood(c, r)'
  PROVE  FALSE
<1>1. alive_workers' = {} /\ recompute' = {}
  BY DEF RestartCoordinator
<1>2. AvailabilityGood(c)' /\ StrategyGood(c, r)'
  BY DEF EvidenceGood
<1>3. CASE NeedsLiveTarget(c)
  BY <1>1, <1>2, <1>3 DEF AvailabilityGood, NeedsLiveTarget
<1>4. CASE ~NeedsLiveTarget(c)
  BY <1>1, <1>2, <1>4 DEF StrategyGood, RecomputeGood, NeedsLiveTarget
<1> QED BY <1>3, <1>4

\* unregister_worker, a lower amount from set_resource, withdrawn lineage and
\* restart_coordinator never turn a candidate feasible.
THEOREM LossIsLoss == Spec => LossNeverHelps
<1>1. ASSUME TypeOK, TypeOK', Next PROVE LossStep
  <2> SUFFICES ASSUME NEW c \in candidate, UNCHANGED candVars, WorldShrinks,
                      Feasible(c, request)'
               PROVE  Feasible(c, request)
    BY DEF LossStep
  <2>1. request' = request /\ c \in RecoveryCandidate
    BY <1>1 DEF candVars, TypeOK
  <2>2. EvidenceGood(c, request)'
    BY FeasibleNext
  <2>3. ~RestartCoordinator
    BY <2>2, RestartAcceptsNothing
  <2>4. epoch' = epoch
    BY <1>1, <2>3
    DEF Next, Observe, DropEvidence, AlterEvidence, AlterCandidate, UnregisterWorker,
        RegisterWorker, SetResource, SetRecomputeAvailable, ctxVars
  <2>5. EvidenceGood(c, request)
    BY <1>1, <2>1, <2>2, <2>4, ShrinkingKeeps
  <2> QED BY <2>5, FeasibleExactly
<1>2. TypeOK /\ TypeOK' /\ [Next]_vars => [LossStep]_vars
  BY <1>1
<1> QED BY <1>2, TypeCorrect, PTL DEF Spec, LossNeverHelps

=============================================================================
