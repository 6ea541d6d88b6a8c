--------------------------- MODULE RecoveryPlanner ---------------------------
(***************************************************************************)
(* The RecoveryPlanner object (planner.cpp): the table of plans and their  *)
(* fenced lifecycle, the worker registrations the fences are checked       *)
(* against, the two-phase dispatch to an executor, the completion callback *)
(* that may run on any thread, the durable snapshot, and the coordinator   *)
(* restart.                                                                *)
(*                                                                         *)
(* Every public method is one critical section of the planner's mutex, so  *)
(* one action, with two exceptions the model splits as the code does:      *)
(* dispatch_plan releases the mutex around executor.dispatch, and          *)
(* on_adapter_completion releases it before it calls report_execution.     *)
(* A call that throws or returns early changes nothing and is not an       *)
(* action.                                                                 *)
(*                                                                         *)
(* Which candidate wins is not decided here: plan() may store any target   *)
(* a caller's candidate names, because neither the feasibility evaluator   *)
(* nor build_plan compares the candidate's own target with the context.    *)
(***************************************************************************)
EXTENDS Integers, FiniteSets, PlanLifecycle

CONSTANTS
  Workers,             \* logical workers
  Boots,               \* worker boot ids
  NoBoot,              \* worker_boots has no entry for the worker
  Requests,            \* recovery request ids
  WorkloadGenerations, \* workload generations a request may carry
  FallbackVerdicts,    \* whether a fallback's deadline verdict is VIOLATED
  HasStore,            \* the planner was built with a PersistenceStore
  CompletionOutcomes,  \* outcomes executors report
  Reports,             \* reports that callers pass to report_execution directly
  ExecutorThrows,      \* executor.dispatch may throw
  RepeatedReports,     \* an executor may report on one dispatch again
  MaxPlans,            \* bound: plans built by one planner process
  MaxEpoch,            \* bound: coordinator restarts
  MaxSends,            \* bound: times one plan is handed to an executor
  MaxInFlight          \* dispatches the clients keep outstanding at once

ExecutionOutcome == {"SUCCEEDED", "FAILED", "AMBIGUOUS", "UNKNOWN", "CANCELLED"}
DispatchStatus   == {"DISPATCHED", "REJECTED", "DROPPED", "UNKNOWN"}

PlanIds     == 1..MaxPlans
DispatchIds == 1..MaxSends

ExecutionReport ==
  [plan_id: PlanIds, plan_generation: Nat, reporter_boot: Boots,
   outcome: ExecutionOutcome]

ASSUME NoBootAssumption    == NoBoot \notin Boots
ASSUME GenerationsAssumption == WorkloadGenerations \subseteq Nat
ASSUME VerdictsAssumption  == FallbackVerdicts \subseteq BOOLEAN
ASSUME FlagsAssumption     ==
  HasStore \in BOOLEAN /\ ExecutorThrows \in BOOLEAN /\ RepeatedReports \in BOOLEAN
ASSUME OutcomesAssumption  == CompletionOutcomes \subseteq ExecutionOutcome
ASSUME ReportsAssumption   == Reports \subseteq ExecutionReport
ASSUME BoundsAssumption    ==
  /\ MaxPlans \in Nat
  /\ MaxEpoch \in Nat
  /\ MaxSends \in Nat
  /\ MaxInFlight \in Nat

VARIABLES
  epoch,            \* ctx_.epoch (ctx_.planner_boot always moves with it)
  worker_boots,     \* ctx_.worker_boots: last registered boot, kept on unregister
  alive_workers,    \* ctx_.alive_workers
  plans,            \* plans_: an id with no plan maps to NoPlan
  requests,         \* keys of requests_
  next_plan_id,     \* next_plan_id_
  next_generation,  \* next_generation_
  dispatch_meta,    \* dispatch_meta_: an id with no entry maps to NoMeta
  calls,            \* dispatch_plan calls inside executor.dispatch, per plan
  completions,      \* reports on_adapter_completion built, mutex released
  backend,          \* external: what the executors were handed and reported
  store             \* the durable snapshot under key "planner_state"

ctxVars  == <<epoch, worker_boots, alive_workers>>
idVars   == <<next_plan_id, next_generation>>
execVars == <<dispatch_meta, calls, completions, backend>>
vars     == <<ctxVars, plans, requests, idVars, execVars, store>>

-----------------------------------------------------------------------------
(***************************************************************************)
(* Data.                                                                   *)
(***************************************************************************)

\* The part of a RecoveryPlan that the planner decides by.  state "ABSENT"
\* marks an id that plans_ does not hold.
Plan ==
  [generation: Nat,
   request: Requests,
   target_worker: Workers,
   target_boot: Boots,
   coordinator_epoch: Nat,
   workload_generation: Nat,
   deadline_violated: BOOLEAN,
   state: PlanLifecycleState,
   execution_outcome: ExecutionOutcome,
   outcome_published: BOOLEAN,
   last_attempt: Nat]

NoPlan == [state |-> "ABSENT"]

Meta   == [plan_id: PlanIds, plan_generation: Nat, target_boot: Boots]
NoMeta == [plan_id |-> 0]

NoSnapshot == [present |-> FALSE]

\* external: the executor's side of a plan; outcome is its first report.
Backend ==
  [sends: Nat, dispatch_id: Nat,
   outcome: ExecutionOutcome \cup {"NOT_SENT", "PENDING"}]
IdleBackend == [sends |-> 0, dispatch_id |-> 0, outcome |-> "NOT_SENT"]

Stored(id) == plans[id].state # "ABSENT"
IsLive(p)  == p.state \in Live

\* The planner constructor sets every generation of the context to 1.
InitialGeneration == 1

-----------------------------------------------------------------------------
(***************************************************************************)
(* Authority.  The policy, compatibility, resource and topology            *)
(* generations are also compared by the code; a plan copies them from the  *)
(* context and no operation changes them, so they are always equal.  The   *)
(* workload generation is the request's and may differ.                    *)
(***************************************************************************)
PlanAuthorityCurrent(p) ==
  /\ p.coordinator_epoch = epoch
  /\ p.workload_generation = InitialGeneration
  /\ p.target_worker \in alive_workers
  /\ worker_boots[p.target_worker] = p.target_boot

-----------------------------------------------------------------------------
(***************************************************************************)
(* Planning.                                                               *)
(***************************************************************************)

\* Mutant: only plans not yet handed out are superseded.
SupersedeUnsent(p, req) ==
  IF /\ p # NoPlan
     /\ p.request = req
     /\ p.state \in {"PLANNED", "AUTHORIZED"}
  THEN [p EXCEPT !.state = "SUPERSEDED"]
  ELSE p

\* supersede_older, for one stored plan other than the new one.
SupersedeOlder(p, req) ==
  IF /\ p # NoPlan
     /\ p.request = req
     /\ p.state \notin Terminal
     /\ ValidatePlanTransition(p.state, "SUPERSEDED")
  THEN [p EXCEPT !.state = "SUPERSEDED"]
  ELSE p

\* build_plan: the authority is the context's, the target the candidate's,
\* the workload generation the request's.
BuildPlan(req, w, b, g, violated) ==
  [generation          |-> next_generation,
   request             |-> req,
   target_worker       |-> w,
   target_boot         |-> b,
   coordinator_epoch   |-> epoch,
   workload_generation |-> g,
   deadline_violated   |-> violated,
   state               |-> "PLANNED",
   execution_outcome   |-> "UNKNOWN",
   outcome_published   |-> FALSE,
   last_attempt        |-> 0]

\* Mutant: the plan id counter is not advanced.
StoreUnderSameId(req, w, b, g, violated) ==
  /\ next_plan_id <= MaxPlans
  /\ next_generation <= MaxPlans
  /\ plans' = [id \in PlanIds |->
                 IF id = next_plan_id
                 THEN BuildPlan(req, w, b, g, violated)
                 ELSE SupersedeOlder(plans[id], req)]
  /\ next_generation' = next_generation + 1
  /\ backend' = [backend EXCEPT ![next_plan_id] = IdleBackend]
  /\ UNCHANGED <<ctxVars, next_plan_id, dispatch_meta, calls, completions, store>>

\* The common tail of plan(): number the plan, store it (over whatever the id
\* held) and supersede the request's other plans.
StorePlan(req, w, b, g, violated) ==
  /\ next_plan_id <= MaxPlans
  /\ plans' = [id \in PlanIds |->
                 IF id = next_plan_id
                 THEN BuildPlan(req, w, b, g, violated)
                 ELSE SupersedeOlder(plans[id], req)]
  /\ next_plan_id' = next_plan_id + 1
  /\ next_generation' = next_generation + 1
  /\ backend' = [backend EXCEPT ![next_plan_id] = IdleBackend]
  /\ UNCHANGED <<ctxVars, dispatch_meta, calls, completions, store>>

\* plan() with an eligible candidate: PLAN_FOUND.
PlanFound(req, w, b, g) ==
  /\ StorePlan(req, w, b, g, FALSE)
  /\ requests' = requests \cup {req}

\* plan() where a candidate is feasible but none meets the hard constraints:
\* the best one is stored as a fallback, and the request is not recorded.
PlanFallback(req, w, b, g, violated) ==
  /\ StorePlan(req, w, b, g, violated)
  /\ UNCHANGED requests

-----------------------------------------------------------------------------
(***************************************************************************)
(* The fenced lifecycle.                                                   *)
(***************************************************************************)

\* Mutant: the lifecycle state is not checked.
AuthorizeAnyState(id) ==
  /\ Stored(id)
  /\ PlanAuthorityCurrent(plans[id])
  /\ plans' = [plans EXCEPT ![id].state = "AUTHORIZED"]
  /\ UNCHANGED <<ctxVars, requests, idVars, execVars, store>>

\* authorize_plan; authorizing an AUTHORIZED plan again changes nothing.
AuthorizePlan(id) ==
  /\ Stored(id)
  /\ PlanAuthorityCurrent(plans[id])
  /\ ValidatePlanTransition(plans[id].state, "AUTHORIZED")
  /\ plans' = [plans EXCEPT ![id].state = "AUTHORIZED"]
  /\ UNCHANGED <<ctxVars, requests, idVars, execVars, store>>

\* external: the dispatches a client still waits for.
Outstanding == {id \in PlanIds : calls[id] > 0 \/ backend[id].outcome = "PENDING"}

\* dispatch_plan does not throw.
DispatchAccepts(id) ==
  /\ Stored(id)
  /\ PlanAuthorityCurrent(plans[id])
  /\ plans[id].state = "AUTHORIZED"

\* dispatch_plan up to the unlock: the dispatch id is the plan's own attempt
\* counter, and dispatch_meta_ is overwritten under that id.
DispatchPlan(id) ==
  /\ DispatchAccepts(id)
  /\ backend[id].sends < MaxSends
  /\ Cardinality(Outstanding) < MaxInFlight
  /\ LET attempt == plans[id].last_attempt + 1 IN
       /\ attempt <= MaxSends
       /\ plans' = [plans EXCEPT ![id] =
                      [@ EXCEPT !.state = "DISPATCHED", !.last_attempt = attempt]]
       /\ dispatch_meta' = [dispatch_meta EXCEPT ![attempt] =
                              [plan_id         |-> id,
                               plan_generation |-> plans[id].generation,
                               target_boot     |-> plans[id].target_boot]]
       /\ backend' = [backend EXCEPT ![id] =
                        [sends       |-> @.sends + 1,
                         dispatch_id |-> attempt,
                         outcome     |-> "PENDING"]]
  /\ calls' = [calls EXCEPT ![id] = @ + 1]
  /\ UNCHANGED <<ctxVars, requests, idVars, completions, store>>

\* Mutant: the receipt is applied whatever happened meanwhile.
ReceiptOverwrites(state, status) ==
  IF status = "DISPATCHED" THEN "EXECUTING"
  ELSE IF ValidatePlanTransition(state, "FAILED") THEN "FAILED" ELSE state

\* Mutant: the status of the receipt is stored as the state of the plan.
ReceiptStatusAsState(state, status) ==
  IF state = "DISPATCHED" THEN status ELSE state

\* Mutant: a dispatch that was not taken returns the plan for another attempt.
ReceiptRetries(state, status) ==
  IF state = "DISPATCHED"
  THEN IF status = "DISPATCHED" THEN "EXECUTING" ELSE "AUTHORIZED"
  ELSE state

\* The state dispatch_plan leaves a plan in once the receipt is back.
AfterReceipt(state, status) ==
  IF state = "DISPATCHED" /\ status = "DISPATCHED"
  THEN "EXECUTING"
  ELSE IF status # "DISPATCHED" /\ ValidatePlanTransition(state, "FAILED")
       THEN "FAILED"
       ELSE state

\* dispatch_plan from the receipt to the return.
DispatchReturn(id, status) ==
  /\ calls[id] > 0
  /\ calls' = [calls EXCEPT ![id] = @ - 1]
  /\ plans' = IF Stored(id)
              THEN [plans EXCEPT ![id].state = AfterReceipt(@, status)]
              ELSE plans
  /\ UNCHANGED <<ctxVars, requests, idVars, dispatch_meta, completions, backend, store>>

\* executor.dispatch throws: dispatch_plan unwinds and the plan is left as it is.
DispatchThrow(id) ==
  /\ ExecutorThrows
  /\ calls[id] > 0
  /\ calls' = [calls EXCEPT ![id] = @ - 1]
  /\ UNCHANGED <<ctxVars, plans, requests, idVars, dispatch_meta, completions, backend, store>>

\* Mutant: every outcome is published.
ConcludedPublishing(p, outcome) ==
  [p EXCEPT !.state = IF outcome = "SUCCEEDED" THEN "SUCCEEDED" ELSE "FAILED",
            !.execution_outcome = outcome,
            !.outcome_published = TRUE]

\* Mutant: an ambiguous execution counts as a success.
ConcludedOptimistic(p, outcome) ==
  [p EXCEPT !.state = IF outcome = "FAILED" THEN "FAILED" ELSE "SUCCEEDED",
            !.execution_outcome = outcome,
            !.outcome_published = TRUE]

\* What report_execution makes of a plan that passed its fences.
Concluded(p, outcome) ==
  [p EXCEPT !.state = IF outcome = "SUCCEEDED" THEN "SUCCEEDED" ELSE "FAILED",
            !.execution_outcome = outcome,
            !.outcome_published = outcome \in {"SUCCEEDED", "FAILED"}]

\* Mutant: terminal plans take reports too.
ReportAlwaysAccepted(r) ==
  /\ Stored(r.plan_id)
  /\ r.plan_generation = plans[r.plan_id].generation
  /\ r.reporter_boot = plans[r.plan_id].target_boot

\* Mutant: only an EXECUTING plan takes reports.
ReportOnlyExecuting(r) ==
  /\ Stored(r.plan_id)
  /\ r.plan_generation = plans[r.plan_id].generation
  /\ r.reporter_boot = plans[r.plan_id].target_boot
  /\ plans[r.plan_id].state = "EXECUTING"

\* report_execution: unknown plan, other generation, other boot and terminal
\* plan are ignored.
ReportAccepted(r) ==
  /\ Stored(r.plan_id)
  /\ LET p == plans[r.plan_id] IN
       /\ r.plan_generation = p.generation
       /\ r.reporter_boot = p.target_boot
       /\ p.state \notin Terminal
       /\ ValidatePlanTransition(p.state,
            IF r.outcome = "SUCCEEDED" THEN "SUCCEEDED" ELSE "FAILED")

ApplyReport(r) ==
  plans' = IF ReportAccepted(r)
           THEN [plans EXCEPT ![r.plan_id] = Concluded(@, r.outcome)]
           ELSE plans

ReportExecution(r) ==
  /\ ApplyReport(r)
  /\ UNCHANGED <<ctxVars, requests, idVars, execVars, store>>

\* on_adapter_completion up to the unlock: an executor that was handed plan id
\* reports under the dispatch id it was given, and may report again; the entry
\* that the id leads to by now, whatever plan it is about, is resolved and erased.
OnAdapterCompletion(id, outcome) ==
  /\ backend[id].outcome # "NOT_SENT"
  /\ backend[id].outcome = "PENDING" \/ RepeatedReports
  /\ backend' = IF backend[id].outcome = "PENDING"
                THEN [backend EXCEPT ![id].outcome = outcome]
                ELSE backend
  /\ LET d == backend[id].dispatch_id
         meta == dispatch_meta[d] IN
       IF meta = NoMeta
       THEN UNCHANGED <<dispatch_meta, completions>>
       ELSE /\ completions' = completions \cup
                 {[plan_id         |-> meta.plan_id,
                   plan_generation |-> meta.plan_generation,
                   reporter_boot   |-> meta.target_boot,
                   outcome         |-> outcome]}
            /\ dispatch_meta' = [dispatch_meta EXCEPT ![d] = NoMeta]
  /\ UNCHANGED <<ctxVars, plans, requests, idVars, calls, store>>

\* on_adapter_completion after the unlock: report_execution.
DeliverCompletion(r) ==
  /\ ApplyReport(r)
  /\ completions' = completions \ {r}
  /\ UNCHANGED <<ctxVars, requests, idVars, dispatch_meta, calls, backend, store>>

\* cancel_plan returns true.
CancelAccepts(id, force) ==
  /\ Stored(id)
  /\ plans[id].state # "SUCCEEDED"
  /\ plans[id].state \in InFlight => force /\ ~plans[id].outcome_published
  /\ ValidatePlanTransition(plans[id].state, "CANCELLED")

CancelPlan(id, force) ==
  /\ CancelAccepts(id, force)
  /\ plans' = [plans EXCEPT ![id] =
                 [@ EXCEPT !.state = "CANCELLED", !.execution_outcome = "CANCELLED"]]
  /\ UNCHANGED <<ctxVars, requests, idVars, execVars, store>>

\* invalidate_plan where it changes the plan.
InvalidatePlan(id) ==
  /\ Stored(id)
  /\ plans[id].state # "SUCCEEDED"
  /\ ValidatePlanTransition(plans[id].state, "INVALIDATED")
  /\ plans' = [plans EXCEPT ![id].state = "INVALIDATED"]
  /\ UNCHANGED <<ctxVars, requests, idVars, execVars, store>>

-----------------------------------------------------------------------------
(***************************************************************************)
(* World maintenance.                                                      *)
(***************************************************************************)

RegisterWorker(w, b) ==
  /\ worker_boots' = [worker_boots EXCEPT ![w] = b]
  /\ alive_workers' = alive_workers \cup {w}
  /\ UNCHANGED <<epoch, plans, requests, idVars, execVars, store>>

\* unregister_worker forgets that the worker is alive, not its boot.
UnregisterWorker(w) ==
  /\ alive_workers' = alive_workers \ {w}
  /\ UNCHANGED <<epoch, worker_boots, plans, requests, idVars, execVars, store>>

-----------------------------------------------------------------------------
(***************************************************************************)
(* Persistence and restart.  The snapshot holds neither the alive workers, *)
(* nor dispatch_meta_, nor the id counters, nor a plan's deadline.         *)
(***************************************************************************)

\* encode_snapshot.
CurrentSnapshot ==
  [present |-> TRUE, epoch |-> epoch, worker_boots |-> worker_boots,
   requests |-> requests, plans |-> plans]

\* A plan as apply_snapshot rebuilds it: the deadline evaluation is not stored.
RestoredPlan(p) ==
  IF p = NoPlan THEN p ELSE [p EXCEPT !.deadline_violated = FALSE]

\* The file a save leaves: a write error that surfaces only when the stream is
\* closed goes unnoticed, and later loads then find nothing usable.  One step
\* stands for all of the save: StoreHoldsOneMoment of SnapshotRecovery.
Written(readable) == IF readable THEN CurrentSnapshot ELSE NoSnapshot

SaveState(readable) ==
  /\ HasStore
  /\ store' = Written(readable)
  /\ UNCHANGED <<ctxVars, plans, requests, idVars, execVars>>

\* Mutant: executing plans are resumed across a restart.
InvalidateUnsent(p) ==
  IF IsLive(p) /\ p.state \notin InFlight THEN [p EXCEPT !.state = "INVALIDATED"] ELSE p

\* Mutant: plans in flight are queued again.
RequeueLive(p) == IF IsLive(p) THEN [p EXCEPT !.state = "PLANNED"] ELSE p

\* The conservative sweep of restart_coordinator.
InvalidateLive(p) == IF IsLive(p) THEN [p EXCEPT !.state = "INVALIDATED"] ELSE p

\* restart_coordinator: save under the old epoch, advance the epoch, clear the
\* dynamic evidence, reload what was just saved, invalidate what is not
\* terminal.  The new epoch is not saved.
RestartCoordinator(readable) ==
  /\ epoch < MaxEpoch
  /\ store' = IF HasStore THEN Written(readable) ELSE store
  /\ epoch' = epoch + 1
  /\ alive_workers' = {}
  /\ plans' = [id \in PlanIds |->
                 InvalidateLive(IF HasStore /\ readable
                                THEN RestoredPlan(plans[id])
                                ELSE plans[id])]
  /\ UNCHANGED <<worker_boots, requests, idVars, execVars>>

\* Mutant: the running epoch is kept.
LoadKeepingEpoch ==
  /\ HasStore
  /\ store.present
  /\ worker_boots' = store.worker_boots
  /\ alive_workers' = {}
  /\ requests' = store.requests
  /\ plans' = [id \in PlanIds |-> RestoredPlan(store.plans[id])]
  /\ UNCHANGED <<epoch, idVars, execVars, store>>

\* load_state: apply_snapshot takes epoch, boots, requests and plans from the
\* snapshot as they are.  Every text is one the decoder takes; SnapshotRecovery
\* has the loads that end in the middle.
LoadState ==
  /\ HasStore
  /\ store.present
  /\ epoch' = store.epoch
  /\ worker_boots' = store.worker_boots
  /\ alive_workers' = {}
  /\ requests' = store.requests
  /\ plans' = [id \in PlanIds |-> RestoredPlan(store.plans[id])]
  /\ UNCHANGED <<idVars, execVars, store>>

\* The process ends at any point and another one constructs a planner over the
\* same store: everything but the store is as the constructor sets it, and
\* calls and callbacks of the old process die with it.  What its executors had
\* already been handed stays handed.
NewProcess ==
  /\ epoch' = 1
  /\ worker_boots' = [w \in Workers |-> NoBoot]
  /\ alive_workers' = {}
  /\ plans' = [id \in PlanIds |-> NoPlan]
  /\ requests' = {}
  /\ next_plan_id' = 1
  /\ next_generation' = 1
  /\ dispatch_meta' = [d \in DispatchIds |-> NoMeta]
  /\ calls' = [id \in PlanIds |-> 0]
  /\ completions' = {}
  /\ backend' = [id \in PlanIds |-> [backend[id] EXCEPT !.outcome = "NOT_SENT"]]
  /\ UNCHANGED store

-----------------------------------------------------------------------------
\* The constructor, over an empty store.
Init ==
  /\ epoch = 1
  /\ worker_boots = [w \in Workers |-> NoBoot]
  /\ alive_workers = {}
  /\ plans = [id \in PlanIds |-> NoPlan]
  /\ requests = {}
  /\ next_plan_id = 1
  /\ next_generation = 1
  /\ dispatch_meta = [d \in DispatchIds |-> NoMeta]
  /\ calls = [id \in PlanIds |-> 0]
  /\ completions = {}
  /\ backend = [id \in PlanIds |-> IdleBackend]
  /\ store = NoSnapshot

\* One planner process that never calls load_state.
Next ==
  \/ \E req \in Requests, w \in Workers, b \in Boots, g \in WorkloadGenerations :
       \/ PlanFound(req, w, b, g)
       \/ \E violated \in FallbackVerdicts : PlanFallback(req, w, b, g, violated)
  \/ \E id \in PlanIds :
       \/ AuthorizePlan(id)
       \/ DispatchPlan(id)
       \/ \E status \in DispatchStatus : DispatchReturn(id, status)
       \/ DispatchThrow(id)
       \/ \E outcome \in CompletionOutcomes : OnAdapterCompletion(id, outcome)
       \/ \E force \in BOOLEAN : CancelPlan(id, force)
       \/ InvalidatePlan(id)
  \/ \E r \in Reports : ReportExecution(r)
  \/ \E r \in completions : DeliverCompletion(r)
  \/ \E w \in Workers :
       \/ \E b \in Boots : RegisterWorker(w, b)
       \/ UnregisterWorker(w)
  \/ \E readable \in BOOLEAN : SaveState(readable) \/ RestartCoordinator(readable)

\* The planner together with process crashes and load_state.
ReloadNext == Next \/ LoadState \/ NewProcess

\* The same, where load_state is called only on a planner that holds no plan:
\* a restarted process that recovers its state.
RecoverNext ==
  \/ Next
  \/ NewProcess
  \/ LoadState /\ \A id \in PlanIds : ~Stored(id)

Spec        == Init /\ [][Next]_vars
ReloadSpec  == Init /\ [][ReloadNext]_vars
RecoverSpec == Init /\ [][RecoverNext]_vars

\* Executors return from dispatch, the thread inside on_adapter_completion is
\* scheduled, and an executor that was handed a dispatch reports on it.
ExecutorFairness ==
  \A id \in PlanIds :
    /\ WF_vars(\E status \in DispatchStatus : DispatchReturn(id, status))
    /\ WF_vars(\E outcome \in CompletionOutcomes : OnAdapterCompletion(id, outcome))
DeliveryFairness == WF_vars(\E r \in completions : DeliverCompletion(r))

FairSpec == Spec /\ ExecutorFairness /\ DeliveryFairness

-----------------------------------------------------------------------------
(***************************************************************************)
(* Invariants.                                                             *)
(***************************************************************************)

PlanTable == [PlanIds -> Plan \cup {NoPlan}]

Snapshot ==
  [present: {TRUE}, epoch: Nat, worker_boots: [Workers -> Boots \cup {NoBoot}],
   requests: SUBSET Requests, plans: PlanTable]

\* Every variable keeps its type: the planner never stores a malformed plan,
\* dispatch entry, report or snapshot.
TypeOK ==
  /\ epoch \in Nat
  /\ worker_boots \in [Workers -> Boots \cup {NoBoot}]
  /\ alive_workers \in SUBSET Workers
  /\ plans \in PlanTable
  /\ requests \in SUBSET Requests
  /\ next_plan_id \in Nat \ {0}
  /\ next_generation \in Nat \ {0}
  /\ dispatch_meta \in [DispatchIds -> Meta \cup {NoMeta}]
  /\ calls \in [PlanIds -> Nat]
  /\ completions \in SUBSET ExecutionReport
  /\ backend \in [PlanIds -> Backend]
  /\ \A id \in PlanIds :
       backend[id].outcome # "NOT_SENT" => backend[id].dispatch_id \in DispatchIds
  /\ store \in Snapshot \cup {NoSnapshot}

OneLive(table) ==
  \A i, j \in PlanIds :
    /\ i # j
    /\ IsLive(table[i])
    /\ IsLive(table[j])
    => table[i].request # table[j].request

\* No two plans of one request are live: plan() supersedes the older ones even
\* when they are already with an executor (supersede_older).
OneLivePlanPerRequest == OneLive(plans)

EpochFenced(table, e) ==
  \A id \in PlanIds : IsLive(table[id]) => table[id].coordinator_epoch = e

\* A live plan was built under the current coordinator epoch: a restart leaves
\* nothing that could still be authorized, dispatched or completed.
LivePlansAreOfThisEpoch == EpochFenced(plans, epoch)

\* What one stored plan says about its execution.
VerdictOK(p) ==
  /\ p.outcome_published => p.state = p.execution_outcome
  /\ p.state = "SUCCEEDED" => p.outcome_published
  /\ p.outcome_published => p.execution_outcome \in {"SUCCEEDED", "FAILED"}
  /\ p.execution_outcome # "UNKNOWN" => p.state \in {"SUCCEEDED", "FAILED", "CANCELLED"}

\* A published outcome is the terminal state itself, success is never
\* unpublished, an ambiguous, unknown or cancelled execution is never published,
\* and only a plan without an outcome is still live, superseded or invalidated
\* (report_execution and cancel_plan, in any interleaving).
VerdictsAgree == \A id \in PlanIds : Stored(id) => VerdictOK(plans[id])

AttemptOK(p) ==
  /\ p.state \in {"PLANNED", "AUTHORIZED"} => p.last_attempt = 0
  /\ p.state \in {"DISPATCHED", "EXECUTING", "SUCCEEDED", "FAILED"} => p.last_attempt = 1
  /\ p.last_attempt <= 1

\* A plan is handed out at most once, a plan that could be authorized or
\* dispatched never was, and only a plan that was handed out is executing or has
\* succeeded or failed (last_attempt against state, through dispatch_plan, its
\* receipt and report_execution).
AttemptsAgree == \A id \in PlanIds : Stored(id) => AttemptOK(plans[id])

\* The invariant that holds of the plans in memory and of the plans in the
\* snapshot alike, so that reloading cannot break it.  REQUESTED and EVALUATING
\* are never stored: a new plan is PLANNED (build_plan).
PlanOK(p) ==
  /\ p.state \notin {"REQUESTED", "EVALUATING"}
  /\ VerdictOK(p)
  /\ AttemptOK(p)

TableOK(table, e) ==
  /\ OneLive(table)
  /\ EpochFenced(table, e)
  /\ \A id \in PlanIds : table[id].state # "ABSENT" => PlanOK(table[id])

\* Memory and snapshot are each consistent: reloading what was saved at any
\* moment, in any process, gives a planner with one live plan per request, all
\* of the restored epoch, and verdicts that agree with their states.
DurablyConsistent ==
  /\ TableOK(plans, epoch)
  /\ store.present => TableOK(store.plans, store.epoch)

\* The executors never receive one plan twice (dispatch_plan leaves AUTHORIZED
\* before it unlocks, and no handler returns a plan to AUTHORIZED).
PlanSentOnce == \A id \in PlanIds : backend[id].sends <= 1

\* A plan succeeds only if the executor that was handed this plan reported
\* success: completions are attributed to the plan they are about
\* (on_adapter_completion through dispatch_meta_).  It takes clients that keep
\* one dispatch outstanding and executors that report once: DispatchIds repeat.
SuccessIsEarned ==
  \A id \in PlanIds :
    plans[id].state = "SUCCEEDED" => backend[id].outcome = "SUCCEEDED"

-----------------------------------------------------------------------------
(***************************************************************************)
(* Action properties.                                                      *)
(***************************************************************************)

LifecycleStep ==
  \A id \in PlanIds :
    Stored(id) =>
      /\ plans'[id].state = plans[id].state
           \/ ValidatePlanTransition(plans[id].state, plans'[id].state)
      /\ plans[id].state \in Terminal =>
           /\ plans'[id].execution_outcome = plans[id].execution_outcome
           /\ plans'[id].outcome_published = plans[id].outcome_published

\* Whatever interleaving of handlers runs, a stored plan moves along the table
\* of validate_plan_transition and a terminal plan's verdict is final.
LifecycleFollowsTable == [][LifecycleStep]_vars

IdentityStep ==
  \A id \in PlanIds :
    Stored(id) /\ Stored(id)' =>
      /\ plans'[id].generation = plans[id].generation
      /\ plans'[id].request = plans[id].request
      /\ plans'[id].target_worker = plans[id].target_worker
      /\ plans'[id].target_boot = plans[id].target_boot
      /\ plans'[id].coordinator_epoch = plans[id].coordinator_epoch

\* The identity a plan id stands for never changes: a report fenced by id,
\* generation and boot cannot come to mean another plan (build_plan's counters).
PlanIdentityStable == [][IdentityStep]_vars


-----------------------------------------------------------------------------
(***************************************************************************)
(* The planner as a ledger of plans: what its clients may rely on whatever *)
(* the executors and the other clients do.                                 *)
(***************************************************************************)
Phase(state) ==
  CASE state \in {"PLANNED", "AUTHORIZED"} -> "OPEN"
    [] state \in InFlight                  -> "SENT"
    [] OTHER                               -> "CLOSED"

Verdict(p) ==
  IF ~p.outcome_published THEN "NONE"
  ELSE IF p.execution_outcome = "SUCCEEDED" THEN "SUCCESS" ELSE "FAILURE"

LedgerView ==
  [id \in PlanIds |->
     IF plans[id] = NoPlan
     THEN [phase |-> "NONE"]
     ELSE [client  |-> plans[id].request,
           phase   |-> Phase(plans[id].state),
           verdict |-> Verdict(plans[id])]]

Ledger == INSTANCE RecoveryLedger
            WITH Ids <- PlanIds, Clients <- Requests, ledger <- LedgerView

\* The planner implements the ledger: plans are opened, sent and closed once,
\* a new plan closes its request's older ones, and only a sent plan that was
\* not superseded, invalidated or swept by a restart gets a verdict.
ImplementsLedger == Ledger!LedgerSpec

-----------------------------------------------------------------------------
(***************************************************************************)
(* Liveness.                                                               *)
(***************************************************************************)

\* A plan that was handed to an executor does not stay in flight for ever: the
\* receipt, the completion, a newer plan or a restart concludes it.
DispatchedConcludes ==
  \A id \in PlanIds :
    (plans[id].state \in InFlight) ~> (plans[id].state \in Terminal)

=============================================================================
