------------------------- MODULE SerialDispatchProofs -------------------------
(***************************************************************************)
(* Under which clients a success is earned.  dispatch_meta_ is keyed by    *)
(* the plan's own attempt counter, so two outstanding dispatches share a   *)
(* key and a completion may be credited to the wrong plan.  Clients that   *)
(* keep at most one dispatch outstanding, and leave reporting successes to *)
(* the executors, never meet this: proved here for every set of workers,   *)
(* boots and requests and every number of plans and restarts.              *)
(***************************************************************************)
EXTENDS PlanHistoryProofs, FiniteSetTheorems

\* Clients keep at most one dispatch outstanding and report no success of
\* their own, and an executor reports once on what it was handed: dispatch ids
\* repeat, so a second report on one plan resolves to the next one.
SerialClients ==
  /\ MaxInFlight <= 1
  /\ ~RepeatedReports
  /\ \A r \in Reports : r.outcome # "SUCCEEDED"

Pending(id) == backend[id].outcome = "PENDING"

\* One dispatch is outstanding at most.
OnePending == \A i, j \in PlanIds : Pending(i) /\ Pending(j) => i = j

\* An entry of dispatch_meta_ is the outstanding dispatch's own.
MetaIsPending ==
  \A d \in DispatchIds :
    dispatch_meta[d] # NoMeta =>
      /\ Pending(dispatch_meta[d].plan_id)
      /\ backend[dispatch_meta[d].plan_id].dispatch_id = d

\* A report on its way says what the plan's executor said.
CompletionsTrue ==
  \A r \in completions : backend[r.plan_id].outcome = r.outcome

\* What was never sent has no outcome.
UnsentIsSilent ==
  \A id \in PlanIds : backend[id].sends = 0 => backend[id].outcome = "NOT_SENT"

SerialOK ==
  OnePending /\ MetaIsPending /\ CompletionsTrue /\ UnsentIsSilent /\ SuccessIsEarned

SerialInv == HistoryInv /\ SerialOK

\* A dispatch starts only when none is outstanding.
LEMMA DispatchAlone ==
  ASSUME SerialClients, TypeOK, NEW id \in PlanIds, DispatchPlan(id)
  PROVE  \A k \in PlanIds : ~Pending(k)
<1>1. IsFiniteSet(PlanIds)
  BY BoundsAssumption, FS_Interval DEF PlanIds
<1>2. Outstanding \subseteq PlanIds
  BY DEF Outstanding
<1>3. IsFiniteSet(Outstanding)
  BY <1>1, <1>2, FS_Subset
<1>4. Cardinality(Outstanding) \in Nat /\ Cardinality(Outstanding) < 1
  BY <1>3, FS_CardinalityType, BoundsAssumption DEF DispatchPlan, SerialClients
<1>5. Outstanding = {}
  BY <1>3, <1>4, FS_EmptySet
<1> QED BY <1>5 DEF Outstanding, Pending

-----------------------------------------------------------------------------
(***************************************************************************)
(* Steps that leave the executors alone.                                   *)
(***************************************************************************)

\* Nothing between the planner and the executors moves, but for a delivered
\* report.
Calm ==
  /\ dispatch_meta' = dispatch_meta
  /\ backend' = backend
  /\ completions' \subseteq completions

\* No plan becomes SUCCEEDED.
NoNewSuccess ==
  \A id \in PlanIds : plans'[id].state = "SUCCEEDED" => plans[id].state = "SUCCEEDED"

\* A step that neither sends nor reports anything keeps SerialOK.
LEMMA CalmStep ==
  ASSUME SerialOK, TypeOK, Calm, NoNewSuccess
  PROVE  SerialOK'
<1>1. OnePending' /\ MetaIsPending' /\ CompletionsTrue' /\ UnsentIsSilent'
  BY DEF SerialOK, OnePending, MetaIsPending, CompletionsTrue, UnsentIsSilent, Calm, Pending
<1>2. SuccessIsEarned'
  BY DEF SerialOK, SuccessIsEarned, Calm, NoNewSuccess
<1> QED BY <1>1, <1>2 DEF SerialOK

\* A report concludes a plan as its executor said, or not as a success.
LEMMA ReportStep ==
  ASSUME SerialOK, TypeOK, Calm, NEW r \in ExecutionReport, ApplyReport(r),
         r.outcome = "SUCCEEDED" => backend[r.plan_id].outcome = "SUCCEEDED"
  PROVE  SerialOK'
<1>1. OnePending' /\ MetaIsPending' /\ CompletionsTrue' /\ UnsentIsSilent'
  BY DEF SerialOK, OnePending, MetaIsPending, CompletionsTrue, UnsentIsSilent, Calm, Pending
<1>2. ASSUME NEW id \in PlanIds, plans'[id].state = "SUCCEEDED"
      PROVE  backend[id].outcome = "SUCCEEDED"
  <2>1. CASE plans'[id] = plans[id]
    BY <1>2, <2>1 DEF SerialOK, SuccessIsEarned
  <2>2. CASE plans'[id] # plans[id]
    <3>1. id = r.plan_id /\ plans'[id] = Concluded(plans[id], r.outcome) /\ Stored(id)
      BY <2>2 DEF ApplyReport, ReportAccepted, TypeOK, PlanTable
    <3>2. plans[id] \in Plan
      BY <3>1, StoredIsPlan DEF TypeOK, Stored
    <3>3. r.outcome = "SUCCEEDED"
      BY <1>2, <3>1, <3>2 DEF Concluded, Plan
    <3> QED BY <3>1, <3>3
  <2> QED BY <2>1, <2>2
<1>3. SuccessIsEarned'
  BY <1>2 DEF SuccessIsEarned, Calm
<1> QED BY <1>1, <1>3 DEF SerialOK

-----------------------------------------------------------------------------
(***************************************************************************)
(* The three steps that do move the executors' side.                       *)
(***************************************************************************)

\* plan(): the id was never sent, so nothing speaks of it yet.
LEMMA OpenStep ==
  ASSUME SerialInv, NEW req \in Requests, NEW w \in Workers, NEW b \in Boots,
         NEW g \in WorkloadGenerations, NEW violated \in BOOLEAN,
         StorePlan(req, w, b, g, violated)
  PROVE  SerialOK'
<1> DEFINE n == next_plan_id
<1>1. n \in PlanIds /\ plans[n] = NoPlan
  BY Opening DEF SerialInv
<1>2. backend[n].outcome = "NOT_SENT"
  BY <1>1 DEF SerialInv, SerialOK, UnsentIsSilent, HistoryInv, HistoryOK, Stored, NoPlan
<1>3. /\ \A k \in PlanIds : /\ backend'[k].outcome = backend[k].outcome
                            /\ k # n => backend'[k] = backend[k]
      /\ dispatch_meta' = dispatch_meta /\ completions' = completions
  BY <1>1, <1>2 DEF StorePlan, IdleBackend, SerialInv, HistoryInv, TypeOK
<1>4. OnePending'
  BY <1>3 DEF SerialInv, SerialOK, OnePending, Pending
<1>5. MetaIsPending'
  <2> SUFFICES ASSUME NEW d \in DispatchIds, dispatch_meta[d] # NoMeta
               PROVE  /\ backend'[dispatch_meta[d].plan_id].outcome = "PENDING"
                      /\ backend'[dispatch_meta[d].plan_id].dispatch_id = d
    BY <1>3 DEF MetaIsPending, Pending
  <2>1. /\ backend[dispatch_meta[d].plan_id].outcome = "PENDING"
        /\ backend[dispatch_meta[d].plan_id].dispatch_id = d
    BY DEF SerialInv, SerialOK, MetaIsPending, Pending
  <2>2. dispatch_meta[d].plan_id \in PlanIds
    BY DEF SerialInv, HistoryInv, TypeOK, Meta
  <2> QED BY <1>2, <1>3, <2>1, <2>2
<1>6. CompletionsTrue'
  BY <1>3 DEF SerialInv, SerialOK, CompletionsTrue, HistoryInv, TypeOK, ExecutionReport
<1>7. UnsentIsSilent'
  <2> SUFFICES ASSUME NEW k \in PlanIds, backend'[k].sends = 0
               PROVE  backend'[k].outcome = "NOT_SENT"
    BY DEF UnsentIsSilent
  <2> QED BY <1>2, <1>3 DEF SerialInv, SerialOK, UnsentIsSilent
<1>8. SuccessIsEarned'
  <2> SUFFICES ASSUME NEW k \in PlanIds, plans'[k].state = "SUCCEEDED"
               PROVE  backend[k].outcome = "SUCCEEDED"
    BY <1>3 DEF SuccessIsEarned
  <2>1. k # n
    <3>1. plans'[n] = BuildPlan(req, w, b, g, violated)
      BY Opening DEF SerialInv
    <3>2. BuildPlan(req, w, b, g, violated).state = "PLANNED"
      BY DEF BuildPlan
    <3> QED BY <3>1, <3>2
  <2>2. plans'[k] = SupersedeOlder(plans[k], req)
    BY <2>1 DEF StorePlan
  <2>3. plans[k].state = "SUCCEEDED"
    BY <2>2, StoredIsPlan
    DEF SupersedeOlder, NoPlan, SerialInv, HistoryInv, TypeOK, PlanTable, Plan
  <2> QED BY <2>3 DEF SerialInv, SerialOK, SuccessIsEarned
<1> QED BY <1>4, <1>5, <1>6, <1>7, <1>8 DEF SerialOK

\* dispatch_plan: nothing else is outstanding, so the key is free.
LEMMA SendStep ==
  ASSUME SerialClients, SerialInv, NEW id \in PlanIds, DispatchPlan(id)
  PROVE  SerialOK'
<1>0. TypeOK
  BY DEF SerialInv, HistoryInv
<1>1. \A k \in PlanIds : backend[k].outcome # "PENDING"
  BY <1>0, DispatchAlone DEF Pending
<1>2. \A d \in DispatchIds : dispatch_meta[d] = NoMeta
  BY <1>0, <1>1 DEF SerialInv, SerialOK, MetaIsPending, Pending, TypeOK, Meta
<1>3. backend[id].sends = 0 /\ plans[id].last_attempt = 0 /\ backend[id].outcome = "NOT_SENT"
  <2>1. backend[id].sends = 0 /\ Stored(id)
    BY Sending DEF SerialInv
  <2> QED BY <2>1 DEF SerialInv, HistoryInv, HistoryOK, SerialOK, UnsentIsSilent
<1> DEFINE m == [plan_id |-> id, plan_generation |-> plans[id].generation,
                 target_boot |-> plans[id].target_boot]
<1>4. /\ 1 \in DispatchIds
      /\ dispatch_meta' = [dispatch_meta EXCEPT ![1] = m]
      /\ backend' = [backend EXCEPT ![id] =
                       [sends |-> 1, dispatch_id |-> 1, outcome |-> "PENDING"]]
      /\ completions' = completions
  BY <1>0, <1>3, BoundsAssumption DEF DispatchPlan, DispatchIds, TypeOK
<1>5. /\ backend'[id].outcome = "PENDING" /\ backend'[id].dispatch_id = 1
      /\ backend'[id].sends = 1
      /\ \A k \in PlanIds \ {id} : backend'[k] = backend[k]
  BY <1>0, <1>4 DEF TypeOK
<1>6. OnePending'
  BY <1>1, <1>5 DEF OnePending, Pending
<1>7. MetaIsPending'
  <2>1. m.plan_id = id
    OBVIOUS
  <2>2. \A d \in DispatchIds : dispatch_meta'[d] = IF d = 1 THEN m ELSE NoMeta
    BY <1>0, <1>2, <1>4 DEF TypeOK
  <2> HIDE DEF m
  <2> QED BY <1>5, <2>1, <2>2 DEF MetaIsPending, Pending
<1>8. CompletionsTrue'
  <2> SUFFICES ASSUME NEW r \in completions PROVE backend'[r.plan_id].outcome = r.outcome
    BY <1>4 DEF CompletionsTrue
  <2>1. /\ r.plan_id \in PlanIds /\ r.outcome \in ExecutionOutcome
        /\ backend[r.plan_id].outcome = r.outcome
    BY <1>0 DEF TypeOK, ExecutionReport, SerialInv, SerialOK, CompletionsTrue
  <2>2. r.plan_id # id
    BY <1>3, <2>1 DEF ExecutionOutcome
  <2> QED BY <1>5, <2>1, <2>2
<1>9. UnsentIsSilent'
  BY <1>5 DEF UnsentIsSilent, SerialInv, SerialOK
<1>10. SuccessIsEarned'
  <2> SUFFICES ASSUME NEW k \in PlanIds, plans'[k].state = "SUCCEEDED"
               PROVE  backend'[k].outcome = "SUCCEEDED"
    BY DEF SuccessIsEarned
  <2>1. k # id
    <3>1. plans[id] \in Plan
      BY <1>0, StoredIsPlan DEF DispatchPlan, DispatchAccepts, Stored, TypeOK
    <3>2. plans'[id].state = "DISPATCHED"
      BY <1>0, <3>1 DEF DispatchPlan, TypeOK, PlanTable, Plan
    <3> QED BY <3>2
  <2>2. plans'[k] = plans[k]
    BY <1>0, <2>1 DEF DispatchPlan, TypeOK, PlanTable
  <2> QED BY <1>5, <2>1, <2>2 DEF SerialInv, SerialOK, SuccessIsEarned
<1> QED BY <1>6, <1>7, <1>8, <1>9, <1>10 DEF SerialOK

\* on_adapter_completion: the entry it resolves is the reporting plan's own.
LEMMA CompletionStep ==
  ASSUME SerialClients, SerialInv, NEW id \in PlanIds,
         NEW outcome \in CompletionOutcomes, OnAdapterCompletion(id, outcome)
  PROVE  SerialOK'
<1> DEFINE d == backend[id].dispatch_id
           meta == dispatch_meta[d]
           report == [plan_id         |-> meta.plan_id,
                      plan_generation |-> meta.plan_generation,
                      reporter_boot   |-> meta.target_boot,
                      outcome         |-> outcome]
<1>0. TypeOK /\ outcome \in ExecutionOutcome
  BY OutcomesAssumption DEF SerialInv, HistoryInv
<1>1. Pending(id) /\ d \in DispatchIds
  BY <1>0 DEF SerialClients, OnAdapterCompletion, Pending, TypeOK
<1>2. /\ backend'[id].outcome = outcome
      /\ \A k \in PlanIds : /\ k # id => backend'[k] = backend[k]
                            /\ backend'[k].sends = backend[k].sends
                            /\ backend'[k].dispatch_id = backend[k].dispatch_id
      /\ plans' = plans
  BY <1>0, <1>1 DEF OnAdapterCompletion, Pending, TypeOK, Backend
<1>3. ASSUME NEW k \in DispatchIds, dispatch_meta[k] # NoMeta
      PROVE  dispatch_meta[k].plan_id = id /\ k = d
  <2>1. dispatch_meta[k].plan_id \in PlanIds
    BY <1>0, <1>3 DEF TypeOK, Meta
  <2>2. Pending(dispatch_meta[k].plan_id) /\ backend[dispatch_meta[k].plan_id].dispatch_id = k
    BY <1>3 DEF SerialInv, SerialOK, MetaIsPending
  <2> QED BY <1>1, <2>1, <2>2 DEF SerialInv, SerialOK, OnePending
<1>4. \A k \in DispatchIds : dispatch_meta'[k] = NoMeta
  BY <1>0, <1>1, <1>3 DEF OnAdapterCompletion, TypeOK
<1>5. ASSUME NEW r \in completions'
      PROVE  r \in completions \/ (r.plan_id = id /\ r.outcome = outcome)
  <2>1. CASE meta = NoMeta
    BY <1>5, <2>1 DEF OnAdapterCompletion
  <2>2. CASE meta # NoMeta
    <3>1. r \in completions \/ r = report
      BY <1>5, <2>2 DEF OnAdapterCompletion
    <3>2. meta.plan_id = id
      BY <1>1, <1>3, <2>2
    <3>3. report.plan_id = id /\ report.outcome = outcome
      BY <3>2
    <3> QED BY <3>1, <3>3
  <2> QED BY <2>1, <2>2
<1>6. OnePending'
  BY <1>0, <1>1, <1>2 DEF SerialInv, SerialOK, OnePending, Pending, ExecutionOutcome
<1>7. MetaIsPending'
  BY <1>4 DEF MetaIsPending
<1>8. CompletionsTrue'
  <2> SUFFICES ASSUME NEW r \in completions' PROVE backend'[r.plan_id].outcome = r.outcome
    BY DEF CompletionsTrue
  <2>1. CASE r.plan_id = id /\ r.outcome = outcome
    BY <1>2, <2>1
  <2>2. CASE r \in completions
    <3>1. /\ r.plan_id \in PlanIds /\ r.outcome \in ExecutionOutcome
          /\ backend[r.plan_id].outcome = r.outcome
      BY <1>0, <2>2 DEF TypeOK, ExecutionReport, SerialInv, SerialOK, CompletionsTrue
    <3>2. r.plan_id # id
      BY <1>1, <3>1 DEF Pending, ExecutionOutcome
    <3> QED BY <1>2, <3>1, <3>2
  <2> QED BY <1>5, <2>1, <2>2
<1>9. UnsentIsSilent'
  <2> SUFFICES ASSUME NEW k \in PlanIds, backend'[k].sends = 0
               PROVE  backend'[k].outcome = "NOT_SENT"
    BY DEF UnsentIsSilent
  <2>1. backend[k].outcome = "NOT_SENT"
    BY <1>2 DEF SerialInv, SerialOK, UnsentIsSilent
  <2> QED BY <1>1, <1>2, <2>1 DEF Pending
<1>10. SuccessIsEarned'
  BY <1>1, <1>2 DEF SuccessIsEarned, Pending, SerialInv, SerialOK
<1> QED BY <1>6, <1>7, <1>8, <1>9, <1>10 DEF SerialOK

-----------------------------------------------------------------------------
(***************************************************************************)
(* All steps.                                                              *)
(***************************************************************************)
LEMMA SerialStep ==
  ASSUME SerialClients, SerialInv, [Next]_vars
  PROVE  SerialOK'
<1>0. SerialOK /\ TypeOK
  BY DEF SerialInv, HistoryInv
<1>a. ASSUME UNCHANGED execVars PROVE Calm
  BY <1>a DEF Calm, execVars
<1>b. ASSUME NEW id \in PlanIds, NEW s \in {"AUTHORIZED", "INVALIDATED"}, Stored(id),
             plans' = [plans EXCEPT ![id].state = s]
      PROVE  NoNewSuccess
  <2>1. plans[id] \in Plan
    BY <1>0, <1>b, StoredIsPlan DEF TypeOK, Stored
  <2>2. plans'[id].state = s
    BY <1>0, <1>b, <2>1 DEF TypeOK, PlanTable, Plan
  <2> QED BY <1>0, <1>b, <2>2 DEF NoNewSuccess, TypeOK, PlanTable
<1>1. ASSUME NEW id \in PlanIds, AuthorizePlan(id) PROVE SerialOK'
  <2>1. NoNewSuccess
    BY <1>b, <1>1 DEF AuthorizePlan
  <2> QED BY <1>0, <1>a, <1>1, <2>1, CalmStep DEF AuthorizePlan
<1>2. ASSUME NEW id \in PlanIds, NEW status \in DispatchStatus, DispatchReturn(id, status)
      PROVE  SerialOK'
  <2>1. ASSUME NEW k \in PlanIds, plans'[k].state = "SUCCEEDED"
        PROVE  plans[k].state = "SUCCEEDED"
    <3>1. CASE Stored(id) /\ k = id
      <4>1. plans[id] \in Plan
        BY <1>0, <3>1, StoredIsPlan DEF TypeOK, Stored
      <4>2. plans'[k].state = AfterReceipt(plans[id].state, status)
        BY <1>0, <1>2, <3>1, <4>1 DEF DispatchReturn, TypeOK, PlanTable, Plan
      <4> QED BY <2>1, <3>1, <4>2 DEF AfterReceipt
    <3>2. CASE ~(Stored(id) /\ k = id)
      BY <1>0, <1>2, <2>1, <3>2 DEF DispatchReturn, TypeOK, PlanTable
    <3> QED BY <3>1, <3>2
  <2>2. Calm /\ NoNewSuccess
    BY <1>2, <2>1 DEF Calm, NoNewSuccess, DispatchReturn
  <2> QED BY <1>0, <2>2, CalmStep
<1>3. ASSUME NEW id \in PlanIds, DispatchThrow(id) PROVE SerialOK'
  <2>1. Calm /\ NoNewSuccess
    BY <1>3 DEF Calm, NoNewSuccess, DispatchThrow
  <2> QED BY <1>0, <2>1, CalmStep
<1>4. ASSUME NEW id \in PlanIds, NEW force \in BOOLEAN, CancelPlan(id, force) PROVE SerialOK'
  <2>1. plans[id] \in Plan
    BY <1>0, <1>4, StoredIsPlan DEF CancelPlan, CancelAccepts, TypeOK, Stored
  <2>2. plans'[id].state = "CANCELLED"
    BY <1>0, <1>4, <2>1 DEF CancelPlan, TypeOK, PlanTable, Plan
  <2>3. NoNewSuccess
    BY <1>0, <1>4, <2>2 DEF CancelPlan, NoNewSuccess, TypeOK, PlanTable
  <2> QED BY <1>0, <1>a, <1>4, <2>3, CalmStep DEF CancelPlan
<1>5. ASSUME NEW id \in PlanIds, InvalidatePlan(id) PROVE SerialOK'
  <2>1. NoNewSuccess
    BY <1>b, <1>5 DEF InvalidatePlan
  <2> QED BY <1>0, <1>a, <1>5, <2>1, CalmStep DEF InvalidatePlan
<1>6. ASSUME NEW r \in Reports, ReportExecution(r) PROVE SerialOK'
  <2>1. r \in ExecutionReport /\ r.outcome # "SUCCEEDED"
    BY ReportsAssumption DEF SerialClients
  <2> QED BY <1>0, <1>a, <1>6, <2>1, ReportStep DEF ReportExecution
<1>7. ASSUME NEW r \in completions, DeliverCompletion(r) PROVE SerialOK'
  <2>1. r \in ExecutionReport /\ backend[r.plan_id].outcome = r.outcome
    BY <1>0 DEF TypeOK, SerialOK, CompletionsTrue
  <2>2. Calm
    BY <1>7 DEF Calm, DeliverCompletion
  <2> QED BY <1>0, <1>7, <2>1, <2>2, ReportStep DEF DeliverCompletion
<1>8. CASE UNCHANGED plans /\ UNCHANGED execVars
  <2>1. NoNewSuccess
    BY <1>8 DEF NoNewSuccess
  <2> QED BY <1>0, <1>a, <1>8, <2>1, CalmStep
<1>9. ASSUME NEW readable \in BOOLEAN, RestartCoordinator(readable) PROVE SerialOK'
  <2>1. ASSUME NEW k \in PlanIds, plans'[k].state = "SUCCEEDED"
        PROVE  plans[k].state = "SUCCEEDED"
    <3> DEFINE r == IF HasStore /\ readable THEN RestoredPlan(plans[k]) ELSE plans[k]
    <3>1. plans[k] \in Plan \cup {NoPlan}
      BY <1>0 DEF TypeOK, PlanTable
    <3>2. r \in Plan \cup {NoPlan} /\ r.state = plans[k].state
      BY <3>1 DEF RestoredPlan, Plan
    <3>3. plans'[k] = InvalidateLive(r)
      BY <1>9 DEF RestartCoordinator
    <3> HIDE DEF r
    <3>4. r.state = "SUCCEEDED"
      BY <2>1, <3>2, <3>3 DEF InvalidateLive, IsLive, Live, NoPlan, PlanLifecycleState, Plan
    <3> QED BY <3>2, <3>4
  <2>2. NoNewSuccess
    BY <2>1 DEF NoNewSuccess
  <2> QED BY <1>0, <1>a, <1>9, <2>2, CalmStep DEF RestartCoordinator
<1>10. ASSUME NEW req \in Requests, NEW w \in Workers, NEW b \in Boots,
              NEW g \in WorkloadGenerations,
              \/ PlanFound(req, w, b, g)
              \/ \E violated \in FallbackVerdicts : PlanFallback(req, w, b, g, violated)
       PROVE  SerialOK'
  BY <1>10, OpenStep, VerdictsAssumption DEF PlanFound, PlanFallback
<1>11. ASSUME NEW w \in Workers, UnregisterWorker(w) \/ \E b \in Boots : RegisterWorker(w, b)
       PROVE  SerialOK'
  BY <1>8, <1>11 DEF UnregisterWorker, RegisterWorker
<1>12. ASSUME NEW readable \in BOOLEAN, SaveState(readable) PROVE SerialOK'
  BY <1>8, <1>12 DEF SaveState
<1>13. CASE UNCHANGED vars
  BY <1>8, <1>13 DEF vars
<1>14. CASE Next
  BY <1>1, <1>2, <1>3, <1>4, <1>5, <1>6, <1>7, <1>9, <1>10, <1>11, <1>12, <1>14,
     SendStep, CompletionStep
  DEF Next
<1> QED BY <1>13, <1>14

\* Where clients keep one dispatch outstanding and leave successes to the
\* executors, a plan is SUCCEEDED only if the executor that was handed this
\* very plan reported success, however completions, receipts, cancellations,
\* newer plans and restarts interleave (on_adapter_completion).
THEOREM SuccessEarned ==
  ASSUME SerialClients
  PROVE  Spec => []SuccessIsEarned
<1>1. Init => SerialOK
  BY DEF Init, SerialOK, OnePending, MetaIsPending, CompletionsTrue, UnsentIsSilent,
         SuccessIsEarned, Pending, IdleBackend, NoPlan
<1>2. HistoryInv /\ SerialOK /\ [Next]_vars => SerialOK'
  BY SerialStep DEF SerialInv
<1>3. SerialOK => SuccessIsEarned
  BY DEF SerialOK
<1> QED BY <1>1, <1>2, <1>3, HistoryInvariant, PTL DEF Spec

=============================================================================
