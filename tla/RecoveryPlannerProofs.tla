----------------------- MODULE RecoveryPlannerProofs -----------------------
(***************************************************************************)
(* Theorems about RecoveryPlanner, for every set of workers, boots and     *)
(* requests and every bound.                                               *)
(***************************************************************************)
EXTENDS RecoveryPlanner, TLAPS

-----------------------------------------------------------------------------
(***************************************************************************)
(* Lemmas about the operators.                                             *)
(***************************************************************************)

\* An id that plans_ holds maps to a well-formed plan.
LEMMA StoredIsPlan ==
  ASSUME NEW table \in PlanTable, NEW id \in PlanIds, table[id].state # "ABSENT"
  PROVE  table[id] \in Plan
BY DEF PlanTable, NoPlan

\* A well-formed plan is not the absent one.
LEMMA PlanIsStored ==
  ASSUME NEW p \in Plan
  PROVE  p # NoPlan /\ p.state # "ABSENT"
BY DEF Plan, NoPlan, PlanLifecycleState

\* Changing a plan's lifecycle fields to values of their types keeps it a plan.
LEMMA SetState ==
  ASSUME NEW p \in Plan, NEW s \in PlanLifecycleState
  PROVE  [p EXCEPT !.state = s] \in Plan
BY DEF Plan

\* supersede_older returns a well-formed entry.
LEMMA SupersedeType ==
  ASSUME NEW p \in Plan \cup {NoPlan}, NEW req
  PROVE  SupersedeOlder(p, req) \in Plan \cup {NoPlan}
BY SetState DEF SupersedeOlder, PlanLifecycleState

\* restart_coordinator's sweep returns a well-formed entry.
LEMMA InvalidateType ==
  ASSUME NEW p \in Plan \cup {NoPlan}
  PROVE  InvalidateLive(p) \in Plan \cup {NoPlan}
<1>1. CASE p \in Plan
  BY <1>1, SetState DEF InvalidateLive, PlanLifecycleState
<1>2. CASE p = NoPlan
  <2>1. ~IsLive(p)
    BY <1>2 DEF IsLive, Live, NoPlan, PlanLifecycleState
  <2> QED BY <1>2, <2>1 DEF InvalidateLive
<1> QED BY <1>1, <1>2

\* apply_snapshot rebuilds a well-formed entry.
LEMMA RestoredType ==
  ASSUME NEW p \in Plan \cup {NoPlan}
  PROVE  RestoredPlan(p) \in Plan \cup {NoPlan}
BY DEF RestoredPlan, Plan

\* report_execution's conclusion of a plan is a plan.
LEMMA ConcludedType ==
  ASSUME NEW p \in Plan, NEW o \in ExecutionOutcome
  PROVE  Concluded(p, o) \in Plan
<1>1. CASE o \in {"SUCCEEDED", "FAILED"}
  <2>1. (o \in {"SUCCEEDED", "FAILED"}) = TRUE
    BY <1>1
  <2> QED BY <2>1 DEF Concluded, Plan, PlanLifecycleState
<1>2. CASE o \notin {"SUCCEEDED", "FAILED"}
  <2>1. (o \in {"SUCCEEDED", "FAILED"}) = FALSE
    BY <1>2
  <2> QED BY <2>1 DEF Concluded, Plan, PlanLifecycleState
<1> QED BY <1>1, <1>2

\* The state dispatch_plan computes from a receipt is a lifecycle state.
LEMMA AfterReceiptType ==
  ASSUME NEW s \in PlanLifecycleState, NEW status
  PROVE  AfterReceipt(s, status) \in PlanLifecycleState
BY DEF AfterReceipt, PlanLifecycleState

-----------------------------------------------------------------------------
(***************************************************************************)
(* Type correctness.                                                       *)
(***************************************************************************)

\* Setting one stored plan's entry to a plan keeps the table well-formed.
LEMMA UpdateTable ==
  ASSUME NEW table \in PlanTable, NEW id \in PlanIds, NEW p \in Plan
  PROVE  [table EXCEPT ![id] = p] \in PlanTable
BY DEF PlanTable

\* Every step of a planner process, of a reload and of a crash keeps the type.
LEMMA TypeStep ==
  ASSUME TypeOK, [ReloadNext]_vars
  PROVE  TypeOK'
<1> USE DEF TypeOK
<1>1. ASSUME NEW req \in Requests, NEW w \in Workers, NEW b \in Boots,
             NEW g \in WorkloadGenerations, NEW violated \in BOOLEAN,
             StorePlan(req, w, b, g, violated), requests' \in SUBSET Requests
      PROVE  TypeOK'
  <2>1. BuildPlan(req, w, b, g, violated) \in Plan
    BY <1>1, GenerationsAssumption DEF BuildPlan, Plan, PlanLifecycleState, ExecutionOutcome
  <2>2. \A id \in PlanIds : SupersedeOlder(plans[id], req) \in Plan \cup {NoPlan}
    BY SupersedeType DEF PlanTable
  <2>3. plans' \in PlanTable
    BY <1>1, <2>1, <2>2 DEF StorePlan, PlanTable
  <2>4. backend' \in [PlanIds -> Backend]
    BY <1>1 DEF StorePlan, IdleBackend, Backend
  <2>5. \A id \in PlanIds :
          backend'[id].outcome # "NOT_SENT" => backend'[id].dispatch_id \in DispatchIds
    BY <1>1 DEF StorePlan, IdleBackend
  <2> QED BY <1>1, <2>3, <2>4, <2>5 DEF StorePlan, ctxVars
<1>2. ASSUME NEW id \in PlanIds, AuthorizePlan(id)
      PROVE  TypeOK'
  <2>1. plans' \in PlanTable
    BY <1>2, StoredIsPlan, SetState, UpdateTable
    DEF AuthorizePlan, Stored, PlanLifecycleState
  <2> QED BY <1>2, <2>1 DEF AuthorizePlan, ctxVars, idVars, execVars
<1>3. ASSUME NEW id \in PlanIds, DispatchPlan(id)
      PROVE  TypeOK'
  <2> DEFINE attempt == plans[id].last_attempt + 1
  <2>1. plans[id] \in Plan /\ attempt \in Nat /\ attempt \in DispatchIds
    BY <1>3, StoredIsPlan, BoundsAssumption DEF DispatchPlan, DispatchAccepts, Stored, Plan, DispatchIds
  <2>2. [plans[id] EXCEPT !.state = "DISPATCHED", !.last_attempt = attempt] \in Plan
    BY <2>1 DEF Plan, PlanLifecycleState
  <2>3. plans' \in PlanTable
    BY <1>3, <2>1, <2>2, UpdateTable DEF DispatchPlan
  <2>4. dispatch_meta' \in [DispatchIds -> Meta \cup {NoMeta}]
    BY <1>3, <2>1 DEF DispatchPlan, Meta, Plan
  <2>5. backend' \in [PlanIds -> Backend]
    BY <1>3, <2>1 DEF DispatchPlan, Backend
  <2>6. calls' \in [PlanIds -> Nat]
    BY <1>3 DEF DispatchPlan
  <2> QED BY <1>3, <2>3, <2>4, <2>5, <2>6 DEF DispatchPlan, ctxVars, idVars
<1>4. ASSUME NEW id \in PlanIds, NEW status \in DispatchStatus, DispatchReturn(id, status)
      PROVE  TypeOK'
  <2>1. plans' \in PlanTable
    <3>1. CASE Stored(id)
      <4>1. plans[id] \in Plan
        BY <3>1, StoredIsPlan DEF Stored
      <4>2. [plans[id] EXCEPT !.state = AfterReceipt(plans[id].state, status)] \in Plan
        BY <4>1, AfterReceiptType, SetState DEF Plan
      <4> QED BY <1>4, <3>1, <4>2, UpdateTable DEF DispatchReturn
    <3> QED BY <1>4, <3>1 DEF DispatchReturn
  <2>2. calls' \in [PlanIds -> Nat]
    BY <1>4 DEF DispatchReturn
  <2> QED BY <1>4, <2>1, <2>2 DEF DispatchReturn, ctxVars, idVars
<1>5. ASSUME NEW id \in PlanIds, DispatchThrow(id)
      PROVE  TypeOK'
  BY <1>5 DEF DispatchThrow, ctxVars, idVars
<1>6. ASSUME NEW r \in ExecutionReport, ApplyReport(r)
      PROVE  plans' \in PlanTable
  <2>1. CASE ReportAccepted(r)
    <3>1. r.plan_id \in PlanIds /\ r.outcome \in ExecutionOutcome
      BY DEF ExecutionReport
    <3>2. Concluded(plans[r.plan_id], r.outcome) \in Plan
      BY <2>1, <3>1, StoredIsPlan, ConcludedType DEF ReportAccepted, Stored
    <3> QED BY <1>6, <2>1, <3>1, <3>2, UpdateTable DEF ApplyReport
  <2> QED BY <1>6, <2>1 DEF ApplyReport
<1>7. ASSUME NEW r \in Reports, ReportExecution(r)
      PROVE  TypeOK'
  <2>1. plans' \in PlanTable
    BY <1>6, <1>7, ReportsAssumption DEF ReportExecution
  <2> QED BY <1>7, <2>1 DEF ReportExecution, ctxVars, idVars, execVars
<1>8. ASSUME NEW r \in completions, DeliverCompletion(r)
      PROVE  TypeOK'
  <2>1. plans' \in PlanTable
    BY <1>6, <1>8 DEF DeliverCompletion
  <2> QED BY <1>8, <2>1 DEF DeliverCompletion, ctxVars, idVars
<1>9. ASSUME NEW id \in PlanIds, NEW outcome \in CompletionOutcomes,
             OnAdapterCompletion(id, outcome)
      PROVE  TypeOK'
  <2> DEFINE d == backend[id].dispatch_id
             meta == dispatch_meta[d]
  <2>1. outcome \in ExecutionOutcome
    BY OutcomesAssumption
  <2>2. backend' \in [PlanIds -> Backend]
    BY <1>9, <2>1 DEF OnAdapterCompletion, Backend
  <2>3. CASE meta = NoMeta
    BY <1>9, <2>2, <2>3 DEF OnAdapterCompletion, ctxVars, idVars
  <2>4. CASE meta # NoMeta
    <3>1. meta \in Meta /\ dispatch_meta' \in [DispatchIds -> Meta \cup {NoMeta}]
      BY <1>9, <2>4 DEF OnAdapterCompletion, Meta
    <3>2. completions' \in SUBSET ExecutionReport
      BY <1>9, <2>1, <2>4, <3>1 DEF OnAdapterCompletion, Meta, ExecutionReport
    <3> QED BY <1>9, <2>2, <3>1, <3>2 DEF OnAdapterCompletion, ctxVars, idVars
  <2> QED BY <2>3, <2>4
<1>10. ASSUME NEW id \in PlanIds, NEW force \in BOOLEAN, CancelPlan(id, force)
       PROVE  TypeOK'
  <2>0. plans[id] \in Plan
    BY <1>10, StoredIsPlan DEF CancelPlan, CancelAccepts, Stored
  <2>1. [plans[id] EXCEPT !.state = "CANCELLED", !.execution_outcome = "CANCELLED"] \in Plan
    BY <2>0 DEF Plan, PlanLifecycleState, ExecutionOutcome
  <2>2. plans' \in PlanTable
    BY <1>10, <2>1, UpdateTable DEF CancelPlan
  <2> QED BY <1>10, <2>2 DEF CancelPlan, ctxVars, idVars, execVars
<1>11. ASSUME NEW id \in PlanIds, InvalidatePlan(id)
       PROVE  TypeOK'
  <2>1. plans' \in PlanTable
    BY <1>11, StoredIsPlan, SetState, UpdateTable
    DEF InvalidatePlan, Stored, PlanLifecycleState
  <2> QED BY <1>11, <2>1 DEF InvalidatePlan, ctxVars, idVars, execVars
<1>12. ASSUME NEW w \in Workers, NEW b \in Boots, RegisterWorker(w, b)
       PROVE  TypeOK'
  BY <1>12 DEF RegisterWorker, idVars, execVars
<1>13. ASSUME NEW w \in Workers, UnregisterWorker(w)
       PROVE  TypeOK'
  BY <1>13 DEF UnregisterWorker, idVars, execVars
<1>14. ASSUME NEW readable \in BOOLEAN
       PROVE  Written(readable) \in Snapshot \cup {NoSnapshot}
  BY DEF Written, CurrentSnapshot, Snapshot
<1>15. ASSUME NEW readable \in BOOLEAN, SaveState(readable)
       PROVE  TypeOK'
  BY <1>14, <1>15 DEF SaveState, ctxVars, idVars, execVars
<1>16. ASSUME NEW readable \in BOOLEAN, RestartCoordinator(readable)
       PROVE  TypeOK'
  <2>1. plans' \in PlanTable
    BY <1>16, RestoredType, InvalidateType DEF RestartCoordinator, PlanTable
  <2>2. store' \in Snapshot \cup {NoSnapshot}
    BY <1>14, <1>16 DEF RestartCoordinator
  <2> QED BY <1>16, <2>1, <2>2 DEF RestartCoordinator, idVars, execVars
<1>17. CASE LoadState
  <2>1. store \in Snapshot
    BY <1>17 DEF LoadState, NoSnapshot
  <2>2. plans' \in PlanTable
    BY <1>17, <2>1, RestoredType DEF LoadState, Snapshot, PlanTable
  <2> QED BY <1>17, <2>1, <2>2 DEF LoadState, Snapshot, idVars, execVars
<1>18. CASE NewProcess
  <2>1. plans' \in PlanTable
    BY <1>18 DEF NewProcess, PlanTable
  <2>2. backend' \in [PlanIds -> Backend]
    BY <1>18 DEF NewProcess, Backend
  <2>3. \A id \in PlanIds : backend'[id].outcome = "NOT_SENT"
    BY <1>18 DEF NewProcess, Backend
  <2> QED BY <1>18, <2>1, <2>2, <2>3 DEF NewProcess
<1>19. CASE UNCHANGED vars
  BY <1>19 DEF vars, ctxVars, idVars, execVars
<1>20. ASSUME NEW req \in Requests, NEW w \in Workers, NEW b \in Boots,
              NEW g \in WorkloadGenerations, PlanFound(req, w, b, g)
       PROVE  TypeOK'
  <2>1. requests' \in SUBSET Requests
    BY <1>20 DEF PlanFound
  <2> QED BY <1>1, <1>20, <2>1 DEF PlanFound
<1>21. ASSUME NEW req \in Requests, NEW w \in Workers, NEW b \in Boots,
              NEW g \in WorkloadGenerations, NEW violated \in FallbackVerdicts,
              PlanFallback(req, w, b, g, violated)
       PROVE  TypeOK'
  <2>1. requests' \in SUBSET Requests /\ violated \in BOOLEAN
    BY <1>21, VerdictsAssumption DEF PlanFallback
  <2> QED BY <1>1, <1>21, <2>1 DEF PlanFallback
<1> QED
  BY <1>2, <1>3, <1>4, <1>5, <1>7, <1>8, <1>9, <1>10, <1>11, <1>12, <1>13,
     <1>15, <1>16, <1>17, <1>18, <1>19, <1>20, <1>21
  DEF ReloadNext, Next

\* The planner's state is well-formed in every state that planning, dispatching,
\* reporting, saving, restarting, crashing and reloading can reach.
THEOREM TypeCorrect == ReloadSpec => []TypeOK
<1>1. Init => TypeOK
  BY DEF Init, TypeOK, PlanTable, IdleBackend, Backend, NoSnapshot
<1>2. TypeOK /\ [ReloadNext]_vars => TypeOK'
  BY TypeStep
<1> QED BY <1>1, <1>2, PTL DEF ReloadSpec

-----------------------------------------------------------------------------
(***************************************************************************)
(* The safety invariant.  It is inductive together with the type: every    *)
(* handler turns each plan into itself or into a plan that descends from   *)
(* it, and consistency of a table is preserved by descent.                 *)
(***************************************************************************)

\* q is what a handler may make of p: consistent in itself, of the same request
\* and epoch, and live only if p was.
Descends(p, q) ==
  /\ p \in Plan /\ q \in Plan
  /\ PlanOK(q)
  /\ q.request = p.request
  /\ q.coordinator_epoch = p.coordinator_epoch
  /\ IsLive(q) => IsLive(p)

\* Consistency of a plan table is preserved when its plans descend.
LEMMA DescentKeepsTable ==
  ASSUME NEW t \in PlanTable, NEW u \in PlanTable, NEW e, TableOK(t, e),
         \A id \in PlanIds : u[id] = t[id] \/ Descends(t[id], u[id])
  PROVE  TableOK(u, e)
<1>1. \A id \in PlanIds : IsLive(u[id]) =>
        /\ IsLive(t[id])
        /\ u[id].request = t[id].request
        /\ u[id].coordinator_epoch = t[id].coordinator_epoch
  BY DEF Descends
<1>2. OneLive(u)
  BY <1>1 DEF TableOK, OneLive
<1>3. EpochFenced(u, e)
  BY <1>1 DEF TableOK, EpochFenced
<1>4. \A id \in PlanIds : u[id].state # "ABSENT" => PlanOK(u[id])
  BY DEF TableOK, Descends
<1> QED BY <1>2, <1>3, <1>4 DEF TableOK

\* The same for a handler that touches one plan.
LEMMA DescentOfOne ==
  ASSUME NEW t \in PlanTable, NEW e, TableOK(t, e),
         NEW id \in PlanIds, NEW q, Descends(t[id], q)
  PROVE  TableOK([t EXCEPT ![id] = q], e)
<1>1. [t EXCEPT ![id] = q] \in PlanTable
  BY UpdateTable DEF Descends
<1>2. \A k \in PlanIds : \/ [t EXCEPT ![id] = q][k] = t[k]
                         \/ Descends(t[k], [t EXCEPT ![id] = q][k])
  BY DEF PlanTable
<1> HIDE DEF PlanIds
<1> QED BY <1>1, <1>2, DescentKeepsTable

\* Giving up a live plan (supersede, invalidate, restart) is a descent.
LEMMA GiveUp ==
  ASSUME NEW p \in Plan, PlanOK(p), IsLive(p), NEW s \in {"SUPERSEDED", "INVALIDATED"}
  PROVE  Descends(p, [p EXCEPT !.state = s])
BY DEF Descends, PlanOK, VerdictOK, AttemptOK, IsLive, Live, Plan, PlanLifecycleState, Terminal

\* apply_snapshot's rebuilt plan descends from the saved one.
LEMMA RestoreDescends ==
  ASSUME NEW p \in Plan, PlanOK(p)
  PROVE  Descends(p, RestoredPlan(p)) /\ PlanOK(RestoredPlan(p))
<1>1. RestoredPlan(p) = [p EXCEPT !.deadline_violated = FALSE]
  BY PlanIsStored DEF RestoredPlan
<1> QED BY <1>1 DEF Descends, PlanOK, VerdictOK, AttemptOK, IsLive, Plan

\* An accepted report concludes a plan that was handed out.
LEMMA ConcludeDescends ==
  ASSUME NEW p \in Plan, PlanOK(p), NEW o \in ExecutionOutcome,
         p.state \notin Terminal,
         ValidatePlanTransition(p.state, IF o = "SUCCEEDED" THEN "SUCCEEDED" ELSE "FAILED")
  PROVE  Descends(p, Concluded(p, o))
<1>1. p.state \in {"DISPATCHED", "EXECUTING"}
  BY DEF ValidatePlanTransition, Terminal, PlanOK
<1>2. p.last_attempt = 1 /\ IsLive(p)
  BY <1>1 DEF PlanOK, AttemptOK, IsLive, Live, PlanLifecycleState, Terminal
<1> DEFINE q == Concluded(p, o)
<1>3. /\ q \in Plan
      /\ q.state = IF o = "SUCCEEDED" THEN "SUCCEEDED" ELSE "FAILED"
      /\ q.execution_outcome = o
      /\ q.request = p.request
      /\ q.coordinator_epoch = p.coordinator_epoch
      /\ q.last_attempt = p.last_attempt
      /\ q.outcome_published <=> o \in {"SUCCEEDED", "FAILED"}
  <2> DEFINE pub == o \in {"SUCCEEDED", "FAILED"}
             s   == IF o = "SUCCEEDED" THEN "SUCCEEDED" ELSE "FAILED"
  <2>1. pub \in BOOLEAN /\ s \in PlanLifecycleState
    BY DEF PlanLifecycleState
  <2>2. q = [p EXCEPT !.state = s, !.execution_outcome = o, !.outcome_published = pub]
    BY DEF Concluded
  <2>3. q \in Plan
    BY ConcludedType
  <2> HIDE DEF pub, s, q
  <2>4. /\ q.state = s
        /\ q.execution_outcome = o
        /\ q.outcome_published = pub
        /\ q.request = p.request
        /\ q.coordinator_epoch = p.coordinator_epoch
        /\ q.last_attempt = p.last_attempt
    BY <2>2 DEF Plan
  <2> QED BY <2>3, <2>4 DEF pub, s
<1> HIDE DEF q
<1>5. VerdictOK(q)
  BY <1>3 DEF VerdictOK
<1>6. AttemptOK(q)
  BY <1>2, <1>3 DEF AttemptOK
<1>7. Descends(p, q)
  BY <1>2, <1>3, <1>5, <1>6 DEF Descends, PlanOK
<1> QED BY <1>7 DEF q

\* The receipt moves a plan that was handed out, or nothing.
LEMMA ReceiptDescends ==
  ASSUME NEW p \in Plan, PlanOK(p), NEW status \in DispatchStatus
  PROVE  Descends(p, [p EXCEPT !.state = AfterReceipt(p.state, status)])
<1> DEFINE s == AfterReceipt(p.state, status)
<1>1. \/ s = p.state
      \/ s \in {"EXECUTING", "FAILED"} /\ p.state \in {"DISPATCHED", "EXECUTING"}
  BY DEF AfterReceipt, ValidatePlanTransition, Terminal, PlanOK
<1>2. s \in PlanLifecycleState
  BY AfterReceiptType DEF Plan
<1> HIDE DEF s
<1> DEFINE q == [p EXCEPT !.state = s]
<1>3. /\ q \in Plan
      /\ q.state = s
      /\ q.execution_outcome = p.execution_outcome
      /\ q.outcome_published = p.outcome_published
      /\ q.request = p.request
      /\ q.coordinator_epoch = p.coordinator_epoch
      /\ q.last_attempt = p.last_attempt
  BY <1>2 DEF Plan
<1> HIDE DEF q
<1>4. VerdictOK(q)
  BY <1>1, <1>3 DEF VerdictOK, PlanOK
<1>5. AttemptOK(q)
  BY <1>1, <1>3 DEF AttemptOK, PlanOK
<1>6. IsLive(q) => IsLive(p)
  BY <1>1, <1>3 DEF IsLive, Live, PlanLifecycleState, Terminal
<1>7. Descends(p, q)
  BY <1>1, <1>3, <1>4, <1>5, <1>6 DEF Descends, PlanOK
<1> QED BY <1>7 DEF q, s

\* What plan() does to the plans it does not create: it gives up exactly the
\* live plans of the request.
LEMMA SupersedeDescends ==
  ASSUME NEW p \in Plan \cup {NoPlan}, NEW req, p.state # "ABSENT" => PlanOK(p)
  PROVE  LET q == SupersedeOlder(p, req) IN
           /\ q = p \/ Descends(p, q)
           /\ IsLive(q) => p = q /\ q.request # req
<1> DEFINE q == SupersedeOlder(p, req)
<1>1. CASE p = NoPlan
  BY <1>1 DEF SupersedeOlder, IsLive, Live, NoPlan, PlanLifecycleState
<1>2. CASE p \in Plan
  <2>1. p # NoPlan /\ PlanOK(p)
    BY <1>2, PlanIsStored
  <2>2. CASE p.request = req /\ p.state \notin Terminal
    <3>1. ValidatePlanTransition(p.state, "SUPERSEDED")
      BY <1>2, <2>1, <2>2 DEF ValidatePlanTransition, PlanOK, Plan, PlanLifecycleState, Terminal
    <3>2. q = [p EXCEPT !.state = "SUPERSEDED"]
      BY <2>1, <2>2, <3>1 DEF SupersedeOlder
    <3>3. IsLive(p)
      BY <1>2, <2>2 DEF IsLive, Live, Plan
    <3>4. Descends(p, q)
      BY <1>2, <2>1, <3>2, <3>3, GiveUp
    <3>5. ~IsLive(q)
      BY <1>2, <3>2 DEF IsLive, Live, Terminal, Plan
    <3> QED BY <3>4, <3>5
  <2>3. CASE p.request # req \/ p.state \in Terminal
    BY <1>2, <2>1, <2>3 DEF SupersedeOlder, IsLive, Live
  <2> QED BY <2>2, <2>3
<1> QED BY <1>1, <1>2

\* Every step keeps the plans in memory and in the snapshot consistent.
LEMMA ConsistencyStep ==
  ASSUME TypeOK, DurablyConsistent, [ReloadNext]_vars
  PROVE  DurablyConsistent'
<1>a. /\ plans \in PlanTable
      /\ TableOK(plans, epoch)
      /\ \A id \in PlanIds : Stored(id) => plans[id] \in Plan /\ PlanOK(plans[id])
  BY StoredIsPlan DEF TypeOK, DurablyConsistent, TableOK, Stored
<1>b. ASSUME TableOK(plans', epoch), epoch' = epoch, store' = store
      PROVE  DurablyConsistent'
  BY <1>b DEF DurablyConsistent
<1>c. ASSUME NEW id \in PlanIds, NEW q, Descends(plans[id], q),
             plans' = [plans EXCEPT ![id] = q], epoch' = epoch, store' = store
      PROVE  DurablyConsistent'
  BY <1>a, <1>b, <1>c, DescentOfOne
<1>1. ASSUME NEW req \in Requests, NEW w \in Workers, NEW b \in Boots,
             NEW g \in WorkloadGenerations, NEW violated \in BOOLEAN,
             StorePlan(req, w, b, g, violated)
      PROVE  DurablyConsistent'
  <2> DEFINE n   == next_plan_id
             new == BuildPlan(req, w, b, g, violated)
  <2>1. n \in PlanIds /\ plans'[n] = new
    BY <1>1, BoundsAssumption DEF StorePlan, PlanIds, TypeOK
  <2>2. /\ IsLive(new) /\ PlanOK(new) /\ new.request = req
        /\ new.coordinator_epoch = epoch
    BY DEF BuildPlan, IsLive, Live, PlanOK, VerdictOK, AttemptOK, PlanLifecycleState, Terminal
  <2>3. \A k \in PlanIds : k # n =>
          /\ plans'[k] = plans[k] \/ Descends(plans[k], plans'[k])
          /\ IsLive(plans'[k]) => plans'[k] = plans[k] /\ plans'[k].request # req
    <3> SUFFICES ASSUME NEW k \in PlanIds, k # n
                 PROVE  /\ plans'[k] = plans[k] \/ Descends(plans[k], plans'[k])
                        /\ IsLive(plans'[k]) =>
                             plans'[k] = plans[k] /\ plans'[k].request # req
      OBVIOUS
    <3>1. plans'[k] = SupersedeOlder(plans[k], req)
      BY <1>1 DEF StorePlan
    <3>2. plans[k] \in Plan \cup {NoPlan} /\ (plans[k].state # "ABSENT" => PlanOK(plans[k]))
      BY <1>a DEF PlanTable, Stored
    <3> QED BY <3>1, <3>2, SupersedeDescends
  <2> HIDE DEF n, new
  <2>4. OneLive(plans')
    BY <1>a, <2>1, <2>2, <2>3 DEF TableOK, OneLive
  <2>5. EpochFenced(plans', epoch)
    BY <1>a, <2>1, <2>2, <2>3 DEF TableOK, EpochFenced
  <2>6. \A k \in PlanIds : plans'[k].state # "ABSENT" => PlanOK(plans'[k])
    BY <1>a, <2>1, <2>2, <2>3 DEF TableOK, Descends
  <2> QED BY <1>1, <1>b, <2>4, <2>5, <2>6 DEF StorePlan, TableOK, ctxVars
<1>2. ASSUME NEW id \in PlanIds, AuthorizePlan(id)
      PROVE  DurablyConsistent'
  <2> DEFINE p == plans[id]
  <2>1. p \in Plan /\ PlanOK(p) /\ p.state \in {"PLANNED", "AUTHORIZED"}
    BY <1>a, <1>2 DEF AuthorizePlan, ValidatePlanTransition, PlanOK, Terminal
  <2>2. Descends(p, [p EXCEPT !.state = "AUTHORIZED"])
    BY <2>1 DEF Descends, PlanOK, VerdictOK, AttemptOK, IsLive, Live, Plan,
       PlanLifecycleState, Terminal
  <2> QED BY <1>2, <1>c, <2>2 DEF AuthorizePlan, ctxVars
<1>3. ASSUME NEW id \in PlanIds, DispatchPlan(id)
      PROVE  DurablyConsistent'
  <2> DEFINE p == plans[id]
  <2>1. p \in Plan /\ PlanOK(p) /\ p.state = "AUTHORIZED" /\ p.last_attempt = 0
    BY <1>a, <1>3 DEF DispatchPlan, DispatchAccepts, PlanOK, AttemptOK
  <2> DEFINE q == [p EXCEPT !.state = "DISPATCHED", !.last_attempt = 1]
  <2>2. /\ q \in Plan /\ q.state = "DISPATCHED" /\ q.last_attempt = 1
        /\ q.execution_outcome = p.execution_outcome
        /\ q.outcome_published = p.outcome_published
        /\ q.request = p.request /\ q.coordinator_epoch = p.coordinator_epoch
    BY <2>1 DEF Plan, PlanLifecycleState
  <2>3. plans' = [plans EXCEPT ![id] = q]
    BY <1>3, <2>1 DEF DispatchPlan
  <2> HIDE DEF q
  <2>4. VerdictOK(q) /\ AttemptOK(q)
    BY <2>1, <2>2 DEF PlanOK, VerdictOK, AttemptOK
  <2>5. Descends(p, q)
    BY <2>1, <2>2, <2>4 DEF Descends, PlanOK, IsLive, Live, PlanLifecycleState, Terminal
  <2> QED BY <1>3, <1>c, <2>3, <2>5 DEF DispatchPlan, ctxVars
<1>4. ASSUME NEW id \in PlanIds, NEW status \in DispatchStatus, DispatchReturn(id, status)
      PROVE  DurablyConsistent'
  <2>1. CASE Stored(id)
    <3>1. Descends(plans[id], [plans[id] EXCEPT !.state = AfterReceipt(plans[id].state, status)])
      BY <1>a, <2>1, ReceiptDescends
    <3>2. plans' = [plans EXCEPT ![id] =
                      [plans[id] EXCEPT !.state = AfterReceipt(plans[id].state, status)]]
      BY <1>4, <2>1 DEF DispatchReturn
    <3> QED BY <1>4, <1>c, <3>1, <3>2 DEF DispatchReturn, ctxVars
  <2>2. CASE ~Stored(id)
    BY <1>4, <1>a, <1>b, <2>2 DEF DispatchReturn, ctxVars
  <2> QED BY <2>1, <2>2
<1>5. ASSUME NEW r \in ExecutionReport, ApplyReport(r), epoch' = epoch, store' = store
      PROVE  DurablyConsistent'
  <2>1. CASE ReportAccepted(r)
    <3> DEFINE p == plans[r.plan_id]
    <3>1. r.plan_id \in PlanIds /\ r.outcome \in ExecutionOutcome
      BY DEF ExecutionReport
    <3>2. Descends(p, Concluded(p, r.outcome))
      BY <1>a, <2>1, <3>1, ConcludeDescends DEF ReportAccepted
    <3> QED BY <1>5, <1>c, <2>1, <3>1, <3>2 DEF ApplyReport
  <2> QED BY <1>5, <1>a, <1>b, <2>1 DEF ApplyReport
<1>6. ASSUME NEW id \in PlanIds, NEW force \in BOOLEAN, CancelPlan(id, force)
      PROVE  DurablyConsistent'
  <2> DEFINE p == plans[id]
             q == [p EXCEPT !.state = "CANCELLED", !.execution_outcome = "CANCELLED"]
  <2>1. p \in Plan /\ PlanOK(p) /\ p.state \in {"PLANNED", "AUTHORIZED"}
    BY <1>a, <1>6 DEF CancelPlan, CancelAccepts, ValidatePlanTransition, PlanOK, Terminal
  <2>2. /\ q \in Plan /\ q.state = "CANCELLED" /\ q.execution_outcome = "CANCELLED"
        /\ q.outcome_published = p.outcome_published /\ q.last_attempt = p.last_attempt
        /\ q.request = p.request /\ q.coordinator_epoch = p.coordinator_epoch
    BY <2>1 DEF Plan, PlanLifecycleState, ExecutionOutcome
  <2>3. Descends(p, q)
    BY <2>1, <2>2 DEF Descends, PlanOK, VerdictOK, AttemptOK, IsLive, Live, Terminal,
       PlanLifecycleState
  <2> QED BY <1>6, <1>c, <2>3 DEF CancelPlan, ctxVars
<1>7. ASSUME NEW id \in PlanIds, InvalidatePlan(id)
      PROVE  DurablyConsistent'
  <2>1. plans[id] \in Plan /\ PlanOK(plans[id]) /\ IsLive(plans[id])
    BY <1>a, <1>7 DEF InvalidatePlan, ValidatePlanTransition, IsLive, Live, Plan
  <2>2. Descends(plans[id], [plans[id] EXCEPT !.state = "INVALIDATED"])
    BY <2>1, GiveUp
  <2> QED BY <1>7, <1>c, <2>2 DEF InvalidatePlan, ctxVars
<1>8. ASSUME NEW readable \in BOOLEAN, store' = Written(readable)
      PROVE  store'.present => TableOK(store'.plans, store'.epoch)
  BY <1>a, <1>8 DEF Written, CurrentSnapshot, NoSnapshot
<1>9. ASSUME NEW readable \in BOOLEAN, SaveState(readable)
      PROVE  DurablyConsistent'
  BY <1>a, <1>8, <1>9 DEF SaveState, DurablyConsistent, ctxVars
<1>10. ASSUME NEW readable \in BOOLEAN, RestartCoordinator(readable)
       PROVE  DurablyConsistent'
  <2>1. ASSUME NEW id \in PlanIds
        PROVE  /\ ~IsLive(plans'[id])
               /\ plans'[id].state # "ABSENT" => PlanOK(plans'[id])
    <3> DEFINE p == IF HasStore /\ readable THEN RestoredPlan(plans[id]) ELSE plans[id]
    <3>1. plans'[id] = InvalidateLive(p)
      BY <1>10 DEF RestartCoordinator
    <3>2. p = NoPlan \/ (p \in Plan /\ PlanOK(p))
      <4>1. CASE Stored(id)
        BY <1>a, <4>1, RestoreDescends DEF Descends
      <4>2. CASE ~Stored(id)
        BY <1>a, <4>2, PlanIsStored DEF Stored, PlanTable, RestoredPlan
      <4> QED BY <4>1, <4>2
    <3> HIDE DEF p
    <3>3. CASE p = NoPlan
      BY <3>1, <3>3 DEF InvalidateLive, IsLive, Live, NoPlan, PlanLifecycleState
    <3>4. CASE p \in Plan /\ PlanOK(p) /\ IsLive(p)
      <4>1. plans'[id] = [p EXCEPT !.state = "INVALIDATED"]
        BY <3>1, <3>4 DEF InvalidateLive
      <4>2. plans'[id].state = "INVALIDATED"
        BY <3>4, <4>1 DEF Plan
      <4> QED BY <3>4, <4>1, <4>2, GiveUp DEF Descends, IsLive, Live, Terminal
    <3>5. CASE p \in Plan /\ PlanOK(p) /\ ~IsLive(p)
      BY <3>1, <3>5 DEF InvalidateLive
    <3> QED BY <3>2, <3>3, <3>4, <3>5
  <2>2. TableOK(plans', epoch')
    BY <2>1 DEF TableOK, OneLive, EpochFenced
  <2>3. store'.present => TableOK(store'.plans, store'.epoch)
    BY <1>8, <1>10 DEF RestartCoordinator, DurablyConsistent
  <2> QED BY <2>2, <2>3 DEF DurablyConsistent
<1>11. CASE LoadState
  <2>1. store \in Snapshot /\ TableOK(store.plans, store.epoch) /\ store.plans \in PlanTable
    <3>1. store.present
      BY <1>11 DEF LoadState
    <3>2. store \in Snapshot
      BY <3>1 DEF TypeOK, NoSnapshot
    <3>3. TableOK(store.plans, store.epoch)
      BY <3>1 DEF DurablyConsistent
    <3>4. store.plans \in PlanTable
      BY <3>2 DEF Snapshot
    <3> QED BY <3>2, <3>3, <3>4
  <2>2. \A id \in PlanIds :
          plans'[id] = store.plans[id] \/ Descends(store.plans[id], plans'[id])
    <3> SUFFICES ASSUME NEW id \in PlanIds
                 PROVE  plans'[id] = store.plans[id] \/ Descends(store.plans[id], plans'[id])
      OBVIOUS
    <3>1. plans'[id] = RestoredPlan(store.plans[id])
      BY <1>11 DEF LoadState
    <3>2. CASE store.plans[id].state = "ABSENT"
      BY <2>1, <3>1, <3>2, PlanIsStored DEF PlanTable, RestoredPlan
    <3>3. CASE store.plans[id].state # "ABSENT"
      BY <2>1, <3>1, <3>3, StoredIsPlan, RestoreDescends DEF TableOK
    <3> QED BY <3>2, <3>3
  <2>3. plans' \in PlanTable
    <3>1. TypeOK'
      BY TypeStep
    <3> QED BY <3>1 DEF TypeOK
  <2>4. TableOK(plans', store.epoch)
    BY <2>1, <2>2, <2>3, DescentKeepsTable
  <2> QED BY <1>11, <2>1, <2>4 DEF LoadState, DurablyConsistent
<1>12. CASE NewProcess
  <2>1. \A id \in PlanIds : plans'[id].state = "ABSENT"
    BY <1>12 DEF NewProcess, NoPlan
  <2>2. TableOK(plans', epoch')
    BY <2>1 DEF TableOK, OneLive, EpochFenced, IsLive, Live, PlanLifecycleState
  <2> QED BY <1>12, <2>2 DEF NewProcess, DurablyConsistent
<1>13. ASSUME plans' = plans, epoch' = epoch, store' = store
       PROVE  DurablyConsistent'
  BY <1>13, <1>a, <1>b
<1>14. CASE \E req \in Requests, w \in Workers, b \in Boots, g \in WorkloadGenerations :
              \/ PlanFound(req, w, b, g)
              \/ \E violated \in FallbackVerdicts : PlanFallback(req, w, b, g, violated)
  BY <1>1, <1>14, VerdictsAssumption DEF PlanFound, PlanFallback
<1>15. ASSUME NEW id \in PlanIds,
              \/ DispatchThrow(id)
              \/ \E outcome \in CompletionOutcomes : OnAdapterCompletion(id, outcome)
       PROVE  DurablyConsistent'
  BY <1>13, <1>15 DEF DispatchThrow, OnAdapterCompletion, ctxVars
<1>16. ASSUME NEW r \in Reports, ReportExecution(r)
       PROVE  DurablyConsistent'
  BY <1>5, <1>16, ReportsAssumption DEF ReportExecution, ctxVars
<1>17. ASSUME NEW r \in completions, DeliverCompletion(r)
       PROVE  DurablyConsistent'
  BY <1>5, <1>17 DEF DeliverCompletion, ctxVars, TypeOK
<1>18. ASSUME NEW w \in Workers,
              (\E b \in Boots : RegisterWorker(w, b)) \/ UnregisterWorker(w)
       PROVE  DurablyConsistent'
  BY <1>13, <1>18 DEF RegisterWorker, UnregisterWorker
<1>19. CASE UNCHANGED vars
  BY <1>13, <1>19 DEF vars, ctxVars
<1> QED
  BY <1>2, <1>3, <1>4, <1>6, <1>7, <1>9, <1>10, <1>11, <1>12, <1>14, <1>15,
     <1>16, <1>17, <1>18, <1>19
  DEF ReloadNext, Next

\* Whatever is planned, dispatched, reported, saved, restarted, lost in a crash
\* and reloaded, the plans in memory and in the snapshot stay consistent.
THEOREM Consistency == ReloadSpec => []DurablyConsistent
<1>1. Init => DurablyConsistent
  BY DEF Init, DurablyConsistent, TableOK, OneLive, EpochFenced, IsLive, Live,
     PlanLifecycleState, NoPlan, NoSnapshot
<1>2. TypeOK /\ DurablyConsistent /\ [ReloadNext]_vars => DurablyConsistent'
  BY ConsistencyStep
<1> QED BY <1>1, <1>2, TypeCorrect, PTL DEF ReloadSpec

\* supersede_older leaves a request at most one live plan, across restarts,
\* crashes and reloads.
THEOREM OneLiveAlways == ReloadSpec => []OneLivePlanPerRequest
<1>1. DurablyConsistent => OneLivePlanPerRequest
  BY DEF DurablyConsistent, TableOK, OneLivePlanPerRequest
<1> QED BY <1>1, Consistency, PTL

\* No live plan was built under another epoch than the current one.
THEOREM EpochFencing == ReloadSpec => []LivePlansAreOfThisEpoch
<1>1. DurablyConsistent => LivePlansAreOfThisEpoch
  BY DEF DurablyConsistent, TableOK, LivePlansAreOfThisEpoch
<1> QED BY <1>1, Consistency, PTL

\* A published outcome is the plan's terminal state and nothing else is
\* published, across crashes and reloads.
THEOREM VerdictConsistency == ReloadSpec => []VerdictsAgree
<1>1. DurablyConsistent => VerdictsAgree
  BY DEF DurablyConsistent, TableOK, PlanOK, VerdictsAgree, Stored
<1> QED BY <1>1, Consistency, PTL

\* The attempt counter of a plan agrees with its state across crashes and
\* reloads: it never passes one, a cancelled plan shows no attempt, and a plan
\* that is executing, has succeeded or has failed shows one.
THEOREM AttemptConsistency == ReloadSpec => []AttemptsAgree
<1>1. DurablyConsistent => AttemptsAgree
  BY DEF DurablyConsistent, TableOK, PlanOK, AttemptsAgree, Stored
<1> QED BY <1>1, Consistency, PTL

=============================================================================
