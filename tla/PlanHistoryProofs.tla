--------------------------- MODULE PlanHistoryProofs ---------------------------
(***************************************************************************)
(* What may become of a plan of RecoveryPlanner over time, for every set   *)
(* of workers, boots and requests and every bound: it follows the table of *)
(* validate_plan_transition, keeps its identity, is sent at most once, and *)
(* the planner as a whole implements RecoveryLedger.                       *)
(***************************************************************************)
EXTENDS RecoveryPlannerProofs

-----------------------------------------------------------------------------
(***************************************************************************)
(* One plan.  Every handler replaces a plan by one it may become.          *)
(***************************************************************************)

SameIdentity(p, q) ==
  /\ q.generation = p.generation
  /\ q.request = p.request
  /\ q.target_worker = p.target_worker
  /\ q.target_boot = p.target_boot
  /\ q.coordinator_epoch = p.coordinator_epoch

\* What LifecycleStep and IdentityStep say of one plan.
Follows(p, q) ==
  /\ p \in Plan /\ q \in Plan
  /\ SameIdentity(p, q)
  /\ q.state = p.state \/ ValidatePlanTransition(p.state, q.state)
  /\ p.state \in Terminal =>
       /\ q.execution_outcome = p.execution_outcome
       /\ q.outcome_published = p.outcome_published

\* The ledger's entry for a plan, and what a ledger step may do to an entry.
EntryOf(p) ==
  IF p = NoPlan
  THEN [phase |-> "NONE"]
  ELSE [client |-> p.request, phase |-> Phase(p.state), verdict |-> Verdict(p)]

Given(e)    == IF Ledger!Active(e) THEN Ledger!Closed(e, "NONE") ELSE e
Sent(e, f)  == e.phase = "OPEN" /\ f = Ledger!Entry(e.client, "SENT", "NONE")
Ended(e, f) == e.phase = "SENT" /\ \E v \in Ledger!Verdicts : f = Ledger!Closed(e, v)

EntryStep(e, f) == f = e \/ f = Given(e) \/ Sent(e, f) \/ Ended(e, f)

Becomes(p, q) == Follows(p, q) /\ EntryStep(EntryOf(p), EntryOf(q))

\* The entry of a stored plan, field by field.
LEMMA EntryOfPlan ==
  ASSUME NEW p \in Plan
  PROVE  EntryOf(p) = Ledger!Entry(p.request, Phase(p.state), Verdict(p))
BY PlanIsStored DEF EntryOf, Ledger!Entry

\* A plan that is still live has no verdict.
LEMMA LiveHasNoVerdict ==
  ASSUME NEW p \in Plan, PlanOK(p), p.state \notin Terminal
  PROVE  p.outcome_published = FALSE /\ Verdict(p) = "NONE"
BY DEF PlanOK, VerdictOK, Terminal, Verdict, Plan

\* The phase of every state.
LEMMA Phases ==
  /\ \A s \in {"PLANNED", "AUTHORIZED"} : Phase(s) = "OPEN"
  /\ \A s \in InFlight : Phase(s) = "SENT"
  /\ \A s \in Terminal : Phase(s) = "CLOSED"
BY DEF Phase, InFlight, Terminal

\* A live plan that is stored is open or sent.
LEMMA LivePhase ==
  ASSUME NEW p \in Plan, PlanOK(p)
  PROVE  /\ p.state \notin Terminal => Ledger!Active(EntryOf(p))
         /\ p.state \in Terminal => ~Ledger!Active(EntryOf(p))
<1>1. EntryOf(p).phase = Phase(p.state)
  BY EntryOfPlan DEF Ledger!Entry
<1>2. p.state \notin Terminal => p.state \in {"PLANNED", "AUTHORIZED"} \cup InFlight
  BY DEF PlanOK, Plan, PlanLifecycleState, Terminal, InFlight
<1> QED BY <1>1, <1>2, Phases DEF Ledger!Active

\* Closing a live plan without a verdict: superseded, invalidated, cancelled,
\* failed without a report, or ended by an outcome that is not published.
LEMMA CloseBecomes ==
  ASSUME NEW p \in Plan, PlanOK(p), NEW q \in Plan, SameIdentity(p, q),
         p.state \notin Terminal,
         q.state \in Terminal, ValidatePlanTransition(p.state, q.state),
         q.outcome_published = FALSE
  PROVE  Becomes(p, q) /\ EntryOf(q) = Given(EntryOf(p))
<1>1. Verdict(q) = "NONE"
  BY DEF Verdict
<1>2. EntryOf(q) = Ledger!Entry(p.request, "CLOSED", "NONE")
  BY <1>1, EntryOfPlan, Phases DEF SameIdentity
<1>3. Ledger!Active(EntryOf(p)) /\ EntryOf(p).client = p.request
  BY LivePhase, EntryOfPlan DEF Ledger!Entry
<1>4. EntryOf(q) = Given(EntryOf(p))
  BY <1>2, <1>3 DEF Given, Ledger!Closed
<1> QED BY <1>4 DEF Becomes, Follows, EntryStep

\* A step within a phase leaves the ledger's entry alone.
LEMMA StayBecomes ==
  ASSUME NEW p \in Plan, PlanOK(p), NEW q \in Plan, SameIdentity(p, q),
         Phase(q.state) = Phase(p.state),
         q.state = p.state \/ ValidatePlanTransition(p.state, q.state),
         q.execution_outcome = p.execution_outcome,
         q.outcome_published = p.outcome_published
  PROVE  Becomes(p, q) /\ EntryOf(q) = EntryOf(p)
<1>1. Verdict(q) = Verdict(p)
  BY DEF Verdict
<1>2. EntryOf(q) = EntryOf(p)
  BY <1>1, EntryOfPlan DEF SameIdentity
<1> QED BY <1>2 DEF Becomes, Follows, EntryStep

\* authorize_plan.
LEMMA AuthorizeBecomes ==
  ASSUME NEW p \in Plan, PlanOK(p), ValidatePlanTransition(p.state, "AUTHORIZED")
  PROVE  Becomes(p, [p EXCEPT !.state = "AUTHORIZED"])
<1> DEFINE q == [p EXCEPT !.state = "AUTHORIZED"]
<1>1. p.state \in {"PLANNED", "AUTHORIZED"}
  BY DEF ValidatePlanTransition, PlanOK, Terminal
<1>2. /\ q \in Plan /\ SameIdentity(p, q) /\ q.state = "AUTHORIZED"
      /\ q.execution_outcome = p.execution_outcome
      /\ q.outcome_published = p.outcome_published
  BY DEF Plan, PlanLifecycleState, SameIdentity
<1> HIDE DEF q
<1>3. Becomes(p, q)
  BY <1>1, <1>2, Phases, StayBecomes
<1> QED BY <1>3 DEF q

\* dispatch_plan up to the unlock.
LEMMA DispatchBecomes ==
  ASSUME NEW p \in Plan, PlanOK(p), p.state = "AUTHORIZED", NEW n \in Nat
  PROVE  Becomes(p, [p EXCEPT !.state = "DISPATCHED", !.last_attempt = n])
<1> DEFINE q == [p EXCEPT !.state = "DISPATCHED", !.last_attempt = n]
<1>1. /\ q \in Plan /\ SameIdentity(p, q) /\ q.state = "DISPATCHED"
      /\ q.execution_outcome = p.execution_outcome
      /\ q.outcome_published = p.outcome_published
  BY DEF Plan, PlanLifecycleState, SameIdentity
<1> HIDE DEF q
<1>2. Verdict(q) = "NONE"
  BY <1>1, LiveHasNoVerdict DEF Verdict, Terminal
<1>3. Phase(q.state) = "SENT" /\ Phase(p.state) = "OPEN"
  BY <1>1, Phases DEF InFlight
<1>4. Sent(EntryOf(p), EntryOf(q))
  BY <1>1, <1>2, <1>3, EntryOfPlan DEF Sent, Ledger!Entry, SameIdentity
<1>5. Becomes(p, q)
  BY <1>1, <1>4 DEF Becomes, Follows, EntryStep, ValidatePlanTransition, Terminal
<1> QED BY <1>5 DEF q

\* dispatch_plan from the receipt on.
LEMMA ReceiptBecomes ==
  ASSUME NEW p \in Plan, PlanOK(p), NEW status \in DispatchStatus
  PROVE  Becomes(p, [p EXCEPT !.state = AfterReceipt(p.state, status)])
<1> DEFINE s == AfterReceipt(p.state, status)
           q == [p EXCEPT !.state = s]
<1>1. \/ s = p.state
      \/ s = "EXECUTING" /\ p.state = "DISPATCHED"
      \/ s = "FAILED" /\ p.state \in InFlight
  BY DEF AfterReceipt, ValidatePlanTransition, Terminal, PlanOK, InFlight
<1>2. s \in PlanLifecycleState
  BY AfterReceiptType DEF Plan
<1> HIDE DEF s
<1>3. /\ q \in Plan /\ SameIdentity(p, q) /\ q.state = s
      /\ q.execution_outcome = p.execution_outcome
      /\ q.outcome_published = p.outcome_published
  BY <1>2 DEF Plan, SameIdentity
<1> HIDE DEF q
<1>4. CASE s = p.state \/ (s = "EXECUTING" /\ p.state = "DISPATCHED")
  <2>1. Phase(q.state) = Phase(p.state)
    BY <1>3, <1>4, Phases DEF InFlight
  <2>2. q.state = p.state \/ ValidatePlanTransition(p.state, q.state)
    BY <1>3, <1>4 DEF ValidatePlanTransition, Terminal
  <2>3. Becomes(p, q)
    BY <1>3, <2>1, <2>2, StayBecomes
  <2> QED BY <2>3 DEF q, s
<1>5. CASE s = "FAILED" /\ p.state \in InFlight
  <2>1. p.state \notin Terminal /\ q.state \in Terminal
    BY <1>3, <1>5 DEF InFlight, Terminal
  <2>2. q.outcome_published = FALSE
    BY <1>3, <2>1, LiveHasNoVerdict
  <2>3. ValidatePlanTransition(p.state, q.state)
    BY <1>3, <1>5 DEF ValidatePlanTransition, Terminal, InFlight
  <2>4. Becomes(p, q)
    BY <1>3, <2>1, <2>2, <2>3, CloseBecomes
  <2> QED BY <2>4 DEF q, s
<1> QED BY <1>1, <1>4, <1>5

\* report_execution's conclusion: the one verdict, or none.
LEMMA ConcludeBecomes ==
  ASSUME NEW p \in Plan, PlanOK(p), NEW o \in ExecutionOutcome,
         p.state \notin Terminal,
         ValidatePlanTransition(p.state, IF o = "SUCCEEDED" THEN "SUCCEEDED" ELSE "FAILED")
  PROVE  /\ Becomes(p, Concluded(p, o))
         /\ Concluded(p, o).last_attempt = p.last_attempt
<1> DEFINE q == Concluded(p, o)
           s == IF o = "SUCCEEDED" THEN "SUCCEEDED" ELSE "FAILED"
<1>1. p.state \in InFlight
  BY DEF ValidatePlanTransition, Terminal, PlanOK, InFlight
<1>2. q \in Plan
  BY ConcludedType
<1>3. /\ SameIdentity(p, q) /\ q.state = s /\ q.execution_outcome = o
      /\ q.last_attempt = p.last_attempt
  BY DEF Concluded, Plan, SameIdentity
<1>4. q.outcome_published = (o \in {"SUCCEEDED", "FAILED"})
  BY Zenon DEF Concluded, Plan
<1>5. ValidatePlanTransition(p.state, s)
  OBVIOUS
<1> HIDE DEF q
<1>6. CASE o \notin {"SUCCEEDED", "FAILED"}
  <2>0. (o \in {"SUCCEEDED", "FAILED"}) = FALSE
    BY <1>6
  <2>1. q.outcome_published = FALSE
    BY <1>4, <2>0
  <2>2. q.state \in Terminal /\ ValidatePlanTransition(p.state, q.state)
    BY <1>3, <1>5 DEF Terminal
  <2>3. Becomes(p, q)
    BY <1>2, <1>3, <2>1, <2>2, CloseBecomes
  <2> QED BY <1>3, <2>3 DEF q
<1>7. CASE o \in {"SUCCEEDED", "FAILED"}
  <2>0. (o \in {"SUCCEEDED", "FAILED"}) = TRUE
    BY <1>7
  <2>1. q.outcome_published = TRUE
    BY <1>4, <2>0
  <2>2. Verdict(q) \in Ledger!Verdicts
    BY <2>1 DEF Verdict, Ledger!Verdicts
  <2>3. Phase(q.state) = "CLOSED" /\ Phase(p.state) = "SENT"
    BY <1>1, <1>3, Phases DEF Terminal
  <2>4. /\ EntryOf(p).phase = "SENT" /\ EntryOf(p).client = p.request
        /\ EntryOf(q) = Ledger!Entry(p.request, "CLOSED", Verdict(q))
    BY <1>2, <1>3, <2>3, EntryOfPlan DEF Ledger!Entry, SameIdentity
  <2>5. Ended(EntryOf(p), EntryOf(q))
    BY <2>2, <2>4 DEF Ended, Ledger!Closed
  <2>6. Becomes(p, q)
    BY <1>2, <1>3, <1>5, <2>5 DEF Becomes, Follows, EntryStep
  <2> QED BY <1>3, <2>6 DEF q
<1> QED BY <1>6, <1>7

\* Superseded or invalidated, in whatever live state.
LEMMA GiveUpBecomes ==
  ASSUME NEW p \in Plan, PlanOK(p), IsLive(p), NEW s \in {"SUPERSEDED", "INVALIDATED"}
  PROVE  LET q == [p EXCEPT !.state = s] IN
           Becomes(p, q) /\ EntryOf(q) = Given(EntryOf(p))
<1> DEFINE q == [p EXCEPT !.state = s]
<1>1. /\ q \in Plan /\ SameIdentity(p, q) /\ q.state = s
      /\ q.outcome_published = p.outcome_published
  BY DEF Plan, PlanLifecycleState, SameIdentity
<1>2. p.state \notin Terminal /\ s \in Terminal
  BY DEF IsLive, Live, Terminal
<1>3. ValidatePlanTransition(p.state, s)
  BY <1>2 DEF ValidatePlanTransition, PlanOK, Plan, PlanLifecycleState, Terminal
<1>4. q.outcome_published = FALSE
  BY <1>1, <1>2, LiveHasNoVerdict
<1> HIDE DEF q
<1>5. Becomes(p, q) /\ EntryOf(q) = Given(EntryOf(p))
  BY <1>1, <1>2, <1>3, <1>4, CloseBecomes
<1> QED BY <1>5 DEF q

-----------------------------------------------------------------------------
(***************************************************************************)
(* The steps.  A step of the planner opens a plan, sends one, moves one    *)
(* without sending it, sweeps them all, or leaves the plans alone.         *)
(***************************************************************************)

\* No id is given out and nothing is sent.
Quiet ==
  /\ next_plan_id' = next_plan_id
  /\ \A k \in PlanIds : backend'[k].sends = backend[k].sends

Opens ==
  \E req \in Requests, w \in Workers, b \in Boots, g \in WorkloadGenerations,
     violated \in BOOLEAN : StorePlan(req, w, b, g, violated)

Moves(id, q) ==
  /\ Stored(id)
  /\ Becomes(plans[id], q)
  /\ q.last_attempt = plans[id].last_attempt
  /\ plans' = [plans EXCEPT ![id] = q]

\* One plan of the sweep: given up, or as it was but for the deadline verdict.
Swept(p, q) ==
  \/ p = NoPlan /\ q = NoPlan
  \/ /\ Becomes(p, q)
     /\ q.last_attempt = p.last_attempt
     /\ EntryOf(q) = Given(EntryOf(p))

Sweeps == DOMAIN plans' = PlanIds /\ \A id \in PlanIds : Swept(plans[id], plans'[id])

\* restart_coordinator's sweep of one plan, reloaded before or not.
LEMMA SweepOne ==
  ASSUME NEW p \in Plan \cup {NoPlan}, p # NoPlan => PlanOK(p), NEW reloaded \in BOOLEAN
  PROVE  Swept(p, InvalidateLive(IF reloaded THEN RestoredPlan(p) ELSE p))
<1> DEFINE r == IF reloaded THEN RestoredPlan(p) ELSE p
           q == InvalidateLive(r)
<1>1. CASE p = NoPlan
  <2>1. r = NoPlan
    BY <1>1 DEF RestoredPlan
  <2>2. ~IsLive(NoPlan)
    BY DEF IsLive, Live, NoPlan, PlanLifecycleState
  <2> QED BY <1>1, <2>1, <2>2 DEF Swept, InvalidateLive
<1>2. CASE p # NoPlan
  <2>1. p \in Plan /\ PlanOK(p)
    BY <1>2
  <2>2. r = p \/ r = [p EXCEPT !.deadline_violated = FALSE]
    BY <1>2 DEF RestoredPlan
  <2>3. /\ r \in Plan /\ SameIdentity(p, r) /\ r.state = p.state
        /\ r.execution_outcome = p.execution_outcome
        /\ r.outcome_published = p.outcome_published
        /\ r.last_attempt = p.last_attempt
    BY <2>1, <2>2 DEF Plan, SameIdentity
  <2> HIDE DEF r
  <2>4. PlanOK(r)
    BY <2>1, <2>3 DEF PlanOK, VerdictOK, AttemptOK
  <2>5. CASE IsLive(r)
    <3>1. q = [r EXCEPT !.state = "INVALIDATED"]
      BY <2>5 DEF InvalidateLive
    <3>2. /\ q \in Plan /\ SameIdentity(p, q) /\ q.state = "INVALIDATED"
          /\ q.outcome_published = p.outcome_published
          /\ q.last_attempt = p.last_attempt
      BY <2>3, <3>1 DEF Plan, PlanLifecycleState, SameIdentity
    <3>3. p.state \notin Terminal
      BY <2>3, <2>5 DEF IsLive, Live
    <3>4. ValidatePlanTransition(p.state, q.state)
      BY <2>1, <3>2, <3>3 DEF ValidatePlanTransition, PlanOK, Plan, PlanLifecycleState, Terminal
    <3>5. q.outcome_published = FALSE
      BY <2>1, <3>2, <3>3, LiveHasNoVerdict
    <3>6. q.state \in Terminal
      BY <3>2 DEF Terminal
    <3> HIDE DEF q
    <3>7. Swept(p, q)
      BY <2>1, <3>2, <3>3, <3>4, <3>5, <3>6, CloseBecomes DEF Swept
    <3> QED BY <3>7 DEF q, r
  <2>6. CASE ~IsLive(r)
    <3>1. q = r
      BY <2>6 DEF InvalidateLive
    <3>2. p.state \in Terminal
      BY <2>1, <2>3, <2>6 DEF IsLive, Live, Plan
    <3>3. Becomes(p, r) /\ EntryOf(r) = EntryOf(p)
      BY <2>1, <2>3, StayBecomes
    <3>4. Given(EntryOf(p)) = EntryOf(p)
      BY <2>1, <3>2, LivePhase DEF Given
    <3> HIDE DEF q
    <3>5. Swept(p, q)
      BY <2>3, <3>1, <3>3, <3>4 DEF Swept
    <3> QED BY <3>5 DEF q, r
  <2> QED BY <2>5, <2>6
<1> QED BY <1>1, <1>2

\* Every step of Next is one of the five kinds.
LEMMA StepKinds ==
  ASSUME TypeOK, DurablyConsistent, Next
  PROVE  \/ Opens
         \/ \E id \in PlanIds : DispatchPlan(id)
         \/ Quiet /\ \E id \in PlanIds : \E q : Moves(id, q)
         \/ Quiet /\ Sweeps
         \/ Quiet /\ plans' = plans
<1> DEFINE Kind == \/ Opens
                   \/ \E id \in PlanIds : DispatchPlan(id)
                   \/ Quiet /\ \E id \in PlanIds : \E q : Moves(id, q)
                   \/ Quiet /\ Sweeps
                   \/ Quiet /\ plans' = plans
<1>a. /\ plans \in PlanTable
      /\ \A id \in PlanIds : Stored(id) => plans[id] \in Plan /\ PlanOK(plans[id])
  BY StoredIsPlan DEF TypeOK, DurablyConsistent, TableOK, Stored
<1>b. ASSUME UNCHANGED <<idVars, execVars>> PROVE Quiet
  BY <1>b DEF Quiet, idVars, execVars
<1>c. ASSUME NEW id \in PlanIds, NEW q, Moves(id, q), Quiet PROVE Kind
  BY <1>c
<1>1. ASSUME NEW id \in PlanIds, AuthorizePlan(id) PROVE Kind
  <2>1. plans[id] \in Plan /\ PlanOK(plans[id])
    BY <1>a, <1>1 DEF AuthorizePlan
  <2>2. Moves(id, [plans[id] EXCEPT !.state = "AUTHORIZED"])
    BY <1>1, <2>1, AuthorizeBecomes DEF Moves, AuthorizePlan, Plan
  <2> QED BY <1>b, <1>c, <1>1, <2>2 DEF AuthorizePlan
<1>2. ASSUME NEW id \in PlanIds, NEW status \in DispatchStatus, DispatchReturn(id, status)
      PROVE  Kind
  <2>1. Quiet
    BY <1>2 DEF Quiet, DispatchReturn, idVars
  <2>2. CASE Stored(id)
    <3>1. plans[id] \in Plan /\ PlanOK(plans[id])
      BY <1>a, <2>2
    <3>2. Moves(id, [plans[id] EXCEPT !.state = AfterReceipt(plans[id].state, status)])
      BY <1>2, <2>2, <3>1, ReceiptBecomes DEF Moves, DispatchReturn, Plan
    <3> QED BY <1>c, <2>1, <3>2
  <2>3. CASE ~Stored(id)
    BY <1>2, <2>1, <2>3 DEF DispatchReturn
  <2> QED BY <2>2, <2>3
<1>3. ASSUME NEW r \in ExecutionReport, ApplyReport(r), Quiet PROVE Kind
  <2>1. CASE ReportAccepted(r)
    <3> DEFINE p == plans[r.plan_id]
    <3>1. r.plan_id \in PlanIds /\ r.outcome \in ExecutionOutcome
      BY DEF ExecutionReport
    <3>2. p \in Plan /\ PlanOK(p) /\ Stored(r.plan_id)
      BY <1>a, <2>1, <3>1 DEF ReportAccepted
    <3>3. Moves(r.plan_id, Concluded(p, r.outcome))
      BY <1>3, <2>1, <3>1, <3>2, ConcludeBecomes DEF ReportAccepted, ApplyReport, Moves
    <3> QED BY <1>3, <1>c, <3>1, <3>3
  <2>2. CASE ~ReportAccepted(r)
    BY <1>3, <2>2 DEF ApplyReport
  <2> QED BY <2>1, <2>2
<1>4. ASSUME NEW r \in Reports, ReportExecution(r) PROVE Kind
  BY <1>3, <1>4, <1>b, ReportsAssumption DEF ReportExecution
<1>5. ASSUME NEW r \in completions, DeliverCompletion(r) PROVE Kind
  <2>1. Quiet
    BY <1>5 DEF Quiet, DeliverCompletion, idVars
  <2> QED BY <1>3, <1>5, <2>1 DEF DeliverCompletion, TypeOK
<1>6. ASSUME NEW id \in PlanIds, NEW outcome \in CompletionOutcomes,
             OnAdapterCompletion(id, outcome)
      PROVE  Kind
  <2>1. Quiet
    BY <1>6 DEF Quiet, OnAdapterCompletion, idVars, TypeOK, Backend
  <2> QED BY <1>6, <2>1 DEF OnAdapterCompletion
<1>7. ASSUME NEW id \in PlanIds, DispatchThrow(id) PROVE Kind
  BY <1>7 DEF Quiet, DispatchThrow, idVars
<1>8. ASSUME NEW id \in PlanIds, NEW force \in BOOLEAN, CancelPlan(id, force) PROVE Kind
  <2> DEFINE p == plans[id]
             q == [p EXCEPT !.state = "CANCELLED", !.execution_outcome = "CANCELLED"]
  <2>1. /\ p \in Plan /\ PlanOK(p) /\ Stored(id)
        /\ p.state \notin Terminal /\ ValidatePlanTransition(p.state, "CANCELLED")
    BY <1>a, <1>8 DEF CancelPlan, CancelAccepts, ValidatePlanTransition
  <2>2. /\ q \in Plan /\ SameIdentity(p, q) /\ q.state = "CANCELLED"
        /\ q.outcome_published = p.outcome_published /\ q.last_attempt = p.last_attempt
    BY <2>1 DEF Plan, PlanLifecycleState, ExecutionOutcome, SameIdentity
  <2>3. plans' = [plans EXCEPT ![id] = q]
    BY <1>8 DEF CancelPlan
  <2> HIDE DEF q
  <2>4. Becomes(p, q)
    BY <2>1, <2>2, LiveHasNoVerdict, CloseBecomes DEF Terminal
  <2> QED BY <1>8, <1>b, <1>c, <2>1, <2>2, <2>3, <2>4 DEF Moves, CancelPlan
<1>9. ASSUME NEW id \in PlanIds, InvalidatePlan(id) PROVE Kind
  <2>1. plans[id] \in Plan /\ PlanOK(plans[id]) /\ IsLive(plans[id])
    BY <1>a, <1>9 DEF InvalidatePlan, ValidatePlanTransition, IsLive, Live, Plan
  <2>2. Moves(id, [plans[id] EXCEPT !.state = "INVALIDATED"])
    BY <1>9, <2>1, GiveUpBecomes DEF Moves, InvalidatePlan, Plan
  <2> QED BY <1>9, <1>b, <1>c, <2>2 DEF InvalidatePlan
<1>10. ASSUME NEW w \in Workers,
              UnregisterWorker(w) \/ \E b \in Boots : RegisterWorker(w, b)
       PROVE  Kind
  BY <1>10, <1>b DEF RegisterWorker, UnregisterWorker
<1>11. ASSUME NEW readable \in BOOLEAN, SaveState(readable) PROVE Kind
  BY <1>11, <1>b DEF SaveState
<1>12. ASSUME NEW readable \in BOOLEAN, RestartCoordinator(readable) PROVE Kind
  <2>1. ASSUME NEW id \in PlanIds PROVE Swept(plans[id], plans'[id])
    <3>1. plans[id] \in Plan \cup {NoPlan} /\ (plans[id] # NoPlan => PlanOK(plans[id]))
      BY <1>a, PlanIsStored DEF PlanTable, Stored
    <3>2. (HasStore /\ readable) \in BOOLEAN
      BY FlagsAssumption
    <3>3. plans'[id] = InvalidateLive(IF HasStore /\ readable THEN RestoredPlan(plans[id])
                                                           ELSE plans[id])
      BY <1>12 DEF RestartCoordinator
    <3> QED BY <3>1, <3>2, <3>3, SweepOne
  <2>2. Sweeps
    BY <1>12, <2>1 DEF Sweeps, RestartCoordinator
  <2> QED BY <1>12, <1>b, <2>2 DEF RestartCoordinator
<1>13. ASSUME NEW req \in Requests, NEW w \in Workers, NEW b \in Boots,
              NEW g \in WorkloadGenerations,
              \/ PlanFound(req, w, b, g)
              \/ \E violated \in FallbackVerdicts : PlanFallback(req, w, b, g, violated)
       PROVE  Kind
  BY <1>13, VerdictsAssumption DEF PlanFound, PlanFallback, Opens
<1> HIDE DEF Kind
<1>14. Kind
  BY <1>1, <1>2, <1>4, <1>5, <1>6, <1>7, <1>8, <1>9, <1>10, <1>11, <1>12, <1>13
  DEF Next, Kind
<1> QED BY <1>14 DEF Kind

-----------------------------------------------------------------------------
(***************************************************************************)
(* The invariant.  What TypeOK and DurablyConsistent say of one table is   *)
(* not enough: that an id is new when it is given out, and that a plan's   *)
(* attempt counter is the number of times executors received it, hold      *)
(* because neither counter is ever set back while the process lives.       *)
(***************************************************************************)
HistoryOK ==
  /\ \A id \in PlanIds : id >= next_plan_id => plans[id] = NoPlan
  /\ \A id \in PlanIds : Stored(id) => backend[id].sends = plans[id].last_attempt
  /\ \A id \in PlanIds : ~Stored(id) => backend[id].sends = 0

HistoryInv == TypeOK /\ DurablyConsistent /\ HistoryOK

\* A plan that becomes another stays a plan.
LEMMA BecomesStored ==
  ASSUME NEW p, NEW q, Becomes(p, q)
  PROVE  /\ p \in Plan /\ p # NoPlan /\ p.state # "ABSENT"
         /\ q \in Plan /\ q # NoPlan /\ q.state # "ABSENT"
BY PlanIsStored DEF Becomes, Follows

\* What plan() does to a plan it does not create.
LEMMA SupersedeOne ==
  ASSUME NEW p \in Plan \cup {NoPlan}, p # NoPlan => PlanOK(p), NEW req
  PROVE  LET q == SupersedeOlder(p, req) IN
           \/ q = p /\ (p # NoPlan => p.state \in Terminal \/ p.request # req)
           \/ /\ p # NoPlan /\ p.request = req /\ p.state \notin Terminal
              /\ Becomes(p, q) /\ q.last_attempt = p.last_attempt
              /\ EntryOf(q) = Given(EntryOf(p))
<1>1. CASE p = NoPlan
  BY <1>1 DEF SupersedeOlder
<1>2. CASE p # NoPlan /\ p.request = req /\ p.state \notin Terminal
  <2>1. p \in Plan /\ PlanOK(p) /\ IsLive(p)
    BY <1>2 DEF IsLive, Live, Plan
  <2>2. ValidatePlanTransition(p.state, "SUPERSEDED")
    BY <1>2, <2>1 DEF ValidatePlanTransition, PlanOK, Plan, PlanLifecycleState, Terminal
  <2>3. SupersedeOlder(p, req) = [p EXCEPT !.state = "SUPERSEDED"]
    BY <1>2, <2>2 DEF SupersedeOlder
  <2>4. [p EXCEPT !.state = "SUPERSEDED"].last_attempt = p.last_attempt
    BY <2>1 DEF Plan
  <2> QED BY <1>2, <2>1, <2>3, <2>4, GiveUpBecomes
<1>3. CASE p # NoPlan /\ (p.request # req \/ p.state \in Terminal)
  BY <1>3 DEF SupersedeOlder
<1> QED BY <1>1, <1>2, <1>3

\* plan(): the id is new, and every other plan is superseded or untouched.
LEMMA Opening ==
  ASSUME HistoryInv, NEW req \in Requests, NEW w \in Workers, NEW b \in Boots,
         NEW g \in WorkloadGenerations, NEW violated \in BOOLEAN,
         StorePlan(req, w, b, g, violated)
  PROVE  /\ next_plan_id \in PlanIds
         /\ plans[next_plan_id] = NoPlan
         /\ plans'[next_plan_id] = BuildPlan(req, w, b, g, violated)
         /\ plans'[next_plan_id] \in Plan
         /\ \A k \in PlanIds \ {next_plan_id} :
              \/ /\ plans'[k] = plans[k]
                 /\ Stored(k) => plans[k].state \in Terminal \/ plans[k].request # req
              \/ /\ Stored(k) /\ plans[k].request = req /\ plans[k].state \notin Terminal
                 /\ Becomes(plans[k], plans'[k])
                 /\ plans'[k].last_attempt = plans[k].last_attempt
                 /\ EntryOf(plans'[k]) = Given(EntryOf(plans[k]))
<1>1. next_plan_id \in PlanIds /\ plans[next_plan_id] = NoPlan
  BY BoundsAssumption DEF StorePlan, PlanIds, HistoryInv, TypeOK, HistoryOK
<1>2. plans'[next_plan_id] = BuildPlan(req, w, b, g, violated)
  BY <1>1 DEF StorePlan
<1>3. BuildPlan(req, w, b, g, violated) \in Plan
  BY GenerationsAssumption
  DEF BuildPlan, Plan, PlanLifecycleState, ExecutionOutcome, HistoryInv, TypeOK
<1>4. ASSUME NEW k \in PlanIds \ {next_plan_id}
      PROVE  \/ /\ plans'[k] = plans[k]
                /\ Stored(k) => plans[k].state \in Terminal \/ plans[k].request # req
             \/ /\ Stored(k) /\ plans[k].request = req /\ plans[k].state \notin Terminal
                /\ Becomes(plans[k], plans'[k])
                /\ plans'[k].last_attempt = plans[k].last_attempt
                /\ EntryOf(plans'[k]) = Given(EntryOf(plans[k]))
  <2>1. plans[k] \in Plan \cup {NoPlan} /\ (plans[k] # NoPlan => PlanOK(plans[k]))
    BY PlanIsStored DEF HistoryInv, TypeOK, PlanTable, DurablyConsistent, TableOK
  <2>2. plans'[k] = SupersedeOlder(plans[k], req)
    BY DEF StorePlan
  <2>3. Stored(k) <=> plans[k] # NoPlan
    BY <2>1, PlanIsStored DEF Stored, NoPlan
  <2> QED BY <2>1, <2>2, <2>3, SupersedeOne
<1> QED BY <1>1, <1>2, <1>3, <1>4

\* dispatch_plan sends a plan that was never sent.
LEMMA Sending ==
  ASSUME HistoryInv, NEW id \in PlanIds, DispatchPlan(id)
  PROVE  LET q == [plans[id] EXCEPT !.state = "DISPATCHED", !.last_attempt = 1] IN
           /\ Stored(id) /\ Becomes(plans[id], q) /\ q.last_attempt = 1
           /\ plans' = [plans EXCEPT ![id] = q]
           /\ backend[id].sends = 0 /\ backend'[id].sends = 1
           /\ \A k \in PlanIds \ {id} : backend'[k] = backend[k]
           /\ next_plan_id' = next_plan_id
<1> DEFINE p == plans[id]
<1>1. p \in Plan /\ PlanOK(p) /\ p.state = "AUTHORIZED" /\ Stored(id)
  BY StoredIsPlan
  DEF DispatchPlan, DispatchAccepts, Stored, HistoryInv, TypeOK, DurablyConsistent, TableOK
<1>2. p.last_attempt = 0 /\ backend[id].sends = 0
  BY <1>1 DEF PlanOK, AttemptOK, HistoryInv, HistoryOK
<1>3. Becomes(p, [p EXCEPT !.state = "DISPATCHED", !.last_attempt = 1])
  BY <1>1, DispatchBecomes
<1>4. plans' = [plans EXCEPT ![id] = [p EXCEPT !.state = "DISPATCHED", !.last_attempt = 1]]
  BY <1>1, <1>2 DEF DispatchPlan
<1>5. [p EXCEPT !.state = "DISPATCHED", !.last_attempt = 1].last_attempt = 1
  BY <1>1 DEF Plan
<1>6. /\ backend'[id].sends = 1
      /\ \A k \in PlanIds \ {id} : backend'[k] = backend[k]
      /\ next_plan_id' = next_plan_id
  BY <1>2 DEF DispatchPlan, idVars, HistoryInv, TypeOK, Backend
<1> QED BY <1>1, <1>2, <1>3, <1>4, <1>5, <1>6

\* HistoryOK is preserved.
LEMMA HistoryStep ==
  ASSUME HistoryInv, [Next]_vars
  PROVE  HistoryOK'
<1> DEFINE P(k) == /\ k >= next_plan_id' => plans'[k] = NoPlan
                   /\ plans'[k].state # "ABSENT" => backend'[k].sends = plans'[k].last_attempt
                   /\ plans'[k].state = "ABSENT" => backend'[k].sends = 0
<1>a. /\ plans \in PlanTable /\ next_plan_id \in Nat
      /\ backend \in [PlanIds -> Backend]
      /\ \A k \in PlanIds :
           /\ k >= next_plan_id => plans[k] = NoPlan
           /\ plans[k].state # "ABSENT" => backend[k].sends = plans[k].last_attempt
           /\ plans[k].state = "ABSENT" => backend[k].sends = 0
      /\ PlanIds \subseteq Nat
  BY DEF HistoryInv, TypeOK, HistoryOK, Stored, PlanIds
<1>b. SUFFICES ASSUME NEW k \in PlanIds PROVE P(k)
  BY DEF HistoryOK, Stored
<1>c. NoPlan.state = "ABSENT"
  BY DEF NoPlan
<1>1. CASE UNCHANGED vars
  BY <1>1, <1>a DEF vars, idVars, execVars
<1>2. CASE Opens
  <2>1. PICK req \in Requests, w \in Workers, b \in Boots, g \in WorkloadGenerations,
             violated \in BOOLEAN : StorePlan(req, w, b, g, violated)
    BY <1>2 DEF Opens
  <2>2. next_plan_id' = next_plan_id + 1
    BY <2>1 DEF StorePlan
  <2>3. CASE k = next_plan_id
    <3>1. backend'[k] = IdleBackend
      BY <2>1, <2>3, <1>a DEF StorePlan
    <3>2. plans'[k] = BuildPlan(req, w, b, g, violated)
      BY <2>1, <2>3, Opening
    <3> QED BY <1>a, <2>2, <2>3, <3>1, <3>2 DEF IdleBackend, BuildPlan
  <2>4. CASE k # next_plan_id
    <3>1. backend'[k] = backend[k]
      BY <2>1, <2>4, <1>a DEF StorePlan
    <3>2. plans'[k] = plans[k] \/ (/\ Becomes(plans[k], plans'[k])
                                  /\ plans'[k].last_attempt = plans[k].last_attempt)
      BY <2>1, <2>4, Opening
    <3> QED BY <1>a, <1>c, <2>2, <2>4, <3>1, <3>2, BecomesStored
  <2> QED BY <2>3, <2>4
<1>3. CASE \E id \in PlanIds : DispatchPlan(id)
  <2>1. PICK id \in PlanIds : DispatchPlan(id)
    BY <1>3
  <2> DEFINE q == [plans[id] EXCEPT !.state = "DISPATCHED", !.last_attempt = 1]
  <2>2. /\ Stored(id) /\ Becomes(plans[id], q) /\ q.last_attempt = 1
        /\ plans' = [plans EXCEPT ![id] = q]
        /\ backend'[id].sends = 1
        /\ \A j \in PlanIds \ {id} : backend'[j] = backend[j]
        /\ next_plan_id' = next_plan_id
    BY <2>1, Sending
  <2> HIDE DEF q
  <2>3. ~(id >= next_plan_id)
    BY <1>a, <1>c, <2>2 DEF Stored
  <2>4. CASE k = id
    <3>1. plans'[k] = q
      BY <1>a, <2>2, <2>4 DEF PlanTable
    <3>2. q.state # "ABSENT"
      BY <2>2, BecomesStored
    <3> QED BY <2>2, <2>3, <2>4, <3>1, <3>2
  <2>5. CASE k # id
    <3>1. plans'[k] = plans[k] /\ backend'[k] = backend[k]
      BY <1>a, <2>2, <2>5 DEF PlanTable
    <3> QED BY <1>a, <2>2, <3>1
  <2> QED BY <2>4, <2>5
<1>4. CASE Quiet /\ \E id \in PlanIds : \E q : Moves(id, q)
  <2>1. PICK id \in PlanIds : \E q : Moves(id, q)
    BY <1>4
  <2>2. plans'[k] = plans[k] \/ (/\ Becomes(plans[k], plans'[k])
                                /\ plans'[k].last_attempt = plans[k].last_attempt)
    BY <1>a, <2>1 DEF Moves, PlanTable
  <2> QED BY <1>a, <1>c, <1>4, <2>2, BecomesStored DEF Quiet
<1>5. CASE Quiet /\ Sweeps
  <2>1. \/ plans[k] = NoPlan /\ plans'[k] = NoPlan
        \/ Becomes(plans[k], plans'[k]) /\ plans'[k].last_attempt = plans[k].last_attempt
    BY <1>5 DEF Sweeps, Swept
  <2> QED BY <1>a, <1>c, <1>5, <2>1, BecomesStored DEF Quiet
<1>6. CASE Quiet /\ plans' = plans
  BY <1>6, <1>a DEF Quiet
<1> QED BY <1>1, <1>2, <1>3, <1>4, <1>5, <1>6, StepKinds DEF HistoryInv

\* The three invariants hold together in one planner process.
LEMMA HistoryInvariant == Spec => []HistoryInv
<1>1. Init => HistoryOK
  BY DEF Init, HistoryOK, Stored, NoPlan, IdleBackend
<1>2. HistoryInv /\ [Next]_vars => HistoryOK'
  BY HistoryStep
<1>3. Spec => ReloadSpec
  <2>1. [Next]_vars => [ReloadNext]_vars
    BY DEF ReloadNext
  <2> QED BY <2>1, PTL DEF Spec, ReloadSpec
<1> QED BY <1>1, <1>2, <1>3, TypeCorrect, Consistency, PTL DEF Spec, HistoryInv

\* Executors never receive one plan twice, in one planner process, whatever
\* receipts, completions, restarts and new plans come in between.
THEOREM SentOnce == Spec => []PlanSentOnce
<1>1. HistoryInv => PlanSentOnce
  <2> SUFFICES ASSUME HistoryInv, NEW id \in PlanIds PROVE backend[id].sends <= 1
    BY DEF PlanSentOnce
  <2>1. CASE Stored(id)
    <3>1. plans[id] \in Plan /\ PlanOK(plans[id])
      BY <2>1, StoredIsPlan DEF Stored, HistoryInv, TypeOK, DurablyConsistent, TableOK
    <3> QED BY <2>1, <3>1 DEF HistoryInv, HistoryOK, PlanOK, AttemptOK
  <2>2. CASE ~Stored(id)
    BY <2>2 DEF HistoryInv, HistoryOK
  <2> QED BY <2>1, <2>2
<1> QED BY <1>1, HistoryInvariant, PTL


-----------------------------------------------------------------------------
(***************************************************************************)
(* What follows for each stored plan, step by step.                        *)
(***************************************************************************)

\* A stored plan stays as it is or becomes what it may become.
LEMMA PlanStep ==
  ASSUME HistoryInv, Next, NEW id \in PlanIds, Stored(id)
  PROVE  plans'[id] = plans[id] \/ Becomes(plans[id], plans'[id])
<1>a. plans \in PlanTable /\ plans[id] # NoPlan
  BY DEF HistoryInv, TypeOK, Stored, NoPlan
<1>1. CASE Opens
  <2>1. PICK req \in Requests, w \in Workers, b \in Boots, g \in WorkloadGenerations,
             violated \in BOOLEAN : StorePlan(req, w, b, g, violated)
    BY <1>1 DEF Opens
  <2>2. id # next_plan_id
    BY <1>a, <2>1, Opening
  <2> QED BY <2>1, <2>2, Opening
<1>2. CASE \E k \in PlanIds : DispatchPlan(k)
  <2>1. PICK k \in PlanIds : DispatchPlan(k)
    BY <1>2
  <2> DEFINE q == [plans[k] EXCEPT !.state = "DISPATCHED", !.last_attempt = 1]
  <2>2. Becomes(plans[k], q) /\ plans' = [plans EXCEPT ![k] = q]
    BY <2>1, Sending
  <2> HIDE DEF q
  <2> QED BY <1>a, <2>2 DEF PlanTable
<1>3. CASE \E k \in PlanIds : \E q : Moves(k, q)
  <2>1. PICK k \in PlanIds : \E q : Moves(k, q)
    BY <1>3
  <2> QED BY <1>a, <2>1 DEF Moves, PlanTable
<1>4. CASE Sweeps
  BY <1>a, <1>4 DEF Sweeps, Swept
<1>5. CASE plans' = plans
  BY <1>5
<1> QED BY <1>1, <1>2, <1>3, <1>4, <1>5, StepKinds DEF HistoryInv

\* Every step of every interleaving moves a stored plan along the table of
\* validate_plan_transition, and the verdict of a terminal plan is final.
THEOREM LifecycleFollows == Spec => LifecycleFollowsTable
<1>1. HistoryInv /\ Next => LifecycleStep
  <2>1. SUFFICES ASSUME HistoryInv, Next, NEW id \in PlanIds, Stored(id)
                 PROVE  \/ plans'[id] = plans[id]
                        \/ Follows(plans[id], plans'[id])
    BY DEF LifecycleStep, Follows
  <2> QED BY <2>1, PlanStep DEF Becomes
<1>2. HistoryInv /\ [Next]_vars => [LifecycleStep]_vars
  BY <1>1
<1> QED BY <1>2, HistoryInvariant, PTL DEF Spec, LifecycleFollowsTable

\* The plan an id stands for keeps its generation, request, target and epoch
\* as long as the planner process lives, so what a report was fenced against
\* is what it is applied to.
THEOREM IdentityStable == Spec => PlanIdentityStable
<1>1. HistoryInv /\ Next => IdentityStep
  <2>1. SUFFICES ASSUME HistoryInv, Next, NEW id \in PlanIds, Stored(id)
                 PROVE  \/ plans'[id] = plans[id]
                        \/ SameIdentity(plans[id], plans'[id])
    BY DEF IdentityStep, SameIdentity
  <2> QED BY <2>1, PlanStep DEF Becomes, Follows
<1>2. HistoryInv /\ [Next]_vars => [IdentityStep]_vars
  BY <1>1
<1> QED BY <1>2, HistoryInvariant, PTL DEF Spec, PlanIdentityStable

-----------------------------------------------------------------------------
(***************************************************************************)
(* The ledger.                                                             *)
(***************************************************************************)

\* LedgerView holds the entry of every plan.
LEMMA ViewIsEntries ==
  /\ LedgerView = [id \in PlanIds |-> EntryOf(plans[id])]
  /\ LedgerView' = [id \in PlanIds |-> EntryOf(plans'[id])]
BY DEF LedgerView, EntryOf

\* One plan moving is a step of its entry.
LEMMA MoveIsLedgerStep ==
  ASSUME plans \in PlanTable, NEW id \in PlanIds, NEW q, Becomes(plans[id], q),
         plans' = [plans EXCEPT ![id] = q]
  PROVE  [Ledger!LedgerNext]_LedgerView
<1> DEFINE e == EntryOf(plans[id])
           f == EntryOf(q)
<1>1. LedgerView = [k \in PlanIds |-> EntryOf(plans[k])]
  BY ViewIsEntries
<1>2. LedgerView' = [LedgerView EXCEPT ![id] = f]
  BY ViewIsEntries DEF PlanTable
<1>3. LedgerView[id] = e
  BY <1>1
<1>4. EntryStep(e, f)
  BY DEF Becomes
<1> HIDE DEF e, f
<1>5. CASE f = e
  <2>1. LedgerView' = LedgerView
    BY <1>1, <1>2, <1>3, <1>5
  <2> QED BY <2>1
<1>6. CASE f = Given(e)
  <2>1. Ledger!Withdraw({id})
    BY <1>1, <1>2, <1>3, <1>6 DEF Ledger!Withdraw, Given
  <2> QED BY <2>1 DEF Ledger!LedgerNext
<1>7. CASE Sent(e, f)
  <2>1. Ledger!Send(id)
    BY <1>2, <1>3, <1>7 DEF Ledger!Send, Sent
  <2> QED BY <2>1 DEF Ledger!LedgerNext
<1>8. CASE Ended(e, f)
  <2>1. PICK v \in Ledger!Verdicts : f = Ledger!Closed(e, v)
    BY <1>8 DEF Ended
  <2>2. Ledger!Conclude(id, v)
    BY <1>2, <1>3, <1>8, <2>1 DEF Ledger!Conclude, Ended
  <2> QED BY <2>2 DEF Ledger!LedgerNext
<1> QED BY <1>4, <1>5, <1>6, <1>7, <1>8 DEF EntryStep

\* plan() opens an entry and closes what its request still had active.
LEMMA OpenIsLedgerStep ==
  ASSUME HistoryInv, Opens
  PROVE  Ledger!LedgerNext
<1>1. PICK req \in Requests, w \in Workers, b \in Boots, g \in WorkloadGenerations,
           violated \in BOOLEAN : StorePlan(req, w, b, g, violated)
  BY DEF Opens
<1> DEFINE n == next_plan_id
<1>2. LedgerView = [k \in PlanIds |-> EntryOf(plans[k])]
  BY ViewIsEntries
<1>3. LedgerView' = [k \in PlanIds |-> EntryOf(plans'[k])]
  BY ViewIsEntries
<1>4. n \in PlanIds /\ plans[n] = NoPlan /\ EntryOf(plans[n]) = Ledger!Unopened
  BY <1>1, Opening DEF EntryOf, Ledger!Unopened
<1>5. EntryOf(plans'[n]) = Ledger!Entry(req, "OPEN", "NONE")
  <2> DEFINE q == plans'[n]
  <2>1. q \in Plan /\ q = BuildPlan(req, w, b, g, violated)
    BY <1>1, Opening
  <2>2. q.request = req /\ q.state = "PLANNED" /\ q.outcome_published = FALSE
    BY <2>1 DEF BuildPlan
  <2> HIDE DEF q
  <2>3. Verdict(q) = "NONE" /\ Phase(q.state) = "OPEN"
    BY <2>2, Phases DEF Verdict
  <2>4. EntryOf(q) = Ledger!Entry(req, "OPEN", "NONE")
    BY <2>1, <2>2, <2>3, EntryOfPlan
  <2> QED BY <2>4 DEF q
<1>6. ASSUME NEW k \in PlanIds, k # n
      PROVE  LET e == EntryOf(plans[k]) IN
               EntryOf(plans'[k]) = IF Ledger!Active(e) /\ e.client = req
                                    THEN Ledger!Closed(e, "NONE") ELSE e
  <2> DEFINE e == EntryOf(plans[k])
  <2>1. CASE ~Stored(k)
    <3>1. plans[k] = NoPlan
      BY <2>1, PlanIsStored DEF Stored, HistoryInv, TypeOK, PlanTable
    <3>2. plans'[k] = plans[k]
      BY <1>1, <1>6, <2>1, Opening
    <3>3. ~Ledger!Active(e)
      BY <3>1 DEF EntryOf, Ledger!Active
    <3> QED BY <3>2, <3>3
  <2>2. CASE Stored(k)
    <3>1. plans[k] \in Plan /\ PlanOK(plans[k])
      BY <2>2, StoredIsPlan DEF HistoryInv, TypeOK, DurablyConsistent, TableOK, Stored
    <3>2. e.client = plans[k].request
      BY <3>1, EntryOfPlan DEF Ledger!Entry
    <3>3. Ledger!Active(e) <=> plans[k].state \notin Terminal
      BY <3>1, LivePhase
    <3>4. \/ /\ plans'[k] = plans[k]
             /\ plans[k].state \in Terminal \/ plans[k].request # req
          \/ /\ plans[k].request = req /\ plans[k].state \notin Terminal
             /\ EntryOf(plans'[k]) = Given(e)
      BY <1>1, <1>6, <2>2, Opening
    <3> HIDE DEF e
    <3>5. EntryOf(plans'[k]) = IF Ledger!Active(e) /\ e.client = req
                               THEN Ledger!Closed(e, "NONE") ELSE e
      BY <3>2, <3>3, <3>4 DEF Given, e
    <3> QED BY <3>5 DEF e
  <2> QED BY <2>1, <2>2
<1>7. Ledger!Open(n, req)
  BY <1>2, <1>3, <1>4, <1>5, <1>6 DEF Ledger!Open
<1> QED BY <1>4, <1>7 DEF Ledger!LedgerNext

\* The planner implements RecoveryLedger: whatever the executors, the other
\* clients and the restarts do, plans are opened, sent and closed as the ledger
\* allows.
THEOREM LedgerRefinement == Spec => ImplementsLedger
<1>1. Init => Ledger!LedgerInit
  BY DEF Init, Ledger!LedgerInit, Ledger!Unopened, LedgerView
<1>2. HistoryInv /\ [Next]_vars => [Ledger!LedgerNext]_LedgerView
  <2> SUFFICES ASSUME HistoryInv, [Next]_vars
               PROVE  [Ledger!LedgerNext]_LedgerView
    OBVIOUS
  <2>a. plans \in PlanTable
    BY DEF HistoryInv, TypeOK
  <2>1. CASE plans' = plans
    <3>1. LedgerView' = LedgerView
      BY <2>1 DEF LedgerView
    <3> QED BY <3>1
  <2>2. CASE Opens
    BY <2>2, OpenIsLedgerStep
  <2>3. CASE \E id \in PlanIds : DispatchPlan(id)
    <3>1. PICK id \in PlanIds : DispatchPlan(id)
      BY <2>3
    <3> DEFINE q == [plans[id] EXCEPT !.state = "DISPATCHED", !.last_attempt = 1]
    <3>2. Becomes(plans[id], q) /\ plans' = [plans EXCEPT ![id] = q]
      BY <3>1, Sending
    <3> HIDE DEF q
    <3> QED BY <2>a, <3>2, MoveIsLedgerStep
  <2>4. CASE \E id \in PlanIds : \E q : Moves(id, q)
    BY <2>a, <2>4, MoveIsLedgerStep DEF Moves
  <2>5. CASE Sweeps
    <3>1. ASSUME NEW k \in PlanIds
          PROVE  EntryOf(plans'[k]) = Given(EntryOf(plans[k]))
      BY <2>5 DEF Sweeps, Swept, Given, EntryOf, Ledger!Active
    <3>2. LedgerView' = [k \in PlanIds |-> Given(LedgerView[k])]
      BY <3>1, ViewIsEntries
    <3>3. Ledger!Withdraw(PlanIds)
      BY <3>2 DEF Ledger!Withdraw, Given
    <3> QED BY <3>3 DEF Ledger!LedgerNext
  <2>6. CASE UNCHANGED vars
    BY <2>1, <2>6 DEF vars
  <2> QED BY <2>1, <2>2, <2>3, <2>4, <2>5, <2>6, StepKinds DEF HistoryInv
<1> QED BY <1>1, <1>2, HistoryInvariant, PTL DEF Spec, ImplementsLedger, Ledger!LedgerSpec

=============================================================================
