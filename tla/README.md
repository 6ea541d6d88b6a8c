# Recovery Planner: specification, model checking and proofs

This directory specifies the Recovery Planner library in TLA+, checks the
specification with TLC on small instances, and proves its central invariants
with TLAPS. Source paths below are those of the repository; line numbers are in
`PROJECT.json` under `map`, one entry per definition.

## 1. The system

A client asks the planner how to recover a failed workload. It passes a request
(deadline, tolerated loss, forbidden strategies) and a vector of candidates, each
with evidence about state, compatibility, target, resources and cost. The planner
judges each candidate's feasibility against its own view of the world, ranks the
feasible ones that meet the request's hard constraints, and stores a plan that is
fenced to the coordinator epoch and to the target's boot. The plan is then
authorized, optionally revalidated, and handed to an executor, which reports
completion through a callback on any thread. State is saved to a store, and a
coordinator restart reloads it under a new epoch.

### Inventory

| Component | State | Operations | Interacts with | Hard behaviour | What makes it correct |
|---|---|---|---|---|---|
| Plan lifecycle (`plan.cpp`) | none | `validate_plan_transition`, `plan_authority_current` | planner | the table is the only thing between racing handlers | terminal states are final; edges in the planner agree with the documented lifecycle |
| Planner (`planner.cpp`) | context, plans, requests, id counters, dispatch table, history | plan, authorize, revalidate, dispatch, report, adapter completion, cancel, invalidate, world maintenance, save, load, restart | everything; one mutex, released around `executor.dispatch` and before `report_execution` | receipts and completions in any order, throwing executors, supersession in flight, restarts, crashes, reloads | one live plan per request, final verdicts, each plan sent once, success only when earned, nothing survives its epoch |
| Feasibility (`feasibility.cpp`) | none; reads the context | `evaluate_feasibility` | planner context, evidence | evidence observed in one world and judged in another; absent and unknown evidence | never feasible across a restart, without mandatory evidence, or because the world got worse |
| Economics (`economics.cpp`) | none | `evaluate_deadline`, `compute_economics`, `candidate_precedes` | plan selection | optional values, saturation, overflow | a strict order with one winner; honest deadlines |
| Plan selection (`plan()`) | the stored plan's deadline verdict | eligibility, ranking, fallback | feasibility, economics, clock | a verdict computed once and used later | hard constraints kept; a verdict of lateness stays right; a plan that is used is still in time (it need not be, section 3) |
| File store (`persistence.cpp`) | one file and one temp file per key | save, load | planner | failure or crash between any two steps | a load never goes back in time; a failed replacement keeps the old file (it does not, `SR_Replacement`) |
| Snapshot (`encode_snapshot`, `apply_snapshot`, `digest.hpp`) | the encoded planner | encode, apply, inside save, load and restart | planner, file store | a decode that stops in the middle; fields that are not stored | a crash restores a state that was; a restart loses no plan; a load restores what was saved |
| Executors (`executor.cpp`, `coordinator_main.cpp`) | their own | dispatch, completion callback | planner | slow, throwing, ambiguous, never answering | external to the planner; the network executor is modelled with the coordinator |
| Protocol and transport (`protocol.cpp`, `transport.cpp`) | a connection | encode, decode, send_frame, recv_frame | coordinator and workers | partial reads and writes, broken connections, damage, limits | payloads come out whole, once, in order, with their meaning |
| Distributed proof (`coordinator_main.cpp`, `worker_main.cpp`) | step of a program; worker processes | spawn, accept, register, run, kill, plan, dispatch, complete, stop | planner, evaluator, transport | workers that die, connections in either order, answers that never come | a published verdict is the target worker's (`DR_WrongWorker` shows when not); every end has a cause; nobody is left waiting |
| Digests, explanations, history text, CLI, CUDA, benchmarks | none that decisions use | - | - | - | not modelled |

### Hazards

`PROJECT.json` lists them at their lines. The ones that shaped the models: dispatch
ids reused across plans, also by completions that come twice; a receipt applied after
the plan moved on; a completion resolved under the mutex and reported after it was
released; restarts and reloads with plans in flight; counters and deadline verdicts
missing from the snapshot; evidence that outlives the world it describes; orderings
over unknown values; unsaturated time arithmetic; the steps of a file save; snapshots
applied by half; frames split by the socket; and workers that connect in either order,
die with an answer unsent, or outlive their coordinator.

## 2. The modules

| Module | Models | Uses |
|---|---|---|
| `PlanLifecycle` | lifecycle states, terminal states, transition table | - |
| `RecoveryPlanner` | the planner object: plans, fences, dispatch, reports, cancel, restart, snapshot, crash | `PlanLifecycle`; `INSTANCE RecoveryLedger` |
| `RecoveryLedger` | abstract: what clients may rely on | - |
| `Feasibility` | `evaluate_feasibility` over a changing context | - |
| `Economics` | deadline arithmetic, objectives, comparator | - |
| `PlanSelection` | the decision in `plan()` and the plan's deadline as time passes | `Economics` |
| `FileStore` | the steps of `save`, and `load` | - |
| `SnapshotRecovery` | the snapshot's encoding and its application, over the file's steps, with crashes | `FileStore`, `PlanLifecycle` |
| `Protocol` | the message codec | - |
| `MessageChannel` | abstract: what one direction of a connection promises | - |
| `FrameTransport` | `send_frame` and `recv_frame` over a socket | `Protocol`; `INSTANCE MessageChannel` |
| `DistributedRecovery` | coordinator, network executor, workers | `RecoveryPlanner`; `INSTANCE Feasibility`, `PlanSelection` |
| `RecoveryPlannerProofs` | proofs: types, consistency of memory and snapshot | `RecoveryPlanner` |
| `PlanHistoryProofs` | proofs: what becomes of a plan over time, the ledger refinement | `RecoveryPlannerProofs` |
| `SerialDispatchProofs` | proofs: under which clients success is earned | `PlanHistoryProofs` |
| `FeasibilityProofs`, `PlanSelectionProofs`, `SnapshotRecoveryProofs`, `FrameTransportProofs` | proofs | the modules they are named after |
| `DistributedRecoveryProofs` | proofs: the coordinator's program, its planner and its workers together | `DistributedRecovery`; `INSTANCE FeasibilityProofs` |
| `MCRecoveryPlanner`, `MCFeasibility`, `MCPlanSelection`, `MCFrameTransport` | instances for TLC | |

Operators whose comment starts with `Mutant:` are deliberately wrong variants of
the definition that follows them. No specification uses them; replacing the real
definition by one of them must make the property that `mutants` names fail, which
shows that the property depends on that piece of code.

### RecoveryPlanner

Variables carry the names of the members they stand for (`plans`, `dispatch_meta`,
`next_plan_id`, ...). Every public method is one critical section of the mutex and
hence one action that includes everything the method does. Two methods are split
where the code unlocks: `DispatchPlan` / `DispatchReturn` (or `DispatchThrow`) around
`executor.dispatch`, and `OnAdapterCompletion` / `DeliverCompletion` around the
unlock before `report_execution`. Calls that throw or return early change nothing.
`calls` and `completions` are the threads that are between the halves; `backend` is
external: what the executors were handed, under which dispatch id, and what they
reported. `OnAdapterCompletion` takes any dispatch id that was handed out, any number of
times; `RepeatedReports = FALSE` restricts the executors, not the planner, to one report
per dispatch.

* `plan()` is `PlanFound` or `PlanFallback`. Any worker and boot may be the target,
  because neither the evaluator nor `build_plan` compares the candidate's own
  target with the context (the evaluator looks at the availability evidence).
* `SaveState(readable)` and `RestartCoordinator(readable)`: with `readable = FALSE`
  the store is left with nothing a load accepts. This covers a write error that
  surfaces only when the stream is closed, and a save interrupted between remove
  and rename. The steps are in `FileStore`; `SnapshotRecovery` shows with
  `StoreHoldsOneMoment` that what they leave is a snapshot of the planner as it is, or
  nothing, so that one step with these two outcomes may stand for all.
* `NewProcess` is a crash at any point followed by a construction over the same
  store; `LoadState` is `load_state` of a snapshot that decodes to the end
  (`SnapshotRecovery` has the others). `ReloadSpec` allows both at any time,
  `RecoverSpec` allows `load_state` only on a planner that holds no plan.
* Abstractions: `planner_boot` always moves with the epoch; the policy,
  compatibility, resource and topology generations are compared by the code but
  never change; pending completions that are identical merge in a set, which
  matters not since a second identical report is refused; timestamps other than
  deadlines, history and explanations are left out.

`RecoveryLedger` says what the whole amounts to: a plan is opened, sent and closed
at most once; opening one closes the other active ones of the same request; only a
sent plan gets a verdict; a verdict is final. `ImplementsLedger` is the refinement.

### Feasibility

One definition per section of the evaluator, each giving the set of flags it
raises; `Aggregate` turns flags into the verdict. A `std::optional` is a set with at
most one element. Candidates start as faithful observations of the world and are
altered in at most `MaxDefects` respects; meanwhile the world changes under them.
The one resource kind is non-empty (for an empty kind name the code skips the
comparison with the planner's view). The planner never fills the reference
compatibility table, so what it would say enters as `reference_rejects`.

`AuthorityCurrent` is what `plan_authority_current` says of the plan that `build_plan`
makes of a candidate: it also compares the workload generation, which the plan has from
the request. `FeasibleIsAuthorizable` therefore assumes a request of the context's
generation; without that it is false.

A fact worth knowing, not a property: a RECOMPUTE candidate needs no live target to
be feasible, yet `authorize_plan` requires one, so `FeasibleIsAuthorizable` is stated
for the other strategies.

### Economics and PlanSelection

Times are integers of a word `-MaxInt-1 .. MaxInt`; saturation and wrap-around happen
at its ends as they do at 64 bits. `now + max_recovery_duration` is signed overflow in
C++: `WrapAdd` wraps, and `ClampDropped` covers builds that use the licence to decide
the following comparison algebraically. `Front` is the set of indices that
`std::sort` may put first. `Problems` is a set of pairs of a request and its candidates;
feasibility verdicts are inputs here. After the decision only the clock moves (`Tick`):
no later handler computes a deadline, and `revalidate_plan` reads the stored verdict.

### FileStore and SnapshotRecovery

`FileStore` has the four steps of `save`, each of which may be the last one before a
throw or a crash (`Abandon`), unnoticed short writes, a failing `remove` (its error
code is overwritten), `load`, and external damage to the file (truncated or corrupt;
the code's several checks of a header are not told apart). Payloads are the numbers of
the saves that wrote them. That the checksum detects damage is assumed.

`SnapshotRecovery` runs these steps inside `save_state` and `restart_coordinator`.
`mode` is the call that holds the mutex across them. `memory` is the part of the planner
that the snapshot is about. `EncodeSnapshot` leaves out what `encode_snapshot` leaves out
(a plan's deadline evaluation); `ApplySnapshot` replaces context and requests while it
decodes and gives up at the first text that `ByteReader::cstring` refuses, with the
plans untouched; its result is ignored, as in `load_locked`. Texts are "short" or "long"
relative to that reader's limit of 4096. Every plan targets one worker, so that the
fence is the epoch and whether that worker is registered. `late` is a history variable.

### Protocol, MessageChannel and FrameTransport

A unit on the wire is one field of fixed width; a text is a length and its contents.
`SendChunk` and `RecvChunk` are single turns of the loops in `send_all` and `recv_all`
and move any number of units; `BufferSize` is less than a frame. `stage` is which of
the three `recv_all` of `recv_frame` runs, or how it ended: `ended` (returned false) or
`threw`. `Break` loses any suffix of what is on the way, `Damage` changes a unit; both
are external. `ImplementsChannel` is the refinement of `MessageChannel`, where a payload
has the meaning of the message that encodes to it and no other, so that `Decode` is
checked against `Encode` and not against itself.

### DistributedRecovery

The coordinator is one thread with a fixed program per scenario: `pc` is the step it is
at, `Following` the step that follows, and `exit` how it ended (each early return of
`main` and `run_restart_proof` has a name, an `accept` that returns nothing included).
Worker processes are told apart
by the boot they run under. The planner's part of a step is an action of
`RecoveryPlanner` (`RegisterWorker`, `PlanFound`, `AuthorizePlan`, `DispatchPlan`,
`OnAdapterCompletion`, `DeliverCompletion`, `DispatchReturn`), and the plan `Decide`
stores is the one that `Feasibility` and `PlanSelection` give for the four candidates
that the program builds, figures included. `Await` is `NetworkExecutor::dispatch`
waiting for its answer, whose outcome is `ReportedOutcome`; no worker of this program
sends a failure. Connections carry whole messages in order, which is what
`FrameTransport` shows of them. Deaths are external: of a worker, with any suffix of
what it had sent lost, and of the coordinator. Spawning and killing are as the Windows
build has them; elsewhere they are stubs that fail.

## 3. What is checked

Passing runs (distinct states in parentheses):

| Run | Shows |
|---|---|
| `RP_Lifecycle` (338 000) | lifecycle table, one live plan per request, agreeing verdicts and attempts, no plan sent twice, stable identities, refinement of the ledger; all interleavings of two plans with two boots, repeated completions and direct reports |
| `RP_Serial` (49 000) | with one dispatch outstanding and executors that report once: success is earned, restarts leave nothing live, dispatched plans conclude |
| `RP_Reload` (1.5 million) | memory and snapshot stay consistent over saves, failed saves, restarts, crashes and reloads |
| `FE_Evaluator` (743 000) | all strategies and all single defects of the evidence in a changing world, requests of the context's and of another workload generation: restart, re-registration, loss, absence, and unknown integrity, compatibility, readiness and resource status |
| `SE_Selection` (76 000) | triples with unknown values, pairs that tie early, and every deadline, duration and time of a 4-bit word: one winner, undominated, absolute and relative deadlines and known losses kept, lateness permanent |
| `SR_Durability` (1.6 million) | every step of a save as the point of a throw, a crash or damage, with texts the reader refuses: loads never stale and of one moment or empty, restarts keep the plans, late plans stay refused, short texts restored whole |
| `TR_Frames` (246 000) | every split of reads and writes, breaks, one damaged unit, payloads at and over the limits: refinement of the channel, nothing undamaged refused, frames arrive |
| `DR_Recovery` (4 900) | all four scenarios with deaths at any point, failing accepts and both orders of connection: a verdict is a success that the worker behind the dispatching connection performed, the planner never to blame, failures have a cause, the coordinator ends, no orphans |

Deadlock is checked in the planner, feasibility and snapshot runs. `SE_*`, `TR_*` and
`DR_*` switch it off: the clock and the number of frames are bounded, and the proof
programs end.

Runs in which TLC finds a violation record a disagreement between the code and a
comment, document or test; each has an entry in `findings` with the quotation:

| Run | The code |
|---|---|
| `RP_DispatchIdCollision` | dispatch ids are per-plan attempt counters, so two outstanding plans share id 1 and a completion goes to the wrong plan |
| `RP_RecoverIdentity` | id counters are not persisted; a recovered process reuses ids and generations |
| `SR_Replacement` | the old file is removed before the new one is renamed: a crash in between leaves no snapshot |
| `DR_WrongWorker` | when worker B connects first, the dispatch goes to worker A; `kill_process` does not wait, so worker A's answer can be published as worker B's success, and the run ends "ok" |

Other places where code and documentation differ. They are visible in the
definitions named and have no run of their own; where a property of a passing run would
be false without leaving them out, it says so.

* `OnAdapterCompletion` takes a dispatch id again when it was given to another plan: a
  completion that an executor repeats (`executor.hpp`, line 100, names "duplicate
  completions") after the next plan was dispatched, under the same id 1, concludes that
  plan, also when clients keep one dispatch outstanding (`README.md`, lines 168 to 170:
  stale completion traffic is rejected). `RP_Serial` with `RepeatedReports = TRUE` has
  the trace; `SuccessIsEarned` is checked and proved for executors that report once.
* `ValidatePlanTransition` has no edge from DISPATCHED or EXECUTING to CANCELLED, so that
  `cancel_plan` with `force` returns false for every dispatched plan (`planner.hpp`,
  lines 125 and 126: "force allows cancelling a dispatched plan only when the commit
  boundary has not been crossed"). No property relies on it.
* `FeasFlags`: no section compares the request's workload generation with the context's
  (`planner_context.hpp`, line 5: "The planner fenced every candidate against this
  context"). For a request of another generation a plan is built that
  `AuthorityCurrent` refuses for good; `FeasibleIsAuthorizable` leaves it out.
* `ShadowFlags` rejects only an INCOMPATIBLE shadow, and `AgeFlags` raises nothing for
  UNKNOWN freshness (`feasibility.hpp`, line 7: "UNKNOWN never becomes FEASIBLE by
  default"). `UnknownStatusRejected` leaves both out.
* `CandidatePrecedes` ranks unknown preserved progress before every known one: the
  arguments of `cmp_lower_better`, for which known beats unknown, are swapped
  (`economics.cpp`, line 26: "unknown treated as worst"). `WinnerIsUndominated` compares
  candidates whose preserved progress is known.
* `EffectiveDeadline` moves a past deadline up to now, so that a recovery of no duration
  is PLAN_FOUND after a hard deadline is over (`economics.hpp`, line 7: "a candidate that
  violates a hard deadline never wins"). `LatestEnd` in `HardConstraintsKept` says so.
* `BuildPlan` of `PlanSelection` stores the deadline verdict that `revalidate_plan` reads
  later without looking at the clock (`planner.cpp`, line 717: "Deadline must still be
  viable"): a plan in time when it was made passes after its deadline.
* `DecodePlan` drops that verdict: a plan built past its deadline, restored by
  `load_state` with its epoch, passes as well. `LateStaysRefused` ends at a `load_state`.
* `DecodeRequests`: a request text above 4096 characters is saved and not loaded; the load
  stops there, keeps what it had replaced, and reports success (`README.md`, line 179:
  requests and plans are persisted). `ShortTextsRestored` leaves such texts out.
* `LoadState` resumes AUTHORIZED plans, which may have been dispatched before the crash
  (`README.md`, line 186, speaks of `restart_coordinator` only). `PlanSentOnce` therefore
  holds for `Spec` and not for `ReloadSpec`.
* `RevalidateAccepts` in `SnapshotRecovery` has no condition on the state: dispatched and
  terminal plans are returned too (`planner.hpp`, line 107).
* `DispatchPlan` never reads the clock and nothing sets EXPIRED, although `README.md`,
  line 173, speaks of dispatching expired plans as something that is rejected.
* `ApplySnapshot` has taken the snapshot's epoch when it gives up, so that a failed
  `load_state` leaves the planner's own plans under another epoch.
* `Accept` takes the workers in the order they connect. If worker B connects first, the
  coordinator dispatches over the connection of worker A, which it has just told the
  system to end: either no answer comes and the proof fails, a cause that
  `FailureHasCause` names, or worker A still answers and the proof ends "ok" with worker
  A's success under worker B's boot, which is `DR_WrongWorker`. `VerdictIsTheWorkers`
  says what holds in both orders.
* `Filled`: `recv_frame` throws on a damaged frame and neither process catches it, while
  `transport.hpp` calls itself resilient to malformed frames.
* `CompatibilityFlags` accepts absent compatibility evidence when the request states no
  requirement.
* `ComputeEconomics` takes an unknown loss as within a hard tolerance, which is why
  `HardConstraintsKept` speaks of a known loss.
* `OutcomeOf` gives NO_DEADLINE_FEASIBLE_PLAN also when candidates meet the deadline and
  fail only the tolerance (`planner.hpp`, line 35).
* `WrapAdd`: a maximum duration that takes the sum past the word gives an early deadline,
  so plans that would be in time are refused. `DurationFits` excludes that case;
  `HardConstraintsKept` includes it, for the error is on the safe side. With a negative
  clock and a negative duration it would not be (`NoPromise`).

### Bounds

* Two plans of two requests (`MaxPlans`) are enough for supersession, for a
  collision of dispatch ids and for late reports about a replaced plan. One worker
  with two boots gives every fence failure of a target; workers do not interact.
* `MaxEpoch = 2` is one coordinator restart, `MaxSends = 2` leaves room for the second
  dispatch that `PlanSentOnce` forbids, `MaxInFlight` is how many dispatches the
  clients keep outstanding. `RepeatedReports` is TRUE in `RP_Lifecycle` and FALSE
  in the other planner runs, which have no adapter completions (`RP_Reload`) or ask
  about executors that report once.
* In `RP_Reload` executors report nothing through the adapter (`CompletionOutcomes` is
  empty) and reports arrive directly, which reaches the same plan states with fewer
  interleavings; `Consistency` in section 4 covers the rest.
* `MaxDefects = 1`: sections of the evaluator raise flags independently, so a
  candidate accepted in spite of two defects is accepted in spite of one. Two requests:
  one with compatibility requirements, and one without them, with a forbidden strategy
  and of another workload generation.
* Candidate vectors of length three can show a cycle of the ranking; `MaxInt = 7` has
  room for every relative position of now, deadline, duration and the word's ends, past
  deadlines, negative durations and overflowing sums included.
* `SR_Durability`: one request with two plans, one superseding the other; two saves, one
  completed and one failing anywhere; two epochs. Snapshots that no load can reach any
  more are forgotten. That a load stops between two requests is out of its bounds and
  covered by the proofs, which are about any set of requests.
* `TR_Frames`: two frames, so that the second is parsed at the place where the first
  ended; a socket of four units, fewer than the shortest frame of a message; texts
  of at most one word, and payloads with lengths at, over and past the limits.
* `DR_Recovery`: the program makes one plan and starts at most two workers, under three
  boots; its figures are the real ones.

### Fairness

`FairSpec` assumes that an executor returns from `dispatch`, that an executor which
was handed a dispatch reports on it, and that the thread inside
`on_adapter_completion` is eventually scheduled (it holds no lock and waits for
nothing but the mutex, which is never held across a wait). The first two are the
contract of `IRecoveryExecutor`; the reference executor reports before it returns.
No client call is fair. `DispatchedConcludes` is stated for executors that do not
throw and for one outstanding dispatch: a throw leaves the plan DISPATCHED, and with
two outstanding dispatches a completion can be credited to another plan.

`FrameTransport` assumes that both loops keep calling the socket, and that a socket with
room or data makes progress; nothing in them sleeps or gives up. In
`DistributedRecovery` the coordinator and each worker are processes that the operating
system schedules, and a process that was killed ends. Nothing forces a worker to die or
a message to be lost. `CoordinatorEnds` leaves out the one wait that nothing ends:
`accept` has no timeout, and a worker that dies before it connects is never missed. That
`accept` fails is possible at any time and never assumed.

Symmetry (workers, boots, requests) is used only in `RP_Lifecycle`, which checks no
liveness property.

## 4. What is proved

Every invariant, action property and refinement of the passing runs is proved for all
values of the constants; liveness is not. The proofs
rest on the named assumptions of the modules: bounds are naturals, `NoBoot` is not a
boot, the sets of inputs are well-typed, `Start <= MaxNow`, `Messages` are the
messages that `Payloads` encode, and the program of `DistributedRecovery` has its two
workers and three boots. Two theorems have a hypothesis of their own, given below.

### RecoveryPlanner

* `TypeCorrect`: `ReloadSpec => []TypeOK`. The type invariant includes that a pending
  backend entry has a dispatch id in the table's domain; without it the lookup in
  `OnAdapterCompletion` cannot be typed.
* `Consistency`: `ReloadSpec => []DurablyConsistent`. One live plan per request is not
  inductive once `load_state` may run at any time: the snapshot has to satisfy it
  too, and a snapshot's live plans have to belong to the snapshot's own epoch. So the
  invariant `TableOK(table, epoch)` is stated of a table and an epoch and holds of the
  pair in memory and of the pair in the store. The proof shows that every action
  other than `StorePlan` and `LoadState` makes each plan of the new table *descend* from
  the old one: a plan that is live was live before, with the same request and epoch,
  and each plan's own record stays in order. Descent preserves `TableOK`; `StorePlan`
  adds one plan and supersedes the others of its request; `LoadState` copies the
  store's pair.
* `OneLiveAlways`, `EpochFencing`, `VerdictConsistency` and `AttemptConsistency` follow
  from `Consistency`, so they hold with crashes and reloads as well.
* `SentOnce`, `LifecycleFollows`, `IdentityStable` and `LedgerRefinement` are theorems of
  `Spec`, a process that does not reload (with reloads the first and the third are
  false, see section 3). `HistoryInv` adds to the above what the past has left behind:
  ids not yet given out have no plan, and a plan's attempt counter is the number of times
  executors received it. Each action is one of four kinds: it leaves the table alone,
  opens one plan and supersedes others (`Opens`), replaces one plan by one that it
  `Becomes`, or sweeps the table (`Sweeps`, the restart). That a plan follows the
  table, keeps its identity and takes a step of the ledger is then shown once for
  `Becomes` and not once for each handler.
* `SuccessEarned`: `[]SuccessIsEarned`, under `SerialClients`: `MaxInFlight <= 1`, clients
  report no success of their own, and executors report once per dispatch
  (`~RepeatedReports`). The hypothesis is the point, for nothing in the planner enforces
  any of it: without the first part TLC has the counterexample of
  `RP_DispatchIdCollision`, without the last a repeated completion for one plan is taken
  for the next one's. `SerialOK` says that at most one
  dispatch is outstanding, that an entry of `dispatch_meta` is that dispatch's own, and
  that a completion on its way says what the executor of that plan said.

### Feasibility

Each section of the evaluator is shown to be silent *exactly* when its evidence is good
(`AuthoritySection` to `StrategySection`), hence `FeasibleExactly`: a verdict is FEASIBLE
if and only if `EvidenceGood`. `UnknownRejected`, `FeasibleAuthorizable`, `RestartEnds` and
`AbsenceRejected` follow from it and the types (`TypeCorrect`), for any number of defects.
`FeasibleAuthorizable` is about requests of the context's workload generation, and
`UnknownRejected` about the statuses that `UnknownStatusRejected` names.
`LossIsLoss` compares the two worlds of a step: `EvidenceGood` in the smaller one implies it
in the larger one.

### Economics and PlanSelection

* `PrecedesAsymmetric`, `PrecedesTotal`, `PrecedesTransitive`: `candidate_precedes` is a
  strict order on candidates with distinct ids, unknown values included.
* `UniqueWinner` follows from totality. `WinnerFound` needs a first element of an arbitrary
  finite pool and avoids induction over pools: of all candidates take one with the
  fewest predecessors (a least natural number exists); a predecessor of it would have
  fewer still, by transitivity and asymmetry.
* `Undominated`: what comes first is not dominated, and `SelectedCameFirst` says that the
  selection came first at the time the plan was created.
* `HardConstraints` and `DurationKept`: for every word size. The inductive invariant
  `SelectionInv` says that a PLAN_FOUND decision is an eligible index at the time the
  plan was created; the rest is arithmetic about saturation and wrapping
  (`HardFeasibleFits`). The limits are in the statement: a past deadline counts as now, an
  unknown loss passes, and `NoPromise` says where time arithmetic promises nothing.
* `LatenessPermanent`, for `MaxNow < MaxInt`. At the largest timestamp the property is
  false: a deadline that is over counts as now, and now plus any duration saturates at
  now, so that every recovery is on time.
* `SelectionTypeCorrect`: the plan's deadline stays a word although a sum wraps.

### FileStore and SnapshotRecovery

`SnapshotInv` has two parts. `FileOK`: the file's payload lies between the last save that
returned and the newest save, the temporary file belongs to the save under way, and after
the rename the file does too. `SnapshotOK`: a save under way has stored the encoding of
the planner as it still is (the mutex is held), and a restart that has saved reads back
that or nothing. `NeverStale`, `StoreOfOneMoment` and `RestartKeeps` follow; `ShortRestored` is
about one step, and shows that `ApplySnapshot` undoes `EncodeSnapshot` field by field.
`LateRefused` needs `LateOK`: a late plan is marked late, or of an epoch that is over.

### Protocol and FrameTransport

* `DecodeIsMeaning`: for every payload, `decode` gives what `MessageChannel` means by it.
  `DecodeEncode` (decode undoes encode, within the limits) and `EncodeDecode` (decode
  accepts nothing else) are its lemmas.
* `CleanAccepted`: `Spec => []CleanNeverRejected`, and `ConnectionIsChannel`:
  `Spec => ImplementsChannel`, for any payloads, buffer size and number of frames. The
  invariant `TransportInv` puts what `recv_frame` has of the current frame, the wire and
  what `send_all` has still to write into one stream: there are offsets at which the
  frames taken on and not yet received end, and every unit is the one its frame has at
  that place, but for one damaged unit at most. Reading moves units within the stream;
  sending, breaking and damaging each change it in one respect (`StreamSends`,
  `StreamBreaks`, `StreamDamaged`). `ChecksumTells` carries the weight: if the checksum
  agrees, the damage is not in this frame, although a damaged length may have made the
  receiver read past its end or stop short of it. So the next frame is parsed where it
  begins (`StreamDelivers`). That different payloads have different checksums is part of
  the model.

### DistributedRecovery

`VerdictIsAlwaysTheWorkers`, `PlannerIsNeverToBlame` and `FailureAlwaysHasCause`, for any
set of scenarios, all bounds of the planner, deaths of any process and failing accepts at
any point. The first speaks of the worker behind the second connection, and of the
plan's target when that is the one (worker A accepted first, or RESTART).
`DistributedAssumption` names the program's workers, boots and request and has them
differ as the constants of `coordinator_main.cpp` do; `FiguresAssumption` says that the
bounds admit one plan with one dispatch and that a word has room for the figures of
`build_candidate`.

None of the three properties is inductive, because what a step of the coordinator does
depends on what earlier steps have left in the planner and on the connections.
`DistributedInv` therefore says it for every step of the program (`DistributedInvariant`):

* `StepOK`, `WorldOK`, `PlannerOK`: the step belongs to the scenario's program, and which
  plan, dispatch entry, hand-over and completion the planner holds at it. There is one
  plan, so these are equations and not bounds.
* `ConnOK`: a boot connects once and is behind one connection; a slot is empty exactly
  before its `accept`. Without it two slots might share a channel.
* `WorkOK`: a DISPATCH is on its way to a worker at most once and is performed at most
  once; an answer COMPLETE in any channel says that its worker has performed it; a
  receipt DISPATCHED was such an answer.
* `CleanOK`: as long as no worker has died of itself and the connections are in the
  expected order (`Clean`), each worker is exactly where the coordinator's step expects
  it: absent, joining, ready, or busy with one order whose answer is on its way or has
  arrived (`Orderly`). In particular no channel holds an answer to an earlier order.

The argument follows these parts. `Decision`: for the four candidates of each scenario,
the expected one is ranked first and the outcome is PLAN_FOUND; the feasibility of each
candidate comes from `FeasibleExactly` of `FeasibilityProofs`, whose evaluator is shown to
be the same one (`SameVerdict`), and the ranking is arithmetic on the figures.
`FirstPlan` to `SuccessIsFinal` say what each handler of `RecoveryPlanner` makes of the one
plan, and `CoordStep` puts them together along the program, stale traffic included. So
`PlannerNeverToBlame` is independent of what the workers do. `NetStep` and `WorkStep`
concern connections and work, `CleanStep` the exchanges: a step that leaves `Clean` true
moves one worker through its order and answer. An early return on a missing or wrong
answer contradicts `Orderly`, so the run is not clean, which is `FailureHasCause`.

### Only model-checked

Liveness under fairness, which the installed provers do not reach: `DispatchedConcludes`,
`EveryFrameArrives`, `CoordinatorEnds`, `NoOrphans`.

## 5. Not modelled

* Two processes on one store directory.
* Unlocked readers (`context()`, `history_*`): a data race below the grain of actions.
* Digests, the byte layout of the codecs, explanation and history text: no decision of
  the planner reads them. CLI, examples, benchmarks and the CUDA program call the
  operations modelled here in a fixed order and keep no state of their own.
* Unknown scenario names and the stubs of builds for other systems than Windows; an
  exception on a damaged frame inside the coordinator or a worker, which ends the
  process and is covered as a death.
* Payloads above the store's limit: `save` throws before it changes anything.

## 6. Plan

Written, in this order: lifecycle and planner with its ledger, planner proofs,
feasibility, economics and selection with proofs, file store, transport with its
channel, distributed recovery, snapshot recovery over the file store; then the proofs
of plan histories and the ledger, of serial dispatch, of the evaluator, of the rest of
plan selection, of snapshots, of the transport and of distributed recovery.

Left: two writers on one store directory.
