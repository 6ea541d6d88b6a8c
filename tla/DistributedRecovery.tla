------------------------- MODULE DistributedRecovery -------------------------
(***************************************************************************)
(* The distributed recovery proof: the coordinator process                 *)
(* (coordinator_main.cpp), which runs a RecoveryPlanner and hands its plan *)
(* to a worker through a NetworkExecutor, and the worker processes         *)
(* (worker_main.cpp) at the other ends of its connections.  Both run as    *)
(* the Windows build has them; elsewhere spawning and killing are stubs.   *)
(*                                                                         *)
(* The coordinator is one thread that follows a fixed program, so its      *)
(* state is a step of the program of its scenario; the planner's           *)
(* handlers are the actions of RecoveryPlanner, and the plan it finds is   *)
(* the one that Feasibility and PlanSelection give for the candidates the  *)
(* program builds.  A connection is a channel of whole messages each way   *)
(* (FrameTransport).  A process may die at any moment.                     *)
(***************************************************************************)
EXTENDS RecoveryPlanner, Sequences

CONSTANTS
  Scenarios,               \* scenarios the coordinator is started with
  WorkerA, WorkerB,        \* kWorkerA, kWorkerB
  BootA, BootB, BootC,     \* kBootA, kBootB, kBootC
  Req,                     \* the one request
  Unknown, MaxInt          \* of Economics

ASSUME DistributedAssumption ==
  /\ Scenarios \subseteq {"RESTORE", "RECOMPUTE", "SHADOW", "RESTART"}
  /\ Workers = {WorkerA, WorkerB} /\ WorkerA # WorkerB
  /\ Boots = {BootA, BootB, BootC}
  /\ BootA # BootB /\ BootB # BootC /\ BootC # BootA
  /\ Requests = {Req}

\* The bounds admit the one plan, and its figures are words.
ASSUME FiguresAssumption ==
  /\ MaxPlans >= 1 /\ MaxSends >= 1
  /\ Unknown \notin Int /\ MaxInt \in Nat /\ MaxInt >= 500000

VARIABLES
  scenario,            \* --scenario
  pc,                  \* step of the coordinator's program
  exit,                \* "none" while the coordinator runs, or how it ended
  heard,               \* the first registration was one
  status,              \* status of the executor's receipt
  rejected,            \* stale traffic was rejected so far
  resource_available,  \* ctx_.resource_available["gpu_mem"]
  recompute,           \* ctx_: workload generations with recompute lineage
  proc,                \* worker process of a boot
  killed,              \* processes the coordinator has terminated
  backlog,             \* connections not yet accepted, by the boot behind them
  conn,                \* the boots behind the first and the second connection
  toWorker, toCoord,   \* messages on their way
  performed,           \* history: how often a worker performed the plan
  faulted              \* history: processes that died of themselves

world     == <<resource_available, recompute>>
coordVars == <<scenario, pc, exit, heard, status, rejected, world>>
history   == <<performed, faulted>>
netVars   == <<proc, killed, backlog, conn, toWorker, toCoord, history>>
notes     == <<scenario, heard, status, rejected, world>>
procs     == <<proc, killed, backlog, conn>>
allVars   == <<vars, coordVars, netVars>>

Running == exit = "none"
Restart == scenario = "RESTART"

-----------------------------------------------------------------------------
(***************************************************************************)
(* The coordinator's programs: main and run_restart_proof, by the step     *)
(* that follows a step.                                                    *)
(***************************************************************************)
Following(step) ==
  CASE step = "bind"            -> "spawnA"
    [] step = "spawnA"          -> IF Restart THEN "accept1" ELSE "spawnB"
    [] step = "spawnB"          -> "accept1"
    [] step = "accept1"         -> IF Restart THEN "reg1" ELSE "accept2"
    [] step = "accept2"         -> IF Restart THEN "reg2" ELSE "reg1"
    [] step = "reg1"            -> IF Restart THEN "run" ELSE "reg2"
    [] step = "reg2"            -> IF Restart THEN "register" ELSE "run"
    [] step = "run"             -> "done"
    [] step = "done"            -> IF scenario = "SHADOW" THEN "shadowRun" ELSE "kill"
    [] step = "shadowRun"       -> "shadowDone"
    [] step = "shadowDone"      -> "kill"
    [] step = "kill"            -> IF Restart THEN "spawnC" ELSE "register"
    [] step = "spawnC"          -> "accept2"
    [] step = "register"        -> "plan"
    [] step = "plan"            -> "authorize"
    [] step = "authorize"       -> "dispatch"
    [] step = "dispatch"        -> "await"
    [] step = "await"           -> "deliver"
    [] step = "deliver"         -> "receipt"
    [] step = "receipt"         -> "check"
    [] step = "check"           -> "staleBoot"
    [] step = "staleBoot"       -> IF Restart THEN "staleAttempt" ELSE "stop"
    [] step = "staleAttempt"    -> "staleDispatch"
    [] step = "staleDispatch"   -> "staleCompletion"
    [] step = "staleCompletion" -> "stop"

At(step) == Running /\ pc = step

Advance == pc' = Following(pc) /\ UNCHANGED exit
Exit(how) == exit' = how /\ UNCHANGED pc
AdvanceIf(ok, how) == IF ok THEN Advance ELSE Exit(how)

\* The worker the plan is for, and the boot it runs under.
TargetWorker == IF Restart THEN WorkerA ELSE WorkerB
TargetBoot   == IF Restart THEN BootC ELSE BootB

-----------------------------------------------------------------------------
(***************************************************************************)
(* Processes and connections.                                              *)
(***************************************************************************)
\* A message; d is the result in a COMPLETE, and the worker sends no other.
Msg(type, boot) == [type |-> type, boot |-> boot, d |-> 0]
NoMsg == Msg("NONE", NoBoot)   \* the Msg a failed recv leaves untouched

Alive(b) == proc[b] \notin {"absent", "ended"}

\* send_frame to the worker behind a connection: what is sent to a process that
\* has ended is lost, and the call may or may not notice.
Send(b, m) ==
  toWorker' = IF Alive(b) THEN [toWorker EXCEPT ![b] = Append(@, m)] ELSE toWorker

\* Mutant: the end of the connection goes unnoticed.
RecvBlocks(b, m) ==
  /\ toCoord[b] # <<>>
  /\ m = Head(toCoord[b])
  /\ toCoord' = [toCoord EXCEPT ![b] = Tail(@)]

\* recv: the next message, or none once the worker is gone.
Recv(b, m) ==
  \/ /\ toCoord[b] # <<>>
     /\ m = Head(toCoord[b])
     /\ toCoord' = [toCoord EXCEPT ![b] = Tail(@)]
  \/ /\ toCoord[b] = <<>> /\ ~Alive(b)
     /\ m = NoMsg
     /\ UNCHANGED toCoord

Messages == {Msg(type, b) : type \in {"REGISTER", "WORK_DONE", "COMPLETE"}, b \in Boots}
              \cup {NoMsg}

Bind(ok) ==
  /\ At("bind")
  /\ AdvanceIf(ok, "bind")
  /\ UNCHANGED <<vars, notes, netVars>>

\* spawn_worker.
Spawn(step, b, ok) ==
  /\ At(step)
  /\ proc' = IF ok THEN [proc EXCEPT ![b] = "connecting"] ELSE proc
  /\ AdvanceIf(ok, "spawn")
  /\ UNCHANGED <<vars, notes, killed, backlog, conn, toWorker, toCoord, history>>

\* listener.accept, which waits without a timeout and takes whoever came first.
\* main looks at the first result only when it has the second.
Accept(step, slot) ==
  /\ At(step)
  /\ backlog # <<>>
  /\ conn' = [conn EXCEPT ![slot] = Head(backlog)]
  /\ backlog' = Tail(backlog)
  /\ AdvanceIf(conn'.first # NoBoot, "accept")
  /\ UNCHANGED <<vars, notes, proc, killed, toWorker, toCoord, history>>

\* external: accept fails and returns no connection.
AcceptFails(step) ==
  /\ At(step)
  /\ AdvanceIf(step = "accept1" /\ ~Restart, "accept")
  /\ UNCHANGED <<vars, notes, netVars>>

AcceptFailure == AcceptFails("accept1") \/ AcceptFails("accept2")

\* The first registration.  main looks at it only after the second one.
Registration1 ==
  /\ At("reg1")
  /\ \E m \in Messages :
       /\ Recv(conn.first, m)
       /\ heard' = (m.type = "REGISTER")
       /\ AdvanceIf(Restart => m.type = "REGISTER", "registration")
  /\ UNCHANGED <<vars, scenario, status, rejected, world, procs, toWorker, history>>

\* The second one.  Only the restart proof compares who registered.
Registration2 ==
  /\ At("reg2")
  /\ \E m \in Messages :
       /\ Recv(conn.second, m)
       /\ AdvanceIf(/\ heard /\ m.type = "REGISTER"
                    /\ Restart => m.boot = BootC, "registration")
  /\ UNCHANGED <<vars, notes, procs, toWorker, history>>

\* RUN over the first connection, and in the shadow scenario over the second.
SendRun(step, b) ==
  /\ At(step)
  /\ Send(b, Msg("RUN", NoBoot))
  /\ Advance
  /\ UNCHANGED <<vars, notes, procs, toCoord, history>>

WorkDone ==
  /\ At("done")
  /\ \E m \in Messages :
       Recv(conn.first, m) /\ AdvanceIf(m.type = "WORK_DONE", "no_work")
  /\ UNCHANGED <<vars, notes, procs, toWorker, history>>

\* Mutant: the answer to the shadow's RUN is left on the connection.
ShadowNotAwaited ==
  /\ At("shadowDone")
  /\ Advance
  /\ UNCHANGED <<vars, notes, netVars>>

\* The shadow's answer is received and not looked at.
ShadowDone ==
  /\ At("shadowDone")
  /\ \E m \in Messages : Recv(conn.second, m)
  /\ Advance
  /\ UNCHANGED <<vars, notes, procs, toWorker, history>>

\* kill_process asks for the end of worker A and does not wait for it.
KillA ==
  /\ At("kill")
  /\ killed' = killed \cup {BootA}
  /\ Advance
  /\ UNCHANGED <<vars, notes, proc, backlog, conn, toWorker, toCoord, history>>

-----------------------------------------------------------------------------
(***************************************************************************)
(* The decision.                                                           *)
(***************************************************************************)
Candidates == <<"RESTORE", "RECOMPUTE", "SHADOW_PROMOTE", "RESTART">>

F == INSTANCE Feasibility
       WITH Requests <- {}, Strategies <- {}, Amounts <- {}, Needed <- {},
            Generations <- {}, MaxDefects <- 0,
            request <- <<>>, candidate <- {}, observed_epoch <- 0, defects <- 0
S == INSTANCE PlanSelection
       WITH ClampDropped <- FALSE, Problems <- {}, Start <- 0,
            MaxNow <- 0, now <- 0, request <- <<>>, candidates <- <<>>,
            decision <- <<>>, plan <- <<>>

\* The restart proof's other candidates point at the process it has killed.
OnTarget(s) == ~Restart \/ s = "RESTART"

\* build_candidate: the evidence that evaluate_feasibility reads.
BuildCandidate(s) ==
  LET worker == IF OnTarget(s) THEN TargetWorker ELSE WorkerA
      boot   == IF OnTarget(s) THEN TargetBoot ELSE BootA IN
  [valid_identity |-> TRUE, source_distinct |-> worker # WorkerA, strategy |-> s,
   target_worker |-> worker, target_boot |-> boot, state_generation |-> 1,
   authority |-> {[coordinator_epoch |-> 1, policy_generation |-> 1]},
   state |-> {[workload_generation |-> 1, state_generation |-> 1,
               integrity |-> "VALID", freshness |-> "CURRENT", is_durable |-> TRUE]},
   checkpoint |-> {},
   compatibility |-> {[result |-> "EXACT", freshness |-> "CURRENT",
                       compatibility_generation |-> 1, reference_rejects |-> FALSE]},
   availability |-> {[worker |-> worker, boot |-> boot, is_alive |-> TRUE,
                      readiness |-> IF OnTarget(s) THEN "READY" ELSE "NOT_READY",
                      freshness |-> "CURRENT"]},
   resource |-> {[status |-> "AVAILABLE", generation |-> 1, freshness |-> "CURRENT",
                  required |-> {512}, available |-> {100000}]},
   topology |-> {[path_possible |-> TRUE, generation |-> 1]},
   transfer |-> {},
   shadow |-> {[readiness |-> IF scenario = "SHADOW" THEN "READY" ELSE "NOT_READY",
                lag_bounded |-> TRUE, compatibility |-> "EXACT"]},
   cost |-> {[has_recompute_time |-> s = "RECOMPUTE"]}]

\* build_candidate: the scenario's economics.
ExpectedTime(s) ==
  CASE s = "RESTORE"        -> IF scenario = "RECOMPUTE" THEN 500000 ELSE 3000
    [] s = "RECOMPUTE"      -> 1000
    [] s = "SHADOW_PROMOTE" -> 50
    [] s = "RESTART"        -> 500
Preserved(s) ==
  CASE s = "RESTART" -> 0
    [] s = "RECOMPUTE" /\ scenario = "RESTORE" -> 90
    [] OTHER -> 100

\* The request, for the evaluator and for the ranking.
EvaluatedRequest == [workload_generation |-> 1, forbidden |-> {}, has_requirements |-> FALSE]
RankedRequest ==
  [recovery_deadline |-> IF scenario = "RECOMPUTE" THEN 10000 ELSE Unknown,
   max_recovery_duration |-> Unknown, max_tolerated_progress_loss |-> Unknown]

Enumerated == [RESTORE |-> 0, RESTART |-> 1, SHADOW_PROMOTE |-> 4, RECOMPUTE |-> 6]

\* Candidate i as plan() ranks it.
Ranked(i) ==
  LET s == Candidates[i] IN
  [candidate_id |-> 10 + i, generation |-> 10 + i, strategy |-> Enumerated[s],
   feasible |-> F!Feasible(BuildCandidate(s), EvaluatedRequest),
   cost |-> {[expected_time |-> ExpectedTime(s),
              expected_preserved_progress |-> Preserved(s),
              expected_lost_progress |-> IF s = "RESTART" THEN 100 ELSE 0,
              cost_units |-> Unknown, failover_domain_risk |-> 0]},
   authority_confidence |-> 1]

Expected == IF scenario = "SHADOW" THEN "SHADOW_PROMOTE" ELSE scenario

\* A planner is constructed and told about the target and the resources; only
\* main says that recomputing is possible.
RegisterTarget ==
  /\ At("register")
  /\ RegisterWorker(TargetWorker, TargetBoot)
  /\ resource_available' = {100000}
  /\ recompute' = IF Restart THEN recompute ELSE recompute \cup {1}
  /\ Advance
  /\ UNCHANGED <<scenario, heard, status, rejected, netVars>>

\* plan(), and the comparison with the strategy the scenario expects.
Decide ==
  /\ At("plan")
  /\ \E cs \in {<<Ranked(1), Ranked(2), Ranked(3), Ranked(4)>>} :
       IF S!Pool(cs, RankedRequest, 0) = {}
       THEN Exit("no_plan") /\ UNCHANGED vars
       ELSE \E i \in S!Front(cs, RankedRequest, S!Pool(cs, RankedRequest, 0)) :
              /\ LET c == BuildCandidate(Candidates[i])
                     late == S!EvaluateDeadline(cs[i], RankedRequest, 0) = "VIOLATED" IN
                 IF S!OutcomeOf(cs, RankedRequest, 0) = "PLAN_FOUND"
                 THEN PlanFound(Req, c.target_worker, c.target_boot, 1)
                 ELSE PlanFallback(Req, c.target_worker, c.target_boot, 1, late)
              /\ AdvanceIf(Candidates[i] = Expected, "unexpected")
  /\ UNCHANGED <<notes, netVars>>

Authorize ==
  /\ At("authorize")
  /\ AuthorizePlan(1)
  /\ Advance
  /\ UNCHANGED <<notes, netVars>>

-----------------------------------------------------------------------------
(***************************************************************************)
(* dispatch_plan with the NetworkExecutor on the second connection.        *)
(***************************************************************************)
\* dispatch_plan up to the unlock, and the executor's send_frame.
Dispatch(sent) ==
  /\ At("dispatch")
  /\ sent \/ ~Alive(conn.second)
  /\ DispatchPlan(1)
  /\ IF sent
     THEN Send(conn.second, Msg("DISPATCH", NoBoot)) /\ Advance /\ UNCHANGED status
     ELSE status' = "REJECTED" /\ pc' = "receipt" /\ UNCHANGED <<exit, toWorker>>
  /\ UNCHANGED <<scenario, heard, rejected, world, procs, toCoord, history>>

\* Mutant: whatever recv left in the message is taken for the answer.
AnswerUnchecked(m) == "DISPATCHED"

\* The status the executor returns once recv_frame is back.  Neither the plan
\* nor the boot that the answer names is looked at.
Answered(m) ==
  CASE m = NoMsg             -> "REJECTED"
    [] m.type = "COMPLETE"   -> "DISPATCHED"
    [] OTHER                 -> "UNKNOWN"

ReportedOutcome(m) == IF m.d = 0 THEN "SUCCEEDED" ELSE "FAILED"

\* The executor's recv_frame, which waits without a timeout, and the call of
\* on_adapter_completion up to its unlock.
Await ==
  /\ At("await")
  /\ \E m \in Messages :
       /\ Recv(conn.second, m)
       /\ status' = Answered(m)
       /\ IF Answered(m) = "DISPATCHED"
          THEN OnAdapterCompletion(1, ReportedOutcome(m)) /\ Advance
          ELSE pc' = "receipt" /\ UNCHANGED <<vars, exit>>
  /\ UNCHANGED <<scenario, heard, rejected, world, procs, toWorker, history>>

\* on_adapter_completion after the unlock.
Deliver ==
  /\ At("deliver")
  /\ \E r \in completions : DeliverCompletion(r)
  /\ Advance
  /\ UNCHANGED <<notes, netVars>>

Receipt ==
  /\ At("receipt")
  /\ DispatchReturn(1, status)
  /\ Advance
  /\ UNCHANGED <<notes, netVars>>

CheckSucceeded ==
  /\ At("check")
  /\ AdvanceIf(plans[1].state = "SUCCEEDED", "failed")
  /\ UNCHANGED <<vars, notes, netVars>>

-----------------------------------------------------------------------------
(***************************************************************************)
(* Stale traffic.                                                          *)
(***************************************************************************)
StillSucceeded == rejected' = (rejected /\ plans'[1].state = "SUCCEEDED")

Report(boot, outcome) ==
  [plan_id |-> 1, plan_generation |-> plans[1].generation,
   reporter_boot |-> boot, outcome |-> outcome]

\* A late report of the killed boot, and in the restart proof a contradicting
\* one of the right boot.
StaleReport(step, boot, outcome) ==
  /\ At(step)
  /\ ReportExecution(Report(boot, outcome))
  /\ StillSucceeded
  /\ Advance
  /\ UNCHANGED <<scenario, heard, status, world, netVars>>

\* on_adapter_completion for a dispatch id that was never issued finds no entry.
StaleAttempt ==
  /\ At("staleAttempt")
  /\ UNCHANGED vars
  /\ StillSucceeded
  /\ Advance
  /\ UNCHANGED <<scenario, heard, status, world, netVars>>

\* The plan is dispatched again; dispatch_plan has to throw.
StaleDispatch ==
  /\ At("staleDispatch")
  /\ rejected' = (rejected /\ ~DispatchAccepts(1))
  /\ Advance
  /\ UNCHANGED <<vars, scenario, heard, status, world, netVars>>

\* STOP, kill_process and the return.  main only prints whether the stale
\* completion was rejected.
Stop ==
  /\ At("stop")
  /\ Send(conn.second, Msg("STOP", NoBoot))
  /\ killed' = killed \cup {TargetBoot}
  /\ Exit(IF Restart /\ ~rejected THEN "stale_accepted" ELSE "ok")
  /\ UNCHANGED <<vars, notes, proc, backlog, conn, toCoord, history>>

\* external: the coordinator dies.
CoordinatorDies ==
  /\ Running
  /\ Exit("died")
  /\ UNCHANGED <<vars, notes, netVars>>

-----------------------------------------------------------------------------
(***************************************************************************)
(* The worker process of boot b.                                           *)
(***************************************************************************)
End(b) == proc' = [proc EXCEPT ![b] = "ended"]

\* connect_to; with no listener left the worker returns.
Connect(b) ==
  /\ proc[b] = "connecting"
  /\ IF Running
     THEN proc' = [proc EXCEPT ![b] = "connected"] /\ backlog' = Append(backlog, b)
     ELSE End(b) /\ UNCHANGED backlog
  /\ UNCHANGED <<vars, coordVars, killed, conn, toWorker, toCoord, history>>

SendRegister(b) ==
  /\ proc[b] = "connected"
  /\ proc' = [proc EXCEPT ![b] = "serving"]
  /\ toCoord' = [toCoord EXCEPT ![b] = Append(@, Msg("REGISTER", b))]
  /\ UNCHANGED <<vars, coordVars, killed, backlog, conn, toWorker, history>>

Reply(b, type) == toCoord' = [toCoord EXCEPT ![b] = Append(@, Msg(type, b))]

\* A turn of the worker's loop.
Serve(b) ==
  /\ proc[b] = "serving"
  /\ toWorker[b] # <<>>
  /\ toWorker' = [toWorker EXCEPT ![b] = Tail(@)]
  /\ LET type == Head(toWorker[b]).type IN
       \/ type = "STOP" /\ End(b) /\ UNCHANGED <<toCoord, performed>>
       \/ type = "RUN" /\ Reply(b, "WORK_DONE") /\ UNCHANGED <<proc, performed>>
       \/ /\ type = "DISPATCH"
          /\ Reply(b, "COMPLETE")
          /\ performed' = [performed EXCEPT ![b] = @ + 1]
          /\ UNCHANGED proc
  /\ UNCHANGED <<vars, coordVars, killed, backlog, conn, faulted>>

\* Mutant: a worker whose connection was not accepted goes on waiting.
HangUpIfAccepted(b) ==
  /\ proc[b] = "serving" /\ ~Running
  /\ b \in {conn.first, conn.second}
  /\ End(b)
  /\ UNCHANGED <<vars, coordVars, killed, backlog, conn, toWorker, toCoord, history>>

\* recv_frame returns false: the coordinator is gone, what it had sent may be
\* gone with it, and the loop ends.
HangUp(b) ==
  /\ proc[b] = "serving" /\ ~Running
  /\ End(b)
  /\ UNCHANGED <<vars, coordVars, killed, backlog, conn, toWorker, toCoord, history>>

\* external: the process ends, of itself or because it was killed; some of what
\* it had sent does not arrive.
Die(b, n) ==
  /\ Alive(b)
  /\ End(b)
  /\ toCoord' = [toCoord EXCEPT ![b] = SubSeq(@, 1, n)]
  /\ faulted' = IF b \in killed THEN faulted ELSE faulted \cup {b}
  /\ UNCHANGED <<vars, coordVars, killed, backlog, conn, toWorker, performed>>

-----------------------------------------------------------------------------
DistributedInit ==
  /\ Init
  /\ scenario \in Scenarios
  /\ pc = "bind" /\ exit = "none"
  /\ heard = FALSE /\ status = "NONE" /\ rejected = TRUE
  /\ resource_available = {} /\ recompute = {}
  /\ proc = [b \in Boots |-> "absent"]
  /\ killed = {} /\ backlog = <<>>
  /\ conn = [first |-> NoBoot, second |-> NoBoot]
  /\ toWorker = [b \in Boots |-> <<>>] /\ toCoord = [b \in Boots |-> <<>>]
  /\ performed = [b \in Boots |-> 0] /\ faulted = {}

CoordinatorStep ==
  \/ \E ok \in BOOLEAN :
       Bind(ok) \/ Spawn("spawnA", BootA, ok) \/ Spawn("spawnB", BootB, ok)
         \/ Spawn("spawnC", BootC, ok)
  \/ Accept("accept1", "first") \/ Accept("accept2", "second")
  \/ Registration1 \/ Registration2
  \/ SendRun("run", conn.first) \/ SendRun("shadowRun", conn.second)
  \/ WorkDone \/ ShadowDone \/ KillA
  \/ RegisterTarget \/ Decide \/ Authorize
  \/ \E sent \in BOOLEAN : Dispatch(sent)
  \/ Await \/ Deliver \/ Receipt \/ CheckSucceeded
  \/ StaleReport("staleBoot", BootA, "SUCCEEDED")
  \/ StaleReport("staleCompletion", BootC, "FAILED")
  \/ StaleAttempt \/ StaleDispatch \/ Stop

WorkerStep(b) == Connect(b) \/ SendRegister(b) \/ Serve(b) \/ HangUp(b)

DieSomehow(b) == \E n \in 0..Len(toCoord[b]) : Die(b, n)

DistributedNext ==
  \/ CoordinatorStep
  \/ AcceptFailure
  \/ CoordinatorDies
  \/ \E b \in Boots : WorkerStep(b) \/ DieSomehow(b)

\* Every process that lives is scheduled, and a killed one ends.  Nothing has to
\* fail: accept may wait for ever.
DistributedFairness ==
  /\ WF_allVars(CoordinatorStep)
  /\ \A b \in Boots : WF_allVars(WorkerStep(b)) /\ WF_allVars(b \in killed /\ DieSomehow(b))

DistributedSpec == DistributedInit /\ [][DistributedNext]_allVars /\ DistributedFairness

-----------------------------------------------------------------------------
(***************************************************************************)
(* Properties.                                                             *)
(***************************************************************************)

\* A published verdict is what a worker really did: a send that failed, an answer
\* that was lost with its worker, or one of another kind is never published,
\* although the worker may have performed the plan.  It is the target worker of
\* the plan if the connections came in the order of the spawns, as they always do
\* in the restart proof; otherwise it is the worker behind the second connection
\* (NetworkExecutor::dispatch through on_adapter_completion and the receipt).
VerdictIsTheWorkers ==
  Stored(1) /\ plans[1].outcome_published =>
    /\ plans[1].execution_outcome = "SUCCEEDED"
    /\ performed[conn.second] = 1
    /\ Restart \/ conn.first = BootA => performed[TargetBoot] = 1

\* What the proof is documented to show: the plan's verdict is published only if
\* the worker that the plan names performed it, and worker A's completion does
\* not count (coordinator_main takes the second connection for worker B).
VerdictIsTheTargets ==
  Stored(1) /\ plans[1].outcome_published => performed[TargetBoot] = 1

\* The proof never ends for a reason that lies with the planner: it finds a
\* plan, the one its scenario is about, and rejects all stale traffic.
PlannerNeverToBlame ==
  rejected /\ exit \notin {"no_plan", "unexpected", "stale_accepted"}

\* The proof fails only if a worker died of itself or the workers connected in
\* the other order: no message of an earlier exchange is taken for a later one
\* (the order of sends and receives on both sides).
FailureHasCause ==
  exit \in {"registration", "no_work", "failed"} =>
    faulted # {} \/ conn.second \notin {NoBoot, TargetBoot}

\* accept waits and no process is left that could connect.
NobodyComes ==
  /\ At("accept1") \/ At("accept2")
  /\ backlog = <<>>
  /\ \A b \in Boots : proc[b] # "connecting"

\* The coordinator ends, unless a worker died before it connected: a death later
\* ends the connection, and with it the wait for an answer.
CoordinatorEnds == <>(~Running \/ NobodyComes)

\* Once the coordinator has ended, on whatever path, no worker is left behind.
NoOrphans == ~Running ~> \A b \in Boots : ~Alive(b)

=============================================================================
