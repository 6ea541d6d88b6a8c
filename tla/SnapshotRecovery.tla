--------------------------- MODULE SnapshotRecovery ---------------------------
(***************************************************************************)
(* The durable snapshot of the planner: what encode_snapshot writes, how   *)
(* FilePersistenceStore puts it on disk step by step while the planner's   *)
(* mutex is held, and what apply_snapshot makes of it in load_state and in *)
(* restart_coordinator, when a step of the save throws, the process dies,  *)
(* or the file is damaged.                                                 *)
(*                                                                         *)
(* The planner keeps only what the snapshot is about: its epoch, the       *)
(* recorded requests with the length of their longest text, the plans,     *)
(* live or concluded, and whether the one worker every plan targets is     *)
(* registered; RecoveryPlanner has the rest of its operations.  A text is  *)
(* "short" when ByteReader::cstring takes it and "long" when it is beyond  *)
(* the 4096 characters the reader stops at; the writer has no limit.       *)
(***************************************************************************)
EXTENDS FileStore, PlanLifecycle, Functions

CONSTANTS
  Requests,   \* request ids; requests_ is ordered by them
  Texts,      \* lengths of the texts of a request
  MaxPlans,   \* bound: plans built by one planner process
  MaxEpoch    \* bound: coordinator restarts

ASSUME RequestsAssumption == Requests \subseteq Nat
ASSUME TextsAssumption    == Texts \subseteq {"short", "long"}
ASSUME RestartAssumption  == MaxPlans \in Nat /\ MaxEpoch \in Nat

VARIABLES
  memory,         \* the planner object: epoch, alive, requests, plans
  next_plan_id,   \* next_plan_id_
  contents,       \* the snapshots that can still be read, by the save that wrote them
  mode,           \* the call that holds the mutex across several steps
  late            \* history: plans built past their deadline, until a load_state

allVars == <<vars, memory, next_plan_id, contents, mode, late>>

PlanIds == 1..MaxPlans

\* The planner as its constructor leaves it.
Constructed == [epoch |-> 1, alive |-> FALSE, requests |-> <<>>, plans |-> <<>>]

-----------------------------------------------------------------------------
(***************************************************************************)
(* The snapshot.                                                           *)
(***************************************************************************)

\* A plan is written without its economics and deadline evaluation.
EncodePlan(p) == [request |-> p.request, epoch |-> p.epoch, state |-> p.state]

EncodeSnapshot(m) ==
  [epoch    |-> m.epoch,
   requests |-> m.requests,
   plans    |-> [id \in DOMAIN m.plans |-> EncodePlan(m.plans[id])]]

\* A decoded plan has the deadline outcome UNKNOWN.
DecodePlan(q) ==
  [request |-> q.request, epoch |-> q.epoch, state |-> q.state, violated |-> FALSE]

DecodePlans(s) == [id \in DOMAIN s.plans |-> DecodePlan(s.plans[id])]

\* Every text of the snapshot is one that cstring takes.
Decodes(s) == \A r \in DOMAIN s.requests : s.requests[r] # "long"

\* The requests before the first one that does not decode.
DecodeRequests(s) ==
  Restrict(s.requests,
           {r \in DOMAIN s.requests :
              \A q \in DOMAIN s.requests : q <= r => s.requests[q] # "long"})

\* Mutant: the plans are cleared together with the requests.
ApplyClearingFirst(m, s, preserve_epoch_boot) ==
  [epoch    |-> IF preserve_epoch_boot THEN m.epoch ELSE s.epoch,
   alive    |-> FALSE,
   requests |-> DecodeRequests(s),
   plans    |-> IF Decodes(s) THEN DecodePlans(s) ELSE <<>>]

\* Mutant: the plans are not cleared before the decoded ones are stored.
ApplyMerging(m, s, preserve_epoch_boot) ==
  [epoch    |-> IF preserve_epoch_boot THEN m.epoch ELSE s.epoch,
   alive    |-> FALSE,
   requests |-> DecodeRequests(s),
   plans    |-> IF Decodes(s)
                THEN [id \in DOMAIN s.plans \cup DOMAIN m.plans |->
                        IF id \in DOMAIN s.plans THEN DecodePlan(s.plans[id]) ELSE m.plans[id]]
                ELSE m.plans]

(***************************************************************************)
(* apply_snapshot.  The context and the requests are replaced while they   *)
(* are decoded; a text that does not decode ends it with the plans as they *)
(* were, and its result is ignored.  alive_workers is never restored.      *)
(***************************************************************************)
ApplySnapshot(m, s, preserve_epoch_boot) ==
  [epoch    |-> IF preserve_epoch_boot THEN m.epoch ELSE s.epoch,
   alive    |-> FALSE,
   requests |-> DecodeRequests(s),
   plans    |-> IF Decodes(s) THEN DecodePlans(s) ELSE m.plans]

\* What store_->load yields now.
Loaded == IF Load = None THEN None ELSE contents[Load]

-----------------------------------------------------------------------------
(***************************************************************************)
(* The planner's other operations, each a critical section of the mutex.   *)
(***************************************************************************)

\* Mutant: the save does not hold the mutex.
AlwaysUnlocked == TRUE

\* mu_ is free.
Unlocked == mode = "idle"

\* plan_authority_current, for the one target.
Current(m, p) == p.epoch = m.epoch /\ m.alive

\* plan(): a plan is numbered and stored, and the request's others superseded.
StorePlan(r, violated, requests) ==
  /\ Unlocked
  /\ next_plan_id \in PlanIds
  /\ next_plan_id' = next_plan_id + 1
  /\ memory' =
       [memory EXCEPT
          !.requests = requests,
          !.plans = [id \in DOMAIN @ \cup {next_plan_id} |->
             IF id = next_plan_id
             THEN [request |-> r, epoch |-> memory.epoch, state |-> "PLANNED",
                   violated |-> violated]
             ELSE IF @[id].request = r /\ ValidatePlanTransition(@[id].state, "SUPERSEDED")
                  THEN [@[id] EXCEPT !.state = "SUPERSEDED"]
                  ELSE @[id]]]
  /\ late' = IF violated THEN late \cup {next_plan_id} ELSE late \ {next_plan_id}
  /\ UNCHANGED <<vars, contents, mode>>

\* PLAN_FOUND: the request is recorded.
PlanFound(r, text) ==
  StorePlan(r, FALSE, [q \in DOMAIN memory.requests \cup {r} |->
                         IF q = r THEN text ELSE memory.requests[q]])

\* A fallback past the deadline: the request is not recorded.
PlanFallback(r) == StorePlan(r, TRUE, memory.requests)

CancelPlan(id) ==
  /\ Unlocked
  /\ id \in DOMAIN memory.plans
  /\ ValidatePlanTransition(memory.plans[id].state, "CANCELLED")
  /\ memory' = [memory EXCEPT !.plans[id].state = "CANCELLED"]
  /\ UNCHANGED <<vars, next_plan_id, contents, mode, late>>

RegisterWorker ==
  /\ Unlocked
  /\ memory' = [memory EXCEPT !.alive = TRUE]
  /\ UNCHANGED <<vars, next_plan_id, contents, mode, late>>

\* revalidate_plan returns the plan.
RevalidateAccepts(id) ==
  /\ id \in DOMAIN memory.plans
  /\ Current(memory, memory.plans[id])
  /\ ~memory.plans[id].violated

-----------------------------------------------------------------------------
(***************************************************************************)
(* save_state, restart_coordinator and load_state.                         *)
(***************************************************************************)

\* save_locked, up to the open: the snapshot is encoded first.
SaveLocked(caller) ==
  /\ mode = "idle"
  /\ OpenTemp
  /\ contents' = [s \in DOMAIN contents |->
                     IF s = saves + 1 THEN EncodeSnapshot(memory)
                     ELSE IF s = Load THEN contents[s] ELSE None]
  /\ mode' = caller
  /\ UNCHANGED <<memory, next_plan_id, late>>

SaveState == SaveLocked("save")

RestartCoordinator == memory.epoch < MaxEpoch /\ SaveLocked("restart")

\* The steps of FilePersistenceStore::save, the planner's thread inside it.
StoreStep ==
  /\ \/ \E complete \in BOOLEAN : WriteTemp(complete)
     \/ \E removed \in BOOLEAN : RemoveOld(removed)
     \/ Rename
  /\ UNCHANGED <<memory, next_plan_id, contents, mode, late>>

\* save returns: save_state is done, restart_coordinator goes on.
SaveLockedReturns ==
  /\ SaveReturns
  /\ mode' = IF mode = "restart" THEN "sweep" ELSE "idle"
  /\ UNCHANGED <<memory, next_plan_id, contents, late>>

\* The open, the write or the rename fails: the exception leaves save_state or
\* restart_coordinator with nothing changed in memory.
SaveThrows ==
  /\ step \in {"write", "rename"}
  /\ Abandon
  /\ mode' = "idle"
  /\ UNCHANGED <<memory, next_plan_id, contents, late>>

\* Every plan that is not terminal is invalidated.
InvalidateLive(plans) ==
  [id \in DOMAIN plans |->
     IF plans[id].state \in Terminal
     THEN plans[id]
     ELSE [plans[id] EXCEPT !.state = "INVALIDATED"]]

\* Mutant: the epoch is not advanced.
SweepSameEpoch ==
  /\ mode = "sweep"
  /\ LET down   == [memory EXCEPT !.alive = FALSE]
         loaded == IF Loaded = None THEN down ELSE ApplySnapshot(down, Loaded, TRUE)
     IN memory' = [loaded EXCEPT !.plans = InvalidateLive(@)]
  /\ mode' = "idle"
  /\ UNCHANGED <<vars, next_plan_id, contents, late>>

\* restart_coordinator after the save: the epoch advances, dynamic evidence is
\* dropped, the snapshot is read back and live plans are invalidated.
Sweep ==
  /\ mode = "sweep"
  /\ LET down   == [memory EXCEPT !.epoch = @ + 1, !.alive = FALSE]
         loaded == IF Loaded = None THEN down ELSE ApplySnapshot(down, Loaded, TRUE)
     IN memory' = [loaded EXCEPT !.plans = InvalidateLive(@)]
  /\ mode' = "idle"
  /\ UNCHANGED <<vars, next_plan_id, contents, late>>

\* load_state, where the store has a snapshot.
LoadState ==
  /\ Unlocked
  /\ Loaded # None
  /\ memory' = ApplySnapshot(memory, Loaded, FALSE)
  /\ late' = {}
  /\ UNCHANGED <<vars, next_plan_id, contents, mode>>

\* external: the process dies, in the middle of a save or not, and a new one
\* constructs its planner.
Crash ==
  /\ IF step = "idle" THEN UNCHANGED vars ELSE Abandon
  /\ memory' = Constructed
  /\ next_plan_id' = 1
  /\ mode' = "idle"
  /\ late' = {}
  /\ UNCHANGED contents

\* external: the stored file is damaged.
FileDecays ==
  /\ \E damage \in Damage \ {"none"} : Decay(damage)
  /\ UNCHANGED <<memory, next_plan_id, contents, mode, late>>

-----------------------------------------------------------------------------
SnapshotInit ==
  /\ Init
  /\ memory = Constructed
  /\ next_plan_id = 1
  /\ contents = [s \in 1..MaxSaves |-> None]
  /\ mode = "idle"
  /\ late = {}

SnapshotNext ==
  \/ \E r \in Requests, text \in Texts : PlanFound(r, text)
  \/ \E r \in Requests : PlanFallback(r)
  \/ \E id \in PlanIds : CancelPlan(id)
  \/ RegisterWorker
  \/ SaveState
  \/ RestartCoordinator
  \/ StoreStep
  \/ SaveLockedReturns
  \/ SaveThrows
  \/ Sweep
  \/ LoadState
  \/ Crash
  \/ FileDecays

SnapshotSpec == SnapshotInit /\ [][SnapshotNext]_allVars

-----------------------------------------------------------------------------
(***************************************************************************)
(* Properties.                                                             *)
(***************************************************************************)

\* What load yields only ever changes to the encoding of the planner as it is at
\* that moment, because save_state and restart_coordinator keep the mutex through
\* all steps of the file's replacement, or to nothing, which a save that stops
\* between its remove and its rename leaves: never to a mixture, to an older
\* snapshot or to one that the planner has moved on from.
StoreHoldsOneMoment ==
  [][Loaded' # Loaded => Loaded' \in {None, EncodeSnapshot(memory)}]_allVars

\* restart_coordinator loses no plan: whether the snapshot it has just written
\* reads back whole, in part or not at all, every plan of the table is there
\* afterwards, the live ones invalidated and the others as they were.
RestartKeepsPlans ==
  [][mode = "sweep" /\ memory'.epoch = memory.epoch + 1 =>
       /\ DOMAIN memory'.plans = DOMAIN memory.plans
       /\ \A id \in DOMAIN memory.plans :
            EncodePlan(memory'.plans[id]) = EncodePlan(InvalidateLive(memory.plans)[id])]_allVars

\* A plan built past its deadline is never revalidated, although the snapshot a
\* restart reads back has lost the verdict: by then its epoch is over.  Only
\* load_state, which may bring the epoch back, ends this.
LateStaysRefused == \A id \in late : ~RevalidateAccepts(id)

\* load_state restores what was saved, epoch, requests and plans, when every
\* text is within the reader's limit: nothing of the planner's own survives.
ShortTextsRestored ==
  [][LoadState /\ Decodes(Loaded) => EncodeSnapshot(memory') = Loaded]_allVars

=============================================================================
