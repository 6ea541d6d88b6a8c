----------------------- MODULE SnapshotRecoveryProofs -----------------------
(***************************************************************************)
(* What the planner may rely on of its durable snapshot, for every number  *)
(* of saves, plans, requests and restarts: the file is replaced as if at   *)
(* once although save takes several steps that may fail or be the last     *)
(* ones of the process, a load never goes back behind a save that          *)
(* returned, and what a load leaves out cannot be used against the plans.  *)
(***************************************************************************)
EXTENDS SnapshotRecovery, TLAPS

-----------------------------------------------------------------------------
(***************************************************************************)
(* The file.  Its payload is never older than the last save that returned, *)
(* and a save under way is the newest one.                                 *)
(***************************************************************************)
Steps == {"idle", "write", "remove", "rename", "return"}
File  == [payload: Nat, damage: Damage]

FileOK ==
  /\ saves \in Nat /\ saves <= MaxSaves
  /\ durable \in Nat /\ durable <= saves
  /\ step \in Steps
  /\ file \in File \cup {None}
  /\ temp \in File \cup {None}
  /\ file # None => /\ 1 <= file.payload /\ file.payload <= saves
                    /\ durable <= file.payload
  /\ step # "idle" => saving = saves /\ 1 <= saves
  /\ step \in {"remove", "rename"} => temp \in File /\ temp.payload = saving
  /\ step = "return" /\ file # None => file.payload = saving

\* What a save writes is a file, with the payload of that save.
LEMMA FrameType ==
  \A p \in Nat : /\ Whole(p) \in File /\ Whole(p).payload = p
                 /\ Partly(p) \in File /\ Partly(p).payload = p
BY DEF Whole, Partly, File, Damage

\* A step of FilePersistenceStore::save, its failure, or damage to the file.
FileStep ==
  \/ OpenTemp
  \/ \E complete \in BOOLEAN : WriteTemp(complete)
  \/ \E removed \in BOOLEAN : RemoveOld(removed)
  \/ Rename
  \/ SaveReturns
  \/ Abandon
  \/ \E damage \in Damage : Decay(damage)
  \/ UNCHANGED vars

\* Every step of save, load and decay keeps the file in order.
LEMMA FileStepOK ==
  ASSUME FileOK, FileStep
  PROVE  FileOK'
<1> USE FileStoreAssumption
<1>1. CASE OpenTemp
  <2>1. temp' \in File
    BY <1>1, FrameType DEF OpenTemp, FileOK
  <2>2. file # None => file.payload \in Nat
    BY DEF FileOK, File
  <2> QED BY <1>1, <2>1, <2>2 DEF OpenTemp, FileOK, Steps
<1>2. ASSUME NEW complete \in BOOLEAN, WriteTemp(complete) PROVE FileOK'
  <2>1. temp' \in File /\ temp'.payload = saving
    BY <1>2, FrameType DEF WriteTemp, FileOK
  <2> QED BY <1>2, <2>1 DEF WriteTemp, FileOK, Steps
<1>3. ASSUME NEW removed \in BOOLEAN, RemoveOld(removed) PROVE FileOK'
  BY <1>3 DEF RemoveOld, FileOK, Steps
<1>4. CASE Rename
  BY <1>4 DEF Rename, FileOK, Steps
<1>5. CASE SaveReturns
  BY <1>5 DEF SaveReturns, FileOK, Steps
<1>6. CASE Abandon
  BY <1>6 DEF Abandon, FileOK, Steps
<1>7. ASSUME NEW damage \in Damage, Decay(damage) PROVE FileOK'
  <2>1. file \in File /\ file' \in File /\ file'.payload = file.payload
    BY <1>7 DEF Decay, FileOK, File
  <2> QED BY <1>7, <2>1 DEF Decay, FileOK, Steps
<1>8. CASE UNCHANGED vars
  BY <1>8 DEF vars, FileOK
<1> QED BY <1>1, <1>2, <1>3, <1>4, <1>5, <1>6, <1>7, <1>8 DEF FileStep

\* Every step of the planner is one of those on the file.
LEMMA StepsOnFile == [SnapshotNext]_allVars => FileStep
BY DEF SnapshotNext, FileStep, allVars, PlanFound, PlanFallback, StorePlan, CancelPlan,
       RegisterWorker, SaveState, RestartCoordinator, SaveLocked, StoreStep,
       SaveLockedReturns, SaveThrows, Sweep, LoadState, Crash, FileDecays

\* The file is in order in every reachable state.
LEMMA FileInvariant == SnapshotSpec => []FileOK
<1>1. SnapshotInit => FileOK
  BY FileStoreAssumption DEF SnapshotInit, Init, FileOK, Steps
<1>2. FileOK /\ [SnapshotNext]_allVars => FileOK'
  BY StepsOnFile, FileStepOK
<1> QED BY <1>1, <1>2, PTL DEF SnapshotSpec

\* Whatever steps of whatever saves failed, a load yields the snapshot of the
\* last save that returned, a newer one, or nothing.
THEOREM NeverStale == SnapshotSpec => []LoadIsNeverStale
<1>1. FileOK => LoadIsNeverStale
  BY DEF FileOK, LoadIsNeverStale, Load, File
<1> QED BY <1>1, FileInvariant, PTL

-----------------------------------------------------------------------------
(***************************************************************************)
(* The types of the planner's memory and of its snapshots.                 *)
(***************************************************************************)
Partial(D, R) == UNION {[E -> R] : E \in SUBSET D}

PlanState == PlanLifecycleState
StoredPlan == [request: Requests, epoch: Nat \ {0}, state: PlanState, violated: BOOLEAN]
SavedPlan  == [request: Requests, epoch: Nat \ {0}, state: PlanState]

Memory ==
  [epoch: Nat \ {0}, alive: BOOLEAN, requests: Partial(Requests, Texts),
   plans: Partial(PlanIds, StoredPlan)]
Snapshot ==
  [epoch: Nat \ {0}, requests: Partial(Requests, Texts), plans: Partial(PlanIds, SavedPlan)]

\* A partial function is a function on its own domain.
LEMMA PartialIs ==
  ASSUME NEW D, NEW R, NEW f
  PROVE  f \in Partial(D, R) <=> f \in [DOMAIN f -> R] /\ DOMAIN f \subseteq D
BY DEF Partial

\* The empty table is a partial function.
LEMMA EmptyPartial == \A D, R : <<>> \in Partial(D, R)
<1> SUFFICES ASSUME NEW D, NEW R PROVE <<>> \in Partial(D, R)
  OBVIOUS
<1>1. <<>> \in [{} -> R]
  OBVIOUS
<1>2. {} \in SUBSET D
  OBVIOUS
<1> QED BY <1>1, <1>2 DEF Partial

\* The planner's constructor.
LEMMA ConstructedType == Constructed \in Memory
BY EmptyPartial DEF Constructed, Memory

\* encode_snapshot of a planner is a snapshot.
LEMMA EncodeType ==
  ASSUME NEW m \in Memory
  PROVE  EncodeSnapshot(m) \in Snapshot
<1>1. m.plans \in [DOMAIN m.plans -> StoredPlan] /\ DOMAIN m.plans \subseteq PlanIds
  BY PartialIs DEF Memory
<1>2. [id \in DOMAIN m.plans |-> EncodePlan(m.plans[id])] \in [DOMAIN m.plans -> SavedPlan]
  BY <1>1 DEF EncodePlan, StoredPlan, SavedPlan
<1>3. [id \in DOMAIN m.plans |-> EncodePlan(m.plans[id])] \in Partial(PlanIds, SavedPlan)
  BY <1>1, <1>2 DEF Partial
<1> QED BY <1>3 DEF EncodeSnapshot, Snapshot, Memory

\* What apply_snapshot decodes is a planner again.
LEMMA DecodeType ==
  ASSUME NEW s \in Snapshot
  PROVE  /\ DecodePlans(s) \in Partial(PlanIds, StoredPlan)
         /\ DecodeRequests(s) \in Partial(Requests, Texts)
<1>1. s.plans \in [DOMAIN s.plans -> SavedPlan] /\ DOMAIN s.plans \subseteq PlanIds
  BY PartialIs DEF Snapshot
<1>2. DecodePlans(s) \in [DOMAIN s.plans -> StoredPlan]
  BY <1>1 DEF DecodePlans, DecodePlan, StoredPlan, SavedPlan
<1>3. s.requests \in [DOMAIN s.requests -> Texts] /\ DOMAIN s.requests \subseteq Requests
  BY PartialIs DEF Snapshot
<1> DEFINE E == {r \in DOMAIN s.requests :
                   \A q \in DOMAIN s.requests : q <= r => s.requests[q] # "long"}
<1>4. DecodeRequests(s) \in [E -> Texts] /\ E \subseteq Requests
  BY <1>3 DEF DecodeRequests, Restrict
<1> HIDE DEF E
<1> QED BY <1>1, <1>2, <1>4 DEF Partial

\* apply_snapshot gives a planner, whether it ends early or not.
LEMMA ApplyType ==
  ASSUME NEW m \in Memory, NEW s \in Snapshot, NEW preserve \in BOOLEAN
  PROVE  ApplySnapshot(m, s, preserve) \in Memory
BY DecodeType DEF ApplySnapshot, Memory, Snapshot

\* The sweep of restart_coordinator keeps the planner well-formed.
LEMMA InvalidateType ==
  ASSUME NEW plans \in Partial(PlanIds, StoredPlan)
  PROVE  /\ InvalidateLive(plans) \in Partial(PlanIds, StoredPlan)
         /\ DOMAIN InvalidateLive(plans) = DOMAIN plans
         /\ \A id \in DOMAIN plans :
              /\ InvalidateLive(plans)[id].epoch = plans[id].epoch
              /\ InvalidateLive(plans)[id].violated = plans[id].violated
<1>1. plans \in [DOMAIN plans -> StoredPlan] /\ DOMAIN plans \subseteq PlanIds
  BY PartialIs
<1>2. \A id \in DOMAIN plans :
        LET q == [plans[id] EXCEPT !.state = "INVALIDATED"] IN
          q \in StoredPlan /\ q.epoch = plans[id].epoch /\ q.violated = plans[id].violated
  BY <1>1 DEF StoredPlan, PlanState, PlanLifecycleState
<1>3. InvalidateLive(plans) \in [DOMAIN plans -> StoredPlan]
  BY <1>1, <1>2 DEF InvalidateLive
<1> QED BY <1>1, <1>2, <1>3 DEF InvalidateLive, Partial

\* The same plans, but for their deadline verdicts.
Mirrors(q, p) ==
  /\ DOMAIN q = DOMAIN p
  /\ \A id \in DOMAIN p : /\ q[id].request = p[id].request
                          /\ q[id].epoch = p[id].epoch
                          /\ q[id].state = p[id].state

\* The plans of a planner that reads back what it has just written, whole or
\* in part, are the ones it had, but for their deadline verdicts.
LEMMA ReadBack ==
  ASSUME NEW m \in Memory, NEW s, s = EncodeSnapshot(m), NEW n \in Memory, n.plans = m.plans,
         NEW a, a = ApplySnapshot(n, s, TRUE)
  PROVE  Mirrors(a.plans, m.plans)
<1>1. m.plans \in [DOMAIN m.plans -> StoredPlan]
  BY PartialIs DEF Memory
<1>2. CASE Decodes(s)
  <2>1. a.plans = DecodePlans(s)
    BY <1>2 DEF ApplySnapshot
  <2>2. s.plans = [id \in DOMAIN m.plans |-> EncodePlan(m.plans[id])]
    BY DEF EncodeSnapshot
  <2>3. /\ DOMAIN s.plans = DOMAIN m.plans
        /\ \A id \in DOMAIN m.plans : s.plans[id] = EncodePlan(m.plans[id])
    BY <2>2
  <2>4. /\ DOMAIN DecodePlans(s) = DOMAIN m.plans
        /\ \A id \in DOMAIN m.plans : DecodePlans(s)[id] = DecodePlan(EncodePlan(m.plans[id]))
    BY <2>3 DEF DecodePlans
  <2>5. \A p : /\ DecodePlan(EncodePlan(p)).request = p.request
               /\ DecodePlan(EncodePlan(p)).epoch = p.epoch
               /\ DecodePlan(EncodePlan(p)).state = p.state
    BY DEF DecodePlan, EncodePlan
  <2> QED BY <2>1, <2>4, <2>5 DEF Mirrors
<1>3. CASE ~Decodes(s)
  <2>1. a.plans = m.plans
    BY <1>3 DEF ApplySnapshot
  <2> QED BY <2>1 DEF Mirrors
<1> QED BY <1>2, <1>3

-----------------------------------------------------------------------------
(***************************************************************************)
(* The mutex is held from the encoding to the return of the save, so the   *)
(* snapshot under way is the planner as it is; between the save and the    *)
(* sweep of a restart the file holds the planner as it is, or nothing.     *)
(***************************************************************************)
Modes == {"idle", "save", "restart", "sweep"}

SnapshotOK ==
  /\ memory \in Memory
  /\ next_plan_id \in Nat
  /\ contents \in [1..MaxSaves -> Snapshot \cup {None}]
  /\ mode \in Modes
  /\ step # "idle" <=> mode \in {"save", "restart"}
  /\ step # "idle" => contents[saves] = EncodeSnapshot(memory)
  /\ mode = "sweep" => Loaded \in {None, EncodeSnapshot(memory)}

\* A load yields no payload, or one of a save that was begun.
LEMMA LoadRange ==
  ASSUME FileOK
  PROVE  Load # None => Load \in 1..saves /\ file # None /\ Load = file.payload
BY DEF FileOK, Load, File

\* A step that leaves file and contents alone leaves the snapshot alone.
LEMMA SameLoaded ==
  ASSUME UNCHANGED <<file, contents>>
  PROVE  Load' = Load /\ Loaded' = Loaded
BY DEF Load, Loaded

\* plan(): the table keeps its shape.
LEMMA StorePlanType ==
  ASSUME SnapshotOK, NEW r \in Requests, NEW violated \in BOOLEAN,
         NEW requests \in Partial(Requests, Texts), StorePlan(r, violated, requests)
  PROVE  /\ memory' \in Memory
         /\ memory'.epoch = memory.epoch
         /\ DOMAIN memory'.plans = DOMAIN memory.plans \cup {next_plan_id}
         /\ memory'.plans[next_plan_id].epoch = memory.epoch
         /\ memory'.plans[next_plan_id].violated = violated
         /\ \A id \in DOMAIN memory.plans \ {next_plan_id} :
              /\ memory'.plans[id].epoch = memory.plans[id].epoch
              /\ memory'.plans[id].violated = memory.plans[id].violated
<1> DEFINE old == memory.plans
           n == next_plan_id
           fresh == [request |-> r, epoch |-> memory.epoch, state |-> "PLANNED",
                     violated |-> violated]
           kept(id) == IF old[id].request = r /\ ValidatePlanTransition(old[id].state, "SUPERSEDED")
                       THEN [old[id] EXCEPT !.state = "SUPERSEDED"]
                       ELSE old[id]
           new == [id \in DOMAIN old \cup {n} |-> IF id = n THEN fresh ELSE kept(id)]
<1>1. /\ old \in [DOMAIN old -> StoredPlan] /\ DOMAIN old \subseteq PlanIds
      /\ memory \in Memory /\ n \in PlanIds
  BY PartialIs DEF SnapshotOK, Memory, StorePlan
<1>2. memory' = [memory EXCEPT !.requests = requests, !.plans = new]
  BY DEF StorePlan
<1>3. fresh \in StoredPlan /\ fresh.epoch = memory.epoch /\ fresh.violated = violated
  BY <1>1 DEF StoredPlan, PlanState, PlanLifecycleState, Memory
<1>4. ASSUME NEW id \in DOMAIN old
      PROVE  /\ kept(id) \in StoredPlan
             /\ kept(id).epoch = old[id].epoch /\ kept(id).violated = old[id].violated
  <2>1. old[id] \in StoredPlan
    BY <1>1
  <2> QED BY <2>1 DEF StoredPlan, PlanState, PlanLifecycleState
<1> HIDE DEF fresh, kept
<1>5. new \in [DOMAIN old \cup {n} -> StoredPlan]
  BY <1>1, <1>3, <1>4
<1>6. new \in Partial(PlanIds, StoredPlan)
  BY <1>1, <1>5 DEF Partial
<1>7. /\ DOMAIN new = DOMAIN old \cup {n} /\ new[n] = fresh
      /\ \A id \in DOMAIN old \ {n} : new[id] = kept(id)
  OBVIOUS
<1> HIDE DEF new
<1>8. memory' \in Memory /\ memory'.plans = new /\ memory'.epoch = memory.epoch
  BY <1>1, <1>2, <1>6 DEF Memory
<1> QED BY <1>3, <1>4, <1>7, <1>8

\* The sweep of restart_coordinator.
LEMMA SweepKeeps ==
  ASSUME SnapshotOK, Sweep
  PROVE  /\ memory' \in Memory
         /\ memory'.epoch = memory.epoch + 1
         /\ DOMAIN memory'.plans = DOMAIN memory.plans
         /\ \A id \in DOMAIN memory.plans :
              /\ memory'.plans[id].epoch = memory.plans[id].epoch
              /\ EncodePlan(memory'.plans[id]) = EncodePlan(InvalidateLive(memory.plans)[id])
<1> DEFINE down == [memory EXCEPT !.epoch = @ + 1, !.alive = FALSE]
           loaded == IF Loaded = None THEN down ELSE ApplySnapshot(down, Loaded, TRUE)
<1>1. memory \in Memory
  BY DEF SnapshotOK
<1>2. down \in Memory /\ down.plans = memory.plans /\ down.epoch = memory.epoch + 1
  <2>1. memory.epoch + 1 \in Nat \ {0}
    BY <1>1 DEF Memory
  <2>2. ASSUME NEW e \in Nat \ {0}
        PROVE  LET d == [memory EXCEPT !.epoch = e, !.alive = FALSE] IN
                 d \in Memory /\ d.plans = memory.plans /\ d.epoch = e
    BY <1>1 DEF Memory
  <2> QED BY <2>1, <2>2
<1> HIDE DEF down
<1>3. memory' = [loaded EXCEPT !.plans = InvalidateLive(loaded.plans)]
  BY DEF Sweep, down
<1>4. /\ loaded \in Memory /\ loaded.epoch = memory.epoch + 1
      /\ Mirrors(loaded.plans, memory.plans)
  <2>1. CASE Loaded = None
    BY <1>2, <2>1 DEF Mirrors
  <2>2. CASE Loaded # None
    <3>1. Loaded = EncodeSnapshot(memory)
      BY <2>2 DEF SnapshotOK, Sweep
    <3>2. Loaded \in Snapshot
      BY <1>1, <3>1, EncodeType
    <3>3. loaded = ApplySnapshot(down, Loaded, TRUE)
      BY <2>2
    <3>4. loaded \in Memory /\ loaded.epoch = down.epoch
      BY <1>2, <3>2, <3>3, ApplyType DEF ApplySnapshot
    <3> HIDE DEF loaded
    <3>5. Mirrors(loaded.plans, memory.plans)
      BY <1>1, <1>2, <3>1, <3>3, ReadBack
    <3> QED BY <1>2, <3>4, <3>5
  <2> QED BY <2>1, <2>2
<1> HIDE DEF loaded
<1>5. loaded.plans \in Partial(PlanIds, StoredPlan)
  BY <1>4 DEF Memory
<1> DEFINE swept == InvalidateLive(loaded.plans)
<1>6. /\ swept \in Partial(PlanIds, StoredPlan) /\ DOMAIN swept = DOMAIN loaded.plans
      /\ \A id \in DOMAIN loaded.plans : swept[id].epoch = loaded.plans[id].epoch
  BY <1>5, InvalidateType
<1>7. ASSUME NEW id \in DOMAIN memory.plans
      PROVE  EncodePlan(swept[id]) = EncodePlan(InvalidateLive(memory.plans)[id])
  <2>1. loaded.plans[id] \in StoredPlan /\ memory.plans[id] \in StoredPlan
    BY <1>1, <1>4, <1>5, PartialIs DEF Memory, Mirrors
  <2>2. /\ swept[id] = IF loaded.plans[id].state \in Terminal THEN loaded.plans[id]
                       ELSE [loaded.plans[id] EXCEPT !.state = "INVALIDATED"]
        /\ InvalidateLive(memory.plans)[id] =
             IF memory.plans[id].state \in Terminal THEN memory.plans[id]
             ELSE [memory.plans[id] EXCEPT !.state = "INVALIDATED"]
    BY <1>4 DEF InvalidateLive, Mirrors
  <2> QED BY <1>4, <2>1, <2>2 DEF EncodePlan, StoredPlan, Mirrors
<1> HIDE DEF swept
<1>8. memory' \in Memory /\ memory'.plans = swept /\ memory'.epoch = loaded.epoch
  BY <1>3, <1>4, <1>6 DEF Memory, swept
<1> QED BY <1>4, <1>6, <1>7, <1>8 DEF Mirrors

\* What load_state finds is a snapshot.
LEMMA LoadedType ==
  ASSUME FileOK, SnapshotOK, Loaded # None
  PROVE  Loaded \in Snapshot
<1>1. Load # None /\ Loaded = contents[Load]
  BY DEF Loaded
<1>2. Load \in 1..MaxSaves
  BY <1>1, LoadRange, FileStoreAssumption DEF FileOK
<1> QED BY <1>1, <1>2 DEF SnapshotOK

\* A save opens: the snapshot that can be read now stays readable.
LEMMA SaveOpens ==
  ASSUME FileOK, SnapshotOK, NEW caller \in {"save", "restart"}, SaveLocked(caller)
  PROVE  SnapshotOK' /\ Loaded' = Loaded
<1>1. /\ step' = "write" /\ mode' = caller /\ saves' = saves + 1 /\ file' = file
      /\ memory' = memory /\ next_plan_id' = next_plan_id
      /\ saves + 1 \in 1..MaxSaves
  BY FileStoreAssumption DEF SaveLocked, OpenTemp, FileOK
<1>2. memory \in Memory /\ EncodeSnapshot(memory) \in Snapshot
  BY EncodeType DEF SnapshotOK
<1>3. /\ contents' \in [1..MaxSaves -> Snapshot \cup {None}]
      /\ contents'[saves + 1] = EncodeSnapshot(memory)
      /\ \A k \in 1..MaxSaves : k = Load /\ k # saves + 1 => contents'[k] = contents[k]
  BY <1>1, <1>2 DEF SaveLocked, SnapshotOK
<1>4. Load' = Load
  BY <1>1 DEF Load
<1>5. Load # None => Load \in 1..MaxSaves /\ Load # saves + 1
  BY LoadRange, FileStoreAssumption DEF FileOK
<1>6. Loaded' = Loaded
  BY <1>3, <1>4, <1>5 DEF Loaded
<1>7. SnapshotOK'
  <2>1. EncodeSnapshot(memory)' = EncodeSnapshot(memory)
    BY <1>1 DEF EncodeSnapshot
  <2> QED BY <1>1, <1>2, <1>3, <2>1 DEF SnapshotOK, Modes
<1> QED BY <1>6, <1>7

\* The planner keeps its types, and the snapshot being written stays the
\* planner as it is.
LEMMA SnapshotStep ==
  ASSUME FileOK, SnapshotOK, [SnapshotNext]_allVars
  PROVE  SnapshotOK'
<1>a. ASSUME mode = "idle" \/ mode = "sweep", step' = step, contents' = contents,
             mode' = "idle", memory' \in Memory, next_plan_id' \in Nat
      PROVE  SnapshotOK'
  BY <1>a DEF SnapshotOK, Modes
<1>b. ASSUME NEW r \in Requests, NEW violated \in BOOLEAN,
             NEW requests \in Partial(Requests, Texts), StorePlan(r, violated, requests)
      PROVE  SnapshotOK'
  <2>1. memory' \in Memory
    BY <1>b, StorePlanType
  <2>2. next_plan_id' \in Nat
    BY <1>b DEF StorePlan, SnapshotOK
  <2> QED BY <1>a, <1>b, <2>1, <2>2 DEF StorePlan, Unlocked, vars
<1>0. /\ memory \in Memory /\ memory.requests \in Partial(Requests, Texts)
      /\ memory.plans \in Partial(PlanIds, StoredPlan)
      /\ EncodeSnapshot(memory) \in Snapshot
  BY EncodeType DEF SnapshotOK, Memory
<1>1. ASSUME NEW r \in Requests, NEW text \in Texts, PlanFound(r, text) PROVE SnapshotOK'
  <2> DEFINE requests == [q \in DOMAIN memory.requests \cup {r} |->
                            IF q = r THEN text ELSE memory.requests[q]]
  <2>1. memory.requests \in [DOMAIN memory.requests -> Texts]
        /\ DOMAIN memory.requests \subseteq Requests
    BY <1>0, PartialIs
  <2>2. requests \in [DOMAIN memory.requests \cup {r} -> Texts]
    BY <2>1
  <2>3. requests \in Partial(Requests, Texts)
    BY <2>1, <2>2 DEF Partial
  <2> QED BY <1>1, <1>b, <2>3 DEF PlanFound
<1>2. ASSUME NEW r \in Requests, PlanFallback(r) PROVE SnapshotOK'
  BY <1>0, <1>2, <1>b DEF PlanFallback
<1>3. ASSUME NEW id \in PlanIds, CancelPlan(id) PROVE SnapshotOK'
  <2>1. memory.plans \in [DOMAIN memory.plans -> StoredPlan] /\ DOMAIN memory.plans \subseteq PlanIds
    BY <1>0, PartialIs
  <2> DEFINE new == [memory.plans EXCEPT ![id] = [@ EXCEPT !.state = "CANCELLED"]]
  <2>2. [memory.plans[id] EXCEPT !.state = "CANCELLED"] \in StoredPlan
    BY <1>3, <2>1 DEF CancelPlan, StoredPlan, PlanState, PlanLifecycleState
  <2>3. new \in [DOMAIN memory.plans -> StoredPlan]
    BY <2>1, <2>2
  <2>4. new \in Partial(PlanIds, StoredPlan)
    BY <2>1, <2>3 DEF Partial
  <2>5. memory' = [memory EXCEPT !.plans = new]
    BY <1>0, <1>3 DEF CancelPlan, Memory
  <2> HIDE DEF new
  <2>6. memory' \in Memory
    BY <1>0, <2>4, <2>5 DEF Memory
  <2> QED BY <1>3, <1>a, <2>6 DEF CancelPlan, Unlocked, vars, SnapshotOK
<1>4. CASE RegisterWorker
  <2>1. memory' \in Memory
    BY <1>0, <1>4 DEF RegisterWorker, Memory
  <2> QED BY <1>4, <1>a, <2>1 DEF RegisterWorker, Unlocked, vars, SnapshotOK
<1>5. CASE SaveState \/ RestartCoordinator
  BY <1>5, SaveOpens DEF SaveState, RestartCoordinator
<1>6. CASE StoreStep
  <2>1. /\ step # "idle" /\ step' # "idle" /\ saves' = saves
        /\ UNCHANGED <<memory, next_plan_id, contents, mode>>
    BY <1>6 DEF StoreStep, WriteTemp, RemoveOld, Rename
  <2>2. EncodeSnapshot(memory)' = EncodeSnapshot(memory)
    BY <2>1 DEF EncodeSnapshot
  <2> QED BY <2>1, <2>2 DEF SnapshotOK
<1>7. CASE SaveLockedReturns
  <2>1. /\ step = "return" /\ step' = "idle" /\ mode' \in {"sweep", "idle"}
        /\ UNCHANGED <<memory, next_plan_id, contents, file>>
    BY <1>7 DEF SaveLockedReturns, SaveReturns
  <2>2. Load' = Load /\ Loaded' = Loaded
    BY <2>1, SameLoaded
  <2>3. Load # None => Load = saves
    BY <2>1, LoadRange DEF FileOK
  <2>4. Loaded \in {None, EncodeSnapshot(memory)}
    BY <2>1, <2>3 DEF Loaded, SnapshotOK
  <2>5. EncodeSnapshot(memory)' = EncodeSnapshot(memory)
    BY <2>1 DEF EncodeSnapshot
  <2> QED BY <2>1, <2>2, <2>4, <2>5 DEF SnapshotOK, Modes
<1>8. CASE SaveThrows
  BY <1>8 DEF SaveThrows, Abandon, SnapshotOK, Modes
<1>9. CASE Sweep
  BY <1>9, <1>a, SweepKeeps DEF Sweep, vars, SnapshotOK
<1>10. CASE LoadState
  <2>1. memory' \in Memory
    BY <1>0, <1>10, LoadedType, ApplyType DEF LoadState
  <2> QED BY <1>10, <1>a, <2>1 DEF LoadState, Unlocked, vars, SnapshotOK
<1>11. CASE Crash
  <2>1. step' = "idle" /\ mode' = "idle" /\ contents' = contents /\ memory' = Constructed
        /\ next_plan_id' = 1
    BY <1>11 DEF Crash, Abandon, vars
  <2> QED BY <2>1, ConstructedType DEF SnapshotOK, Modes
<1>12. CASE FileDecays
  <2>1. /\ step = "idle" /\ step' = "idle" /\ UNCHANGED <<memory, next_plan_id, contents, mode>>
        /\ Load' = None
    BY <1>12 DEF FileDecays, Decay, FileOK, File, Load
  <2>2. Loaded' = None
    BY <2>1 DEF Loaded
  <2> QED BY <2>1, <2>2 DEF SnapshotOK
<1>13. CASE UNCHANGED allVars
  <2>1. Loaded' = Loaded /\ EncodeSnapshot(memory)' = EncodeSnapshot(memory)
    BY <1>13, SameLoaded DEF allVars, vars, EncodeSnapshot
  <2> QED BY <1>13, <2>1 DEF allVars, vars, SnapshotOK
<1> QED BY <1>1, <1>2, <1>3, <1>4, <1>5, <1>6, <1>7, <1>8, <1>9, <1>10, <1>11, <1>12, <1>13
        DEF SnapshotNext

SnapshotInv == FileOK /\ SnapshotOK

\* Memory, file and snapshots agree in every reachable state.
LEMMA SnapshotInvariant == SnapshotSpec => []SnapshotInv
<1>1. SnapshotInit => SnapshotOK
  BY ConstructedType DEF SnapshotInit, Init, SnapshotOK, Modes
<1>2. FileOK /\ SnapshotOK /\ [SnapshotNext]_allVars => SnapshotOK'
  BY SnapshotStep
<1> QED BY <1>1, <1>2, FileInvariant, PTL DEF SnapshotSpec, SnapshotInv

-----------------------------------------------------------------------------
(***************************************************************************)
(* What the planner may rely on.                                           *)
(***************************************************************************)

\* Through the several steps of a save, what a load would yield becomes nothing,
\* or the planner as it is, and never anything else, wherever the save fails or
\* the process dies.
THEOREM StoreOfOneMoment == SnapshotSpec => StoreHoldsOneMoment
<1>1. ASSUME SnapshotInv, SnapshotNext
      PROVE  Loaded' # Loaded => Loaded' \in {None, EncodeSnapshot(memory)}
  <2> USE DEF SnapshotInv
  <2>a. ASSUME UNCHANGED <<file, contents>> PROVE Loaded' = Loaded
    BY <2>a, SameLoaded
  <2>1. CASE SaveState \/ RestartCoordinator
    BY <1>1, <2>1, SaveOpens DEF SaveState, RestartCoordinator
  <2>2. CASE Rename /\ contents' = contents
    <3>1. /\ file' \in File /\ file'.payload = saves /\ step # "idle"
      BY <1>1, <2>2 DEF Rename, FileOK
    <3>2. Load' \in {None, saves}
      BY <3>1 DEF Load
    <3>3. contents[saves] = EncodeSnapshot(memory)
      BY <1>1, <3>1 DEF SnapshotOK
    <3> QED BY <2>2, <3>2, <3>3 DEF Loaded
  <2>3. ASSUME NEW removed \in BOOLEAN, RemoveOld(removed), contents' = contents
        PROVE  Loaded' # Loaded => Loaded' \in {None, EncodeSnapshot(memory)}
    <3>1. Load' \in {None, Load}
      BY <2>3 DEF RemoveOld, Load
    <3> QED BY <2>3, <3>1 DEF Loaded
  <2>4. CASE FileDecays
    <3>1. Load' = None
      BY <1>1, <2>4 DEF FileDecays, Decay, FileOK, File, Load
    <3> QED BY <3>1 DEF Loaded
  <2>5. CASE Crash
    BY <2>5, <2>a DEF Crash, Abandon, vars
  <2>6. CASE StoreStep
    BY <2>6, <2>2, <2>3, <2>a DEF StoreStep, WriteTemp
  <2>7. CASE \/ \E r \in Requests, text \in Texts : PlanFound(r, text)
             \/ \E r \in Requests : PlanFallback(r)
             \/ \E id \in PlanIds : CancelPlan(id)
             \/ RegisterWorker \/ Sweep \/ LoadState
    BY <2>7, <2>a
    DEF PlanFound, PlanFallback, StorePlan, CancelPlan, RegisterWorker, Sweep, LoadState, vars
  <2>8. CASE SaveLockedReturns \/ SaveThrows
    BY <2>8, <2>a DEF SaveLockedReturns, SaveReturns, SaveThrows, Abandon
  <2> QED BY <1>1, <2>1, <2>4, <2>5, <2>6, <2>7, <2>8 DEF SnapshotNext
<1>2. SnapshotInv /\ [SnapshotNext]_allVars
        => [Loaded' # Loaded => Loaded' \in {None, EncodeSnapshot(memory)}]_allVars
  BY <1>1
<1> QED BY <1>2, SnapshotInvariant, PTL DEF SnapshotSpec, StoreHoldsOneMoment

\* While a restart is between its save and its sweep, only the sweep advances
\* the epoch.
LEMMA OnlySweepAdvances ==
  ASSUME SnapshotInv, SnapshotNext, mode = "sweep", memory'.epoch = memory.epoch + 1
  PROVE  Sweep
<1>1. memory.epoch \in Nat \ {0} /\ step = "idle"
  BY DEF SnapshotInv, SnapshotOK, Memory
<1>2. memory' # memory
  BY <1>1
<1>3. memory' # Constructed
  BY <1>1 DEF Constructed
<1> QED BY <1>1, <1>2, <1>3
        DEF SnapshotNext, PlanFound, PlanFallback, StorePlan, CancelPlan, RegisterWorker,
            Unlocked, SaveState, RestartCoordinator, SaveLocked, StoreStep, SaveLockedReturns,
            SaveThrows, LoadState, Crash, FileDecays

\* restart_coordinator keeps every plan of the table, whatever became of the
\* snapshot it wrote: the live ones invalidated, the others unchanged.
THEOREM RestartKeeps == SnapshotSpec => RestartKeepsPlans
<1> DEFINE Kept ==
      mode = "sweep" /\ memory'.epoch = memory.epoch + 1 =>
        /\ DOMAIN memory'.plans = DOMAIN memory.plans
        /\ \A id \in DOMAIN memory.plans :
             EncodePlan(memory'.plans[id]) = EncodePlan(InvalidateLive(memory.plans)[id])
<1>1. SnapshotInv /\ SnapshotNext => Kept
  BY OnlySweepAdvances, SweepKeeps DEF SnapshotInv
<1>2. SnapshotInv /\ [SnapshotNext]_allVars => [Kept]_allVars
  BY <1>1
<1> QED BY <1>2, SnapshotInvariant, PTL DEF SnapshotSpec, RestartKeepsPlans

\* A snapshot all of whose texts decode is restored exactly: encoding the
\* planner that load_state leaves gives the snapshot again.
LEMMA RoundTrip ==
  ASSUME NEW m, NEW s \in Snapshot, Decodes(s)
  PROVE  EncodeSnapshot(ApplySnapshot(m, s, FALSE)) = s
<1> DEFINE a == ApplySnapshot(m, s, FALSE)
<1>1. /\ s.plans \in [DOMAIN s.plans -> SavedPlan]
      /\ s.requests \in [DOMAIN s.requests -> Texts]
  BY PartialIs DEF Snapshot
<1>2. a.requests = s.requests
  <2>1. {r \in DOMAIN s.requests :
           \A q \in DOMAIN s.requests : q <= r => s.requests[q] # "long"} = DOMAIN s.requests
    BY DEF Decodes
  <2>2. DecodeRequests(s) = [r \in DOMAIN s.requests |-> s.requests[r]]
    BY <2>1 DEF DecodeRequests, Restrict
  <2> QED BY <1>1, <2>2 DEF ApplySnapshot
<1>3. a.plans = [id \in DOMAIN s.plans |-> DecodePlan(s.plans[id])] /\ a.epoch = s.epoch
  BY DEF ApplySnapshot, DecodePlans
<1> HIDE DEF a
<1>4. [id \in DOMAIN a.plans |-> EncodePlan(a.plans[id])] = s.plans
  <2>1. DOMAIN a.plans = DOMAIN s.plans
    BY <1>3
  <2>2. ASSUME NEW id \in DOMAIN s.plans PROVE EncodePlan(a.plans[id]) = s.plans[id]
    <3>1. s.plans[id] \in SavedPlan /\ a.plans[id] = DecodePlan(s.plans[id])
      BY <1>1, <1>3
    <3>2. \A p \in SavedPlan : EncodePlan(DecodePlan(p)) = p
      BY DEF EncodePlan, DecodePlan, SavedPlan
    <3> QED BY <3>1, <3>2
  <2> QED BY <1>1, <2>1, <2>2
<1>5. EncodeSnapshot(a) = [epoch |-> s.epoch, requests |-> s.requests, plans |-> s.plans]
  BY <1>2, <1>3, <1>4 DEF EncodeSnapshot
<1>6. EncodeSnapshot(a) = s
  BY <1>5 DEF Snapshot
<1> QED BY <1>6 DEF a

\* load_state restores epoch, requests and plans exactly when every text is
\* within the reader's limit.
THEOREM ShortRestored == SnapshotSpec => ShortTextsRestored
<1> DEFINE Restored == LoadState /\ Decodes(Loaded) => EncodeSnapshot(memory') = Loaded
<1>1. SnapshotInv => Restored
  <2> SUFFICES ASSUME SnapshotInv, LoadState, Decodes(Loaded)
               PROVE  EncodeSnapshot(memory') = Loaded
    OBVIOUS
  <2>1. Loaded \in Snapshot
    BY LoadedType DEF LoadState, SnapshotInv
  <2>2. memory' = ApplySnapshot(memory, Loaded, FALSE)
    BY DEF LoadState
  <2> QED BY <2>1, <2>2, RoundTrip
<1>2. SnapshotInv /\ [SnapshotNext]_allVars => [Restored]_allVars
  BY <1>1
<1> QED BY <1>2, SnapshotInvariant, PTL DEF SnapshotSpec, ShortTextsRestored

\* A late plan of the table is known to be late, or of an epoch that is over.
LateOK ==
  \A id \in late : id \in DOMAIN memory.plans =>
    /\ memory.plans[id].epoch <= memory.epoch
    /\ memory.plans[id].violated \/ memory.plans[id].epoch < memory.epoch

\* The epochs of the planner and of its plans can be compared.
LEMMA EpochsAreNumbers ==
  ASSUME SnapshotInv
  PROVE  /\ memory \in Memory /\ memory.epoch \in Nat
         /\ \A id \in DOMAIN memory.plans : memory.plans[id].epoch \in Nat
<1>1. memory \in Memory
  BY DEF SnapshotInv, SnapshotOK
<1>2. memory.epoch \in Nat /\ memory.plans \in Partial(PlanIds, StoredPlan)
  BY <1>1 DEF Memory
<1>3. memory.plans \in [DOMAIN memory.plans -> StoredPlan]
  BY <1>2, PartialIs
<1>4. \A id \in DOMAIN memory.plans : memory.plans[id].epoch \in Nat
  BY <1>3 DEF StoredPlan
<1> QED BY <1>1, <1>2, <1>4

\* No step makes a late plan acceptable.
LEMMA LateStep ==
  ASSUME SnapshotInv, LateOK, [SnapshotNext]_allVars
  PROVE  LateOK'
<1> USE DEF SnapshotInv
<1>0. /\ memory \in Memory /\ memory.epoch \in Nat
      /\ \A id \in DOMAIN memory.plans : memory.plans[id].epoch \in Nat
  BY EpochsAreNumbers
<1>1. ASSUME NEW r \in Requests, NEW violated \in BOOLEAN,
             NEW requests \in Partial(Requests, Texts), StorePlan(r, violated, requests)
      PROVE  LateOK'
  <2>1. late' = IF violated THEN late \cup {next_plan_id} ELSE late \ {next_plan_id}
    BY <1>1 DEF StorePlan
  <2> QED BY <1>0, <1>1, <2>1, StorePlanType DEF LateOK
<1>2. ASSUME NEW r \in Requests, NEW text \in Texts, PlanFound(r, text) PROVE LateOK'
  <2> DEFINE requests == [q \in DOMAIN memory.requests \cup {r} |->
                            IF q = r THEN text ELSE memory.requests[q]]
  <2>1. memory.requests \in [DOMAIN memory.requests -> Texts]
        /\ DOMAIN memory.requests \subseteq Requests
    BY <1>0, PartialIs DEF Memory
  <2>2. requests \in [DOMAIN memory.requests \cup {r} -> Texts]
    BY <2>1
  <2>3. requests \in Partial(Requests, Texts)
    BY <2>1, <2>2 DEF Partial
  <2> QED BY <1>1, <1>2, <2>3 DEF PlanFound
<1>3. ASSUME NEW r \in Requests, PlanFallback(r) PROVE LateOK'
  BY <1>0, <1>1, <1>3 DEF PlanFallback, Memory
<1>4. ASSUME NEW id \in PlanIds, CancelPlan(id) PROVE LateOK'
  <2>1. /\ memory.plans[id] \in StoredPlan /\ late' = late
        /\ memory.plans \in [DOMAIN memory.plans -> StoredPlan]
    BY <1>0, <1>4, PartialIs DEF CancelPlan, Memory
  <2> DEFINE q == [memory.plans[id] EXCEPT !.state = "CANCELLED"]
  <2>2. q.epoch = memory.plans[id].epoch /\ q.violated = memory.plans[id].violated
    BY <2>1 DEF StoredPlan
  <2>3. memory'.plans = [memory.plans EXCEPT ![id] = q] /\ memory'.epoch = memory.epoch
    BY <1>0, <1>4 DEF CancelPlan, Memory
  <2> HIDE DEF q
  <2>4. /\ DOMAIN memory'.plans = DOMAIN memory.plans
        /\ \A k \in DOMAIN memory.plans :
             /\ memory'.plans[k].epoch = memory.plans[k].epoch
             /\ memory'.plans[k].violated = memory.plans[k].violated
    BY <2>1, <2>2, <2>3
  <2> QED BY <2>1, <2>3, <2>4 DEF LateOK
<1>5. CASE RegisterWorker
  <2>1. memory'.plans = memory.plans /\ memory'.epoch = memory.epoch /\ late' = late
    BY <1>0, <1>5 DEF RegisterWorker, Memory
  <2> QED BY <2>1 DEF LateOK
<1>6. CASE Sweep
  <2>1. late' = late
    BY <1>6 DEF Sweep
  <2> QED BY <1>0, <1>6, <2>1, SweepKeeps DEF LateOK
<1>7. CASE LoadState \/ Crash
  BY <1>7 DEF LoadState, Crash, LateOK
<1>8. CASE memory' = memory /\ late' = late
  BY <1>8 DEF LateOK
<1> QED BY <1>2, <1>3, <1>4, <1>5, <1>6, <1>7, <1>8
        DEF SnapshotNext, allVars, SaveState, RestartCoordinator, SaveLocked, StoreStep,
            SaveLockedReturns, SaveThrows, FileDecays

\* A plan built past its deadline stays refused, although the snapshot that a
\* restart reads back has lost the verdict.
THEOREM LateRefused == SnapshotSpec => []LateStaysRefused
<1>1. SnapshotInit => LateOK
  BY DEF SnapshotInit, LateOK
<1>2. SnapshotInv /\ LateOK /\ [SnapshotNext]_allVars => LateOK'
  BY LateStep
<1>3. SnapshotInv /\ LateOK => LateStaysRefused
  BY EpochsAreNumbers DEF LateOK, LateStaysRefused, RevalidateAccepts, Current
<1> QED BY <1>1, <1>2, <1>3, SnapshotInvariant, PTL DEF SnapshotSpec

=============================================================================
