------------------------------ MODULE FileStore ------------------------------
(***************************************************************************)
(* FilePersistenceStore (persistence.cpp) for one key: the steps of save,  *)
(* each of which may fail or be the last one before the process dies, and  *)
(* what load makes of the file that is left.  SnapshotRecovery puts these  *)
(* steps into the planner's calls.                                         *)
(***************************************************************************)
EXTENDS Naturals

CONSTANTS
  None,       \* std::nullopt, no file, no payload
  MaxSaves    \* bound: saves

ASSUME FileStoreAssumption == None \notin Nat /\ MaxSaves \in Nat

\* A file's content: the frame of a payload, whole or damaged.  Payloads are told
\* apart by the number of the save that wrote them.  "corrupt": the header, the
\* length, the remaining bytes or the checksum do not agree.
Damage  == {"none", "truncated", "corrupt"}
Whole(p)  == [payload |-> p, damage |-> "none"]
Partly(p) == [payload |-> p, damage |-> "truncated"]

VARIABLES
  file,       \* <dir>/<key>.rpp
  temp,       \* <dir>/<key>.rpp.tmp
  step,       \* the step of save that comes next
  saving,     \* the payload being saved
  durable,    \* history: the payload of the last save that returned, or 0
  saves       \* saves begun

vars == <<file, temp, step, saving, durable, saves>>

-----------------------------------------------------------------------------
(***************************************************************************)
(* save.                                                                   *)
(***************************************************************************)

\* The temp file is opened and truncated.  A payload beyond kMaxPayload throws
\* before that and changes nothing.
OpenTemp ==
  /\ step = "idle"
  /\ saves < MaxSaves
  /\ saves' = saves + 1
  /\ temp' = Partly(saves + 1)
  /\ saving' = saves + 1
  /\ step' = "write"
  /\ UNCHANGED <<file, durable>>

\* ofs.write and the close at the end of the block; an error that only the
\* close meets is not noticed.
WriteTemp(complete) ==
  /\ step = "write"
  /\ temp' = IF complete THEN Whole(saving) ELSE Partly(saving)
  /\ step' = "remove"
  /\ UNCHANGED <<file, saving, durable, saves>>

\* fs::remove; its error code is overwritten by the next call.
RemoveOld(removed) ==
  /\ step = "remove"
  /\ file' = IF removed THEN None ELSE file
  /\ step' = "rename"
  /\ UNCHANGED <<temp, saving, durable, saves>>

\* Mutant: an existing file is not replaced.
RenameIfAbsent ==
  /\ step = "rename"
  /\ file' = IF file = None THEN temp ELSE file
  /\ temp' = None
  /\ step' = "return"
  /\ UNCHANGED <<saving, durable, saves>>

\* fs::rename.
Rename ==
  /\ step = "rename"
  /\ file' = temp
  /\ temp' = None
  /\ step' = "return"
  /\ UNCHANGED <<saving, durable, saves>>

SaveReturns ==
  /\ step = "return"
  /\ durable' = saving
  /\ saving' = None
  /\ step' = "idle"
  /\ UNCHANGED <<file, temp, saves>>

\* A step of save throws, or the process dies in the middle of it: the files
\* stay as they are and the next save starts afresh.
Abandon ==
  /\ step # "idle"
  /\ step' = "idle"
  /\ saving' = None
  /\ UNCHANGED <<file, temp, durable, saves>>

\* external: the stored file is damaged.
Decay(damage) ==
  /\ step = "idle"
  /\ file # None
  /\ file' = [file EXCEPT !.damage = damage]
  /\ UNCHANGED <<temp, step, saving, durable, saves>>

-----------------------------------------------------------------------------
\* load: header, length, remaining bytes and checksum must all agree.
Load == IF file # None /\ file.damage = "none" THEN file.payload ELSE None

-----------------------------------------------------------------------------
Init ==
  /\ file = None
  /\ temp = None
  /\ step = "idle"
  /\ saving = None
  /\ durable = 0
  /\ saves = 0

-----------------------------------------------------------------------------
\* Whatever steps of whatever saves failed, load never goes back beyond the
\* last save that returned: it yields that snapshot, a newer one, or nothing.
LoadIsNeverStale == Load # None => Load \in durable..saves

\* What the comments say of the replacement, that it is atomic: once a save has
\* returned, there is a stored file whenever no save is under way.  save removes
\* the old file before it renames the new one.
ReplacementIsAtomic == durable # 0 /\ step = "idle" => file # None

=============================================================================
