---------------------------- MODULE KvStoreFile ----------------------------
(***************************************************************************)
(* The file store of src/platforms/linux/linux_kv_store_file.c, behind     *)
(* src/src/platform/mybot_kv_store.c: a record is a file in a directory,   *)
(* which the first opening of the store makes in its parent.               *)
(*                                                                         *)
(* The file system is modelled as POSIX leaves it: a power loss keeps of a *)
(* file that was not synced any prefix of what was written, of a directory *)
(* entry that changed since the directory was synced any of the values it  *)
(* had, and a directory whose own entry was not synced it may take away    *)
(* with all its records.  Every system call may fail.  One thread uses the *)
(* store.                                                                  *)
(***************************************************************************)
EXTENDS Integers

CONSTANTS
  Keys, Values, Absent,
  Chunks,                     \* writes it takes to write a record
  MaxCalls, MaxFaults, MaxCrashes   \* bounds of the model

ASSUME ChunksAssumption == Chunks \in Nat \ {0}
ASSUME AbsentAssumption == Absent \notin Values

VARIABLES
  opened,   \* the context, with the directory open in it
  \* the file system
  entry,    \* the directory in its parent: "none", "unsynced" or "synced"
  loose,    \* history: an opening that made the directory ended before it synced the parent
  dir,      \* the file under each key as the system shows it
  onDisk,   \* the entries a power loss may leave under each key
  temp,     \* the temporary file, NoFile if there is none
  \* the call in progress
  op, pc, result, got,
  changed,  \* a call began since the store was opened
  calls, faults, crashes

place == <<entry, loose>>
fs == <<place, dir, onDisk, temp>>
bounds == <<calls, faults, crashes>>
vars == <<opened, fs, op, pc, result, got, changed, bounds>>

NoFile == [len |-> Chunks, value |-> Absent, synced |-> TRUE]
None == [call |-> "none"]
Settled == [k \in Keys |-> {dir[k]}]

\* What is left of a file after a power loss.
Remains(f) == IF f.synced THEN {f} ELSE {[f EXCEPT !.len = n, !.synced = TRUE] : n \in 0..f.len}

\* What reading a file yields; part of a record is none of the values.
Content(f) == IF f.len = Chunks THEN f.value ELSE "partial"

Init ==
  /\ opened = FALSE
  /\ entry \in {"none", "synced"} /\ loose = FALSE
  /\ dir = [k \in Keys |-> NoFile] /\ onDisk = [k \in Keys |-> {NoFile}] /\ temp = NoFile
  /\ op = None /\ pc = "idle" /\ result = "none" /\ got = "failed"
  /\ changed = FALSE
  /\ calls = 0 /\ faults = 0 /\ crashes = 0

Fault == faults < MaxFaults /\ faults' = faults + 1 /\ UNCHANGED <<calls, crashes>>

-----------------------------------------------------------------------------
\* Mutant: the directory is opened without being synced
OpenUnsynced == UNCHANGED onDisk

\* The last step of open_store_directory syncs the directory before anything is read.
SyncOnOpen == onDisk' = Settled

\* kv_store_file_init up to mkdirat: a directory that is there already is used as it is.
Open ==
  /\ ~opened /\ pc = "idle"
  /\ IF entry = "none" THEN entry' = "unsynced" /\ pc' = "syncParent"
                       ELSE pc' = "syncRoot" /\ UNCHANGED entry
  /\ UNCHANGED <<opened, loose, dir, onDisk, temp, op, result, got, changed, bounds>>

\* Only the opening that made the directory makes its entry durable.
SyncParent ==
  /\ pc = "syncParent" /\ pc' = "syncRoot"
  /\ entry' = "synced"
  /\ UNCHANGED <<opened, loose, dir, onDisk, temp, op, result, got, changed, bounds>>

OpenDone ==
  /\ pc = "syncRoot" /\ pc' = "idle"
  /\ opened' = TRUE /\ changed' = FALSE
  /\ SyncOnOpen
  /\ UNCHANGED <<place, dir, temp, op, result, got, bounds>>

\* What an opening that ends early leaves behind.
CutShort == loose' = (loose \/ pc = "syncParent") /\ UNCHANGED entry

\* mkdirat fails, or a later step of the opening; the next one starts again.
OpenFails ==
  /\ ~opened /\ Fault /\ pc' = "idle"
  /\ CutShort
  /\ UNCHANGED <<opened, dir, onDisk, temp, op, result, got, changed>>

Get(k) ==
  /\ opened /\ op = None
  /\ got' = Content(dir[k])
  /\ UNCHANGED <<opened, fs, op, pc, result, changed, bounds>>

GetFails ==
  /\ opened /\ op = None
  /\ Fault /\ got' = "failed"
  /\ UNCHANGED <<opened, fs, op, pc, result, changed>>

Begin(call, k, v, first) ==
  /\ opened /\ op = None /\ calls < MaxCalls
  /\ calls' = calls + 1 /\ changed' = TRUE
  /\ op' = [call |-> call, key |-> k, value |-> v] /\ pc' = first
  /\ UNCHANGED <<opened, fs, result, got, faults, crashes>>

Return(r) == op' = None /\ pc' = "idle" /\ result' = r

\* kv_store_file_set
BeginSet(k, v) == Begin("set", k, v, "create")

\* create_temp_file, after existing_value_is_safe
Create ==
  /\ pc = "create"
  /\ temp' = [len |-> 0, value |-> op.value, synced |-> FALSE]
  /\ pc' = "write"
  /\ UNCHANGED <<opened, place, dir, onDisk, op, result, got, changed, bounds>>

\* The record is not safe to replace, or no temporary file can be made.
CreateFails ==
  /\ pc = "create" /\ Fault /\ Return("failed")
  /\ UNCHANGED <<opened, fs, got, changed>>

\* write_all, one short write at a time
Write ==
  /\ pc = "write"
  /\ temp' = [temp EXCEPT !.len = @ + 1]
  /\ pc' = IF temp.len + 1 = Chunks THEN "syncFile" ELSE "write"
  /\ UNCHANGED <<opened, place, dir, onDisk, op, result, got, changed, bounds>>

\* Mutant: the file is not synced before it is renamed
SyncNothing ==
  /\ pc = "syncFile" /\ pc' = "rename"
  /\ temp' = temp
  /\ UNCHANGED <<opened, place, dir, onDisk, op, result, got, changed, bounds>>

SyncFile ==
  /\ pc = "syncFile" /\ pc' = "rename"
  /\ temp' = [temp EXCEPT !.synced = TRUE]
  /\ UNCHANGED <<opened, place, dir, onDisk, op, result, got, changed, bounds>>

Rename ==
  /\ pc = "rename" /\ pc' = "syncDir"
  /\ dir' = [dir EXCEPT ![op.key] = temp]
  /\ onDisk' = [onDisk EXCEPT ![op.key] = @ \cup {temp}]
  /\ temp' = NoFile
  /\ UNCHANGED <<opened, place, op, result, got, changed, bounds>>

\* The last step of set and of erase.
SyncDir ==
  /\ pc = "syncDir"
  /\ onDisk' = Settled
  /\ Return("ok")
  /\ UNCHANGED <<opened, place, dir, temp, got, changed, bounds>>

\* A step of set that fails goes on to remove the temporary file.
SetStepFails ==
  /\ op.call = "set" /\ pc \in {"write", "syncFile", "rename", "syncDir"}
  /\ Fault /\ pc' = "unlinkTemp"
  /\ UNCHANGED <<opened, fs, op, result, got, changed>>

\* Once renamed there is no temporary file; the directory is not synced again then.
UnlinkTemp ==
  /\ pc = "unlinkTemp"
  /\ IF temp = NoFile THEN UNCHANGED onDisk ELSE onDisk' \in {onDisk, Settled}
  /\ temp' = NoFile
  /\ Return("failed")
  /\ UNCHANGED <<opened, place, dir, got, changed, bounds>>

\* A temporary file that cannot be removed stays; no later call uses its name.
UnlinkTempFails ==
  /\ pc = "unlinkTemp" /\ temp # NoFile
  /\ Fault /\ temp' = NoFile
  /\ Return("failed")
  /\ UNCHANGED <<opened, place, dir, onDisk, got, changed>>

\* kv_store_file_erase: what is absent is not erased again.
BeginErase(k) == Begin("erase", k, Absent, "unlink")

Unlink ==
  /\ pc = "unlink" /\ dir[op.key] # NoFile
  /\ dir' = [dir EXCEPT ![op.key] = NoFile]
  /\ onDisk' = [onDisk EXCEPT ![op.key] = @ \cup {NoFile}]
  /\ pc' = "syncDir"
  /\ UNCHANGED <<opened, place, temp, op, result, got, changed, bounds>>

UnlinkAbsent ==
  /\ pc = "unlink" /\ dir[op.key] = NoFile
  /\ Return("ok")
  /\ UNCHANGED <<opened, fs, got, changed, bounds>>

EraseStepFails ==
  /\ op.call = "erase" /\ pc \in {"unlink", "syncDir"}
  /\ Fault /\ Return("failed")
  /\ UNCHANGED <<opened, fs, got, changed>>

-----------------------------------------------------------------------------
(* The process ends, or the power does.                                    *)

Crash ==
  /\ crashes < MaxCrashes /\ crashes' = crashes + 1 /\ UNCHANGED <<calls, faults>>
  /\ Return("none") /\ opened' = FALSE /\ temp' = NoFile
  /\ UNCHANGED <<got, changed>>

ProcessDies == Crash /\ CutShort /\ UNCHANGED <<dir, onDisk>>

\* The directory is still there, and its entry now durable.
KeepsDirectory ==
  /\ entry' = IF entry = "none" THEN "none" ELSE "synced"
  /\ dir' \in [Keys -> UNION {Remains(f) : f \in UNION {onDisk[k] : k \in Keys}}]
  /\ \A k \in Keys : \E f \in onDisk[k] : dir'[k] \in Remains(f)

LosesDirectory ==
  /\ entry = "unsynced" /\ entry' = "none"
  /\ dir' = [k \in Keys |-> NoFile]

PowerLoss ==
  /\ Crash
  /\ KeepsDirectory \/ LosesDirectory
  /\ onDisk' = [k \in Keys |-> {dir'[k]}]
  /\ loose' = FALSE

Next ==
  \/ Open \/ SyncParent \/ OpenDone \/ OpenFails \/ GetFails
  \/ Create \/ CreateFails \/ Write \/ SyncFile \/ Rename \/ SyncDir
  \/ SetStepFails \/ UnlinkTemp \/ UnlinkTempFails \/ Unlink \/ UnlinkAbsent \/ EraseStepFails
  \/ ProcessDies \/ PowerLoss
  \/ \E k \in Keys : Get(k) \/ BeginErase(k) \/ \E v \in Values : BeginSet(k, v)

Spec == Init /\ [][Next]_vars

-----------------------------------------------------------------------------
Files == [len : 0..Chunks, value : Values \cup {Absent}, synced : BOOLEAN]

TypeOK ==
  /\ opened \in BOOLEAN /\ changed \in BOOLEAN
  /\ entry \in {"none", "unsynced", "synced"} /\ loose \in BOOLEAN
  /\ dir \in [Keys -> Files] /\ onDisk \in [Keys -> SUBSET Files] /\ temp \in Files
  /\ op \in {None} \cup [call : {"set", "erase"}, key : Keys, value : Values \cup {Absent}]
  /\ pc \in {"idle", "syncParent", "syncRoot", "create", "write", "syncFile", "rename",
             "syncDir", "unlinkTemp", "unlink"}
  /\ result \in {"none", "ok", "failed"}
  /\ got \in Values \cup {Absent, "failed", "partial"}

\* What the device reads between opening the store and its first change to it, which is
\* when it loads its credential, is durable: a change the last run was told had failed,
\* or never saw the end of, does not come and go with the next power loss.  The one
\* exception is a directory whose making was cut short before its entry was durable.
LoadedIsDurable ==
  opened /\ ~changed => onDisk = Settled /\ (entry = "synced" \/ loose)

\* The records a power loss may leave under a key.
Outcomes(k) ==
  {Content(g) : g \in UNION {Remains(f) : f \in onDisk[k]}}
    \cup IF entry = "unsynced" THEN {Absent} ELSE {}

\* What set acknowledges survives a power loss, whatever happened to the store before.
\* The run kv_store_directory finds that it may not: an opening that ended between mkdirat
\* and the fsync of the parent leaves a directory that later openings take for durable.
AcknowledgedSurvives ==
  [][\A k \in Keys, v \in Values :
       op = [call |-> "set", key |-> k, value |-> v] /\ op' = None /\ result' = "ok"
         => Outcomes(k)' = {v}]_vars

\* The store keeps the promises of DurableStore: whole records, a success of set that
\* survives a power loss, and the old or the new record in every other case.
Durable == INSTANCE DurableStore WITH
  store <- [k \in Keys |-> Content(dir[k])],
  maybe <- [k \in Keys |-> {Content(g) : g \in UNION {Remains(f) : f \in onDisk[k]}}],
  open <- opened

ImplementsStore == Durable!StoreSpec
=============================================================================
