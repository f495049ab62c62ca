--------------------------- MODULE KvStoreProofs ---------------------------
(***************************************************************************)
(* KvStoreFile implements DurableStore for every set of keys and values,   *)
(* every length of a record and any number of calls, faults and crashes    *)
(* the bounds allow.                                                       *)
(*                                                                         *)
(* The inductive invariant says that only whole, synced files are ever     *)
(* entered under a key, that what is shown is among what a power loss may  *)
(* leave, what the call in progress has achieved at each step, and when    *)
(* the directory itself may go with a power loss.                          *)
(***************************************************************************)
EXTENDS KvStoreFile, TLAPS

WholeFile(v) == [len |-> Chunks, value |-> v, synced |-> TRUE]

WholeFiles ==
  \A k \in Keys : /\ dir[k] \in onDisk[k]
                  /\ \A f \in onDisk[k] : f = WholeFile(f.value)

SetSteps == {"create", "write", "syncFile", "rename", "unlinkTemp"}

OpenSteps == {"syncParent", "syncRoot"}

CallKnown ==
  /\ pc \in OpenSteps \cup {"idle"} <=> op = None
  /\ pc \in OpenSteps => ~opened
  /\ pc \in SetSteps => op.call = "set"
  /\ pc = "unlink" => op.call = "erase"
  /\ op # None => IF op.call = "set" THEN op.value \in Values ELSE op.value = Absent
  /\ ~opened \/ ~changed => op = None

CallProgress ==
  /\ pc = "write" => temp.value = op.value /\ temp.len < Chunks
  /\ pc = "syncFile" => temp.value = op.value /\ temp.len = Chunks
  /\ pc = "rename" => temp = WholeFile(op.value)
  /\ pc = "syncDir" => dir[op.key] = WholeFile(op.value)

\* What is shown in an open store is durable until the first change.
LoadedSettled == opened /\ ~changed => onDisk = Settled

\* The directory is there when it is used, and empty until its making is complete.
DirectoryKnown ==
  /\ opened \/ pc = "syncRoot" => entry # "none"
  /\ pc = "syncParent" => entry = "unsynced"
  /\ entry = "unsynced" => loose \/ pc = "syncParent"
  /\ entry = "none" \/ pc = "syncParent" =>
       dir = [k \in Keys |-> NoFile] /\ onDisk = Settled

IInv ==
  TypeOK /\ WholeFiles /\ CallKnown /\ CallProgress /\ LoadedSettled /\ DirectoryKnown

\* A file that is not there is the whole file of no value.
LEMMA NoFileIsWhole == NoFile = WholeFile(Absent) /\ NoFile \in Files /\ NoFile.value = Absent
BY ChunksAssumption DEF NoFile, WholeFile, Files

\* A synced file outlives a power loss as it is.
LEMMA WholeFileRemains ==
  ASSUME NEW f, f = WholeFile(f.value)
  PROVE  Remains(f) = {f} /\ Content(f) = f.value /\ f.len = Chunks
<1>1. f.synced = TRUE /\ f.len = Chunks
  BY DEF WholeFile
<1> QED BY <1>1 DEF Remains, Content

\* The call in progress has a key, and is known by its name.
LEMMA CallFields ==
  ASSUME TypeOK, op # None
  PROVE  /\ op \in [call : {"set", "erase"}, key : Keys, value : Values \cup {Absent}]
         /\ op.key \in Keys
BY DEF TypeOK

\* What stands for no call is neither a set nor an erase.
LEMMA NoneCall == None.call = "none" BY DEF None

\* The inductive invariant holds initially.
LEMMA InitIInv == Init => IInv
<1> SUFFICES ASSUME Init PROVE IInv OBVIOUS
<1>1. TypeOK
  BY NoFileIsWhole DEF Init, TypeOK
<1>2. WholeFiles
  BY NoFileIsWhole DEF Init, WholeFiles
<1>3. CallKnown /\ CallProgress /\ LoadedSettled
  BY DEF Init, CallKnown, CallProgress, LoadedSettled, SetSteps, OpenSteps
<1>4. DirectoryKnown
  BY DEF Init, DirectoryKnown, Settled
<1> QED BY <1>1, <1>2, <1>3, <1>4 DEF IInv

-----------------------------------------------------------------------------
\* Entering a whole file under a key keeps the directory whole.
LEMMA EnterKeeps ==
  ASSUME WholeFiles, TypeOK, NEW q \in Keys, NEW f \in Files, f = WholeFile(f.value),
         dir' = [dir EXCEPT ![q] = f],
         onDisk' = [onDisk EXCEPT ![q] = @ \cup {f}]
  PROVE  /\ WholeFiles' /\ dir'[q] = f
         /\ dir' \in [Keys -> Files] /\ onDisk' \in [Keys -> SUBSET Files]
<1>1. dir \in [Keys -> Files] /\ onDisk \in [Keys -> SUBSET Files] BY DEF TypeOK
<1>2. /\ dir' \in [Keys -> Files] /\ onDisk' \in [Keys -> SUBSET Files] /\ dir'[q] = f
      /\ \A k \in Keys : dir'[k] = IF k = q THEN f ELSE dir[k]
      /\ \A k \in Keys : onDisk'[k] = IF k = q THEN onDisk[k] \cup {f} ELSE onDisk[k]
  BY <1>1
<1>3. WholeFiles' BY <1>2 DEF WholeFiles
<1> QED BY <1>2, <1>3

\* Syncing the directory keeps it whole.
LEMMA SettleKeeps ==
  ASSUME WholeFiles, TypeOK, onDisk' = Settled, dir' = dir
  PROVE  WholeFiles' /\ onDisk' \in [Keys -> SUBSET Files]
<1>1. dir \in [Keys -> Files] BY DEF TypeOK
<1>2. \A k \in Keys : onDisk'[k] = {dir[k]} BY DEF Settled
<1>3. WholeFiles' BY <1>2 DEF WholeFiles
<1>4. onDisk' \in [Keys -> SUBSET Files] BY <1>1 DEF Settled
<1> QED BY <1>3, <1>4

\* A power loss that leaves the directory leaves under each key a file that could have
\* been left there.
LEMMA KeptFiles ==
  ASSUME WholeFiles, KeepsDirectory
  PROVE  /\ \A k \in Keys : dir'[k] \in onDisk[k]
         /\ DOMAIN dir' = Keys /\ dir' = [k \in Keys |-> dir'[k]]
<1>1. /\ DOMAIN dir' = Keys /\ dir' = [k \in Keys |-> dir'[k]]
      /\ \A k \in Keys : \E f \in onDisk[k] : dir'[k] \in Remains(f)
  BY DEF KeepsDirectory
<1>2. ASSUME NEW k \in Keys PROVE dir'[k] \in onDisk[k]
  <2>1. PICK f \in onDisk[k] : dir'[k] \in Remains(f) BY <1>1
  <2>2. f = WholeFile(f.value) BY DEF WholeFiles
  <2>3. dir'[k] = f BY <2>1, <2>2, WholeFileRemains
  <2> QED BY <2>1, <2>3
<1> QED BY <1>1, <1>2

\* A power loss leaves whole files, or none.
LEMMA PowerLossKeeps ==
  ASSUME WholeFiles, TypeOK, PowerLoss
  PROVE  /\ dir' \in [Keys -> Files] /\ onDisk' \in [Keys -> SUBSET Files]
         /\ onDisk' = [k \in Keys |-> {dir'[k]}]
         /\ WholeFiles'
<1>1. onDisk \in [Keys -> SUBSET Files] /\ onDisk' = [k \in Keys |-> {dir'[k]}]
  BY DEF PowerLoss, TypeOK
<1>2. /\ dir' = [k \in Keys |-> dir'[k]]
      /\ \A k \in Keys : dir'[k] \in Files /\ dir'[k] = WholeFile(dir'[k].value)
  <2>1. CASE KeepsDirectory BY <1>1, <2>1, KeptFiles DEF WholeFiles
  <2>2. CASE LosesDirectory BY <2>2, NoFileIsWhole DEF LosesDirectory
  <2> QED BY <2>1, <2>2 DEF PowerLoss
<1>3. dir' \in [Keys -> Files] /\ onDisk' \in [Keys -> SUBSET Files] BY <1>1, <1>2
<1>4. WholeFiles' BY <1>1, <1>2 DEF WholeFiles
<1> QED BY <1>1, <1>3, <1>4

\* Each step leaves the directory in a known state.
LEMMA DirectoryStep == IInv /\ [Next]_vars => DirectoryKnown'
<1> SUFFICES ASSUME IInv, [Next]_vars PROVE DirectoryKnown' OBVIOUS
<1> USE DEF place, fs, vars
<1>t. TypeOK /\ WholeFiles /\ CallKnown /\ DirectoryKnown BY DEF IInv
<1>1. CASE \/ GetFails \/ Create \/ CreateFails \/ Write \/ SyncFile \/ SetStepFails
           \/ UnlinkTempFails \/ UnlinkAbsent \/ EraseStepFails \/ UNCHANGED vars
           \/ (\E k \in Keys : Get(k) \/ BeginErase(k) \/ \E v \in Values : BeginSet(k, v))
  <2>1. /\ UNCHANGED <<opened, entry, loose, dir, onDisk>>
        /\ pc' = pc \/ (pc' \notin OpenSteps /\ pc \notin OpenSteps)
    BY <1>1, <1>t, NoneCall DEF GetFails, Create, CreateFails, Write, SyncFile, SetStepFails,
       UnlinkTempFails, UnlinkAbsent, EraseStepFails, Get, BeginErase, BeginSet, Begin,
       Return, Fault, CallKnown, OpenSteps
  <2> QED BY <1>t, <2>1 DEF DirectoryKnown, Settled, OpenSteps
<1>2. CASE \/ Rename \/ SyncDir \/ UnlinkTemp \/ Unlink
  <2>1. /\ op # None /\ opened
    BY <1>2, <1>t DEF Rename, SyncDir, UnlinkTemp, Unlink, CallKnown, OpenSteps
  <2>2. UNCHANGED <<opened, entry, loose>> /\ pc' \notin OpenSteps
    BY <1>2 DEF Rename, SyncDir, UnlinkTemp, Unlink, Return, OpenSteps
  <2> QED BY <1>t, <2>1, <2>2 DEF DirectoryKnown, OpenSteps, CallKnown
<1>3. CASE Open \/ SyncParent
  <2>1. UNCHANGED <<opened, loose, dir, onDisk>> /\ ~opened
    BY <1>3, <1>t DEF Open, SyncParent, CallKnown, OpenSteps
  <2>2. CASE Open /\ entry = "none"
    BY <1>t, <2>1, <2>2 DEF Open, DirectoryKnown, Settled
  <2>3. CASE Open /\ entry # "none"
    BY <1>t, <2>1, <2>3 DEF Open, DirectoryKnown, Settled
  <2>4. CASE SyncParent
    BY <1>t, <2>1, <2>4 DEF SyncParent, DirectoryKnown, Settled
  <2> QED BY <1>3, <2>2, <2>3, <2>4
<1>5. CASE OpenDone
  <2>1. entry # "none" /\ entry' = entry /\ loose' = loose /\ pc = "syncRoot" /\ pc' = "idle"
    BY <1>5, <1>t DEF OpenDone, DirectoryKnown
  <2> QED BY <1>t, <2>1 DEF DirectoryKnown
<1>6. CASE OpenFails \/ ProcessDies
  <2>1. /\ UNCHANGED <<dir, onDisk, entry>> /\ opened' = FALSE /\ pc' = "idle"
        /\ loose' = (loose \/ pc = "syncParent")
    BY <1>6, <1>t DEF OpenFails, ProcessDies, CutShort, Crash, Return, TypeOK
  <2>2. Settled' = Settled BY <2>1 DEF Settled
  <2>3. loose' = TRUE \/ (loose' = loose /\ pc # "syncParent")
    BY <1>t, <2>1 DEF TypeOK
  <2>4. entry' = "unsynced" => loose' \/ pc' = "syncParent"
    BY <1>t, <2>1, <2>3 DEF DirectoryKnown
  <2> QED BY <1>t, <2>1, <2>2, <2>4 DEF DirectoryKnown
<1>4. CASE PowerLoss
  <2>1. pc' = "idle" /\ opened' = FALSE BY <1>4 DEF PowerLoss, Crash, Return
  <2>2. onDisk' = [k \in Keys |-> {dir'[k]}] BY <1>4 DEF PowerLoss
  <2>3. onDisk' = Settled' BY <2>2 DEF Settled
  <2>4. CASE LosesDirectory
    BY <1>4, <2>1, <2>3, <2>4 DEF PowerLoss, LosesDirectory, DirectoryKnown
  <2>5. CASE KeepsDirectory
    <3>1. entry' # "unsynced" BY <2>5 DEF KeepsDirectory
    <3>2. ASSUME entry' = "none" PROVE dir' = [k \in Keys |-> NoFile]
      <4>1. entry = "none" BY <2>5, <3>2 DEF KeepsDirectory
      <4>2. \A k \in Keys : onDisk[k] = {NoFile} BY <1>t, <4>1 DEF DirectoryKnown, Settled
      <4>3. dir' = [k \in Keys |-> dir'[k]] /\ \A k \in Keys : dir'[k] \in onDisk[k]
        BY <1>t, <2>5, KeptFiles
      <4> QED BY <4>2, <4>3
    <3> QED BY <2>1, <2>3, <3>1, <3>2 DEF DirectoryKnown
  <2> QED BY <1>4, <2>4, <2>5 DEF PowerLoss
<1> QED BY <1>1, <1>2, <1>3, <1>4, <1>5, <1>6 DEF Next

\* Each step keeps the inductive invariant.
LEMMA StepIInv == IInv /\ [Next]_vars => IInv'
<1> SUFFICES ASSUME IInv, [Next]_vars PROVE IInv' OBVIOUS
<1>d. DirectoryKnown' BY DirectoryStep
<1> USE DEF place
<1> USE NoneCall, NoFileIsWhole, ChunksAssumption, AbsentAssumption
<1>t. TypeOK /\ WholeFiles /\ CallKnown /\ CallProgress /\ LoadedSettled /\ DirectoryKnown
  BY DEF IInv
<1>op. op # None => op.key \in Keys BY <1>t, CallFields
<1>1. CASE GetFails
  <2>1. TypeOK' BY <1>1, <1>t DEF GetFails, Fault, fs, TypeOK, Files
  <2>2. WholeFiles' BY <1>1, <1>t DEF GetFails, Fault, fs, WholeFiles
  <2>3. CallKnown'
    BY <1>1, <1>t DEF GetFails, Fault, fs, CallKnown, SetSteps, OpenSteps, TypeOK
  <2>4. CallProgress'
    BY <1>1, <1>t DEF GetFails, Fault, fs, CallProgress, CallKnown, SetSteps, OpenSteps,
       TypeOK, Files, WholeFile
  <2>5. LoadedSettled' BY <1>1, <1>t DEF GetFails, Fault, fs, LoadedSettled, Settled, CallKnown
  <2> QED BY <1>d, <2>1, <2>2, <2>3, <2>4, <2>5 DEF IInv
<1>2. CASE Create
  <2>0. op # None /\ op.value \in Values \cup {Absent}
    BY <1>2, <1>t DEF Create, CallKnown, SetSteps, OpenSteps
  <2>a. temp' \in Files BY <1>2, <2>0 DEF Create, Files
  <2>1. TypeOK' BY <1>2, <1>t, <2>a DEF Create, bounds, TypeOK
  <2>2. WholeFiles' BY <1>2, <1>t DEF Create, bounds, WholeFiles
  <2>3. CallKnown' BY <1>2, <1>t DEF Create, bounds, CallKnown, SetSteps, OpenSteps, TypeOK
  <2>4. CallProgress'
    BY <1>2, <1>t DEF Create, bounds, CallProgress, CallKnown, SetSteps, OpenSteps, TypeOK,
       Files, WholeFile
  <2>5. LoadedSettled' BY <1>2, <1>t DEF Create, bounds, LoadedSettled, Settled, CallKnown
  <2> QED BY <1>d, <2>1, <2>2, <2>3, <2>4, <2>5 DEF IInv
<1>3. CASE CreateFails
  <2>1. TypeOK' BY <1>3, <1>t DEF CreateFails, Fault, Return, fs, TypeOK, Files
  <2>2. WholeFiles' BY <1>3, <1>t DEF CreateFails, Fault, Return, fs, WholeFiles
  <2>3. CallKnown'
    BY <1>3, <1>t DEF CreateFails, Fault, Return, fs, CallKnown, SetSteps, OpenSteps, TypeOK
  <2>4. CallProgress'
    BY <1>3, <1>t DEF CreateFails, Fault, Return, fs, CallProgress, CallKnown, SetSteps,
       OpenSteps, TypeOK, Files, WholeFile
  <2>5. LoadedSettled'
    BY <1>3, <1>t DEF CreateFails, Fault, Return, fs, LoadedSettled, Settled, CallKnown
  <2> QED BY <1>d, <2>1, <2>2, <2>3, <2>4, <2>5 DEF IInv
<1>4. CASE Write
  <2>0. temp \in Files /\ temp.len < Chunks
    BY <1>4, <1>t DEF Write, CallProgress, TypeOK
  <2>a. temp' \in Files BY <1>4, <2>0 DEF Write, Files
  <2>1. TypeOK' BY <1>4, <1>t, <2>a DEF Write, bounds, TypeOK
  <2>2. WholeFiles' BY <1>4, <1>t DEF Write, bounds, WholeFiles
  <2>3. CallKnown' BY <1>4, <1>t DEF Write, bounds, CallKnown, SetSteps, OpenSteps, TypeOK
  <2>4. CallProgress'
    BY <1>4, <1>t DEF Write, bounds, CallProgress, CallKnown, SetSteps, OpenSteps, TypeOK,
       Files, WholeFile
  <2>5. LoadedSettled' BY <1>4, <1>t DEF Write, bounds, LoadedSettled, Settled, CallKnown
  <2> QED BY <1>d, <2>1, <2>2, <2>3, <2>4, <2>5 DEF IInv
<1>5. CASE SyncFile
  <2>1. TypeOK' BY <1>5, <1>t DEF SyncFile, bounds, TypeOK, Files
  <2>2. WholeFiles' BY <1>5, <1>t DEF SyncFile, bounds, WholeFiles
  <2>3. CallKnown' BY <1>5, <1>t DEF SyncFile, bounds, CallKnown, SetSteps, OpenSteps, TypeOK
  <2>4. CallProgress'
    BY <1>5, <1>t DEF SyncFile, bounds, CallProgress, CallKnown, SetSteps, OpenSteps, TypeOK,
       Files, WholeFile
  <2>5. LoadedSettled' BY <1>5, <1>t DEF SyncFile, bounds, LoadedSettled, Settled, CallKnown
  <2> QED BY <1>d, <2>1, <2>2, <2>3, <2>4, <2>5 DEF IInv
<1>6. CASE SetStepFails
  <2>1. TypeOK' BY <1>6, <1>t DEF SetStepFails, Fault, fs, TypeOK, Files
  <2>2. WholeFiles' BY <1>6, <1>t DEF SetStepFails, Fault, fs, WholeFiles
  <2>3. CallKnown'
    BY <1>6, <1>t DEF SetStepFails, Fault, fs, CallKnown, SetSteps, OpenSteps, TypeOK
  <2>4. CallProgress'
    BY <1>6, <1>t DEF SetStepFails, Fault, fs, CallProgress, CallKnown, SetSteps, OpenSteps,
       TypeOK, Files, WholeFile
  <2>5. LoadedSettled'
    BY <1>6, <1>t DEF SetStepFails, Fault, fs, LoadedSettled, Settled, CallKnown
  <2> QED BY <1>d, <2>1, <2>2, <2>3, <2>4, <2>5 DEF IInv
<1>7. CASE UnlinkTempFails
  <2>1. TypeOK' BY <1>7, <1>t DEF UnlinkTempFails, Fault, Return, TypeOK, Files
  <2>2. WholeFiles' BY <1>7, <1>t DEF UnlinkTempFails, Fault, Return, WholeFiles
  <2>3. CallKnown'
    BY <1>7, <1>t DEF UnlinkTempFails, Fault, Return, CallKnown, SetSteps, OpenSteps, TypeOK
  <2>4. CallProgress'
    BY <1>7, <1>t DEF UnlinkTempFails, Fault, Return, CallProgress, CallKnown, SetSteps,
       OpenSteps, TypeOK, Files, WholeFile
  <2>5. LoadedSettled'
    BY <1>7, <1>t DEF UnlinkTempFails, Fault, Return, LoadedSettled, Settled, CallKnown
  <2> QED BY <1>d, <2>1, <2>2, <2>3, <2>4, <2>5 DEF IInv
<1>8. CASE UnlinkAbsent
  <2>1. TypeOK' BY <1>8, <1>t DEF UnlinkAbsent, Return, fs, bounds, TypeOK, Files
  <2>2. WholeFiles' BY <1>8, <1>t DEF UnlinkAbsent, Return, fs, bounds, WholeFiles
  <2>3. CallKnown'
    BY <1>8, <1>t DEF UnlinkAbsent, Return, fs, bounds, CallKnown, SetSteps, OpenSteps, TypeOK
  <2>4. CallProgress'
    BY <1>8, <1>t DEF UnlinkAbsent, Return, fs, bounds, CallProgress, CallKnown, SetSteps,
       OpenSteps, TypeOK, Files, WholeFile
  <2>5. LoadedSettled'
    BY <1>8, <1>t DEF UnlinkAbsent, Return, fs, bounds, LoadedSettled, Settled, CallKnown
  <2> QED BY <1>d, <2>1, <2>2, <2>3, <2>4, <2>5 DEF IInv
<1>9. CASE EraseStepFails
  <2>1. TypeOK' BY <1>9, <1>t DEF EraseStepFails, Fault, Return, fs, TypeOK, Files
  <2>2. WholeFiles' BY <1>9, <1>t DEF EraseStepFails, Fault, Return, fs, WholeFiles
  <2>3. CallKnown'
    BY <1>9, <1>t DEF EraseStepFails, Fault, Return, fs, CallKnown, SetSteps, OpenSteps, TypeOK
  <2>4. CallProgress'
    BY <1>9, <1>t DEF EraseStepFails, Fault, Return, fs, CallProgress, CallKnown, SetSteps,
       OpenSteps, TypeOK, Files, WholeFile
  <2>5. LoadedSettled'
    BY <1>9, <1>t DEF EraseStepFails, Fault, Return, fs, LoadedSettled, Settled, CallKnown
  <2> QED BY <1>d, <2>1, <2>2, <2>3, <2>4, <2>5 DEF IInv
<1>10. CASE ProcessDies
  <2>1. TypeOK' BY <1>10, <1>t DEF ProcessDies, CutShort, Crash, Return, TypeOK, Files
  <2>2. WholeFiles' BY <1>10, <1>t DEF ProcessDies, CutShort, Crash, Return, WholeFiles
  <2>3. CallKnown'
    BY <1>10, <1>t DEF ProcessDies, CutShort, Crash, Return, CallKnown, SetSteps, OpenSteps,
       TypeOK
  <2>4. CallProgress'
    BY <1>10, <1>t DEF ProcessDies, CutShort, Crash, Return, CallProgress, CallKnown,
       SetSteps, OpenSteps, TypeOK, Files, WholeFile
  <2>5. LoadedSettled'
    BY <1>10, <1>t DEF ProcessDies, CutShort, Crash, Return, LoadedSettled, Settled, CallKnown
  <2> QED BY <1>d, <2>1, <2>2, <2>3, <2>4, <2>5 DEF IInv
<1>11. CASE UNCHANGED vars
  <2>1. TypeOK' BY <1>11, <1>t DEF vars, fs, bounds, TypeOK, Files
  <2>2. WholeFiles' BY <1>11, <1>t DEF vars, fs, bounds, WholeFiles
  <2>3. CallKnown' BY <1>11, <1>t DEF vars, fs, bounds, CallKnown, SetSteps, OpenSteps, TypeOK
  <2>4. CallProgress'
    BY <1>11, <1>t DEF vars, fs, bounds, CallProgress, CallKnown, SetSteps, OpenSteps,
       TypeOK, Files, WholeFile
  <2>5. LoadedSettled' BY <1>11, <1>t DEF vars, fs, bounds, LoadedSettled, Settled, CallKnown
  <2> QED BY <1>d, <2>1, <2>2, <2>3, <2>4, <2>5 DEF IInv
<1>12. CASE OpenDone
  <2>1. WholeFiles' /\ onDisk' \in [Keys -> SUBSET Files]
    BY <1>12, <1>t, SettleKeeps DEF OpenDone, SyncOnOpen
  <2>2. TypeOK' BY <1>12, <1>t, <2>1 DEF OpenDone, bounds, TypeOK
  <2>3. CallKnown' BY <1>12, <1>t DEF OpenDone, CallKnown, SetSteps, OpenSteps
  <2>4. CallProgress' BY <1>12, <1>t DEF OpenDone, CallProgress
  <2>5. LoadedSettled' BY <1>12, <1>t DEF OpenDone, SyncOnOpen, LoadedSettled, Settled
  <2> QED BY <1>d, <2>1, <2>2, <2>3, <2>4, <2>5 DEF IInv
<1>21. CASE Open \/ SyncParent \/ OpenFails
  <2> USE DEF Open, SyncParent, OpenFails, CutShort, Fault
  <2>1. TypeOK' BY <1>21, <1>t DEF bounds, TypeOK
  <2>2. WholeFiles' BY <1>21, <1>t DEF WholeFiles
  <2>3. CallKnown' BY <1>21, <1>t DEF CallKnown, SetSteps, OpenSteps
  <2>4. CallProgress' BY <1>21 DEF CallProgress
  <2>5. LoadedSettled' BY <1>21, <1>t DEF LoadedSettled, CallKnown, OpenSteps
  <2> QED BY <1>d, <2>1, <2>2, <2>3, <2>4, <2>5 DEF IInv
<1>13. ASSUME NEW k \in Keys, Get(k) PROVE IInv'
  <2>0. got' \in Values \cup {Absent, "failed", "partial"}
    <3>1. dir[k] \in Files BY <1>t DEF TypeOK
    <3> QED BY <1>13, <3>1 DEF Get, Content, Files
  <2>1. TypeOK' BY <1>13, <1>t, <2>0 DEF Get, fs, bounds, TypeOK
  <2>2. WholeFiles' BY <1>13, <1>t DEF Get, fs, WholeFiles
  <2>3. CallKnown' /\ CallProgress'
    BY <1>13, <1>t DEF Get, fs, CallKnown, SetSteps, OpenSteps, CallProgress
  <2>4. LoadedSettled' BY <1>13, <1>t DEF Get, fs, LoadedSettled, Settled
  <2> QED BY <1>d, <2>1, <2>2, <2>3, <2>4 DEF IInv
<1>14. ASSUME NEW k \in Keys, NEW v \in Values, BeginSet(k, v) PROVE IInv'
  <2> USE DEF BeginSet, Begin
  <2>0. op' # None BY <1>14
  <2>1. TypeOK' BY <1>14, <1>t DEF fs, TypeOK
  <2>2. WholeFiles' BY <1>14, <1>t DEF fs, WholeFiles
  <2>3. CallKnown' BY <1>14, <1>t, <2>0 DEF CallKnown, SetSteps, OpenSteps
  <2>4. CallProgress' BY <1>14 DEF CallProgress
  <2>5. LoadedSettled' BY <1>14 DEF LoadedSettled
  <2> QED BY <1>d, <2>1, <2>2, <2>3, <2>4, <2>5 DEF IInv
<1>15. ASSUME NEW k \in Keys, BeginErase(k) PROVE IInv'
  <2> USE DEF BeginErase, Begin
  <2>0. op' # None BY <1>15
  <2>1. TypeOK' BY <1>15, <1>t DEF fs, TypeOK
  <2>2. WholeFiles' BY <1>15, <1>t DEF fs, WholeFiles
  <2>3. CallKnown' BY <1>15, <1>t, <2>0 DEF CallKnown, SetSteps, OpenSteps
  <2>4. CallProgress' BY <1>15 DEF CallProgress
  <2>5. LoadedSettled' BY <1>15 DEF LoadedSettled
  <2> QED BY <1>d, <2>1, <2>2, <2>3, <2>4, <2>5 DEF IInv
<1>16. CASE Rename
  <2>0. op # None /\ op.key \in Keys /\ op.call = "set" /\ opened /\ changed
    BY <1>16, <1>t, <1>op DEF Rename, CallKnown, SetSteps, OpenSteps, TypeOK
  <2>1. temp \in Files /\ temp = WholeFile(op.value) /\ temp = WholeFile(temp.value)
    BY <1>16, <1>t DEF Rename, CallProgress, TypeOK, WholeFile
  <2>2. /\ WholeFiles' /\ dir'[op.key] = temp
        /\ dir' \in [Keys -> Files] /\ onDisk' \in [Keys -> SUBSET Files]
    BY <1>16, <1>t, <2>0, <2>1, EnterKeeps DEF Rename
  <2>3. TypeOK' BY <1>16, <1>t, <2>2 DEF Rename, bounds, TypeOK
  <2>4. CallKnown' BY <1>16, <1>t, <2>0 DEF Rename, CallKnown, SetSteps, OpenSteps
  <2>5. CallProgress' BY <1>16, <2>1, <2>2 DEF Rename, CallProgress
  <2>6. LoadedSettled' BY <1>16, <2>0 DEF Rename, LoadedSettled
  <2> QED BY <1>d, <2>2, <2>3, <2>4, <2>5, <2>6 DEF IInv
<1>17. CASE SyncDir
  <2>1. WholeFiles' /\ onDisk' \in [Keys -> SUBSET Files]
    BY <1>17, <1>t, SettleKeeps DEF SyncDir
  <2>2. TypeOK' BY <1>17, <1>t, <2>1 DEF SyncDir, Return, bounds, TypeOK
  <2>3. CallKnown' BY <1>17, <1>t DEF SyncDir, Return, CallKnown, SetSteps, OpenSteps
  <2>4. CallProgress' BY <1>17 DEF SyncDir, Return, CallProgress
  <2>5. LoadedSettled' BY <1>17 DEF SyncDir, LoadedSettled, Settled
  <2> QED BY <1>d, <2>1, <2>2, <2>3, <2>4, <2>5 DEF IInv
<1>18. CASE UnlinkTemp
  <2>0. onDisk' = onDisk \/ onDisk' = Settled BY <1>18 DEF UnlinkTemp
  <2>1. WholeFiles' /\ onDisk' \in [Keys -> SUBSET Files]
    <3>1. CASE onDisk' = onDisk BY <1>18, <3>1, <1>t DEF UnlinkTemp, WholeFiles, TypeOK
    <3>2. CASE onDisk' = Settled BY <1>18, <3>2, <1>t, SettleKeeps DEF UnlinkTemp
    <3> QED BY <2>0, <3>1, <3>2
  <2>2. TypeOK' BY <1>18, <1>t, <2>1 DEF UnlinkTemp, Return, bounds, TypeOK
  <2>3. CallKnown' BY <1>18, <1>t DEF UnlinkTemp, Return, CallKnown, SetSteps, OpenSteps
  <2>4. CallProgress' BY <1>18 DEF UnlinkTemp, Return, CallProgress
  <2>5. LoadedSettled'
    BY <1>18, <1>t DEF UnlinkTemp, LoadedSettled, CallKnown, SetSteps, OpenSteps
  <2> QED BY <1>d, <2>1, <2>2, <2>3, <2>4, <2>5 DEF IInv
<1>19. CASE Unlink
  <2>0. op # None /\ op.key \in Keys /\ op.value = Absent /\ opened /\ changed
    BY <1>19, <1>t, <1>op DEF Unlink, CallKnown, SetSteps, OpenSteps
  <2>2. /\ WholeFiles' /\ dir'[op.key] = NoFile
        /\ dir' \in [Keys -> Files] /\ onDisk' \in [Keys -> SUBSET Files]
    BY <1>19, <1>t, <2>0, EnterKeeps DEF Unlink
  <2>3. TypeOK' BY <1>19, <1>t, <2>2 DEF Unlink, bounds, TypeOK
  <2>4. CallKnown' BY <1>19, <1>t, <2>0 DEF Unlink, CallKnown, SetSteps, OpenSteps
  <2>5. CallProgress' BY <1>19, <2>0, <2>2 DEF Unlink, CallProgress
  <2>6. LoadedSettled' BY <1>19, <2>0 DEF Unlink, LoadedSettled
  <2> QED BY <1>d, <2>2, <2>3, <2>4, <2>5, <2>6 DEF IInv
<1>20. CASE PowerLoss
  <2>1. /\ WholeFiles' /\ dir' \in [Keys -> Files] /\ onDisk' \in [Keys -> SUBSET Files]
    BY <1>20, <1>t, PowerLossKeeps
  <2>a. entry' \in {"none", "unsynced", "synced"}
    BY <1>20 DEF PowerLoss, KeepsDirectory, LosesDirectory
  <2>2. TypeOK' BY <1>20, <1>t, <2>1, <2>a DEF PowerLoss, Crash, Return, TypeOK
  <2>3. CallKnown' BY <1>20 DEF PowerLoss, Crash, Return, CallKnown, SetSteps, OpenSteps
  <2>4. CallProgress' BY <1>20 DEF PowerLoss, Crash, Return, CallProgress
  <2>5. LoadedSettled' BY <1>20 DEF PowerLoss, Crash, LoadedSettled
  <2> QED BY <1>d, <2>1, <2>2, <2>3, <2>4, <2>5 DEF IInv
<1> QED
  BY <1>1, <1>2, <1>3, <1>4, <1>5, <1>6, <1>7, <1>8, <1>9, <1>10, <1>11, <1>12, <1>13,
     <1>14, <1>15, <1>16, <1>17, <1>18, <1>19, <1>20, <1>21 DEF Next

\* ... and in every reachable state.
LEMMA Inductive == Spec => []IInv
BY InitIInv, StepIInv, PTL DEF Spec

-----------------------------------------------------------------------------
\* Every variable of the file store keeps its type.
THEOREM TypeCorrect == Spec => []TypeOK
<1>1. IInv => TypeOK BY DEF IInv
<1> QED BY <1>1, Inductive, PTL

\* What is loaded when the store has just been opened survives any power loss, but for a
\* directory left by an opening that was cut short before it synced the parent.
THEOREM LoadedSurvives == Spec => []LoadedIsDurable
<1>1. IInv => LoadedIsDurable
  BY DEF IInv, TypeOK, CallKnown, OpenSteps, LoadedSettled, DirectoryKnown, LoadedIsDurable
<1> QED BY <1>1, Inductive, PTL

-----------------------------------------------------------------------------
(* The refinement. *)

\* What DurableStore sees: the record under each key, and those that may be left.
Shown == [k \in Keys |-> Content(dir[k])]
Left == [k \in Keys |-> {Content(g) : g \in UNION {Remains(f) : f \in onDisk[k]}}]

MappedByValue ==
  /\ Shown = [k \in Keys |-> dir[k].value]
  /\ Left = [k \in Keys |-> {f.value : f \in onDisk[k]}]

\* As long as only whole files are entered, records are what the files hold.
LEMMA Mapped == WholeFiles => MappedByValue
<1> SUFFICES ASSUME WholeFiles PROVE MappedByValue OBVIOUS
<1>1. ASSUME NEW k \in Keys PROVE Content(dir[k]) = dir[k].value
  <2>1. dir[k] = WholeFile(dir[k].value) BY DEF WholeFiles
  <2> QED BY <2>1, WholeFileRemains
<1>2. ASSUME NEW k \in Keys
      PROVE {Content(g) : g \in UNION {Remains(f) : f \in onDisk[k]}} = {f.value : f \in onDisk[k]}
  <2>1. \A f \in onDisk[k] : Remains(f) = {f} /\ Content(f) = f.value
    <3>1. \A f \in onDisk[k] : f = WholeFile(f.value) BY DEF WholeFiles
    <3> QED BY <3>1, WholeFileRemains
  <2>2. UNION {Remains(f) : f \in onDisk[k]} = onDisk[k] BY <2>1
  <2> QED BY <2>1, <2>2
<1> QED BY <1>1, <1>2 DEF MappedByValue, Shown, Left

\* Entering a file changes one record, which a power loss may undo.
LEMMA EnterMaps ==
  ASSUME TypeOK, MappedByValue, MappedByValue', NEW q \in Keys, NEW f,
         dir' = [dir EXCEPT ![q] = f],
         onDisk' = [onDisk EXCEPT ![q] = @ \cup {f}]
  PROVE  /\ Shown' = [Shown EXCEPT ![q] = f.value]
         /\ Left' = [Left EXCEPT ![q] = @ \cup {f.value}]
<1>1. dir \in [Keys -> Files] /\ onDisk \in [Keys -> SUBSET Files] BY DEF TypeOK
<1>2. \A k \in Keys : dir'[k] = IF k = q THEN f ELSE dir[k] BY <1>1
<1>3. \A k \in Keys : onDisk'[k] = IF k = q THEN onDisk[k] \cup {f} ELSE onDisk[k] BY <1>1
<1>4. Shown' = [k \in Keys |-> dir'[k].value] /\ Left' = [k \in Keys |-> {g.value : g \in onDisk'[k]}]
  BY DEF MappedByValue
<1>5. Shown' = [Shown EXCEPT ![q] = f.value] BY <1>2, <1>4 DEF MappedByValue
<1>6. \A k \in Keys : {g.value : g \in onDisk'[k]}
        = IF k = q THEN {g.value : g \in onDisk[k]} \cup {f.value} ELSE {g.value : g \in onDisk[k]}
  BY <1>3
<1>7. Left' = [Left EXCEPT ![q] = @ \cup {f.value}]
  <2>1. Left = [k \in Keys |-> {g.value : g \in onDisk[k]}] BY DEF MappedByValue
  <2>2. Left[q] = {g.value : g \in onDisk[q]} BY <2>1
  <2>3. [Left EXCEPT ![q] = @ \cup {f.value}]
          = [k \in Keys |-> IF k = q THEN Left[q] \cup {f.value} ELSE Left[k]]
    BY <2>1
  <2>4. \A k \in Keys : {g.value : g \in onDisk'[k]}
          = IF k = q THEN Left[q] \cup {f.value} ELSE Left[k]
    BY <1>6, <2>1, <2>2
  <2>5. [k \in Keys |-> {g.value : g \in onDisk'[k]}]
          = [k \in Keys |-> IF k = q THEN Left[q] \cup {f.value} ELSE Left[k]]
    BY <2>4
  <2> QED BY <1>4, <2>3, <2>5
<1> QED BY <1>5, <1>7

\* Syncing the directory makes what is shown durable.
LEMMA SettleMaps ==
  ASSUME TypeOK, MappedByValue, MappedByValue', dir' = dir, onDisk' = Settled
  PROVE  Shown' = Shown /\ Left' = [k \in Keys |-> {Shown[k]}]
<1>1. \A k \in Keys : onDisk'[k] = {dir[k]} BY DEF Settled
<1>2. \A k \in Keys : {g.value : g \in onDisk'[k]} = {dir[k].value} BY <1>1
<1>3. Left' = [k \in Keys |-> {g.value : g \in onDisk'[k]}] BY DEF MappedByValue
<1>4. \A k \in Keys : Shown[k] = dir[k].value BY DEF MappedByValue
<1> QED BY <1>2, <1>3, <1>4 DEF MappedByValue, Shown

\* Files left alone map to a store left alone.
LEMMA SameMaps ==
  ASSUME dir' = dir, onDisk' = onDisk PROVE Shown' = Shown /\ Left' = Left
BY DEF Shown, Left

\* A directory without a file shows no record.
LEMMA EmptyShown ==
  ASSUME MappedByValue, dir = [k \in Keys |-> NoFile] PROVE Shown = Durable!Nothing
BY NoFileIsWhole DEF MappedByValue, Durable!Nothing

\* The initial states map to initial states.
LEMMA InitRefines == Init => Durable!StoreInit
<1> SUFFICES ASSUME Init PROVE Durable!StoreInit OBVIOUS
<1>1. WholeFiles BY InitIInv DEF IInv
<1>2. MappedByValue BY <1>1, Mapped
<1>3. \A k \in Keys : dir[k].value = Absent /\ onDisk[k] = {dir[k]} BY NoFileIsWhole DEF Init
<1>4. Shown = [k \in Keys |-> Absent] BY <1>2, <1>3 DEF MappedByValue
<1>5. Left = [k \in Keys |-> {Shown[k]}] BY <1>2, <1>3 DEF MappedByValue
<1> QED
  BY <1>4, <1>5 DEF Init, Durable!StoreInit, Durable!Settled, Durable!Nothing, Durable!None,
     None, Shown, Left

\* Each step maps to a step of the store or leaves it alone.
LEMMA StepRefines ==
  IInv /\ MappedByValue /\ MappedByValue' /\ [Next]_vars => [Durable!StoreNext]_(Durable!storeVars)
<1> SUFFICES ASSUME IInv, MappedByValue, MappedByValue', [Next]_vars
             PROVE  [Durable!StoreNext]_(Durable!storeVars)
  OBVIOUS
<1> USE NoFileIsWhole DEF place, Durable!placeVars
<1>t. TypeOK /\ WholeFiles /\ CallKnown /\ CallProgress /\ DirectoryKnown BY DEF IInv
<1>o. op # None => opened BY <1>t DEF CallKnown
<1>n. Durable!None = None BY DEF Durable!None, None
<1>op. op # None => op.key \in Keys BY <1>t, CallFields
<1>1. CASE \/ Open \/ SyncParent \/ Create \/ Write \/ SyncFile \/ SetStepFails
           \/ UNCHANGED vars
  <2>1. /\ UNCHANGED <<dir, onDisk, op, result, got, opened, loose>>
    BY <1>1 DEF Open, SyncParent, Create, Write, SyncFile, SetStepFails, Fault, fs, bounds,
       vars
  <2>2. Shown' = Shown /\ Left' = Left BY <2>1, SameMaps
  <2> QED BY <2>1, <2>2 DEF Durable!storeVars, Shown, Left
<1>2. CASE \/ CreateFails \/ UnlinkTempFails \/ EraseStepFails
  <2>1. /\ dir' = dir /\ onDisk' = onDisk /\ op # None /\ op' = None
        /\ result' = "failed" /\ UNCHANGED <<got, opened, loose>>
    BY <1>2, <1>t, NoneCall DEF CreateFails, UnlinkTempFails, EraseStepFails, Fault, Return,
       fs, CallKnown, SetSteps, OpenSteps
  <2>2. Shown' = Shown /\ Left' = Left BY <2>1, SameMaps
  <2>3. Durable!Return BY <2>1, <2>2, <1>n DEF Durable!Return, Shown, Left
  <2> QED BY <2>3 DEF Durable!StoreNext
<1>3. CASE ProcessDies
  <2>1. /\ dir' = dir /\ onDisk' = onDisk /\ op' = None /\ result' = "none" /\ got' = got
        /\ opened' = FALSE /\ loose' = (loose \/ pc = "syncParent")
    BY <1>3 DEF ProcessDies, CutShort, Crash, Return
  <2>2. Shown' = Shown /\ Left' = Left BY <2>1, SameMaps
  <2>3. loose' = loose \/ (loose' = TRUE /\ ~opened /\ Shown = Durable!Nothing)
    BY <1>t, <2>1, EmptyShown DEF TypeOK, CallKnown, OpenSteps, DirectoryKnown
  <2>4. Durable!ProcessDies
    BY <2>1, <2>2, <2>3, <1>n DEF Durable!ProcessDies, Durable!Interrupted, Shown, Left
  <2> QED BY <2>4 DEF Durable!StoreNext
<1>15. CASE OpenFails
  <2>1. /\ UNCHANGED <<dir, onDisk, op, result, got, opened>> /\ ~opened
        /\ loose' = (loose \/ pc = "syncParent")
    BY <1>15 DEF OpenFails, CutShort
  <2>2. Shown' = Shown /\ Left' = Left BY <2>1, SameMaps
  <2>3. loose' = loose \/ (loose' = TRUE /\ Shown = Durable!Nothing)
    BY <1>t, <2>1, EmptyShown DEF TypeOK, DirectoryKnown
  <2>4. CASE loose' = loose BY <2>1, <2>2, <2>4 DEF Durable!storeVars, Shown, Left
  <2>5. CASE loose' = TRUE /\ Shown = Durable!Nothing
    <3>1. Durable!CutShort BY <2>1, <2>2, <2>5 DEF Durable!CutShort, Shown, Left
    <3> QED BY <3>1 DEF Durable!StoreNext
  <2> QED BY <2>3, <2>4, <2>5
<1>4. CASE UnlinkAbsent
  <2>1. /\ dir' = dir /\ onDisk' = onDisk /\ op # None /\ op' = None /\ op.call = "erase"
        /\ op.value = Absent /\ result' = "ok" /\ dir[op.key] = NoFile
        /\ UNCHANGED <<got, opened, loose>>
    BY <1>4, <1>t, NoneCall DEF UnlinkAbsent, Return, fs, CallKnown, SetSteps, OpenSteps
  <2>2. Shown' = Shown /\ Left' = Left BY <2>1, SameMaps
  <2>3. Shown[op.key] = op.value BY <2>1, <1>op DEF MappedByValue
  <2>4. Durable!Return BY <2>1, <2>2, <2>3, <1>n DEF Durable!Return, Shown, Left
  <2> QED BY <2>4 DEF Durable!StoreNext
<1>5. CASE GetFails
  <2>1. /\ dir' = dir /\ onDisk' = onDisk /\ op = None /\ op' = op
        /\ result' = result /\ got' = "failed" /\ opened /\ UNCHANGED <<opened, loose>>
    BY <1>5 DEF GetFails, Fault, fs
  <2>2. Shown' = Shown /\ Left' = Left BY <2>1, SameMaps
  <2>3. Durable!Get BY <2>1, <2>2, <1>n DEF Durable!Get, Shown, Left
  <2> QED BY <2>3 DEF Durable!StoreNext
<1>6. ASSUME NEW k \in Keys, Get(k) PROVE Durable!StoreNext
  <2>1. /\ dir' = dir /\ onDisk' = onDisk /\ op = None /\ op' = op
        /\ result' = result /\ got' = Shown[k] /\ opened /\ UNCHANGED <<opened, loose>>
    BY <1>6 DEF Get, fs, Shown
  <2>2. Shown' = Shown /\ Left' = Left BY <2>1, SameMaps
  <2>3. got' \in {Shown[q] : q \in Keys} BY <2>1
  <2>4. Durable!Get BY <2>1, <2>2, <2>3, <1>n DEF Durable!Get, Shown, Left
  <2> QED BY <2>4 DEF Durable!StoreNext
<1>7. ASSUME NEW k \in Keys, NEW v \in Values, BeginSet(k, v) PROVE Durable!StoreNext
  <2>1. /\ dir' = dir /\ onDisk' = onDisk /\ op = None /\ result' = result /\ got' = got
        /\ opened /\ UNCHANGED <<opened, loose>>
        /\ op' = [call |-> "set", key |-> k, value |-> v]
    BY <1>7 DEF BeginSet, Begin, fs
  <2>2. Shown' = Shown /\ Left' = Left BY <2>1, SameMaps
  <2>3. v # Absent BY AbsentAssumption
  <2>4. Durable!Begin BY <2>1, <2>2, <2>3, <1>n DEF Durable!Begin, Shown, Left
  <2> QED BY <2>4 DEF Durable!StoreNext
<1>8. ASSUME NEW k \in Keys, BeginErase(k) PROVE Durable!StoreNext
  <2>1. /\ dir' = dir /\ onDisk' = onDisk /\ op = None /\ result' = result /\ got' = got
        /\ opened /\ UNCHANGED <<opened, loose>>
        /\ op' = [call |-> "erase", key |-> k, value |-> Absent]
    BY <1>8 DEF BeginErase, Begin, fs
  <2>2. Shown' = Shown /\ Left' = Left BY <2>1, SameMaps
  <2>3. Durable!Begin BY <2>1, <2>2, <1>n DEF Durable!Begin, Shown, Left
  <2> QED BY <2>3 DEF Durable!StoreNext
<1>9. CASE OpenDone
  <2>1. Shown' = Shown /\ Left' = [k \in Keys |-> {Shown[k]}]
    BY <1>9, <1>t, SettleMaps DEF OpenDone, SyncOnOpen
  <2>2. ~opened BY <1>9, <1>t DEF OpenDone, CallKnown, OpenSteps
  <2>3. Durable!Open
    BY <1>9, <2>1, <2>2 DEF OpenDone, Durable!Open, Durable!Settled, Shown, Left
  <2> QED BY <2>3 DEF Durable!StoreNext
<1>10. CASE Rename
  <2>0. op # None /\ op.key \in Keys /\ temp.value = op.value
    BY <1>10, <1>t, <1>op, NoneCall DEF Rename, CallKnown, SetSteps, OpenSteps, CallProgress,
       WholeFile
  <2>a. /\ dir' = [dir EXCEPT ![op.key] = temp]
        /\ onDisk' = [onDisk EXCEPT ![op.key] = @ \cup {temp}]
    BY <1>10 DEF Rename
  <2>b. /\ Shown' = [Shown EXCEPT ![op.key] = temp.value]
        /\ Left' = [Left EXCEPT ![op.key] = @ \cup {temp.value}]
    BY <1>t, <2>0, <2>a, EnterMaps
  <2>1. /\ Shown' = [Shown EXCEPT ![op.key] = op.value]
        /\ Left' = [Left EXCEPT ![op.key] = @ \cup {op.value}]
    BY <2>0, <2>b
  <2>2. Durable!TakeEffect
    BY <1>10, <2>0, <2>1, <1>n DEF Rename, Durable!TakeEffect, Shown, Left
  <2> QED BY <2>2 DEF Durable!StoreNext
<1>11. CASE Unlink
  <2>0. op # None /\ op.key \in Keys /\ NoFile.value = op.value
    BY <1>11, <1>t, <1>op DEF Unlink, CallKnown, SetSteps, OpenSteps
  <2>a. /\ dir' = [dir EXCEPT ![op.key] = NoFile]
        /\ onDisk' = [onDisk EXCEPT ![op.key] = @ \cup {NoFile}]
    BY <1>11 DEF Unlink
  <2>b. /\ Shown' = [Shown EXCEPT ![op.key] = NoFile.value]
        /\ Left' = [Left EXCEPT ![op.key] = @ \cup {NoFile.value}]
    BY <1>t, <2>0, <2>a, EnterMaps
  <2>1. /\ Shown' = [Shown EXCEPT ![op.key] = op.value]
        /\ Left' = [Left EXCEPT ![op.key] = @ \cup {op.value}]
    BY <2>0, <2>b
  <2>2. Durable!TakeEffect
    BY <1>11, <2>0, <2>1, <1>n DEF Unlink, Durable!TakeEffect, Shown, Left
  <2> QED BY <2>2 DEF Durable!StoreNext
<1>12. CASE SyncDir
  <2>0. op # None /\ op.key \in Keys /\ Shown[op.key] = op.value
    <3>1. op # None /\ dir[op.key] = WholeFile(op.value)
      BY <1>12, <1>t DEF SyncDir, CallKnown, OpenSteps, CallProgress
    <3>2. dir[op.key].value = op.value BY <3>1 DEF WholeFile
    <3> QED BY <3>1, <3>2, <1>op DEF MappedByValue
  <2>1. Shown' = Shown /\ Left' = [k \in Keys |-> {Shown[k]}]
    BY <1>12, <1>t, SettleMaps DEF SyncDir
  <2>2. op' = None /\ result' = "ok" /\ UNCHANGED <<got, opened, loose>>
    BY <1>12 DEF SyncDir, Return
  <2>3. Durable!SettleAndReturn
    BY <2>0, <2>1, <2>2, <1>n DEF Durable!SettleAndReturn, Durable!Settled, Shown, Left
  <2> QED BY <2>3 DEF Durable!StoreNext
<1>13. CASE UnlinkTemp
  <2>0. /\ op # None /\ op' = None /\ result' = "failed" /\ dir' = dir
        /\ UNCHANGED <<got, opened, loose>>
    BY <1>13, <1>t DEF UnlinkTemp, Return, CallKnown, SetSteps, OpenSteps
  <2>1. CASE onDisk' = onDisk
    <3>1. Shown' = Shown /\ Left' = Left BY <2>0, <2>1, SameMaps
    <3>2. Durable!Return BY <2>0, <3>1, <1>n DEF Durable!Return, Shown, Left
    <3> QED BY <3>2 DEF Durable!StoreNext
  <2>2. CASE onDisk' = Settled
    <3>1. Shown' = Shown /\ Left' = [k \in Keys |-> {Shown[k]}]
      BY <2>0, <2>2, <1>t, SettleMaps
    <3>2. Durable!SettleAndReturn
      BY <2>0, <3>1, <1>n DEF Durable!SettleAndReturn, Durable!Settled, Shown, Left
    <3> QED BY <3>2 DEF Durable!StoreNext
  <2> QED BY <1>13, <2>1, <2>2 DEF UnlinkTemp
<1>14. CASE PowerLoss
  <2>1. onDisk' = [k \in Keys |-> {dir'[k]}]
    BY <1>14, <1>t, PowerLossKeeps
  <2>2. /\ Shown' = [k \in Keys |-> dir'[k].value]
        /\ Left' = [k \in Keys |-> {f.value : f \in onDisk'[k]}]
    BY DEF MappedByValue
  <2>3. (\A k \in Keys : Shown'[k] \in Left[k]) \/ (loose /\ Shown' = Durable!Nothing)
    <3>1. CASE KeepsDirectory
      <4>1. \A k \in Keys : dir'[k] \in onDisk[k] BY <1>t, <3>1, KeptFiles
      <4> QED BY <2>2, <4>1 DEF MappedByValue
    <3>2. CASE LosesDirectory
      <4>1. Shown' = Durable!Nothing BY <2>2, <3>2 DEF LosesDirectory, Durable!Nothing
      <4>2. loose \/ pc = "syncParent" BY <1>t, <3>2 DEF LosesDirectory, DirectoryKnown
      <4>3. CASE pc = "syncParent"
        <5>1. \A k \in Keys : dir'[k] \in onDisk[k]
          BY <1>t, <3>2, <4>3 DEF LosesDirectory, DirectoryKnown, Settled
        <5> QED BY <2>2, <5>1 DEF MappedByValue
      <4> QED BY <1>t, <4>1, <4>2, <4>3 DEF TypeOK
    <3> QED BY <1>14, <3>1, <3>2 DEF PowerLoss
  <2>4. Left' = [k \in Keys |-> {Shown'[k]}]
    <3>1. \A k \in Keys : {f.value : f \in onDisk'[k]} = {Shown'[k]} BY <2>1, <2>2
    <3> QED BY <2>2, <3>1
  <2>5. /\ op' = None /\ result' = "none" /\ got' = got
        /\ opened' = FALSE /\ loose' = FALSE
    BY <1>14 DEF PowerLoss, Crash, Return
  <2>6. DOMAIN Shown' = Keys BY <2>2
  <2>7. Durable!PowerLoss
    BY <2>3, <2>4, <2>5, <2>6, <1>n DEF Durable!PowerLoss, Durable!Interrupted, Shown, Left
  <2> QED BY <2>7 DEF Durable!StoreNext
<1> QED
  BY <1>1, <1>2, <1>3, <1>4, <1>5, <1>6, <1>7, <1>8, <1>9, <1>10, <1>11, <1>12, <1>13, <1>14,
     <1>15
  DEF Next

\* The file store keeps the promises made to the device: a record is never torn, a set
\* that succeeded survives, one that failed or was cut short left the old or the new.
THEOREM RefinesStore == Spec => ImplementsStore
<1>1. IInv => WholeFiles BY DEF IInv
<1> QED
  BY <1>1, InitRefines, StepRefines, Mapped, Inductive, PTL
  DEF Spec, ImplementsStore, Durable!StoreSpec

=============================================================================
