--------------------------- MODULE DataDirProofs ----------------------------
(***************************************************************************)
(* Proofs about DataDir: a running replica has what Raft was told is       *)
(* stored, and the data directory implements StableStore.                  *)
(***************************************************************************)
EXTENDS DataDir, TLAPS

(* The provers, in this order, and their time limits in seconds.           *)
USE ZenonT(5), SMTT(30)

Saving == {"save", "sync", "savedir", "rename"}

(* `current' always names a database, and is the same on disk except       *)
(* between the rename and the sync after it.                               *)
CurrentOK ==
    /\ volCurrent.synced /\ durCurrent.synced
    /\ volCurrent.name # Root /\ durCurrent.name # Root
    /\ pc \in {"sync", "savedir", "rename"} => volUpdating.name = new
    /\ pc \in {"savedir", "rename"} => volUpdating.synced
    /\ pc # "renamedir" => durCurrent = volCurrent
    /\ pc = "renamedir" =>
         /\ volCurrent.name = new
         /\ op = "recover" => durCurrent.name = live

(* The first Open: nothing is promised, and the name it has chosen is new. *)
CreatingOK ==
    /\ op = "open" /\ pc \in Saving \cup {"renamedir"} =>
         /\ new \in Names /\ new \notin volDbs \cup durDbs
         /\ durCurrent.name = Missing /\ promised = 0
    /\ pc = "opendb" =>
         /\ new \in Names /\ new = volCurrent.name
         /\ new \notin volDbs => new \notin durDbs /\ promised = 0
    /\ volCurrent.name = Missing => promised = 0

(* A recovery: its database is complete before it is named, on disk before *)
(* it is current, and ahead of the one it replaces.                        *)
RecoveringOK ==
    /\ pc \in {"load", "swap"} => op = "recover"
    /\ pc \in {"up", "down", "stat", "opendb"} => op = "open"
    /\ op = "recover" /\ pc \in Saving \cup {"load", "renamedir", "swap"} =>
         /\ new \in Names /\ new \in volDbs /\ new # live
         /\ snapshot > applied
         /\ pc # "load" => disk[new] = snapshot
    /\ pc \in {"rename", "renamedir"} => durDbs = volDbs
    /\ pc = "swap" => volCurrent.name = new /\ new \in durDbs

(* While the replica runs its database has all that was promised.          *)
RunningOK ==
    pc = "up" \/ op = "recover" =>
        /\ live \in Names /\ live \in volDbs
        /\ promised <= disk[live] /\ disk[live] <= applied
        /\ pc \notin {"renamedir", "swap"} => live = volCurrent.name

(* What `current' names is kept.                                           *)
KeptOK ==
    \A name \in {volCurrent.name, durCurrent.name} :
        /\ name \in volDbs \cup durDbs => disk[name] >= promised
        /\ name \in durDbs => name \in volDbs

(* The inductive invariant.                                                *)
IInv == TypeOK /\ CurrentOK /\ CreatingOK /\ RecoveringOK /\ RunningOK /\ KeptOK

(* The empty data directory satisfies the invariant.                       *)
LEMMA InitInv == Init => IInv
  BY DataDirAssumption DEF Init, IInv, TypeOK, CurrentOK, CreatingOK,
     RecoveringOK, RunningOK, KeptOK, Files, File, NoFile, Dirs, Broken, Saving

(* Each step of dir.go, Open and recover, and a crash, preserves it.       *)
LEMMA NextInv == IInv /\ [Next]_vars => IInv'
<1> USE DataDirAssumption DEF IInv, TypeOK, CurrentOK, CreatingOK, RecoveringOK,
        RunningOK, KeptOK, Files, File, NoFile, Dirs, Broken, Saving, files,
        dbs, locals, proc, vars
<1> SUFFICES ASSUME IInv, [Next]_vars PROVE IInv'
  OBVIOUS
<1>1. CASE SaveWrite
  BY <1>1 DEF SaveWrite
<1>2. CASE SaveSync
  BY <1>2 DEF SaveSync
<1>3. CASE SaveSyncDir
  BY <1>3 DEF SaveSyncDir, SyncDir
<1>4. CASE Rename
  BY <1>4 DEF Rename
<1>5. CASE RenameSyncDir
  BY <1>5 DEF RenameSyncDir, SyncDir
<1>6. CASE CleanupUpdating
  BY <1>6 DEF CleanupUpdating
<1>7. CASE CleanupDone
  BY <1>7 DEF CleanupDone, Done, GetCurrent
<1>8. ASSUME NEW d \in Names, CleanupRemove(d) PROVE IInv'
  BY <1>8 DEF CleanupRemove, Content, GetCurrent
<1>9. CASE OpenNew
  BY <1>9 DEF OpenNew, Fresh
<1>10. CASE OpenExisting
  BY <1>10 DEF OpenExisting
<1>11. CASE OpenStat
  BY <1>11 DEF OpenStat, GetCurrent
<1>12. CASE OpenFails
  BY <1>12 DEF OpenFails, GetCurrent
<1>13. CASE OpenDB
  BY <1>13 DEF OpenDB, Content, Done
<1>14. CASE RecoverLoad
  BY <1>14 DEF RecoverLoad, Content
<1>15. CASE RecoverSwap
  BY <1>15 DEF RecoverSwap
<1>16. CASE Crash
  <2>1. PICK c \in AfterCrash(volCurrent) \cup AfterCrash(durCurrent) :
          volCurrent' = c /\ durCurrent' = c
    BY <1>16 DEF Crash
  <2>2. c \in {volCurrent, durCurrent}
    BY <2>1 DEF AfterCrash
  <2>3. PICK u \in AfterCrash(volUpdating) \cup AfterCrash(durUpdating) :
          volUpdating' = u /\ durUpdating' = u
    BY <1>16 DEF Crash
  <2>4. u \in Files
    <3>1. ASSUME NEW f \in Files PROVE AfterCrash(f) \subseteq Files
      <4>1. File(Root, TRUE) \in Files /\ File(f.name, TRUE) \in Files
        OBVIOUS
      <4> QED
        BY <4>1, Zenon DEF AfterCrash
    <3> QED
      BY <2>3, <3>1
  <2>5. PICK s \in SUBSET (volDbs \cup durDbs) :
          volDbs \cap durDbs \subseteq s /\ volDbs' = s /\ durDbs' = s
    BY <1>16 DEF Crash
  <2>6. /\ pc' = "down" /\ op' = "open" /\ new' = Missing /\ snapshot' = 0
        /\ live' = Missing /\ applied' = 0 /\ crashes' = crashes + 1
        /\ disk' = disk /\ promised' = promised
    BY <1>16 DEF Crash, Done
  <2>7. TypeOK'
    BY <2>1, <2>2, <2>3, <2>4, <2>5, <2>6
  <2>8. CurrentOK' /\ CreatingOK' /\ RecoveringOK' /\ RunningOK'
    BY <2>1, <2>2, <2>6
  <2>9. KeptOK'
    BY <2>1, <2>2, <2>5, <2>6
  <2> QED
    BY <2>7, <2>8, <2>9
<1>17. CASE Update
  BY <1>17 DEF Update
<1>18. CASE Sync
  BY <1>18 DEF Sync, Content
<1>19. CASE Close
  BY <1>19 DEF Close, Content
<1>20. ASSUME NEW i \in 1..MaxIndex, RecoverStart(i) PROVE IInv'
  BY <1>20 DEF RecoverStart, Content, Fresh
<1>21. ASSUME NEW cleans \in BOOLEAN, RecoverStopped(cleans) PROVE IInv'
  BY <1>21 DEF RecoverStopped, Done
<1>22. CASE UNCHANGED vars
  BY <1>22
<1> QED
  BY <1>1, <1>2, <1>3, <1>4, <1>5, <1>6, <1>7, <1>8, <1>9, <1>10, <1>11, <1>12,
     <1>13, <1>14, <1>15, <1>16, <1>17, <1>18, <1>19, <1>20, <1>21, <1>22, Zenon
     DEF Next, Step

(* Open, recover and crashes keep the shape of the data directory.         *)
THEOREM TypeCorrect == Spec => []TypeOK
<1>1. IInv => TypeOK
  BY DEF IInv
<1> QED
  BY <1>1, InitInv, NextInv, PTL DEF Spec

(* A running replica has all that Sync and recover have told Raft is       *)
(* stored, in the database that `current' names, whatever crashes came     *)
(* before.                                                                 *)
THEOREM PromiseKept == Spec => []OpenFindsPromised
<1>1. IInv => OpenFindsPromised
  BY DEF IInv, OpenFindsPromised, RunningOK, RecoveringOK, TypeOK, Dirs, Broken
<1> QED
  BY <1>1, InitInv, NextInv, PTL DEF Spec

-----------------------------------------------------------------------------
(* Refinement.                                                             *)

Stored == Durable(durCurrent.name)

Pending ==
    IF Settled /\ volCurrent.name # durCurrent.name
    THEN disk[volCurrent.name] ELSE Missing

(* No database: an empty directory is an empty store.                      *)
LEMMA InitStore == Init => Store!Init
  BY DataDirAssumption DEF Init, Store!Init, Durable, Settled, NoFile, File

(* Every step of the data directory is a step of the store, or none.       *)
LEMMA NextStore == IInv /\ IInv' /\ [Next]_vars => [Store!Next]_(Store!vars)
<1> SUFFICES ASSUME IInv, IInv', [Next]_vars
             PROVE  [Store!Next]_<<Stored, Pending>>
  BY DEF Store!vars, Stored, Pending
<1> USE DataDirAssumption DEF IInv, TypeOK, CurrentOK, CreatingOK, RecoveringOK,
        RunningOK, KeptOK, Files, File, NoFile, Dirs, Broken, Saving, files,
        dbs, locals, proc, vars, Stored, Pending, Durable, Settled
<1>1. ASSUME UNCHANGED <<volCurrent, durCurrent, durDbs, disk>>
      PROVE  UNCHANGED <<Stored, Pending>>
  BY <1>1
<1>2. CASE SaveWrite \/ SaveSync \/ CleanupUpdating \/ CleanupDone \/ OpenNew
           \/ OpenExisting \/ OpenStat \/ OpenFails \/ RecoverSwap \/ Update
           \/ UNCHANGED vars
  BY <1>1, <1>2 DEF SaveWrite, SaveSync, CleanupUpdating, CleanupDone, OpenNew,
     OpenExisting, OpenStat, OpenFails, RecoverSwap, Update
<1>3. CASE SaveSyncDir
  BY <1>3 DEF SaveSyncDir, SyncDir, Store!Next, Store!Create
<1>4. CASE Rename
  <2>1. CASE op = "open"
    BY <1>4, <2>1 DEF Rename
  <2>2. CASE op = "recover"
    <3>1. Stored = disk[live] /\ Pending = Missing /\ disk[live] \in Nat
      BY <1>4, <2>2 DEF Rename
    <3>2. Stored' = disk[live] /\ Pending' = snapshot /\ snapshot > disk[live]
      BY <1>4, <2>2 DEF Rename
    <3>3. Store!Replace
      BY <3>1, <3>2 DEF Store!Replace
    <3> QED
      BY <3>3 DEF Store!Next
  <2> QED
    BY <2>1, <2>2
<1>5. CASE RenameSyncDir
  <2>1. CASE op = "open"
    BY <1>5, <2>1 DEF RenameSyncDir, SyncDir
  <2>2. CASE op = "recover"
    <3>1. Pending = snapshot /\ snapshot # Missing
      BY <1>5, <2>2 DEF RenameSyncDir
    <3>2. Stored' = snapshot /\ Pending' = Missing
      BY <1>5, <2>2 DEF RenameSyncDir, SyncDir
    <3>3. Store!Settle
      BY <3>1, <3>2 DEF Store!Settle
    <3> QED
      BY <3>3 DEF Store!Next
  <2> QED
    BY <2>1, <2>2
<1>6. ASSUME NEW d \in Names, CleanupRemove(d) PROVE UNCHANGED <<Stored, Pending>>
  BY <1>6 DEF CleanupRemove, Content, GetCurrent
<1>7. CASE OpenDB
  BY <1>7 DEF OpenDB, Content
<1>8. CASE RecoverLoad
  BY <1>8 DEF RecoverLoad, Content
<1>9. CASE Crash
  <2>1. PICK c \in {volCurrent, durCurrent} : volCurrent' = c /\ durCurrent' = c
    BY <1>9 DEF Crash, AfterCrash
  <2>2. PICK s \in SUBSET (volDbs \cup durDbs) :
          volDbs \cap durDbs \subseteq s /\ volDbs' = s /\ durDbs' = s
    BY <1>9 DEF Crash
  <2>3. disk' = disk
    BY <1>9 DEF Crash
  <2>4. Pending' = Missing
    BY <2>1
  <2>5. CASE ~Settled
    <3>1. Stored = Missing /\ Pending = Missing
      BY <2>5
    <3>2. Stored' = Missing \/ Stored' \in Nat
      BY <2>1, <2>2, <2>3
    <3> QED
      BY <2>4, <3>1, <3>2 DEF Store!Next, Store!Create
  <2>6. CASE Settled /\ pc # "renamedir"
    <3>1. Stored' = Stored /\ Pending = Missing
      BY <2>1, <2>2, <2>3, <2>6
    <3> QED
      BY <2>4, <3>1
  <2>7. CASE Settled /\ pc = "renamedir"
    <3>1. Stored = disk[live] /\ Pending = snapshot /\ snapshot # Missing
      BY <2>7
    <3>2. Stored' = disk[live] \/ Stored' = snapshot
      BY <2>1, <2>2, <2>3, <2>7
    <3> QED
      BY <2>4, <3>1, <3>2 DEF Store!Next, Store!Settle, Store!Abort
  <2> QED
    BY <2>5, <2>6, <2>7
<1>10. CASE Sync \/ Close
  <2>1. /\ disk' = [disk EXCEPT ![live] = applied]
        /\ UNCHANGED <<volCurrent, durCurrent, durDbs>> /\ pc = "up"
    BY <1>10 DEF Sync, Close, Content
  <2>2. Pending = Missing /\ Pending' = Missing
    BY <2>1
  <2>3. CASE live \notin durDbs
    BY <2>1, <2>2, <2>3
  <2>4. CASE live \in durDbs
    <3>1. Stored = disk[live] /\ Stored' = applied /\ disk[live] \in Nat
      BY <2>1, <2>4
    <3>2. CASE applied = disk[live]
      BY <2>2, <3>1, <3>2
    <3>3. CASE applied > disk[live]
      <4>1. Store!Flush
        BY <2>2, <3>1, <3>3 DEF Store!Flush
      <4> QED
        BY <4>1 DEF Store!Next
    <3> QED
      BY <2>1, <3>2, <3>3
  <2> QED
    BY <2>3, <2>4
<1>11. ASSUME NEW i \in 1..MaxIndex, RecoverStart(i)
       PROVE  UNCHANGED <<Stored, Pending>>
  BY <1>11 DEF RecoverStart, Content, Fresh
<1>12. ASSUME NEW cleans \in BOOLEAN, RecoverStopped(cleans)
       PROVE  UNCHANGED <<Stored, Pending>>
  BY <1>1, <1>12 DEF RecoverStopped
<1> QED
  BY <1>2, <1>3, <1>4, <1>5, <1>6, <1>7, <1>8, <1>9, <1>10, <1>11, <1>12, Zenon
     DEF Next, Step

(* The data directory implements the store: the switch is atomic on disk.  *)
THEOREM ImplementsStore == Spec => SwitchIsAtomic
<1> QED
  BY InitInv, NextInv, InitStore, NextStore, PTL DEF Spec, SwitchIsAtomic, Store!Spec
=============================================================================
