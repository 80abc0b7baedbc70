------------------------------ MODULE DataDir -------------------------------
(***************************************************************************)
(* The data directory of a replica (pebble/dir.go), as FSM.Open and the    *)
(* recovery from a snapshot (storage/table/fsm) use it: the file `current' *)
(* names the directory that holds the database, a new database is made     *)
(* beside the old one, and `current.updating' becomes `current' when it is *)
(* complete.                                                               *)
(*                                                                         *)
(* The file system is the one POSIX describes: an entry that was created,  *)
(* renamed or removed is on disk after the next sync of the directory, and *)
(* a crash before that may find it or not; the content of a file is on     *)
(* disk after the sync of the file, and damaged otherwise.  The directory  *)
(* of a database is created by the database without a sync of its parent.  *)
(* A database is abstracted to two indexes: what its readers see, and what *)
(* a crash leaves.                                                         *)
(***************************************************************************)
EXTENDS Integers

CONSTANTS
    Names,       \* names of databases, as GetNewRandomDBDirName makes them
    Missing,     \* the name in a file that is not there
    Root,        \* the empty name: the data directory itself
    MaxIndex,    \* bound on the index of a database
    MaxCrashes   \* bound on crashes

ASSUME DataDirAssumption ==
    /\ Missing \notin Names /\ Root \notin Names /\ Missing # Root
    /\ Missing \notin Nat
    /\ MaxIndex \in Nat /\ MaxCrashes \in Nat

VARIABLES
    volCurrent, durCurrent,     \* `current', now and after a crash
    volUpdating, durUpdating,   \* `current.updating'
    volDbs, durDbs,             \* directories of databases
    applied,    \* index of the open database, as its readers see it
    disk,       \* index of a database that is on disk, Broken if files lack
    pc,         \* next step of Open or recover; "up" while the replica runs
    op,         \* what runs: "open" or "recover"
    new,        \* name of the database being made
    snapshot,   \* index of the snapshot to recover from
    live,       \* name of the open database
    promised,   \* what Raft was told is stored: it may forget its log
    crashes     \* number of crashes so far

files == <<volCurrent, durCurrent, volUpdating, durUpdating>>

dbs == <<volDbs, durDbs, disk>>

(* The locals of Open and recover.                                         *)
locals == <<op, new, snapshot>>

proc == <<pc, locals, live, applied, promised>>

vars == <<files, dbs, proc, crashes>>

(* A file holds a name and its checksum.                                   *)
File(name, synced) == [name |-> name, synced |-> synced]

NoFile == File(Missing, TRUE)

Broken == -1

Dirs == Names \cup {Root}

Init ==
    /\ volCurrent = NoFile /\ durCurrent = NoFile
    /\ volUpdating = NoFile /\ durUpdating = NoFile
    /\ volDbs = {} /\ durDbs = {}
    /\ disk = [d \in Dirs |-> 0]
    /\ pc = "down"
    /\ op = "open"
    /\ new = Missing
    /\ snapshot = 0
    /\ live = Missing
    /\ applied = 0
    /\ promised = 0
    /\ crashes = 0

-----------------------------------------------------------------------------
(* Helpers.                                                                *)

(* A random name is new: no entry and no file has it.                      *)
Fresh ==
    Names \ (volDbs \cup durDbs \cup {volCurrent.name, durCurrent.name,
             volUpdating.name, durUpdating.name, live})

(* syncDir: what the directory holds is on disk.                           *)
SyncDir ==
    /\ durCurrent' = volCurrent
    /\ durUpdating' = volUpdating
    /\ durDbs' = volDbs

(* The database d has the index i on disk.                                 *)
Content(d, i) == disk' = [disk EXCEPT ![d] = i]

(* Open or recover is over.                                                *)
Done ==
    /\ op' = "open"
    /\ new' = Missing
    /\ snapshot' = 0

-----------------------------------------------------------------------------
(* SaveCurrentDBDirName and ReplaceCurrentDBFile, for Open and recover.    *)

(* Mutant of SaveWrite: the file is not synced before it is renamed.       *)
SaveWriteUnsynced ==
    /\ pc = "save"
    /\ volUpdating' = File(new, FALSE)
    /\ pc' = "savedir"
    /\ UNCHANGED <<volCurrent, durCurrent, durUpdating, dbs, locals, live, applied,
                   promised, crashes>>

(* The file is created or truncated, and written.                          *)
SaveWrite ==
    /\ pc = "save"
    /\ volUpdating' = File(new, FALSE)
    /\ pc' = "sync"
    /\ UNCHANGED <<volCurrent, durCurrent, durUpdating, dbs, locals, live, applied,
                   promised, crashes>>

SaveSync ==
    /\ pc = "sync"
    /\ volUpdating' = File(volUpdating.name, TRUE)
    /\ pc' = "savedir"
    /\ UNCHANGED <<volCurrent, durCurrent, durUpdating, dbs, locals, live, applied,
                   promised, crashes>>

(* Mutant of SaveSyncDir: the directory is not synced.                     *)
SaveSyncDirSkipped ==
    /\ pc = "savedir"
    /\ pc' = "rename"
    /\ UNCHANGED <<files, dbs, locals, live, applied, promised, crashes>>

SaveSyncDir ==
    /\ pc = "savedir"
    /\ SyncDir
    /\ pc' = "rename"
    /\ UNCHANGED <<volCurrent, volUpdating, volDbs, disk, locals, live, applied,
                   promised, crashes>>

Rename ==
    /\ pc = "rename"
    /\ volCurrent' = volUpdating
    /\ volUpdating' = NoFile
    /\ pc' = "renamedir"
    /\ UNCHANGED <<durCurrent, durUpdating, dbs, locals, live, applied, promised,
                   crashes>>

RenameSyncDir ==
    /\ pc = "renamedir"
    /\ SyncDir
    /\ pc' = IF op = "open" THEN "opendb" ELSE "swap"
    /\ UNCHANGED <<volCurrent, volUpdating, volDbs, disk, locals, live, applied,
                   promised, crashes>>

-----------------------------------------------------------------------------
(* CleanupNodeDataDir.                                                     *)

(* GetCurrentDBDirName: the empty name if the file is damaged.             *)
GetCurrent == volCurrent.name

CleanupUpdating ==
    /\ pc = "cleanup"
    /\ volUpdating' = NoFile
    /\ pc' = "remove"
    /\ UNCHANGED <<volCurrent, durCurrent, durUpdating, dbs, locals, live, applied,
                   promised, crashes>>

(* Mutant of CleanupRemove: the directory of the new database is removed.  *)
CleanupRemoveNew(d) ==
    /\ pc = "remove"
    /\ d \in volDbs
    /\ d # live
    /\ volDbs' = volDbs \ {d}
    /\ Content(d, Broken)
    /\ UNCHANGED <<files, durDbs, proc, crashes>>

(* RemoveAll of a directory: the files in it are gone, the entry itself    *)
(* may be back after a crash.                                              *)
CleanupRemove(d) ==
    /\ pc = "remove"
    /\ d \in volDbs
    /\ d # GetCurrent
    /\ volDbs' = volDbs \ {d}
    /\ Content(d, Broken)
    /\ UNCHANGED <<files, durDbs, proc, crashes>>

CleanupDone ==
    /\ pc = "remove"
    /\ volDbs \subseteq {GetCurrent}
    /\ IF op = "open" THEN pc' = "stat" /\ UNCHANGED locals
                      ELSE pc' = "up" /\ Done
    /\ UNCHANGED <<files, dbs, live, applied, promised, crashes>>

-----------------------------------------------------------------------------
(* FSM.Open.                                                               *)

(* CreateNodeDataDir, IsNewRun.                                            *)
OpenNew ==
    /\ pc = "down"
    /\ volCurrent.name = Missing
    /\ \E d \in Fresh : new' = d
    /\ op' = "open"
    /\ pc' = "save"
    /\ UNCHANGED <<files, dbs, snapshot, live, applied, promised, crashes>>

OpenExisting ==
    /\ pc = "down"
    /\ volCurrent.name # Missing
    /\ new' = Missing
    /\ op' = "open"
    /\ pc' = "cleanup"
    /\ UNCHANGED <<files, dbs, snapshot, live, applied, promised, crashes>>

(* The directory that `current' names has to be there.                     *)
OpenStat ==
    /\ pc = "stat"
    /\ GetCurrent \in volDbs \cup {Root}
    /\ new' = GetCurrent
    /\ pc' = "opendb"
    /\ UNCHANGED <<files, dbs, op, snapshot, live, applied, promised, crashes>>

OpenFails ==
    /\ pc = "stat"
    /\ GetCurrent \notin volDbs \cup {Root}
    /\ pc' = "down"
    /\ UNCHANGED <<files, dbs, locals, live, applied, promised, crashes>>

(* Mutant of OpenDB: the database is not kept as the state machine's.      *)
OpenDBDropped ==
    /\ pc = "opendb"
    /\ IF new \in volDbs THEN UNCHANGED disk ELSE Content(new, 0)
    /\ applied' = disk'[new]
    /\ volDbs' = volDbs \cup ({new} \ {Root})
    /\ pc' = "up"
    /\ Done
    /\ UNCHANGED <<files, durDbs, live, promised, crashes>>

(* openDB creates the database if there is none, and reads its index.      *)
OpenDB ==
    /\ pc = "opendb"
    /\ IF new \in volDbs THEN UNCHANGED disk ELSE Content(new, 0)
    /\ applied' = disk'[new]
    /\ volDbs' = volDbs \cup ({new} \ {Root})
    /\ live' = new
    /\ pc' = "up"
    /\ Done
    /\ UNCHANGED <<files, durDbs, promised, crashes>>

-----------------------------------------------------------------------------
(* The replica runs: Raft applies entries, asks it to sync, closes it.     *)

Update ==
    /\ pc = "up"
    /\ applied < MaxIndex
    /\ applied' = applied + 1
    /\ UNCHANGED <<files, dbs, pc, locals, live, promised, crashes>>

(* FSM.Sync: Raft may drop its log up to the index.                        *)
Sync ==
    /\ pc = "up"
    /\ Content(live, applied)
    /\ promised' = applied
    /\ UNCHANGED <<files, volDbs, durDbs, pc, locals, live, applied, crashes>>

Close ==
    /\ pc = "up"
    /\ Content(live, applied)
    /\ pc' = "down"
    /\ live' = Missing
    /\ applied' = 0
    /\ UNCHANGED <<files, volDbs, durDbs, locals, promised, crashes>>

-----------------------------------------------------------------------------
(* RecoverFromSnapshot.                                                    *)

(* A new database is opened, or its directory made for the files of a      *)
(* checkpoint.  Raft sends no snapshot older than the replica.             *)
RecoverStart(i) ==
    /\ pc = "up"
    /\ i \in (applied + 1)..MaxIndex
    /\ snapshot' = i
    /\ \E d \in Fresh :
         /\ new' = d
         /\ volDbs' = volDbs \cup {d}
         /\ \E content \in {0, Broken} : Content(d, content)
    /\ op' = "recover"
    /\ pc' = "load"
    /\ UNCHANGED <<files, durDbs, live, applied, promised, crashes>>

(* All the files are read and synced, and ingested or opened.              *)
RecoverLoad ==
    /\ pc = "load"
    /\ Content(new, snapshot)
    /\ pc' = "save"
    /\ UNCHANGED <<files, volDbs, durDbs, locals, live, applied, promised, crashes>>

(* ErrSnapshotStopped: recovery from a snapshot cleans up, the one from a  *)
(* checkpoint and one that fails leave what they have made.                *)
RecoverStopped(cleans) ==
    /\ pc = "load"
    /\ IF cleans THEN pc' = "cleanup" /\ UNCHANGED locals
                 ELSE pc' = "up" /\ Done
    /\ UNCHANGED <<files, dbs, live, applied, promised, crashes>>

(* The new database is swapped in and the old one closed.                  *)
RecoverSwap ==
    /\ pc = "swap"
    /\ live' = new
    /\ applied' = snapshot
    /\ promised' = snapshot
    /\ pc' = "cleanup"
    /\ UNCHANGED <<files, dbs, locals, crashes>>

-----------------------------------------------------------------------------
(* The process dies with the machine.                                      *)

AfterCrash(f) ==
    IF f.synced THEN {f} ELSE {File(Root, TRUE), File(f.name, TRUE)}

Crash ==
    /\ crashes < MaxCrashes
    /\ crashes' = crashes + 1
    /\ \E c \in AfterCrash(volCurrent) \cup AfterCrash(durCurrent) :
         volCurrent' = c /\ durCurrent' = c
    /\ \E u \in AfterCrash(volUpdating) \cup AfterCrash(durUpdating) :
         volUpdating' = u /\ durUpdating' = u
    /\ \E s \in SUBSET (volDbs \cup durDbs) :
         /\ volDbs \cap durDbs \subseteq s
         /\ volDbs' = s /\ durDbs' = s
    /\ pc' = "down"
    /\ Done
    /\ live' = Missing
    /\ applied' = 0
    /\ UNCHANGED <<disk, promised>>

Step ==
    \/ SaveWrite \/ SaveSync \/ SaveSyncDir \/ Rename \/ RenameSyncDir
    \/ CleanupUpdating \/ CleanupDone \/ \E d \in Names : CleanupRemove(d)
    \/ OpenNew \/ OpenExisting \/ OpenStat \/ OpenFails \/ OpenDB
    \/ RecoverLoad \/ RecoverSwap

Next ==
    \/ Step \/ Crash \/ Update \/ Sync \/ Close
    \/ \E i \in 1..MaxIndex : RecoverStart(i)
    \/ \E cleans \in BOOLEAN : RecoverStopped(cleans)

(* Open and recover go on; a closed or crashed replica is started again.   *)
Spec == Init /\ [][Next]_vars

FairSpec == Spec /\ WF_vars(Step)

-----------------------------------------------------------------------------
(* Properties.                                                             *)

Files == [name : Dirs \cup {Missing}, synced : BOOLEAN]

(* The state keeps its shape.                                              *)
TypeOK ==
    /\ volCurrent \in Files /\ durCurrent \in Files
    /\ volUpdating \in Files /\ durUpdating \in Files
    /\ volDbs \subseteq Names /\ durDbs \subseteq Names
    /\ disk \in [Dirs -> Nat \cup {Broken}]
    /\ pc \in {"down", "save", "sync", "savedir", "rename", "renamedir",
               "cleanup", "remove", "stat", "opendb", "up", "load", "swap"}
    /\ op \in {"open", "recover"}
    /\ new \in Dirs \cup {Missing} /\ live \in Dirs \cup {Missing}
    /\ snapshot \in Nat /\ applied \in Nat /\ promised \in Nat /\ crashes \in Nat
    /\ pc \in {"up", "load", "swap"} => live \in Dirs

(* A replica that runs has all that Raft was told is stored, although Raft *)
(* has forgotten its log: whatever Open found and recoveries left behind.  *)
(* Its database is the one that `current' names.                           *)
OpenFindsPromised ==
    pc = "up" => disk[live] >= promised /\ live = volCurrent.name

(* The database `current' names is on disk with its directory.             *)
Settled == durCurrent.name \in durDbs

(* Crashes, clean-ups and stopped recoveries leave a database under the    *)
(* name `current' has, once there has been one on disk, and Open gets the  *)
(* replica running again.                                                  *)
Reopens == Settled ~> pc = "up"

(* The data directory is a StableStore.                                    *)
Durable(name) == IF name \in durDbs THEN disk[name] ELSE Missing

Store ==
    INSTANCE StableStore WITH
        None <- Missing,
        stored <- Durable(durCurrent.name),
        pending <- IF Settled /\ volCurrent.name # durCurrent.name
                   THEN disk[volCurrent.name] ELSE Missing

(* The switch to another database is atomic on disk: at every moment a     *)
(* crash finds the old one or the new one, complete, and never goes back   *)
(* behind what was stored.                                                 *)
SwitchIsAtomic == Store!Spec
=============================================================================
