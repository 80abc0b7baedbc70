------------------------------ MODULE TableFSM ------------------------------
(***************************************************************************)
(* The replicas of one table: the on-disk state machine of each            *)
(* (storage/table/fsm/fsm.go, snapshot_*.go) under the Raft library that   *)
(* feeds it.  Raft is external: it agrees on one log, hands its entries    *)
(* to every replica in order, in batches of its choice, calls Sync before  *)
(* it discards entries, and brings a replica that has fallen behind up to  *)
(* date with a snapshot of another one.                                    *)
(*                                                                         *)
(* The database runs without a write-ahead log, so a crash takes it back   *)
(* to what was flushed last; Open tells Raft the index it finds and Raft   *)
(* replays the log from there.                                             *)
(*                                                                         *)
(* What a command does to a table is the constant Handle, which            *)
(* TableCommands defines; a context holds the content that the batch leads *)
(* to, whether the batch is indexed and whether the handler has panicked.  *)
(***************************************************************************)
EXTENDS Integers, Sequences

CONSTANTS
    Replicas,
    Contents,        \* contents of a table
    EmptyTable,
    Commands,        \* commands; leaderIndex is a number or None
    None,
    Handle(_, _),    \* context, command -> context and responses
    Checkpoint,      \* recovery type: checkpoint (TRUE) or snapshot
    MaxLog           \* bound on the length of the log

(* The batch of an update.                                                 *)
Batch(kv, indexed, panic) == [kv |-> kv, indexed |-> indexed, panic |-> panic]

(* What a handler writes and answers does not depend on whether the batch  *)
(* happens to be indexed already.                                          *)
ASSUME HandleAssumption ==
    /\ EmptyTable \in Contents
    /\ None \notin Nat /\ None \notin Replicas
    /\ \A cmd \in Commands : cmd.leaderIndex \in Nat \cup {None}
    /\ Checkpoint \in BOOLEAN
    /\ MaxLog \in Nat
    /\ \A kv \in Contents, cmd \in Commands, indexed \in BOOLEAN :
         LET h == Handle(Batch(kv, indexed, FALSE), cmd)
             g == Handle(Batch(kv, FALSE, FALSE), cmd)
         IN /\ h.ctx.kv \in Contents
            /\ h.ctx.indexed \in BOOLEAN /\ h.ctx.panic \in BOOLEAN
            /\ h.ctx.kv = g.ctx.kv
            /\ h.ctx.panic = g.ctx.panic
            /\ h.responses = g.responses

VARIABLES
    log,      \* the commands Raft has agreed on
    ref,      \* after each prefix of the log: content, leader index, responses
    first,    \* first entry that a replica's log still holds
    up,       \* replica runs
    db,       \* the database as its readers see it
    disk,     \* the database as a crash leaves it
    ctx,      \* updateContext of the Update call in progress
    snap,     \* the snapshot that one replica sends to another
    reader    \* a SnapshotRequest: its pebble snapshot, then its result

vars == <<log, ref, first, up, db, disk, ctx, snap, reader>>

Store(kv, index, leader) == [kv |-> kv, index |-> index, leader |-> leader]

NewStore == Store(EmptyTable, 0, 0)

(* The update context: open or not, its batch, index, leaderIndex, and the *)
(* responses to its last command.                                          *)
UpdateContext(open, kv, indexed, index, leader, responses) ==
    [open |-> open, kv |-> kv, indexed |-> indexed, index |-> index,
     leader |-> leader, responses |-> responses]

(* The snapshot on its way: prepared by a replica, arrived at another, or  *)
(* made that one's current database but not opened yet.  There is one at a *)
(* time, and one SnapshotRequest at a time, as they do not interfere.      *)
Transfer(pc, from, to, store) ==
    [pc |-> pc, from |-> from, to |-> to, store |-> store]

NoTransfer == Transfer("none", None, None, NewStore)

Request(pc, at, store) == [pc |-> pc, at |-> at, store |-> store]

NoRequest == Request("none", None, NewStore)

NoContext == UpdateContext(FALSE, EmptyTable, FALSE, 0, None, <<>>)

Reference(kv, leader, responses) ==
    [kv |-> kv, leader |-> leader, responses |-> responses]

Init ==
    /\ log = <<>>
    /\ ref = [i \in {0} |-> Reference(EmptyTable, 0, <<>>)]
    /\ first = [r \in Replicas |-> 1]
    /\ up = [r \in Replicas |-> TRUE]
    /\ db = [r \in Replicas |-> NewStore]
    /\ disk = [r \in Replicas |-> NewStore]
    /\ ctx = [r \in Replicas |-> NoContext]
    /\ snap = NoTransfer
    /\ reader = NoRequest

-----------------------------------------------------------------------------
(* Raft agrees on another command.  The reference records what the command *)
(* does when it is the only one of an update.                              *)
Propose ==
    /\ Len(log) < MaxLog
    /\ \E cmd \in Commands :
         LET n == Len(log)
             h == Handle(Batch(ref[n].kv, FALSE, FALSE), cmd)
             leader == IF cmd.leaderIndex = None THEN ref[n].leader
                       ELSE cmd.leaderIndex
         IN /\ log' = Append(log, cmd)
            /\ ref' = [i \in 0..(n + 1) |->
                         IF i <= n THEN ref[i]
                         ELSE Reference(h.ctx.kv, leader, h.responses)]
    /\ UNCHANGED <<first, up, db, disk, ctx, snap, reader>>

-----------------------------------------------------------------------------
(* Update.                                                                 *)

(* Mutant of Current: the writes of the update so far cannot be read.      *)
CurrentUnread(r) ==
    UpdateContext(TRUE, db[r].kv, FALSE,
                  IF ctx[r].open THEN ctx[r].index ELSE db[r].index, None, <<>>)

(* A new batch on the database, or the one of the update in progress.      *)
Current(r) ==
    IF ctx[r].open THEN ctx[r]
    ELSE UpdateContext(TRUE, db[r].kv, FALSE, db[r].index, None, <<>>)

Recovering(r) == snap.pc = "replaced" /\ snap.to = r

(* Raft has an entry for the replica, which is not recovering.             *)
HasEntry(r) ==
    /\ up[r]
    /\ ~Recovering(r)
    /\ Current(r).index < Len(log)
    /\ first[r] <= Current(r).index + 1

Handled(r) ==
    LET c == Current(r)
    IN Handle(Batch(c.kv, c.indexed, FALSE), log[c.index + 1])

(* One turn of the loop: parseCommand and the command's handler.           *)
UpdateEntry(r) ==
    /\ HasEntry(r)
    /\ LET c == Current(r)
           h == Handled(r)
       IN /\ ~h.ctx.panic
          /\ ctx' = [ctx EXCEPT ![r] =
                       UpdateContext(TRUE, h.ctx.kv, h.ctx.indexed, c.index + 1,
                                     log[c.index + 1].leaderIndex, h.responses)]
    /\ UNCHANGED <<log, ref, first, up, db, disk, snap, reader>>

(* Mutant of UpdateCommit: the index of the first entry is stored.         *)
UpdateCommitFirst(r) ==
    /\ ctx[r].open
    /\ LET c == ctx[r]
       IN db' = [db EXCEPT ![r] =
                   Store(c.kv, db[r].index + 1,
                         IF c.leader = None THEN db[r].leader ELSE c.leader)]
    /\ ctx' = [ctx EXCEPT ![r] = NoContext]
    /\ UNCHANGED <<log, ref, first, up, disk, snap, reader>>

(* updateContext.Commit, after the last entry of the batch.                *)
UpdateCommit(r) ==
    /\ ctx[r].open
    /\ LET c == ctx[r]
       IN db' = [db EXCEPT ![r] =
                   Store(c.kv, c.index,
                         IF c.leader = None THEN db[r].leader ELSE c.leader)]
    /\ ctx' = [ctx EXCEPT ![r] = NoContext]
    /\ UNCHANGED <<log, ref, first, up, disk, snap, reader>>

-----------------------------------------------------------------------------
(* Durability.                                                             *)

HoldsTransfer(r) ==
    IF snap.pc = "prepared" THEN snap.from = r ELSE snap.to = r

(* Mutant of Down: a SnapshotRequest outlives its database.                *)
DownReading(r) ==
    /\ up' = [up EXCEPT ![r] = FALSE]
    /\ db' = [db EXCEPT ![r] = NewStore]
    /\ ctx' = [ctx EXCEPT ![r] = NoContext]
    /\ snap' = IF HoldsTransfer(r) THEN NoTransfer ELSE snap
    /\ UNCHANGED reader

(* What is in memory is gone; a snapshot on its way is sent again.         *)
Down(r) ==
    /\ up' = [up EXCEPT ![r] = FALSE]
    /\ db' = [db EXCEPT ![r] = NewStore]
    /\ ctx' = [ctx EXCEPT ![r] = NoContext]
    /\ snap' = IF HoldsTransfer(r) THEN NoTransfer ELSE snap
    /\ reader' = IF reader.at = r THEN NoRequest ELSE reader

Crash(r) ==
    /\ up[r]
    /\ Down(r)
    /\ UNCHANGED <<log, ref, first, disk>>

(* A handler panics and takes the process down with it.                    *)
UpdatePanic(r) ==
    /\ HasEntry(r)
    /\ Handled(r).ctx.panic
    /\ Down(r)
    /\ UNCHANGED <<log, ref, first, disk>>

(* Mutant of Close: it stores the old database over one just recovered.    *)
CloseRecovering(r) ==
    /\ up[r]
    /\ ~ctx[r].open
    /\ disk' = [disk EXCEPT ![r] = db[r]]
    /\ Down(r)
    /\ UNCHANGED <<log, ref, first>>

(* Close, which Raft calls after the last Update has returned.             *)
Close(r) ==
    /\ up[r]
    /\ ~ctx[r].open
    /\ ~Recovering(r)
    /\ disk' = [disk EXCEPT ![r] = db[r]]
    /\ Down(r)
    /\ UNCHANGED <<log, ref, first>>

Open(r) ==
    /\ ~up[r]
    /\ up' = [up EXCEPT ![r] = TRUE]
    /\ db' = [db EXCEPT ![r] = disk[r]]
    /\ UNCHANGED <<log, ref, first, disk, ctx, snap, reader>>

(* The database flushes its memtable when it is full.                      *)
Flush(r) ==
    /\ up[r]
    /\ ~Recovering(r)
    /\ disk' = [disk EXCEPT ![r] = db[r]]
    /\ UNCHANGED <<log, ref, first, up, db, ctx, snap, reader>>

(* Mutant of Sync: entries are discarded that were not flushed.            *)
SyncUnflushed(r) ==
    /\ up[r]
    /\ ~Recovering(r)
    /\ \E to \in first[r]..(db[r].index + 1) :
         first' = [first EXCEPT ![r] = to]
    /\ UNCHANGED <<log, ref, up, db, disk, ctx, snap, reader>>

(* Sync flushes, and Raft discards entries that are in the database.       *)
Sync(r) ==
    /\ up[r]
    /\ ~Recovering(r)
    /\ disk' = [disk EXCEPT ![r] = db[r]]
    /\ \E to \in first[r]..(db[r].index + 1) :
         first' = [first EXCEPT ![r] = to]
    /\ UNCHANGED <<log, ref, up, db, ctx, snap, reader>>

-----------------------------------------------------------------------------
(* Snapshots between replicas.                                             *)

(* prepare; a checkpoint is taken of the flushed database.                 *)
PrepareSnapshot(r, to) ==
    /\ snap.pc = "none"
    /\ up[r]
    /\ to # r
    /\ ~ctx[r].open
    /\ snap' = Transfer("prepared", r, to, db[r])
    /\ disk' = IF Checkpoint THEN [disk EXCEPT ![r] = db[r]] ELSE disk
    /\ UNCHANGED <<log, ref, first, up, db, ctx, reader>>

(* save, while updates go on.                                              *)
SaveSnapshot ==
    /\ snap.pc = "prepared"
    /\ up[snap.to]
    /\ snap' = Transfer("arrived", None, snap.to, snap.store)
    /\ UNCHANGED <<log, ref, first, up, db, disk, ctx, reader>>

(* ErrSnapshotStopped on either side, or Raft has no use for the snapshot  *)
(* any more.                                                               *)
SnapshotStopped ==
    /\ snap.pc \in {"prepared", "arrived"}
    /\ snap' = NoTransfer
    /\ UNCHANGED <<log, ref, first, up, db, disk, ctx, reader>>

(* Mutant of RecoverReplace: an outdated snapshot is installed.            *)
RecoverReplaceAny(r) ==
    /\ snap.pc = "arrived"
    /\ snap.to = r
    /\ ~ctx[r].open
    /\ disk' = [disk EXCEPT ![r] = snap.store]
    /\ snap' = Transfer("replaced", None, r, snap.store)
    /\ UNCHANGED <<log, ref, first, up, db, ctx, reader>>

(* recover builds a new database in a directory of its own; then           *)
(* SaveCurrentDBDirName and ReplaceCurrentDBFile make it the current one.  *)
RecoverReplace(r) ==
    /\ snap.pc = "arrived"
    /\ snap.to = r
    /\ ~ctx[r].open
    /\ db[r].index < snap.store.index
    /\ disk' = [disk EXCEPT ![r] = snap.store]
    /\ snap' = Transfer("replaced", None, r, snap.store)
    /\ UNCHANGED <<log, ref, first, up, db, ctx, reader>>

(* Swap; the old database is closed and with it what still reads it.       *)
RecoverSwap(r) ==
    /\ Recovering(r)
    /\ db' = [db EXCEPT ![r] = snap.store]
    /\ first' = [first EXCEPT ![r] = snap.store.index + 1]
    /\ snap' = NoTransfer
    /\ reader' = IF reader.at = r THEN NoRequest ELSE reader
    /\ UNCHANGED <<log, ref, up, disk, ctx>>

-----------------------------------------------------------------------------
(* Lookup of a SnapshotRequest.                                            *)

LookupSnapshot(r) ==
    /\ up[r]
    /\ reader.pc # "open"
    /\ reader' = Request("open", r, db[r])
    /\ UNCHANGED <<log, ref, first, up, db, disk, ctx, snap>>

(* Mutant of CommandSnapshot: the index is read from the database itself.  *)
CommandSnapshotLive ==
    /\ reader.pc = "open"
    /\ reader' = Request("done", None, Store(reader.store.kv,
                                             db[reader.at].index,
                                             reader.store.leader))
    /\ UNCHANGED <<log, ref, first, up, db, disk, ctx, snap>>

(* commandSnapshot, while updates go on.                                   *)
CommandSnapshot ==
    /\ reader.pc = "open"
    /\ reader' = Request("done", None, reader.store)
    /\ UNCHANGED <<log, ref, first, up, db, disk, ctx, snap>>

Next ==
    \/ Propose \/ SaveSnapshot \/ SnapshotStopped \/ CommandSnapshot
    \/ \E r \in Replicas :
         \/ UpdateEntry(r) \/ UpdateCommit(r) \/ UpdatePanic(r)
         \/ Crash(r) \/ Close(r) \/ Open(r) \/ Flush(r) \/ Sync(r)
         \/ \E to \in Replicas : PrepareSnapshot(r, to)
         \/ RecoverReplace(r) \/ RecoverSwap(r) \/ LookupSnapshot(r)

Spec == Init /\ [][Next]_vars

-----------------------------------------------------------------------------
(* Properties.                                                             *)

Stores == [kv : Contents, index : 0..Len(log), leader : Nat]

(* The state keeps its shape; a replica that is down is in no call.        *)
TypeOK ==
    /\ log \in Seq(Commands)
    /\ first \in [Replicas -> 1..(Len(log) + 1)]
    /\ up \in [Replicas -> BOOLEAN]
    /\ db \in [Replicas -> Stores] /\ disk \in [Replicas -> Stores]
    /\ snap.pc \in {"none", "prepared", "arrived", "replaced"}
    /\ snap.store \in Stores
    /\ reader.pc \in {"none", "open", "done"} /\ reader.store \in Stores
    /\ \A r \in Replicas : ~up[r] =>
         /\ ~ctx[r].open /\ reader.at # r
         /\ snap.to = r => snap.pc = "prepared"

(* A replica's content is what the log's commands up to its index make of  *)
(* an empty table, applied one at a time: it depends neither on how Raft   *)
(* batches them, nor on the crashes, replays and snapshots in between.     *)
ReplicaIsPrefix ==
    \A r \in Replicas : up[r] => db[r].kv = ref[db[r].index].kv

(* Whenever a replica dies, it restarts with the content of some index,    *)
(* and its log still holds all the entries after that index.               *)
CrashSafe ==
    \A r \in Replicas :
        /\ disk[r].kv = ref[disk[r].index].kv
        /\ first[r] <= disk[r].index + 1

(* A command is answered as if it had run alone on the table as its        *)
(* predecessors left it: reads in a batch see the writes before them.      *)
ResponsesSerial ==
    \A r \in Replicas : ctx[r].open =>
        /\ ctx[r].responses = ref[ctx[r].index].responses
        /\ ctx[r].kv = ref[ctx[r].index].kv

(* The content that a SnapshotRequest streams, and the one a replica sends *)
(* to another, is the one of the index it reports, although updates go on. *)
ExportExact ==
    /\ reader.store.kv = ref[reader.store.index].kv
    /\ snap.store.kv = ref[snap.store.index].kv

(* While a replica runs, its index never goes back (readers see no older   *)
(* state), and the log of a replica only loses entries from its start.     *)
IndexMonotonic ==
    [][\A r \in Replicas :
          /\ up[r] /\ up'[r] => db'[r].index >= db[r].index
          /\ first'[r] >= first[r]]_vars

(* The replicas as a ReplicatedTable: the contents of the reference, the   *)
(* database or, for a replica that is down, the one it will open, and what *)
(* is on disk.                                                             *)
History == [i \in 1..(Len(log) + 1) |-> ref[i - 1].kv]

View(s) == [index |-> s.index, kv |-> s.kv]

Visible == [r \in Replicas |-> View(IF up[r] THEN db[r] ELSE disk[r])]

Stable == [r \in Replicas |-> View(disk[r])]

Table ==
    INSTANCE ReplicatedTable WITH
        history <- History, visible <- Visible, stable <- Stable, kept <- first

(* Update, Sync, Close, Open and the recoveries, in all their parts, do    *)
(* what a ReplicatedTable does in one step each: readers see no part of a  *)
(* batch, and neither a flush nor a crash in the middle of a recovery puts *)
(* an older database in the place of a newer one.                          *)
TableReplicated == Table!Spec

(* The comment in updateContext.Commit: the leader index is set if it is   *)
(* present in the proposal.                                                *)
LeaderIndexSet ==
    \A r \in Replicas : up[r] => db[r].leader = ref[db[r].index].leader
=============================================================================
