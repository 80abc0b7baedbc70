---------------------------- MODULE TableRestore ----------------------------
(***************************************************************************)
(* Manager.readIntoTable: the commands of a snapshot stream are gathered   *)
(* into batches and proposed to the new shard of a table.  The stream is   *)
(* what commandSnapshot writes, a PUT for each pair of the table in key    *)
(* order.  A snapshot for a follower (SnapshotServer.Stream) ends with a   *)
(* DUMMY that carries the leader index; a backup (BackupServer.Backup)     *)
(* does not.                                                               *)
(*                                                                         *)
(* A proposal that times out is proposed again, whether or not it has been *)
(* applied.                                                                *)
(***************************************************************************)
EXTENDS Naturals, Sequences, Functions

CONSTANTS
    Sizes,        \* sizes of an encoded command
    MaxPairs,     \* bound on the pairs of the table
    Limit,        \* MaxInMemLogSize / 2
    Index,        \* the leader index of a snapshot
    MaxTimeouts   \* bound on the proposals that time out

VARIABLES
    stream,     \* the commands of the stream
    at,         \* position of the next one
    batch,      \* batchCmd.Batch
    leader,     \* batchCmd.LeaderIndex, 0 for nil
    size,       \* estimatedSize
    pc,
    last,       \* the end of the stream has been read
    pairs,      \* the keys that the new shard holds
    index,      \* the leader index of the new shard
    timeouts

vars == <<stream, at, batch, leader, size, pc, last, pairs, index, timeouts>>

(* The key of the pair that a command without Kv adds to a batch.          *)
EmptyKey == 0

Command(key, length, idx) == [key |-> key, size |-> length, leaderIndex |-> idx]

(* commandSnapshot, for a table with keys 1..Len(sizes), and the DUMMY.    *)
Snapshot(sizes) == [k \in 1..Len(sizes) |-> Command(k, sizes[k], 0)]

Dummy == Command(EmptyKey, 1, Index)

(* SnapshotServer.Stream, for a follower.                                  *)
Stream(sizes) == Append(Snapshot(sizes), Dummy)

(* BackupServer.Backup, for `regatta backup'.                              *)
Backup(sizes) == Snapshot(sizes)

Init ==
    /\ \E n \in 0..MaxPairs : \E sizes \in [1..n -> Sizes] :
         stream \in {Stream(sizes), Backup(sizes)}
    /\ at = 1
    /\ batch = <<>>
    /\ leader = 0
    /\ size = 0
    /\ pc = "read"
    /\ last = FALSE
    /\ pairs = {}
    /\ index = 0
    /\ timeouts = 0

(* The stream has arrived in a file, from which the commands are read:     *)
(* worker.recover has received it in chunks, or BackupServer.Restore has.  *)
Received == 1..Len(stream)

(* A command is read; its pair joins the batch as long as the batch is     *)
(* small, otherwise the batch is proposed.                                 *)
ReadCommand ==
    LET cmd == stream[at]
    IN /\ pc = "read"
       /\ at \in Received
       /\ at' = at + 1
       /\ size' = size + cmd.size
       /\ leader' = cmd.leaderIndex
       /\ IF size + cmd.size < Limit
          THEN batch' = Append(batch, cmd.key) /\ UNCHANGED pc
          ELSE pc' = "propose" /\ UNCHANGED batch
       /\ UNCHANGED <<stream, last, pairs, index, timeouts>>

ReadEOF ==
    /\ pc = "read"
    /\ at \notin Received
    /\ last' = TRUE
    /\ pc' = "propose"
    /\ UNCHANGED <<stream, at, batch, leader, size, pairs, index, timeouts>>

(* The state machine applies the PUT_BATCH.                                *)
Apply ==
    /\ pairs' = pairs \cup Range(batch)
    /\ index' = IF leader = 0 THEN index ELSE leader

SyncPropose ==
    /\ pc = "propose"
    /\ Apply
    /\ batch' = <<>>
    /\ leader' = 0
    /\ size' = 0
    /\ pc' = IF last THEN "done" ELSE "read"
    /\ UNCHANGED <<stream, at, last, timeouts>>

SyncProposeTimeout ==
    /\ pc = "propose"
    /\ timeouts < MaxTimeouts
    /\ timeouts' = timeouts + 1
    /\ Apply \/ UNCHANGED <<pairs, index>>
    /\ UNCHANGED <<stream, at, batch, leader, size, pc, last>>

Next == ReadCommand \/ ReadEOF \/ SyncPropose \/ SyncProposeTimeout

Spec == Init /\ [][Next]_vars

-----------------------------------------------------------------------------
(* The manual of `regatta restore': every table of the manifest is         *)
(* restored.  A table whose restore has come to its end has every pair of  *)
(* the snapshot.                                                           *)
Restored ==
    pc = "done" =>
        {stream[i].key : i \in 1..Len(stream)} \ {EmptyKey} \subseteq pairs
=============================================================================
