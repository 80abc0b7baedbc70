---------------------------- MODULE MCTableFSM ------------------------------
(***************************************************************************)
(* TableFSM with the commands of TableCommands, for TLC.                   *)
(***************************************************************************)
EXTENDS TableFSM, TableCommands

Put(key, value, prevKv) ==
    [type |-> "PUT", key |-> key, value |-> value, prevKv |-> prevKv,
     leaderIndex |-> None]

Del(key, end, prevKv, count) ==
    [type |-> "DELETE", key |-> key, end |-> end, prevKv |-> prevKv,
     count |-> count, leaderIndex |-> None]

Scan(key, end, limit) ==
    [type |-> "RANGE", key |-> key, end |-> end, limit |-> limit,
     keysOnly |-> FALSE, countOnly |-> FALSE]

PutBatch(batch, leaderIndex) ==
    [type |-> "PUT_BATCH", batch |-> batch, leaderIndex |-> leaderIndex]

DeleteBatch(batch) ==
    [type |-> "DELETE_BATCH", batch |-> batch, leaderIndex |-> None]

Txn(compare, success, failure) ==
    [type |-> "TXN", compare |-> compare, success |-> success,
     failure |-> failure, leaderIndex |-> None]

Sequence(cmds, leaderIndex) ==
    [type |-> "SEQUENCE", sequence |-> cmds, leaderIndex |-> leaderIndex]

Cmp(key, end, result, value) ==
    [key |-> key, end |-> end, result |-> result, value |-> value]

(* A put that reads, a transaction that writes, reads what it wrote and    *)
(* deletes a range, and a replicated sequence with batches in it.          *)
MCCommands ==
    {Put(1, 1, FALSE),
     Put(2, 2, TRUE),
     Txn(<<Cmp(1, Wildcard, "GREATER", 0), Cmp(1, Nil, "EQUAL", 1)>>,
         <<Put(2, 1, FALSE), Scan(1, Wildcard, 1), Del(1, 2, FALSE, TRUE)>>,
         <<Del(2, Nil, TRUE, FALSE), Put(1, 2, FALSE)>>),
     Sequence(<<Put(2, 1, FALSE), Del(1, Wildcard, TRUE, FALSE),
                PutBatch(<<Put(1, 2, FALSE), Put(2, 2, FALSE)>>, None),
                DeleteBatch(<<Del(2, Nil, FALSE, FALSE)>>), Put(1, 1, FALSE)>>,
              3)}

(* What readIntoTable proposes at the end of a restore when the command    *)
(* that carries the leader index is the one that fills the batch: the      *)
(* batch, and an empty one for the end of the stream.                      *)
RestoreCommands == {PutBatch(<<Put(1, 1, FALSE)>>, 3), PutBatch(<<>>, None)}

Symmetry == Permutations(Replicas)
=============================================================================
