----------------------------- MODULE MCService ------------------------------
(***************************************************************************)
(* Two nodes and a follower, a table with two keys and the empty one, and  *)
(* a client that calls again and again: what it has proposed and given up  *)
(* is what other clients do meanwhile.                                     *)
(***************************************************************************)
EXTENDS Service, Promises, ServiceMessages, TLC

MCKeys == {0, 1, 2}
MCValues == {0, 1}
MCTooLong == 9

Put(key, value, prevKv) ==
    [type |-> "PUT", table |-> TableName, key |-> key, value |-> value,
     prevKv |-> prevKv]

DeleteRange(key, end, prevKv, count) ==
    [type |-> "DELETE", table |-> TableName, key |-> key, end |-> end,
     prevKv |-> prevKv, count |-> count]

Scan(key, end, limit, keysOnly) ==
    [type |-> "RANGE", table |-> TableName, key |-> key, end |-> end,
     limit |-> limit, keysOnly |-> keysOnly, countOnly |-> FALSE,
     linearizable |-> FALSE]

Compare(key, result, value) ==
    [key |-> key, end |-> Nil, result |-> result, value |-> value]

Txn(compare, success, failure) ==
    [type |-> "TXN", table |-> TableName, compare |-> compare,
     success |-> success, failure |-> failure]

\* 1 is there: replace it, put 2 and read both; otherwise do nothing
Replace ==
    Txn(<<Compare(1, "EXISTS", 0)>>,
        <<Put(1, 1, TRUE), Put(2, 1, FALSE), Scan(1, Wildcard, 0, FALSE)>>,
        <<>>)

CheckTxn ==
    Txn(<<Compare(1, "LESS", 1)>>, <<Scan(1, Wildcard, 1, FALSE)>>,
        <<Scan(2, Nil, 0, FALSE)>>)

\* a put without a key and a scan with a bound that is too long are refused
MCRequests ==
    {Put(1, 0, FALSE), DeleteRange(1, Wildcard, TRUE, FALSE), Replace,
     Put(0, 1, FALSE), CheckTxn, Scan(1, Wildcard, 0, TRUE),
     [Scan(1, Wildcard, 0, FALSE) EXCEPT !.linearizable = TRUE],
     [type |-> "BACKUP", table |-> TableName], Scan(1, MCTooLong, 0, FALSE)}

MCSent == SentRequests
MCMetadata == MetadataNames

Symmetry == Permutations(Nodes)
=============================================================================
