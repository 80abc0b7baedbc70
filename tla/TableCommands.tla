--------------------------- MODULE TableCommands ----------------------------
(***************************************************************************)
(* The commands of a table's state machine (storage/table/fsm/command*.go) *)
(* and its lookups (query.go, iter.go), as operators on the content of a   *)
(* table (TableContent).  A key-value pair and a key alone count one unit  *)
(* of the size of a range response.                                        *)
(*                                                                         *)
(* A write handler works on the batch of an update context: c.kv is the    *)
(* content the batch leads to, c.indexed says whether the batch can be     *)
(* read, and c.panic that a handler has panicked.                          *)
(***************************************************************************)
EXTENDS Integers, Sequences, SequencesExt, FiniteSetsExt, TableContent

CONSTANTS
    Wildcard,   \* the range end \0: every key from the start key on
    MaxRange    \* maxRangeSize

ASSUME TableAssumption ==
    /\ Keys \subseteq Nat /\ Values \subseteq Nat
    /\ Nil \notin Nat /\ Wildcard \notin Nat /\ Nil # Wildcard
    /\ MaxRange \in Nat \ {0}

Map(f(_), s) == [i \in DOMAIN s |-> f(s[i])]

-----------------------------------------------------------------------------
(* Lookups.                                                                *)

Present(kv) == {k \in Keys : kv[k] # Nil}

(* iterOptionsForBounds                                                    *)
Bounds(low, high) ==
    {k \in Keys : low <= k /\ (high = Wildcard \/ k < high)}

Pair(key, value) == [key |-> key, value |-> value]

RangeResponse(kvs, count, more) == [kvs |-> kvs, count |-> count, more |-> more]

(* iterate: it stops in front of the key that is beyond the limit or that  *)
(* would make the response too large, and asks whether that key is         *)
(* followed by another one.                                                *)
Stops(length, req) ==
    LET size(i) == IF req.countOnly /\ ~req.keysOnly THEN 0 ELSE i + 1
    IN Min({length} \cup
           {i \in 0..length : (i = req.limit /\ req.limit # 0) \/ size(i) >= MaxRange})

Iterate(kv, keys, n, req) ==
    LET kvs == [i \in 1..n |->
                  Pair(keys[i], IF req.keysOnly THEN Nil ELSE kv[keys[i]])]
    IN RangeResponse(IF req.countOnly /\ ~req.keysOnly THEN <<>> ELSE kvs, n,
                     n + 1 < Len(keys))

RangeLookup(kv, req) ==
    LET keys == Present(kv) \cap Bounds(req.key, req.end)
    IN Iterate(kv, SetToSortSeq(keys, <), Stops(Cardinality(keys), req), req)

SingleLookup(kv, req) ==
    LET pair == Pair(req.key, IF req.keysOnly \/ req.countOnly
                              THEN Nil ELSE kv[req.key])
    IN IF kv[req.key] = Nil THEN RangeResponse(<<>>, 0, FALSE)
       ELSE RangeResponse(IF req.countOnly THEN <<>> ELSE <<pair>>, 1, FALSE)

Lookup(kv, req) ==
    IF req.end # Nil THEN RangeLookup(kv, req) ELSE SingleLookup(kv, req)

RangeRequest(key, end, limit, keysOnly, countOnly) ==
    [key |-> key, end |-> end, limit |-> limit, keysOnly |-> keysOnly,
     countOnly |-> countOnly]

-----------------------------------------------------------------------------
(* Comparisons of a transaction.                                           *)

TxnCompareSingle(cmp, value) ==
    CASE cmp.result = "EXISTS" -> TRUE    \* no target value
      [] cmp.result = "EQUAL" -> value = cmp.value
      [] cmp.result = "NOT_EQUAL" -> value # cmp.value
      [] cmp.result = "GREATER" -> value > cmp.value
      [] cmp.result = "LESS" -> value < cmp.value

TxnCompare(kv, compare) ==
    \A i \in DOMAIN compare :
      LET cmp == compare[i]
          keys == IF cmp.end # Nil THEN Bounds(cmp.key, cmp.end) ELSE {cmp.key}
          found == keys \cap Present(kv)
      IN found # {} /\ \A k \in found : TxnCompareSingle(cmp, kv[k])

-----------------------------------------------------------------------------
(* Handlers.  A result holds the context and the responses so far.         *)

EnsureIndexed(c) == [c EXCEPT !.indexed = TRUE]

(* A batch that is not indexed cannot be read: its iterators are empty.    *)
Reader(c) == IF c.indexed THEN c.kv ELSE NoKeys

Responds(c, responses) == [ctx |-> c, responses |-> responses]

(* The previous pair is taken from the lookup's result, also when the key  *)
(* is not there and the result is empty.                                   *)
HandlePut(c, put) ==
    LET read == IF put.prevKv THEN EnsureIndexed(c) ELSE c
        kvs == SingleLookup(Reader(read),
                            RangeRequest(put.key, Nil, 0, FALSE, FALSE)).kvs
        fails == put.prevKv /\ kvs = <<>>
        prev == IF put.prevKv /\ kvs # <<>> THEN kvs[1] ELSE Nil
    IN Responds([read EXCEPT !.kv[put.key] = put.value,
                             !.panic = @ \/ fails],
                <<[type |-> "PUT", prevKv |-> prev]>>)

Delete(c, del) ==
    LET gone == IF del.end = Nil THEN {del.key} ELSE Bounds(del.key, del.end)
    IN [c EXCEPT !.kv = [k \in Keys |-> IF k \in gone THEN Nil ELSE @[k]]]

Deleted(del, rng) ==
    [type |-> "DELETE", deleted |-> IF del.end = Nil THEN 1 ELSE rng.count,
     prevKvs |-> rng.kvs]

(* Without PrevKv and Count nothing is read; a single delete that reads    *)
(* reports one deleted key.                                                *)
HandleDelete(c, del) ==
    IF del.prevKv \/ del.count
    THEN LET read == EnsureIndexed(c)
             rng == Lookup(Reader(read),
                           RangeRequest(del.key, del.end, 0, FALSE,
                                        del.count /\ ~del.prevKv))
         IN Responds(Delete(read, del), <<Deleted(del, rng)>>)
    ELSE Responds(Delete(c, del),
                  <<[type |-> "DELETE", deleted |-> 0, prevKvs |-> <<>>]>>)

(* One after the other, the responses in the same order.                   *)
Each(handler(_, _), c, ops) ==
    FoldLeft(LAMBDA acc, op :
               LET r == handler(acc.ctx, op)
               IN Responds(r.ctx, acc.responses \o r.responses),
             Responds(c, <<>>), ops)

HandleTxnOp(c, op) ==
    CASE op.type = "RANGE" ->
           Responds(c, <<[type |-> "RANGE", range |-> Lookup(Reader(c), op)]>>)
      [] op.type = "PUT" -> HandlePut(c, op)
      [] op.type = "DELETE" -> HandleDelete(c, op)

HandleTxn(c, txn) ==
    LET read == EnsureIndexed(c)
    IN Each(HandleTxnOp, read,
            IF TxnCompare(Reader(read), txn.compare) THEN txn.success
            ELSE txn.failure)

HandleSingle(c, cmd) ==
    CASE cmd.type = "PUT" -> HandlePut(c, cmd)
      [] cmd.type = "DELETE" -> HandleDelete(c, cmd)
      [] cmd.type = "PUT_BATCH" -> Each(HandlePut, c, cmd.batch)
      [] cmd.type = "DELETE_BATCH" -> Each(HandleDelete, c, cmd.batch)
      [] cmd.type = "TXN" -> HandleTxn(c, cmd)
      [] cmd.type = "DUMMY" -> Responds(c, <<>>)

(* The UpdateResult: whether a transaction's comparisons held.             *)
Succeeds(c, cmd) ==
    cmd.type = "TXN" => TxnCompare(Reader(EnsureIndexed(c)), cmd.compare)

(* wrapCommand(cmd).handle: a sequence holds the commands of the leader's  *)
(* log, none of which is a sequence.                                       *)
WithResult(r, result) ==
    Responds(r.ctx, [result |-> result, responses |-> r.responses])

HandleCommand(c, cmd) ==
    WithResult(IF cmd.type = "SEQUENCE"
               THEN Each(HandleSingle, c, cmd.sequence)
               ELSE HandleSingle(c, cmd),
               Succeeds(c, cmd))

(* The context of an entry that is alone in its update.                    *)
Context(content) == [kv |-> content, indexed |-> FALSE, panic |-> FALSE]
=============================================================================
