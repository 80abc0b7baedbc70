--------------------------- MODULE TableMessages ----------------------------
(***************************************************************************)
(* Between the messages of the APIs and the commands of TableCommands:     *)
(* what a client sends and reads, what ActiveTable proposes, and what the  *)
(* state machine makes of a command and of its results.                    *)
(***************************************************************************)
EXTENDS TableCommands, Proto

-----------------------------------------------------------------------------
(* The client (external).  A request has the form of a command of          *)
(* TableCommands, with the table, and for a range whether it shall be      *)
(* linearizable.  Keys, values and table names are numbers, 0 is empty.    *)

ResultOf(result) ==
    CASE result \in {"EQUAL", "EXISTS"} -> Compare_EQUAL
      [] result = "GREATER" -> Compare_GREATER
      [] result = "LESS" -> Compare_LESS
      [] result = "NOT_EQUAL" -> Compare_NOT_EQUAL

CompareOf(cmp) ==
    [Zero("Compare") EXCEPT
       !.Result = ResultOf(cmp.result), !.Key = cmp.key, !.RangeEnd = cmp.end,
       !.TargetUnion = IF cmp.result = "EXISTS" THEN Nil
                       ELSE Case("Value", cmp.value)]

RequestOp(op) ==
    [Request |->
       CASE op.type = "RANGE" ->
              Case("RequestRange",
                     [Key |-> op.key, RangeEnd |-> op.end, Limit |-> op.limit,
                      KeysOnly |-> op.keysOnly, CountOnly |-> op.countOnly])
         [] op.type = "PUT" ->
              Case("RequestPut", [Key |-> op.key, Value |-> op.value,
                                    PrevKv |-> op.prevKv])
         [] op.type = "DELETE" ->
              Case("RequestDeleteRange",
                     [Key |-> op.key, RangeEnd |-> op.end,
                      PrevKv |-> op.prevKv, Count |-> op.count])]

TypeOf == [RANGE |-> "RangeRequest", PUT |-> "PutRequest",
           DELETE |-> "DeleteRangeRequest", TXN |-> "TxnRequest",
           BACKUP |-> "BackupRequest"]

RequestOf(req) ==
    LET zero == [Zero(TypeOf[req.type]) EXCEPT !.Table = req.table]
    IN CASE req.type = "RANGE" ->
              [zero EXCEPT !.Key = req.key, !.RangeEnd = req.end,
                           !.Limit = req.limit, !.KeysOnly = req.keysOnly,
                           !.CountOnly = req.countOnly,
                           !.Linearizable = req.linearizable]
         [] req.type = "PUT" ->
              [zero EXCEPT !.Key = req.key, !.Value = req.value,
                           !.PrevKv = req.prevKv]
         [] req.type = "DELETE" ->
              [zero EXCEPT !.Key = req.key, !.RangeEnd = req.end,
                           !.PrevKv = req.prevKv, !.Count = req.count]
         [] req.type = "TXN" ->
              [zero EXCEPT !.Compare = Map(CompareOf, req.compare),
                           !.Success = Map(RequestOp, req.success),
                           !.Failure = Map(RequestOp, req.failure)]
         [] req.type = "BACKUP" -> zero

PairOf(kvm) == Pair(Octets(kvm.Key), Octets(kvm.Value))

RangeOf(m) == RangeResponse(Map(PairOf, m.Kvs), m.Count, m.More)

PrevOf(m) == IF m.PrevKv = Nil THEN Nil ELSE PairOf(m.PrevKv)

ResponseOf(op) ==
    LET r == op.Response
    IN CASE r.case = "ResponseRange" ->
              [type |-> "RANGE", range |-> RangeOf(r.val)]
         [] r.case = "ResponsePut" -> [type |-> "PUT", prevKv |-> PrevOf(r.val)]
         [] r.case = "ResponseDeleteRange" ->
              [type |-> "DELETE", deleted |-> r.val.Deleted,
               prevKvs |-> Map(PairOf, r.val.PrevKvs)]

(* The answer to a call, as the client reads it.                           *)
Answer(result, responses, revision) ==
    [code |-> "OK", result |-> result, responses |-> responses,
     revision |-> revision]

Error(code) == [code |-> code]

AnswerOf(type, m) ==
    CASE type = "RangeRequest" ->
           Answer(TRUE, <<[type |-> "RANGE", range |-> RangeOf(m)]>>,
                  m.Header.Revision)
      [] type = "PutRequest" ->
           Answer(TRUE, <<[type |-> "PUT", prevKv |-> PrevOf(m)]>>,
                  m.Header.Revision)
      [] type = "DeleteRangeRequest" ->
           Answer(TRUE, <<[type |-> "DELETE", deleted |-> m.Deleted,
                           prevKvs |-> Map(PairOf, m.PrevKvs)]>>,
                  m.Header.Revision)
      [] type = "TxnRequest" ->
           Answer(m.Succeeded, Map(ResponseOf, m.Responses), m.Header.Revision)

-----------------------------------------------------------------------------
(* ActiveTable: the command of a request.                                  *)

KeyValue(key, value) ==
    [Zero("KeyValue") EXCEPT !.Key = key, !.Value = value]

ActiveTable_Put(m) ==
    [Zero("Command") EXCEPT
       !.Type = Command_PUT, !.Table = m.Table,
       !.Kv = KeyValue(m.Key, m.Value), !.PrevKvs = m.PrevKv]

ActiveTable_Delete(m) ==
    [Zero("Command") EXCEPT
       !.Type = Command_DELETE, !.Table = m.Table, !.Kv = KeyValue(m.Key, Nil),
       !.PrevKvs = m.PrevKv, !.RangeEnd = m.RangeEnd, !.Count = m.Count]

ActiveTable_Txn(m) ==
    [Zero("Command") EXCEPT
       !.Type = Command_TXN, !.Table = m.Table,
       !.Txn = [Compare |-> m.Compare, Success |-> m.Success,
                Failure |-> m.Failure]]

-----------------------------------------------------------------------------
(* The state machine: a decoded command as its handler takes it.           *)

PutOp(key, value, prevKv) ==
    [type |-> "PUT", key |-> Octets(key), value |-> Octets(value),
     prevKv |-> prevKv]

DeleteOp(key, end, prevKv, count) ==
    [type |-> "DELETE", key |-> Octets(key), end |-> end, prevKv |-> prevKv,
     count |-> count]

(* The cases of txnCompareSingle.                                          *)
CompareWith(cmp) ==
    [key |-> Octets(cmp.Key), end |-> cmp.RangeEnd,
     value |-> IF cmp.TargetUnion = Nil THEN 0 ELSE Octets(cmp.TargetUnion.val),
     result |-> CASE cmp.TargetUnion = Nil -> "EXISTS"
                  [] OTHER -> <<"EQUAL", "GREATER", "LESS", "NOT_EQUAL">>
                                [cmp.Result + 1]]

RangeOp(m) ==
    [type |-> "RANGE", key |-> Octets(m.Key), end |-> m.RangeEnd,
     limit |-> m.Limit, keysOnly |-> m.KeysOnly, countOnly |-> m.CountOnly]

(* The cases of handleTxnOps.                                              *)
TxnOp(op) ==
    LET m == op.Request.val
    IN CASE op.Request.case = "RequestRange" -> RangeOp(m)
         [] op.Request.case = "RequestPut" -> PutOp(m.Key, m.Value, m.PrevKv)
         [] op.Request.case = "RequestDeleteRange" ->
              DeleteOp(m.Key, m.RangeEnd, m.PrevKv, m.Count)

TxnWith(m) ==
    [type |-> "TXN", compare |-> Map(CompareWith, m.Compare),
     success |-> Map(TxnOp, m.Success), failure |-> Map(TxnOp, m.Failure)]

BatchPut(kvm) == PutOp(kvm.Key, kvm.Value, FALSE)

BatchDelete(kvm) == DeleteOp(kvm.Key, Nil, FALSE, FALSE)

wrapSingle(cmd) ==
    CASE cmd.Type = Command_PUT -> PutOp(cmd.Kv.Key, cmd.Kv.Value, cmd.PrevKvs)
      [] cmd.Type = Command_DELETE ->
           DeleteOp(cmd.Kv.Key, cmd.RangeEnd, cmd.PrevKvs, cmd.Count)
      [] cmd.Type = Command_PUT_BATCH ->
           [type |-> "PUT_BATCH", batch |-> Map(BatchPut, cmd.Batch)]
      [] cmd.Type = Command_DELETE_BATCH ->
           [type |-> "DELETE_BATCH", batch |-> Map(BatchDelete, cmd.Batch)]
      [] cmd.Type = Command_TXN -> TxnWith(cmd.Txn)
      [] cmd.Type = Command_DUMMY -> [type |-> "DUMMY"]

wrapCommand(cmd) ==
    IF cmd.Type = Command_SEQUENCE
    THEN [type |-> "SEQUENCE", sequence |-> Map(wrapSingle, cmd.Sequence)]
    ELSE wrapSingle(cmd)

KeyValueOf(pair) == KeyValue(pair.key, pair.value)

ResponseOp_RangeOf(rng) ==
    [Kvs |-> Map(KeyValueOf, rng.kvs), More |-> rng.more, Count |-> rng.count]

wrapResponseOp(r) ==
    [Response |->
       CASE r.type = "RANGE" ->
              Case("ResponseRange", ResponseOp_RangeOf(r.range))
         [] r.type = "PUT" ->
              Case("ResponsePut",
                     [PrevKv |-> IF r.prevKv = Nil THEN Nil
                                 ELSE KeyValueOf(r.prevKv)])
         [] r.type = "DELETE" ->
              Case("ResponseDeleteRange",
                     [Deleted |-> r.deleted,
                      PrevKvs |-> Map(KeyValueOf, r.prevKvs)])]
=============================================================================
