----------------------------- MODULE MvccProto ------------------------------
(***************************************************************************)
(* The messages of proto/mvcc.proto: the commands of a table and their     *)
(* results (regattapb/mvcc_vtproto.pb.go).  The Value of a Compare is      *)
(* written behind the other fields, as every oneof is.                     *)
(***************************************************************************)
EXTENDS Wire

(* The enumerations.                                                       *)
Command_PUT == 0
Command_DELETE == 1
Command_DUMMY == 2
Command_PUT_BATCH == 3
Command_DELETE_BATCH == 4
Command_TXN == 5
Command_SEQUENCE == 6

Compare_EQUAL == 0
Compare_GREATER == 1
Compare_LESS == 2
Compare_NOT_EQUAL == 3

-----------------------------------------------------------------------------
Command_New ==
    [Table |-> Nil, Type |-> 0, Kv |-> Nil, LeaderIndex |-> Nil,
     Batch |-> <<>>, Txn |-> Nil, RangeEnd |-> Nil, PrevKvs |-> FALSE,
     Sequence |-> <<>>, Count |-> FALSE]

Command_MarshalVT ==
    << <<1, "Table", "bytes">>, <<2, "Type", "varint">>,
      <<3, "Kv", "message", "KeyValue">>,
      <<5, "LeaderIndex", "optional varint">>,
      <<6, "Batch", "repeated", "KeyValue">>, <<7, "Txn", "message", "Txn">>,
      <<8, "RangeEnd", "optional bytes">>, <<9, "PrevKvs", "bool">>,
      <<10, "Sequence", "repeated", "Command">>, <<11, "Count", "bool">>>>

Command_UnmarshalVT ==
    << <<1, "Table", "bytes">>, <<2, "Type", "varint">>,
      <<3, "Kv", "message", "KeyValue">>,
      <<5, "LeaderIndex", "optional varint">>,
      <<6, "Batch", "repeated", "KeyValue">>, <<7, "Txn", "message", "Txn">>,
      <<8, "RangeEnd", "bytes">>, <<9, "PrevKvs", "bool">>,
      <<10, "Sequence", "repeated", "Command">>, <<11, "Count", "bool">>>>

CommandResult_New == [Responses |-> <<>>, Revision |-> 0]

CommandResult_MarshalVT ==
    << <<1, "Responses", "repeated", "ResponseOp">>,
      <<2, "Revision", "varint">>>>

CommandResult_UnmarshalVT ==
    << <<1, "Responses", "repeated", "ResponseOp">>,
      <<2, "Revision", "varint">>>>

Txn_New == [Compare |-> <<>>, Success |-> <<>>, Failure |-> <<>>]

Txn_MarshalVT ==
    << <<1, "Compare", "repeated", "Compare">>,
      <<2, "Success", "repeated", "RequestOp">>,
      <<3, "Failure", "repeated", "RequestOp">>>>

Txn_UnmarshalVT ==
    << <<1, "Compare", "repeated", "Compare">>,
      <<2, "Success", "repeated", "RequestOp">>,
      <<3, "Failure", "repeated", "RequestOp">>>>

RequestOp_Range_New ==
    [Key |-> Nil, RangeEnd |-> Nil, Limit |-> 0, KeysOnly |-> FALSE,
     CountOnly |-> FALSE]

RequestOp_Range_MarshalVT ==
    << <<1, "Key", "bytes">>, <<2, "RangeEnd", "bytes">>,
      <<3, "Limit", "varint">>, <<4, "KeysOnly", "bool">>,
      <<5, "CountOnly", "bool">>>>

RequestOp_Range_UnmarshalVT ==
    << <<1, "Key", "bytes">>, <<2, "RangeEnd", "bytes">>,
      <<3, "Limit", "varint">>, <<4, "KeysOnly", "bool">>,
      <<5, "CountOnly", "bool">>>>

RequestOp_Put_New == [Key |-> Nil, Value |-> Nil, PrevKv |-> FALSE]

RequestOp_Put_MarshalVT ==
    << <<1, "Key", "bytes">>, <<2, "Value", "bytes">>,
      <<3, "PrevKv", "bool">>>>

RequestOp_Put_UnmarshalVT ==
    << <<1, "Key", "bytes">>, <<2, "Value", "bytes">>,
      <<3, "PrevKv", "bool">>>>

RequestOp_DeleteRange_New ==
    [Key |-> Nil, RangeEnd |-> Nil, PrevKv |-> FALSE, Count |-> FALSE]

RequestOp_DeleteRange_MarshalVT ==
    << <<1, "Key", "bytes">>, <<2, "RangeEnd", "bytes">>,
      <<4, "PrevKv", "bool">>, <<5, "Count", "bool">>>>

RequestOp_DeleteRange_UnmarshalVT ==
    << <<1, "Key", "bytes">>, <<2, "RangeEnd", "bytes">>,
      <<4, "PrevKv", "bool">>, <<5, "Count", "bool">>>>

RequestOp_New == [Request |-> Nil]

RequestOp_MarshalVT ==
    << <<1, "Request", "oneof", "RequestRange", "RequestOp_Range">>,
      <<2, "Request", "oneof", "RequestPut", "RequestOp_Put">>,
      <<3, "Request", "oneof", "RequestDeleteRange", "RequestOp_DeleteRange">>>>

RequestOp_UnmarshalVT ==
    << <<1, "Request", "oneof", "RequestRange", "RequestOp_Range">>,
      <<2, "Request", "oneof", "RequestPut", "RequestOp_Put">>,
      <<3, "Request", "oneof", "RequestDeleteRange", "RequestOp_DeleteRange">>>>

ResponseOp_Range_New == [Kvs |-> <<>>, More |-> FALSE, Count |-> 0]

ResponseOp_Range_MarshalVT ==
    << <<1, "Kvs", "repeated", "KeyValue">>, <<2, "More", "bool">>,
      <<3, "Count", "varint">>>>

ResponseOp_Range_UnmarshalVT ==
    << <<1, "Kvs", "repeated", "KeyValue">>, <<2, "More", "bool">>,
      <<3, "Count", "varint">>>>

ResponseOp_Put_New == [PrevKv |-> Nil]

ResponseOp_Put_MarshalVT ==
    << <<1, "PrevKv", "message", "KeyValue">>>>

ResponseOp_Put_UnmarshalVT ==
    << <<1, "PrevKv", "message", "KeyValue">>>>

ResponseOp_DeleteRange_New == [Deleted |-> 0, PrevKvs |-> <<>>]

ResponseOp_DeleteRange_MarshalVT ==
    << <<1, "Deleted", "varint">>, <<2, "PrevKvs", "repeated", "KeyValue">>>>

ResponseOp_DeleteRange_UnmarshalVT ==
    << <<1, "Deleted", "varint">>, <<2, "PrevKvs", "repeated", "KeyValue">>>>

ResponseOp_New == [Response |-> Nil]

ResponseOp_MarshalVT ==
    << <<1, "Response", "oneof", "ResponseRange", "ResponseOp_Range">>,
      <<2, "Response", "oneof", "ResponsePut", "ResponseOp_Put">>,
      <<3, "Response", "oneof", "ResponseDeleteRange", "ResponseOp_DeleteRange">>>>

ResponseOp_UnmarshalVT ==
    << <<1, "Response", "oneof", "ResponseRange", "ResponseOp_Range">>,
      <<2, "Response", "oneof", "ResponsePut", "ResponseOp_Put">>,
      <<3, "Response", "oneof", "ResponseDeleteRange", "ResponseOp_DeleteRange">>>>

Compare_New ==
    [Result |-> 0, Target |-> 0, Key |-> Nil, TargetUnion |-> Nil,
     RangeEnd |-> Nil]

Compare_MarshalVT ==
    << <<1, "Result", "varint">>, <<2, "Target", "varint">>,
      <<3, "Key", "bytes">>, <<64, "RangeEnd", "bytes">>,
      <<4, "TargetUnion", "oneof bytes", "Value">>>>

Compare_UnmarshalVT ==
    << <<1, "Result", "varint">>, <<2, "Target", "varint">>,
      <<3, "Key", "bytes">>, <<4, "TargetUnion", "oneof bytes", "Value">>,
      <<64, "RangeEnd", "bytes">>>>

KeyValue_New ==
    [Key |-> Nil, CreateRevision |-> 0, ModRevision |-> 0, Value |-> Nil]

KeyValue_MarshalVT ==
    << <<1, "Key", "bytes">>, <<2, "CreateRevision", "varint">>,
      <<3, "ModRevision", "varint">>, <<4, "Value", "bytes">>>>

KeyValue_UnmarshalVT ==
    << <<1, "Key", "bytes">>, <<2, "CreateRevision", "varint">>,
      <<3, "ModRevision", "varint">>, <<4, "Value", "bytes">>>>

-----------------------------------------------------------------------------
(* Command.ResetVT: the buffers of Table and RangeEnd are kept for reuse.  *)
(* (The commands of the sequence are reset too; nobody else has them.)     *)
Command_ResetVT(m, zero) ==
    LET emptied(bytes) == IF bytes = Nil THEN Nil ELSE 0
    IN [zero EXCEPT !.Table = emptied(m.Table),
                    !.RangeEnd = emptied(m.RangeEnd)]
=============================================================================
