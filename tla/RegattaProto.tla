---------------------------- MODULE RegattaProto ----------------------------
(***************************************************************************)
(* The requests and responses of the KV API, proto/regatta.proto           *)
(* (regattapb/regatta_vtproto.pb.go).                                      *)
(***************************************************************************)
EXTENDS Wire

ResponseHeader_New ==
    [ShardId |-> 0, ReplicaId |-> 0, Revision |-> 0, RaftTerm |-> 0,
     RaftLeaderId |-> 0]

ResponseHeader_MarshalVT ==
    << <<1, "ShardId", "varint">>, <<2, "ReplicaId", "varint">>,
      <<3, "Revision", "varint">>, <<4, "RaftTerm", "varint">>,
      <<5, "RaftLeaderId", "varint">>>>

ResponseHeader_UnmarshalVT ==
    << <<1, "ShardId", "varint">>, <<2, "ReplicaId", "varint">>,
      <<3, "Revision", "varint">>, <<4, "RaftTerm", "varint">>,
      <<5, "RaftLeaderId", "varint">>>>

RangeRequest_New ==
    [Table |-> Nil, Key |-> Nil, RangeEnd |-> Nil, Limit |-> 0,
     Linearizable |-> FALSE, KeysOnly |-> FALSE, CountOnly |-> FALSE,
     MinModRevision |-> 0, MaxModRevision |-> 0, MinCreateRevision |-> 0,
     MaxCreateRevision |-> 0]

RangeRequest_MarshalVT ==
    << <<1, "Table", "bytes">>, <<2, "Key", "bytes">>,
      <<3, "RangeEnd", "bytes">>, <<4, "Limit", "varint">>,
      <<5, "Linearizable", "bool">>, <<6, "KeysOnly", "bool">>,
      <<7, "CountOnly", "bool">>, <<8, "MinModRevision", "varint">>,
      <<9, "MaxModRevision", "varint">>,
      <<10, "MinCreateRevision", "varint">>,
      <<11, "MaxCreateRevision", "varint">>>>

RangeRequest_UnmarshalVT ==
    << <<1, "Table", "bytes">>, <<2, "Key", "bytes">>,
      <<3, "RangeEnd", "bytes">>, <<4, "Limit", "varint">>,
      <<5, "Linearizable", "bool">>, <<6, "KeysOnly", "bool">>,
      <<7, "CountOnly", "bool">>, <<8, "MinModRevision", "varint">>,
      <<9, "MaxModRevision", "varint">>,
      <<10, "MinCreateRevision", "varint">>,
      <<11, "MaxCreateRevision", "varint">>>>

RangeResponse_New ==
    [Header |-> Nil, Kvs |-> <<>>, More |-> FALSE, Count |-> 0]

RangeResponse_MarshalVT ==
    << <<1, "Header", "message", "ResponseHeader">>,
      <<3, "Kvs", "repeated", "KeyValue">>, <<4, "More", "bool">>,
      <<5, "Count", "varint">>>>

RangeResponse_UnmarshalVT ==
    << <<1, "Header", "message", "ResponseHeader">>,
      <<3, "Kvs", "repeated", "KeyValue">>, <<4, "More", "bool">>,
      <<5, "Count", "varint">>>>

PutRequest_New ==
    [Table |-> Nil, Key |-> Nil, Value |-> Nil, PrevKv |-> FALSE]

PutRequest_MarshalVT ==
    << <<1, "Table", "bytes">>, <<2, "Key", "bytes">>,
      <<3, "Value", "bytes">>, <<4, "PrevKv", "bool">>>>

PutRequest_UnmarshalVT ==
    << <<1, "Table", "bytes">>, <<2, "Key", "bytes">>,
      <<3, "Value", "bytes">>, <<4, "PrevKv", "bool">>>>

PutResponse_New == [Header |-> Nil, PrevKv |-> Nil]

PutResponse_MarshalVT ==
    << <<1, "Header", "message", "ResponseHeader">>,
      <<2, "PrevKv", "message", "KeyValue">>>>

PutResponse_UnmarshalVT ==
    << <<1, "Header", "message", "ResponseHeader">>,
      <<2, "PrevKv", "message", "KeyValue">>>>

DeleteRangeRequest_New ==
    [Table |-> Nil, Key |-> Nil, RangeEnd |-> Nil, PrevKv |-> FALSE,
     Count |-> FALSE]

DeleteRangeRequest_MarshalVT ==
    << <<1, "Table", "bytes">>, <<2, "Key", "bytes">>,
      <<3, "RangeEnd", "bytes">>, <<4, "PrevKv", "bool">>,
      <<5, "Count", "bool">>>>

DeleteRangeRequest_UnmarshalVT ==
    << <<1, "Table", "bytes">>, <<2, "Key", "bytes">>,
      <<3, "RangeEnd", "bytes">>, <<4, "PrevKv", "bool">>,
      <<5, "Count", "bool">>>>

DeleteRangeResponse_New == [Header |-> Nil, Deleted |-> 0, PrevKvs |-> <<>>]

DeleteRangeResponse_MarshalVT ==
    << <<1, "Header", "message", "ResponseHeader">>,
      <<2, "Deleted", "varint">>, <<3, "PrevKvs", "repeated", "KeyValue">>>>

DeleteRangeResponse_UnmarshalVT ==
    << <<1, "Header", "message", "ResponseHeader">>,
      <<2, "Deleted", "varint">>, <<3, "PrevKvs", "repeated", "KeyValue">>>>

TxnRequest_New ==
    [Table |-> Nil, Compare |-> <<>>, Success |-> <<>>, Failure |-> <<>>]

TxnRequest_MarshalVT ==
    << <<1, "Table", "bytes">>, <<2, "Compare", "repeated", "Compare">>,
      <<3, "Success", "repeated", "RequestOp">>,
      <<4, "Failure", "repeated", "RequestOp">>>>

TxnRequest_UnmarshalVT ==
    << <<1, "Table", "bytes">>, <<2, "Compare", "repeated", "Compare">>,
      <<3, "Success", "repeated", "RequestOp">>,
      <<4, "Failure", "repeated", "RequestOp">>>>

TxnResponse_New == [Header |-> Nil, Succeeded |-> FALSE, Responses |-> <<>>]

TxnResponse_MarshalVT ==
    << <<1, "Header", "message", "ResponseHeader">>,
      <<2, "Succeeded", "bool">>,
      <<3, "Responses", "repeated", "ResponseOp">>>>

TxnResponse_UnmarshalVT ==
    << <<1, "Header", "message", "ResponseHeader">>,
      <<2, "Succeeded", "bool">>,
      <<3, "Responses", "repeated", "ResponseOp">>>>
=============================================================================
