------------------------------- MODULE Proto --------------------------------
(***************************************************************************)
(* The messages of all APIs, by the names of their types, and what the     *)
(* generated MarshalVT and UnmarshalVT do, as an interpreter of the tables *)
(* of the two.                                                             *)
(***************************************************************************)
EXTENDS MvccProto, RegattaProto, ReplicationProto, MaintenanceProto

MarshalTable(type) ==
    CASE type = "Command" -> Command_MarshalVT
      [] type = "CommandResult" -> CommandResult_MarshalVT
      [] type = "Txn" -> Txn_MarshalVT
      [] type = "RequestOp" -> RequestOp_MarshalVT
      [] type = "RequestOp_Range" -> RequestOp_Range_MarshalVT
      [] type = "RequestOp_Put" -> RequestOp_Put_MarshalVT
      [] type = "RequestOp_DeleteRange" -> RequestOp_DeleteRange_MarshalVT
      [] type = "ResponseOp" -> ResponseOp_MarshalVT
      [] type = "ResponseOp_Range" -> ResponseOp_Range_MarshalVT
      [] type = "ResponseOp_Put" -> ResponseOp_Put_MarshalVT
      [] type = "ResponseOp_DeleteRange" -> ResponseOp_DeleteRange_MarshalVT
      [] type = "Compare" -> Compare_MarshalVT
      [] type = "KeyValue" -> KeyValue_MarshalVT
      [] type = "ResponseHeader" -> ResponseHeader_MarshalVT
      [] type = "RangeRequest" -> RangeRequest_MarshalVT
      [] type = "RangeResponse" -> RangeResponse_MarshalVT
      [] type = "PutRequest" -> PutRequest_MarshalVT
      [] type = "PutResponse" -> PutResponse_MarshalVT
      [] type = "DeleteRangeRequest" -> DeleteRangeRequest_MarshalVT
      [] type = "DeleteRangeResponse" -> DeleteRangeResponse_MarshalVT
      [] type = "TxnRequest" -> TxnRequest_MarshalVT
      [] type = "TxnResponse" -> TxnResponse_MarshalVT
      [] type = "MetadataResponse" -> MetadataResponse_MarshalVT
      [] type = "Table" -> Table_MarshalVT
      [] type = "SnapshotRequest" -> SnapshotRequest_MarshalVT
      [] type = "SnapshotChunk" -> SnapshotChunk_MarshalVT
      [] type = "ReplicateRequest" -> ReplicateRequest_MarshalVT
      [] type = "ReplicateResponse" -> ReplicateResponse_MarshalVT
      [] type = "ReplicateCommandsResponse" -> ReplicateCommandsResponse_MarshalVT
      [] type = "ReplicateCommand" -> ReplicateCommand_MarshalVT
      [] type = "ReplicateErrResponse" -> ReplicateErrResponse_MarshalVT
      [] type = "BackupRequest" -> BackupRequest_MarshalVT

UnmarshalTable(type) ==
    CASE type = "Command" -> Command_UnmarshalVT
      [] type = "CommandResult" -> CommandResult_UnmarshalVT
      [] type = "Txn" -> Txn_UnmarshalVT
      [] type = "RequestOp" -> RequestOp_UnmarshalVT
      [] type = "RequestOp_Range" -> RequestOp_Range_UnmarshalVT
      [] type = "RequestOp_Put" -> RequestOp_Put_UnmarshalVT
      [] type = "RequestOp_DeleteRange" -> RequestOp_DeleteRange_UnmarshalVT
      [] type = "ResponseOp" -> ResponseOp_UnmarshalVT
      [] type = "ResponseOp_Range" -> ResponseOp_Range_UnmarshalVT
      [] type = "ResponseOp_Put" -> ResponseOp_Put_UnmarshalVT
      [] type = "ResponseOp_DeleteRange" -> ResponseOp_DeleteRange_UnmarshalVT
      [] type = "Compare" -> Compare_UnmarshalVT
      [] type = "KeyValue" -> KeyValue_UnmarshalVT
      [] type = "ResponseHeader" -> ResponseHeader_UnmarshalVT
      [] type = "RangeRequest" -> RangeRequest_UnmarshalVT
      [] type = "RangeResponse" -> RangeResponse_UnmarshalVT
      [] type = "PutRequest" -> PutRequest_UnmarshalVT
      [] type = "PutResponse" -> PutResponse_UnmarshalVT
      [] type = "DeleteRangeRequest" -> DeleteRangeRequest_UnmarshalVT
      [] type = "DeleteRangeResponse" -> DeleteRangeResponse_UnmarshalVT
      [] type = "TxnRequest" -> TxnRequest_UnmarshalVT
      [] type = "TxnResponse" -> TxnResponse_UnmarshalVT
      [] type = "MetadataResponse" -> MetadataResponse_UnmarshalVT
      [] type = "Table" -> Table_UnmarshalVT
      [] type = "SnapshotRequest" -> SnapshotRequest_UnmarshalVT
      [] type = "SnapshotChunk" -> SnapshotChunk_UnmarshalVT
      [] type = "ReplicateRequest" -> ReplicateRequest_UnmarshalVT
      [] type = "ReplicateResponse" -> ReplicateResponse_UnmarshalVT
      [] type = "ReplicateCommandsResponse" -> ReplicateCommandsResponse_UnmarshalVT
      [] type = "ReplicateCommand" -> ReplicateCommand_UnmarshalVT
      [] type = "ReplicateErrResponse" -> ReplicateErrResponse_UnmarshalVT
      [] type = "BackupRequest" -> BackupRequest_UnmarshalVT

-----------------------------------------------------------------------------
(* &T{}                                                                    *)
Zero(type) ==
    CASE type = "Command" -> Command_New
      [] type = "CommandResult" -> CommandResult_New
      [] type = "Txn" -> Txn_New
      [] type = "RequestOp" -> RequestOp_New
      [] type = "RequestOp_Range" -> RequestOp_Range_New
      [] type = "RequestOp_Put" -> RequestOp_Put_New
      [] type = "RequestOp_DeleteRange" -> RequestOp_DeleteRange_New
      [] type = "ResponseOp" -> ResponseOp_New
      [] type = "ResponseOp_Range" -> ResponseOp_Range_New
      [] type = "ResponseOp_Put" -> ResponseOp_Put_New
      [] type = "ResponseOp_DeleteRange" -> ResponseOp_DeleteRange_New
      [] type = "Compare" -> Compare_New
      [] type = "KeyValue" -> KeyValue_New
      [] type = "ResponseHeader" -> ResponseHeader_New
      [] type = "RangeRequest" -> RangeRequest_New
      [] type = "RangeResponse" -> RangeResponse_New
      [] type = "PutRequest" -> PutRequest_New
      [] type = "PutResponse" -> PutResponse_New
      [] type = "DeleteRangeRequest" -> DeleteRangeRequest_New
      [] type = "DeleteRangeResponse" -> DeleteRangeResponse_New
      [] type = "TxnRequest" -> TxnRequest_New
      [] type = "TxnResponse" -> TxnResponse_New
      [] type = "MetadataResponse" -> MetadataResponse_New
      [] type = "Table" -> Table_New
      [] type = "SnapshotRequest" -> SnapshotRequest_New
      [] type = "SnapshotChunk" -> SnapshotChunk_New
      [] type = "ReplicateRequest" -> ReplicateRequest_New
      [] type = "ReplicateResponse" -> ReplicateResponse_New
      [] type = "ReplicateCommandsResponse" -> ReplicateCommandsResponse_New
      [] type = "ReplicateCommand" -> ReplicateCommand_New
      [] type = "ReplicateErrResponse" -> ReplicateErrResponse_New
      [] type = "BackupRequest" -> BackupRequest_New

-----------------------------------------------------------------------------
(* MarshalVT.  A nil message has no fields.                                *)
RECURSIVE Marshal(_, _)

MarshalField(row, v) ==
    CASE Kind(row) \in {"bytes", "string"} ->
           IF v = Nil \/ v = 0 THEN <<>> ELSE Field(row, v)
      [] Kind(row) \in {"optional bytes", "optional varint"} ->
           IF v = Nil THEN <<>> ELSE Field(row, v)
      [] Kind(row) = "data" -> IF v = <<>> THEN <<>> ELSE Field(row, v)
      [] Kind(row) = "varint" -> IF v = 0 THEN <<>> ELSE Field(row, v)
      [] Kind(row) = "bool" -> IF v THEN Field(row, 1) ELSE <<>>
      [] Kind(row) = "message" ->
           IF v = Nil THEN <<>> ELSE Field(row, Marshal(MessageType(row), v))
      [] Kind(row) = "repeated" ->
           FlattenSeq([i \in DOMAIN v |-> Field(row, Marshal(MessageType(row), v[i]))])
      [] Kind(row) = "oneof" ->
           IF v = Nil \/ v.case # CaseOf(row) THEN <<>>
           ELSE Field(row, Marshal(MessageType(row), v.val))
      [] Kind(row) = "oneof bytes" ->
           IF v = Nil \/ v.case # CaseOf(row) THEN <<>> ELSE Field(row, v.val)

Marshal(type, m) ==
    IF m = Nil THEN <<>>
    ELSE LET rows == MarshalTable(type)
         IN FlattenSeq([i \in DOMAIN rows |->
                          MarshalField(rows[i], m[Name(rows[i])])])

-----------------------------------------------------------------------------
(* UnmarshalVT of wire, one field after the other, into the message m, Nil *)
(* if it fails.  What is there already is replaced, merged or appended to. *)
(* Fields of an unknown number are kept aside (unknownFields).             *)
RECURSIVE Unmarshal(_, _, _)

(* The message a nested one is read into, Nil for a new one.               *)
Existing(row, old) ==
    CASE Kind(row) = "message" -> old
      [] Kind(row) = "oneof" /\ old # Nil /\ old.case = CaseOf(row) -> old.val
      [] OTHER -> Nil

Nested(type, wire, m) == Unmarshal(type, wire, IF m = Nil THEN Zero(type) ELSE m)

UnmarshalMessage(row, old, nested) ==
    CASE nested = Nil -> Nil
      [] Kind(row) = "message" -> nested
      [] Kind(row) = "repeated" -> Append(old, nested)
      [] Kind(row) = "oneof" -> Case(CaseOf(row), nested)

UnmarshalField(row, old, val) ==
    CASE Kind(row) = "bool" -> val # 0
      [] Kind(row) \in {"message", "repeated", "oneof"} ->
           UnmarshalMessage(row, old,
             Nested(MessageType(row), val, Existing(row, old)))
      [] Kind(row) = "oneof bytes" -> Case(CaseOf(row), val)
      [] OTHER -> val

SetField(row, m, val) == IF val = Nil THEN Nil ELSE [m EXCEPT ![Name(row)] = val]

UnmarshalNext(rows, m, f) ==
    LET row == Head(rows)
    IN IF m = Nil \/ rows = <<>> THEN m
       ELSE IF WireType(row) # f.type THEN Nil
       ELSE SetField(row, m, UnmarshalField(row, m[Name(row)], f.val))

Unmarshal(type, wire, m) ==
    LET rows(f) == SelectSeq(UnmarshalTable(type), LAMBDA row : Num(row) = f.num)
    IN IF wire = <<>> THEN m
       ELSE UnmarshalNext(rows(Last(wire)), Unmarshal(type, Front(wire), m), Last(wire))

MarshalVT(type, m) == Marshal(type, m)

UnmarshalVT(type, wire) == Unmarshal(type, wire, Zero(type))

(* Codec.Marshal and Codec.Unmarshal: what the receiver of a message gets. *)
Received(type, m) == UnmarshalVT(type, MarshalVT(type, m))

(* CommandFromVTPool after ReturnToVTPool: the pool hands out what was     *)
(* given back.                                                             *)
ReturnToVTPool(m) == Command_ResetVT(m, Zero("Command"))
=============================================================================
