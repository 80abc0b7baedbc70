-------------------------- MODULE ReplicationProto --------------------------
(***************************************************************************)
(* The messages between a follower cluster and the leader cluster,         *)
(* proto/replication.proto (regattapb/replication_vtproto.pb.go).          *)
(***************************************************************************)
EXTENDS Wire

ReplicateError_USE_SNAPSHOT == 0
ReplicateError_LEADER_BEHIND == 1

MetadataResponse_New == [Tables |-> <<>>]

MetadataResponse_MarshalVT ==
    << <<1, "Tables", "repeated", "Table">>>>

MetadataResponse_UnmarshalVT ==
    << <<1, "Tables", "repeated", "Table">>>>

Table_New == [Name |-> 0, Type |-> 0]

Table_MarshalVT ==
    << <<1, "Name", "bytes">>, <<2, "Type", "varint">>>>

Table_UnmarshalVT ==
    << <<1, "Name", "string">>, <<2, "Type", "varint">>>>

SnapshotRequest_New == [Table |-> Nil]

SnapshotRequest_MarshalVT ==
    << <<1, "Table", "bytes">>>>

SnapshotRequest_UnmarshalVT ==
    << <<1, "Table", "bytes">>>>

SnapshotChunk_New == [Data |-> <<>>, Len |-> 0, Index |-> 0]

SnapshotChunk_MarshalVT ==
    << <<1, "Data", "data">>, <<2, "Len", "varint">>,
      <<3, "Index", "varint">>>>

SnapshotChunk_UnmarshalVT ==
    << <<1, "Data", "data">>, <<2, "Len", "varint">>,
      <<3, "Index", "varint">>>>

ReplicateRequest_New == [Table |-> Nil, LeaderIndex |-> 0]

ReplicateRequest_MarshalVT ==
    << <<1, "Table", "bytes">>, <<2, "LeaderIndex", "varint">>>>

ReplicateRequest_UnmarshalVT ==
    << <<1, "Table", "bytes">>, <<2, "LeaderIndex", "varint">>>>

ReplicateResponse_New == [Response |-> Nil, LeaderIndex |-> 0]

ReplicateResponse_MarshalVT ==
    << <<8, "LeaderIndex", "varint">>,
      <<1, "Response", "oneof", "CommandsResponse", "ReplicateCommandsResponse">>,
      <<2, "Response", "oneof", "ErrorResponse", "ReplicateErrResponse">>>>

ReplicateResponse_UnmarshalVT ==
    << <<1, "Response", "oneof", "CommandsResponse", "ReplicateCommandsResponse">>,
      <<2, "Response", "oneof", "ErrorResponse", "ReplicateErrResponse">>,
      <<8, "LeaderIndex", "varint">>>>

ReplicateCommandsResponse_New == [Commands |-> <<>>]

ReplicateCommandsResponse_MarshalVT ==
    << <<1, "Commands", "repeated", "ReplicateCommand">>>>

ReplicateCommandsResponse_UnmarshalVT ==
    << <<1, "Commands", "repeated", "ReplicateCommand">>>>

ReplicateCommand_New == [LeaderIndex |-> 0, Command |-> Nil]

ReplicateCommand_MarshalVT ==
    << <<1, "LeaderIndex", "varint">>,
      <<2, "Command", "message", "Command">>>>

ReplicateCommand_UnmarshalVT ==
    << <<1, "LeaderIndex", "varint">>,
      <<2, "Command", "message", "Command">>>>

ReplicateErrResponse_New == [Error |-> 0]

ReplicateErrResponse_MarshalVT ==
    << <<1, "Error", "varint">>>>

ReplicateErrResponse_UnmarshalVT ==
    << <<1, "Error", "varint">>>>
=============================================================================
