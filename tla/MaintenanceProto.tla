-------------------------- MODULE MaintenanceProto --------------------------
(***************************************************************************)
(* The requests of the maintenance API, proto/maintenance.proto            *)
(* (regattapb/maintenance_vtproto.pb.go).                                  *)
(***************************************************************************)
EXTENDS Wire

BackupRequest_New == [Table |-> Nil]

BackupRequest_MarshalVT ==
    << <<1, "Table", "bytes">>>>

BackupRequest_UnmarshalVT ==
    << <<1, "Table", "bytes">>>>
=============================================================================
