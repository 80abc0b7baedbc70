-------------------------------- MODULE Wire --------------------------------
(***************************************************************************)
(* The form of the tables for the code that protoc-gen-go-vtproto          *)
(* generates.  MarshalToSizedBufferVT and UnmarshalVT of a message are a   *)
(* table each, a row per field; the two are written from different         *)
(* functions, and nothing but the code says that they agree.  Proto reads  *)
(* the tables.                                                             *)
(*                                                                         *)
(* A message is a record with the fields of its Go struct.  Bytes are      *)
(* numbers, 0 the empty slice and Nil the nil slice.  A oneof is Nil or    *)
(* its case with the value.  An encoded message is the sequence of its     *)
(* fields, each with its number and wire type; lengths are left out.       *)
(***************************************************************************)
EXTENDS Integers, Sequences, SequencesExt, Functions, Absent

(* A row has the number, the name and the kind of a field, then the type   *)
(* of a message; a oneof has a row for each case, with its name, and the   *)
(* type unless the case holds bytes.  A field of an optional kind is       *)
(* written unless it is nil, the others unless they are empty, zero or     *)
(* false.  The data of a file are of a kind of their own.                  *)
Num(row) == row[1]
Name(row) == row[2]
Kind(row) == row[3]
CaseOf(row) == row[4]
MessageType(row) == row[Len(row)]

VarintType == 0
BytesType == 2

WireType(row) ==
    IF Kind(row) \in {"varint", "optional varint", "bool"} THEN VarintType
    ELSE BytesType

Field(row, val) == <<[num |-> Num(row), type |-> WireType(row), val |-> val]>>

Case(case, val) == [case |-> case, val |-> val]
=============================================================================
