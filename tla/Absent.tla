------------------------------- MODULE Absent -------------------------------
(***************************************************************************)
(* What Go's nil is in the models: no value, no slice, no message.         *)
(***************************************************************************)
CONSTANT Nil

(* An empty and a nil slice are the same to all readers.                   *)
Octets(bytes) == IF bytes = Nil THEN 0 ELSE bytes
=============================================================================
