---------------------------- MODULE TableContent ----------------------------
(***************************************************************************)
(* The content of a table.  Keys are numbers, ordered as the encoded keys  *)
(* are; a key that has no value maps to Nil.                               *)
(***************************************************************************)
EXTENDS Absent

CONSTANTS
    Keys,       \* user keys, a set of numbers (0: the empty key)
    Values      \* values, a set of numbers

Tables == [Keys -> Values \cup {Nil}]

NoKeys == [k \in Keys |-> Nil]

TableName == 1
=============================================================================
