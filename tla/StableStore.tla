----------------------------- MODULE StableStore ----------------------------
(***************************************************************************)
(* What the data directory of a replica promises: after a crash the        *)
(* replica finds one database, the one that was there or the one that was  *)
(* about to replace it, and never less than it has been told is stored.    *)
(*                                                                         *)
(* A database is abstracted to the index up to which its content survives  *)
(* a crash.                                                                *)
(***************************************************************************)
EXTENDS Integers

CONSTANTS None   \* no database

VARIABLES
    stored,    \* the database that is on disk for good
    pending    \* the one that replaces it, which a crash may find as well

vars == <<stored, pending>>

Init ==
    /\ stored = None
    /\ pending = None

Create ==
    /\ stored = None
    /\ stored' \in Nat
    /\ pending' = None

Flush ==
    /\ stored # None
    /\ pending = None
    /\ stored' \in Nat /\ stored' > stored
    /\ UNCHANGED pending

Replace ==
    /\ stored # None
    /\ pending = None
    /\ pending' \in Nat /\ pending' > stored
    /\ UNCHANGED stored

Settle ==
    /\ pending # None
    /\ stored' = pending
    /\ pending' = None

(* A crash takes the replacement back.                                     *)
Abort ==
    /\ pending # None
    /\ pending' = None
    /\ UNCHANGED stored

Next == Create \/ Flush \/ Replace \/ Settle \/ Abort

Spec == Init /\ [][Next]_vars
=============================================================================
