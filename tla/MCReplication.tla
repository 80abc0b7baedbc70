--------------------------- MODULE MCReplication ----------------------------
(* Replication for TLC; the constants are in the .cfg files.                *)
EXTENDS Replication, TLC

(* Keys written by the leader's entries.                                   *)
MCKeyOf == <<"a", "a", "b">>

ShortKeyOf == <<"a", "b">>

Symmetry == Permutations(Nodes)
=============================================================================
