---------------------------- MODULE MCTableLease ----------------------------
(* TableLease for TLC: the bounds are in MCTableLease.cfg.                  *)
EXTENDS TableLease, TLC

Symmetry == Permutations(Nodes)
=============================================================================
