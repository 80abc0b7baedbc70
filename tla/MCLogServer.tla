---------------------------- MODULE MCLogServer -----------------------------
(* LogServer for TLC; the constants are in the .cfg files.                  *)
EXTENDS LogServer, TLC

Symmetry == Permutations(Followers)
=============================================================================
