--------------------------- MODULE MCTableManager ---------------------------
(* TableManager for TLC; the constants are in the .cfg file.               *)
EXTENDS TableManager
=============================================================================
