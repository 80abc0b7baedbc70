----------------------------- MODULE MCDataDir ------------------------------
(* DataDir for TLC; the constants are in the .cfg file.                    *)
EXTENDS DataDir
=============================================================================
