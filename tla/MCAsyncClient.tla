---------------------------- MODULE MCAsyncClient ----------------------------
(* Instances of AsyncClient for TLC: the constants are in the .cfg files.   *)
EXTENDS AsyncClient
=============================================================================
