------------------------------ MODULE MCReadCache ------------------------------
(***************************************************************************)
(* A small instance of ReadCache for TLC.                                  *)
(***************************************************************************)
EXTENDS ReadCache
=============================================================================
