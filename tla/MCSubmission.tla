----------------------------- MODULE MCSubmission -----------------------------
(***************************************************************************)
(* A small instance of Submission for TLC.                                 *)
(***************************************************************************)
EXTENDS Submission
=============================================================================
