---------------------------- MODULE MCFixedFiles ----------------------------
(* Instances of FixedFiles for TLC. *)
EXTENDS FixedFiles

CONSTANTS f1, f2, f3
=============================================================================
