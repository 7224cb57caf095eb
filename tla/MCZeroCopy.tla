----------------------------- MODULE MCZeroCopy -----------------------------
(* Instances of ZeroCopy for TLC: two operations on one ring. *)
EXTENDS ZeroCopy

CONSTANTS send1, msg1
=============================================================================
