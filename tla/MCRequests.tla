----------------------------- MODULE MCRequests -----------------------------
(* Instances of Requests for TLC. *)
EXTENDS Requests

CONSTANTS t1, t2, c1, c2, w1, w2
=============================================================================
