--------------------------- MODULE MCBufferGroups ---------------------------
(* Instances of BufferGroups for TLC. *)
EXTENDS BufferGroups, TLC

CONSTANTS r1, r2

\* The two ring objects are interchangeable.
RingSymmetry == Permutations(Rings)
=============================================================================
