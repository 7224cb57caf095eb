---------------------------- MODULE MCBufferTable ---------------------------
(* Instances of BufferTable for TLC. *)
EXTENDS BufferTable, TLC

CONSTANTS b1, b2, op1, op2, u1

\* A receive with an optional index and a fixed read share the table; an object
\* of any other class has it for itself.
MCPrograms ==
    {(op1 :> "recv") @@ (op2 :> "read_fixed")}
    \cup {(op1 :> k) @@ (op2 :> None) : k \in Kinds \ {"recv", "read_fixed"}}

\* No transfers.
NoPrograms == {(op1 :> None) @@ (op2 :> None)}
=============================================================================
