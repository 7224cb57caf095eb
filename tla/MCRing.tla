------------------------------- MODULE MCRing -------------------------------
(* Instances of Ring for TLC. *)
EXTENDS Ring, TLC

CONSTANTS op1, op2, op3, op4

\* One object of every style that behaves differently.
KindMixed == op1 :> "sync" @@ op2 :> "multishot" @@ op3 :> "await"

\* The same and a fourth object, whose opcode the kernel does not support.
KindProbed == KindMixed @@ op4 :> "callback"

\* Objects of the styles that the event loop serves.
KindLoop == op1 :> "callback" @@ op2 :> "callback" @@ op3 :> "await"

\* Which coroutines await: all of them with unhandled_stopped, none, or a
\* program that mixes both kinds.
StopAware  == [o \in Ops |-> {TRUE}]
StopBlind  == [o \in Ops |-> {FALSE}]
AnyPromise == [o \in Ops |-> BOOLEAN]
=============================================================================
