----------------------------- MODULE OpPromise -----------------------------
(***************************************************************************)
(* What iouxx promises the owner of an operation object, with no queue, no *)
(* kernel and no coroutine in sight.                                       *)
(*                                                                         *)
(* A submission is outstanding from the moment its owner is told that it   *)
(* was accepted until the moment its owner is told that it is over.  In    *)
(* between it may report to its object, always with its own result, and    *)
(* its owner is released exactly once.  Closing the ring releases everyone *)
(* and nothing reports afterwards.                                         *)
(***************************************************************************)
EXTENDS Naturals

CONSTANT Ops     \* addresses of operation objects

VARIABLES
    out,         \* outstanding submissions, [id, op]
    owner,       \* owner[o]: "none" (no object), "idle" or "busy"
    last         \* last[o]: id of the submission that last reported to o

vars == <<out, owner, last>>

Init ==
    /\ out = {}
    /\ owner = [o \in Ops |-> "none"]
    /\ last = [o \in Ops |-> 0]

Make(o) ==
    /\ owner[o] = "none"
    /\ owner' = [owner EXCEPT ![o] = "idle"]
    /\ last' = [last EXCEPT ![o] = 0]
    /\ UNCHANGED out

\* Only an object that no outstanding submission refers to may go away.
Destroy(o) ==
    /\ owner[o] = "idle"
    /\ \A r \in out : r.op # o
    /\ owner' = [owner EXCEPT ![o] = "none"]
    /\ UNCHANGED <<out, last>>

\* An accepted submission gets an id that nothing outstanding has.
Accept(o) ==
    /\ owner[o] = "idle"
    /\ \A r \in out : r.op # o
    /\ \E n \in out' : /\ n.op = o
                       /\ \A r \in out : r.id # n.id
                       /\ out' = out \cup {n}
    /\ owner' = [owner EXCEPT ![o] = "busy"]
    /\ UNCHANGED last

\* An intermediate report of a multishot submission.
Report(r) ==
    /\ r \in out
    /\ owner[r.op] = "busy"
    /\ last' = [last EXCEPT ![r.op] = r.id]
    /\ UNCHANGED <<out, owner>>

\* The last report, or the coroutine is stopped and there is no report.
Finish(r) ==
    /\ r \in out
    /\ owner[r.op] = "busy"
    /\ out' = out \ {r}
    /\ owner' = [owner EXCEPT ![r.op] = "idle"]
    /\ last' \in {last, [last EXCEPT ![r.op] = r.id]}

Close ==
    /\ out' = {}
    /\ owner' = [o \in Ops |-> IF owner[o] = "busy" THEN "idle" ELSE owner[o]]
    /\ UNCHANGED last

Next ==
    \/ \E o \in Ops : Make(o) \/ Destroy(o) \/ Accept(o)
    \/ \E r \in out : Report(r) \/ Finish(r)
    \/ Close

Spec == Init /\ [][Next]_vars
=============================================================================
