-------------------------------- MODULE Ring --------------------------------
(***************************************************************************)
(* The core of iouxx: class ring together with operation_base and the two  *)
(* callback adaptors of include/iouxx/iouringxx.hpp.                       *)
(*                                                                         *)
(* One thread owns a ring and a set of operation objects.  It builds an    *)
(* object, submits it in one of three styles (submit() with a callback,    *)
(* submit_and_wait(), co_await), reaps completions one at a time and runs  *)
(* the callback of whatever object the completion's user_data points to.   *)
(* The kernel and liburing are external: the submission queue holds the    *)
(* SQEs that io_uring_get_sqe handed out, io_uring_submit moves a prefix   *)
(* of it to the kernel or fails and moves nothing, and the kernel posts    *)
(* completions in any order.                                               *)
(*                                                                         *)
(* user_data is the address of the operation object, so an SQE, a request  *)
(* or a CQE is a REFERENCE to an address in Ops.  Each filled SQE also     *)
(* carries a number `id' that the program does not have: it says which     *)
(* submission a reference stands for, and only the properties (through     *)
(* `cur' and `got') look at it.                                            *)
(***************************************************************************)
EXTENDS Naturals, Sequences

CONSTANTS
    Ops,             \* addresses at which operation objects are built
    Kind,            \* Kind[o]: the callback style of the object built at o
    Unsupported,     \* addresses of operations that feature_test() rejects
    SqEntries,       \* entries of the submission queue (queue_depth)
    MaxSubmits,      \* bound: SQEs filled in a behaviour
    MaxShots,        \* bound: CQEs with IORING_CQE_F_MORE posted
    MaxSubmitErrors, \* bound: io_uring_submit failures on a running ring
    MaxWaitErrors,   \* bound: io_uring_wait_cqe failures
    MayDisable,      \* may the ring be created with IORING_SETUP_R_DISABLED?
    SyncShared,      \* does the caller use submit_and_wait() while other
                     \* operations are outstanding?
    Promises         \* Promises[o]: the kinds of coroutine that co_await the
                     \* object at o; TRUE if the promise has unhandled_stopped

Kinds == {"callback", "multishot", "sync", "await"}

ASSUME ConstantsAssumption ==
    /\ Kind \in [Ops -> Kinds]
    /\ Unsupported \subseteq Ops
    /\ SqEntries \in Nat \ {0}
    /\ MaxSubmits \in Nat
    /\ MaxShots \in Nat
    /\ MaxSubmitErrors \in Nat
    /\ MaxWaitErrors \in Nat
    /\ MayDisable \in BOOLEAN
    /\ SyncShared \in BOOLEAN
    /\ Promises \in [Ops -> SUBSET BOOLEAN]

VARIABLES
    ring,      \* "invalid" (ring_fd < 0), "disabled" (R_DISABLED) or "running"
    sq,        \* SQEs handed out and not yet taken by the kernel, in order
    inflight,  \* requests the kernel owns
    cq,        \* completions not yet reaped, in order
    phase,     \* phase[o]: "none" (no object), "idle", or "busy" (the owner
               \* was told that the operation is under way)
    handler,   \* handler[o]: awaiter_callback::cancel_handler # nullptr
    promise,   \* promise[o]: has the promise of the coroutine that awaits o
               \* an unhandled_stopped() member?
    got,       \* got[o]: the submission whose result the callback object of o
               \* last received, 0 for the default unexpected(error_code())
    cur,       \* cur[o]: the last submission of o that was reported accepted
    waiting,   \* {o} while the thread blocks in o.submit_and_wait(), else {}
    pc,        \* "run", "wait" (in submit_and_wait), "stop" (in ring::stop),
               \* or "crashed"
    nsub,      \* number of SQEs filled so far
    shots,     \* number of F_MORE completions posted so far
    submitErrors,  \* number of io_uring_submit failures so far
    waitErrors     \* number of io_uring_wait_cqe failures so far

kernelVars == <<ring, sq, inflight, cq>>
objectVars == <<phase, handler, promise, got, cur>>
boundVars  == <<nsub, shots, submitErrors, waitErrors>>
vars == <<kernelVars, objectVars, waiting, pc, boundVars>>

-----------------------------------------------------------------------------
(* Types and the references that exist in a state *)

Ref == [id : Nat, op : Ops]
Cqe == [id : Nat, op : Ops, res : {"value", "canceled"}, more : BOOLEAN]

RefOf(c) == [id |-> c.id, op |-> c.op]

Elements(s) == {s[i] : i \in 1..Len(s)}

\* Everything that will, or may, still call back into the object at its `op'.
SqRefs == Elements(sq)
CqRefs == {RefOf(c) : c \in Elements(cq)}
Refs   == SqRefs \cup inflight \cup CqRefs

\* The owner of the object is waiting, and for this very submission.
Owned(r) == phase[r.op] = "busy" /\ cur[r.op] = r.id

Init ==
    /\ ring = "invalid"
    /\ sq = <<>>
    /\ inflight = {}
    /\ cq = <<>>
    /\ phase   = [o \in Ops |-> "none"]
    /\ handler = [o \in Ops |-> FALSE]
    /\ promise = [o \in Ops |-> FALSE]
    /\ got     = [o \in Ops |-> 0]
    /\ cur     = [o \in Ops |-> 0]
    /\ waiting = {}
    /\ pc = "run"
    /\ nsub = 0
    /\ shots = 0
    /\ submitErrors = 0
    /\ waitErrors = 0

-----------------------------------------------------------------------------
(* Life of the ring *)

\* do_init from the constructor or from reinit on an invalid ring: it fails
\* (io_uring_queue_init_params, or no probe and exit()), or the ring runs, or
\* it was asked to start disabled.
DoInit ==
    /\ pc = "run"
    /\ ring = "invalid"
    /\ ring' \in {"running"} \cup (IF MayDisable THEN {"disabled"} ELSE {})
    /\ UNCHANGED <<sq, inflight, cq, objectVars, waiting, pc, boundVars>>

\* Mutant: the ring is marked invalid but io_uring_queue_exit is not called.
ExitKeepsQueues ==
    /\ pc = "run"
    /\ ring # "invalid"
    /\ ring' = "invalid"
    /\ phase' = [o \in Ops |-> IF phase[o] = "busy" THEN "idle" ELSE phase[o]]
    /\ UNCHANGED <<sq, inflight, cq, handler, promise, got, cur, waiting, pc, boundVars>>

\* exit(), also from ~ring and reinit: stop() cancels what is in flight and
\* io_uring_queue_exit drops both queues.  No callback runs any more, and the
\* owner of the ring, who called this, knows it.
Exit ==
    /\ pc = "run"
    /\ ring # "invalid"
    /\ ring' = "invalid"
    /\ sq' = <<>>
    /\ inflight' = {}
    /\ cq' = <<>>
    /\ phase' = [o \in Ops |-> IF phase[o] = "busy" THEN "idle" ELSE phase[o]]
    /\ UNCHANGED <<handler, promise, got, cur, waiting, pc, boundVars>>

StartFromDisabled ==
    /\ pc = "run"
    /\ ring = "disabled"
    /\ ring' = "running"
    /\ UNCHANGED <<sq, inflight, cq, objectVars, waiting, pc, boundVars>>

\* stop(): io_uring_register_sync_cancel with CANCEL_ANY | CANCEL_ALL blocks
\* until every request has been completed (Complete), or until its timeout.
\* The completions stay in the completion queue.
StopBegin ==
    /\ pc = "run"
    /\ ring # "invalid"
    /\ pc' = "stop"
    /\ UNCHANGED <<kernelVars, objectVars, waiting, boundVars>>

StopReturn ==
    /\ pc = "stop"
    /\ pc' = "run"
    /\ UNCHANGED <<kernelVars, objectVars, waiting, boundVars>>

-----------------------------------------------------------------------------
(* Life of an operation object *)

\* ring::make, make_sync, make_await: IOUXX_ASSERT(valid()), then the
\* constructor with a fresh callback object.
Make(o) ==
    /\ pc = "run"
    /\ ring # "invalid"
    /\ phase[o] = "none"
    /\ phase' = [phase EXCEPT ![o] = "idle"]
    /\ handler' = [handler EXCEPT ![o] = FALSE]
    /\ promise' = [promise EXCEPT ![o] = FALSE]
    /\ got' = [got EXCEPT ![o] = 0]
    /\ UNCHANGED <<kernelVars, cur, waiting, pc, boundVars>>

\* The owner destroys the object once the library has told it that nothing is
\* under way ("make sure the operation object outlives the whole execution").
Destroy(o) ==
    /\ pc = "run"
    /\ phase[o] = "idle"
    /\ phase' = [phase EXCEPT ![o] = "none"]
    /\ UNCHANGED <<kernelVars, handler, promise, got, cur, waiting, pc, boundVars>>

-----------------------------------------------------------------------------
(* do_submit: feature_test, to_sqe, ring::submit *)

\* feature_test() refuses the opcode: nothing is touched.
Refused(o) ==
    /\ o \in Unsupported
    /\ UNCHANGED <<sq, inflight, nsub, submitErrors>>

\* io_uring_get_sqe finds the queue full and to_sqe returns nullptr:
\* ring::submit reports resource_unavailable_try_again and does not call
\* io_uring_submit.
SqFull(o) ==
    /\ o \notin Unsupported
    /\ Len(sq) = SqEntries
    /\ UNCHANGED <<sq, inflight, nsub, submitErrors>>

NewRef(o) == [id |-> nsub + 1, op |-> o]

\* Mutant: the nullptr of io_uring_get_sqe is not looked at.
FillSqeUnchecked(o) ==
    /\ o \notin Unsupported
    /\ nsub < MaxSubmits
    /\ nsub' = nsub + 1

\* to_sqe takes an entry and fills it with the address of o.
FillSqe(o) ==
    /\ o \notin Unsupported
    /\ Len(sq) < SqEntries
    /\ nsub < MaxSubmits
    /\ nsub' = nsub + 1

\* io_uring_submit returns ev < 0.  Always so on a disabled ring (EBADFD).
\* The entry was already published and stays in the submission queue.
EnterFails(o) ==
    /\ FillSqe(o)
    /\ sq' = Append(sq, NewRef(o))
    /\ \/ ring = "disabled" /\ UNCHANGED submitErrors
       \/ /\ ring = "running"
          /\ submitErrors < MaxSubmitErrors
          /\ submitErrors' = submitErrors + 1
    /\ UNCHANGED inflight

\* Mutant: the entries that a short submit leaves behind are dropped.
EnterTakesLosing(o) ==
    /\ FillSqe(o)
    /\ ring = "running"
    /\ LET all == Append(sq, NewRef(o)) IN
         \E n \in 1..Len(all) :
           /\ sq' = <<>>
           /\ inflight' = inflight \cup {all[i] : i \in 1..n}
    /\ UNCHANGED submitErrors

\* io_uring_submit returns ev >= 0: the kernel took the first n >= 1 entries.
\* ring::submit looks at the sign of ev only, never at the count.
EnterTakes(o) ==
    /\ FillSqe(o)
    /\ ring = "running"
    /\ LET all == Append(sq, NewRef(o)) IN
         \E n \in 1..Len(all) :
           /\ sq' = SubSeq(all, n + 1, Len(all))
           /\ inflight' = inflight \cup {all[i] : i \in 1..n}
    /\ UNCHANGED submitErrors

\* The two outcomes of do_submit that the callers tell apart.
DoSubmitError(o) == Refused(o) \/ SqFull(o) \/ EnterFails(o)
DoSubmitOk(o) ==
    /\ EnterTakes(o)
    /\ phase' = [phase EXCEPT ![o] = "busy"]
    /\ cur' = [cur EXCEPT ![o] = nsub']

CanSubmit(o) ==
    /\ pc = "run"
    /\ ring # "invalid"
    /\ phase[o] = "idle"

-----------------------------------------------------------------------------
(* The three ways to submit *)

\* operation_base::submit, for callbacks that are not adaptors.
Submit(o) ==
    /\ CanSubmit(o)
    /\ Kind[o] \in {"callback", "multishot"}
    /\ \/ DoSubmitOk(o)
       \/ DoSubmitError(o) /\ UNCHANGED <<phase, cur>>
    /\ UNCHANGED <<ring, cq, handler, promise, got, waiting, pc, shots, waitErrors>>

\* operation_base::submit_and_wait up to the blocking wait_for_result.
SubmitAndWait(o) ==
    /\ CanSubmit(o)
    /\ Kind[o] = "sync"
    /\ SyncShared \/ \A p \in Ops : phase[p] # "busy"
    /\ \/ DoSubmitOk(o) /\ pc' = "wait" /\ waiting' = {o}
       \/ DoSubmitError(o) /\ UNCHANGED <<phase, cur, pc, waiting>>
    /\ UNCHANGED <<ring, cq, handler, promise, got, shots, waitErrors>>

\* setup_awaiter_callback: cancel_handler is assigned only if the promise of
\* the awaiting coroutine has unhandled_stopped; otherwise it keeps its value.
SetupAwaiterCallback(o, stopAware) ==
    /\ handler' = [handler EXCEPT ![o] = @ \/ stopAware]
    /\ promise' = [promise EXCEPT ![o] = stopAware]

\* operation_awaiter::await_suspend: it suspends, or the coroutine goes on at
\* once with the error of do_submit.
Await(o, stopAware) ==
    /\ CanSubmit(o)
    /\ Kind[o] = "await"
    /\ SetupAwaiterCallback(o, stopAware)
    /\ \/ DoSubmitOk(o)
       \/ DoSubmitError(o) /\ UNCHANGED <<phase, cur>>
    /\ UNCHANGED <<ring, cq, got, waiting, pc, shots, waitErrors>>

-----------------------------------------------------------------------------
(* The kernel *)

\* A request posts a completion.  Only a multishot request stays in flight.
Complete(r, res, more) ==
    /\ pc # "crashed"
    /\ r \in inflight
    /\ more => Kind[r.op] = "multishot" /\ shots < MaxShots
    /\ cq' = Append(cq, [id |-> r.id, op |-> r.op, res |-> res, more |-> more])
    /\ inflight' = IF more THEN inflight ELSE inflight \ {r}
    /\ shots' = IF more THEN shots + 1 ELSE shots
    /\ UNCHANGED <<ring, sq, objectVars, waiting, pc, nsub, submitErrors, waitErrors>>

-----------------------------------------------------------------------------
(* Completions: operation_result::callback *)

\* awaiter_callback takes the cancellation path.
Stopped(c) == Kind[c.op] = "await" /\ handler[c.op] /\ c.res = "canceled"

\* What the callback of c does is undefined: the object is gone, or the
\* coroutine is not suspended, or unhandled_stopped() is called on a promise
\* that has none.
Undefined(c) ==
    \/ phase[c.op] = "none"
    \/ Kind[c.op] = "await" /\ phase[c.op] # "busy"
    \/ Stopped(c) /\ ~promise[c.op]

\* got after the callback: syncwait_callback and awaiter_callback store the
\* result, a plain callback receives it; the cancellation path stores nothing.
GotAfter(c) == IF Stopped(c) THEN got ELSE [got EXCEPT ![c.op] = c.id]

\* Mutant: IORING_CQE_F_MORE is ignored.
PhaseAfterIgnoringMore(c) ==
    IF phase[c.op] = "busy" /\ Kind[c.op] # "sync"
    THEN [phase EXCEPT ![c.op] = "idle"]
    ELSE phase

\* Mutant: the handle that cancel_handler returns is not resumed.
PhaseAfterNotResumed(c) ==
    IF phase[c.op] = "busy" /\ ~c.more /\ Kind[c.op] # "sync" /\ ~Stopped(c)
    THEN [phase EXCEPT ![c.op] = "idle"]
    ELSE phase

\* phase after the callback.  A callback or a resumed coroutine tells its
\* owner that the operation is over, unless more completions were announced.
\* The owner of a synchronous operation waits for submit_and_wait instead.
PhaseAfter(c) ==
    IF phase[c.op] = "busy" /\ ~c.more /\ Kind[c.op] # "sync"
    THEN [phase EXCEPT ![c.op] = "idle"]
    ELSE phase

\* Undefined behaviour in the callback: the program crashes, or goes on with
\* no visible effect on the objects that are left.
Misfire(c) ==
    /\ Undefined(c)
    /\ pc' \in {"run", "crashed"}
    /\ UNCHANGED <<phase, got>>

\* fetch_result or wait_for_result of the caller's event loop, then callback().
Reap ==
    /\ pc = "run"
    /\ ring # "invalid"
    /\ cq # <<>>
    /\ cq' = Tail(cq)
    /\ LET c == Head(cq) IN
         \/ Misfire(c)
         \/ /\ ~Undefined(c)
            /\ phase' = PhaseAfter(c)
            /\ got' = GotAfter(c)
            /\ UNCHANGED pc
    /\ UNCHANGED <<ring, sq, inflight, handler, promise, cur, waiting, boundVars>>

\* Mutant: submit_and_wait does not run the callback of what it reaped.
WaitReturnNoCallback(w) ==
    /\ pc = "wait"
    /\ w \in waiting
    /\ cq # <<>>
    /\ cq' = Tail(cq)
    /\ waiting' = {}
    /\ pc' = "run"
    /\ phase' = [phase EXCEPT ![w] = "idle"]
    /\ UNCHANGED <<ring, sq, inflight, handler, promise, got, cur, boundVars>>

\* submit_and_wait continues: wait_for_result delivered the first completion,
\* its callback runs, and the call returns what the callback object of the
\* waiting operation holds.
WaitReturn(w) ==
    /\ pc = "wait"
    /\ w \in waiting
    /\ cq # <<>>
    /\ cq' = Tail(cq)
    /\ waiting' = {}
    /\ LET c == Head(cq) IN
         \/ /\ Undefined(c)
            /\ pc' \in {"run", "crashed"}
            /\ phase' = [phase EXCEPT ![w] = "idle"]
            /\ UNCHANGED got
         \/ /\ ~Undefined(c)
            /\ pc' = "run"
            /\ phase' = [PhaseAfter(c) EXCEPT ![w] = "idle"]
            /\ got' = GotAfter(c)
    /\ UNCHANGED <<ring, sq, inflight, handler, promise, cur, boundVars>>

\* submit_and_wait continues: wait_for_result found no completion and was
\* interrupted (EINTR); the call returns that error.
WaitError(w) ==
    /\ pc = "wait"
    /\ w \in waiting
    /\ cq = <<>>
    /\ waitErrors < MaxWaitErrors
    /\ waitErrors' = waitErrors + 1
    /\ waiting' = {}
    /\ pc' = "run"
    /\ phase' = [phase EXCEPT ![w] = "idle"]
    /\ UNCHANGED <<kernelVars, handler, promise, got, cur, nsub, shots, submitErrors>>

-----------------------------------------------------------------------------

Next ==
    \/ DoInit
    \/ Exit
    \/ StartFromDisabled
    \/ StopBegin
    \/ StopReturn
    \/ \E o \in Ops : Make(o)
    \/ \E o \in Ops : Destroy(o)
    \/ \E o \in Ops : Submit(o)
    \/ \E o \in Ops : SubmitAndWait(o)
    \/ \E o \in Ops : \E stopAware \in Promises[o] : Await(o, stopAware)
    \/ \E r \in inflight, res \in {"value", "canceled"}, more \in BOOLEAN :
         Complete(r, res, more)
    \/ Reap
    \/ \E w \in Ops : WaitReturn(w)
    \/ \E w \in Ops : WaitError(w)

Spec == Init /\ [][Next]_vars

\* The kernel completes each request for good, the event loop comes back to
\* reaping whatever else it calls in between, a blocked call returns when it
\* can.  Nothing obliges the caller to submit.
Fairness ==
    /\ \A o \in Ops : WF_vars(\E r \in inflight, res \in {"value", "canceled"} :
                                 r.op = o /\ Complete(r, res, FALSE))
    /\ SF_vars(Reap)
    /\ WF_vars(StopReturn)
    /\ \A w \in Ops : WF_vars(WaitReturn(w))

FairSpec == Spec /\ Fairness

-----------------------------------------------------------------------------
(* Properties *)

TypeOK ==
    /\ ring \in {"invalid", "disabled", "running"}
    /\ sq \in Seq(Ref)
    /\ Len(sq) <= SqEntries
    /\ inflight \in SUBSET Ref
    /\ cq \in Seq(Cqe)
    /\ phase \in [Ops -> {"none", "idle", "busy"}]
    /\ handler \in [Ops -> BOOLEAN]
    /\ promise \in [Ops -> BOOLEAN]
    /\ got \in [Ops -> Nat]
    /\ cur \in [Ops -> Nat]
    /\ waiting \in SUBSET Ops
    /\ pc \in {"run", "wait", "stop", "crashed"}
    /\ nsub \in 0..MaxSubmits
    /\ shots \in 0..MaxShots
    /\ submitErrors \in 0..MaxSubmitErrors
    /\ waitErrors \in 0..MaxWaitErrors

\* Every user_data held by the submission queue, the kernel or the completion
\* queue points to a live operation object whose owner is waiting for that very
\* submission: no completion can reach a destroyed object, a later object at
\* the same address, or an owner that was told the operation had failed or
\* ended (operation_base: "make sure the operation object outlives the whole
\* execution of io_uring task").
NoOrphan == \A r \in Refs : Owned(r)

\* The converse: whoever was told that its operation is under way has the
\* completion of that submission still ahead of it.  Holds whatever fails.
Pending(o) ==
    LET r == [id |-> cur[o], op |-> o] IN
      \/ r \in SqRefs \cup inflight
      \/ \E c \in Elements(cq) : RefOf(c) = r /\ ~c.more
NoLostWaiter == \A o \in Ops : phase[o] = "busy" => Pending(o)

\* submit_and_wait returns the result of the operation it was called on, and
\* neither the default value nor that of an earlier call.
SyncReturnsOwn ==
    [][\A o \in waiting : waiting' = {} /\ cq' # cq => got'[o] = cur[o]]_vars

\* A completion that resumes a coroutine through awaiter_callback's
\* cancellation path finds a promise that has unhandled_stopped(), which is
\* what cancel_handler<Promise> demands of Promise.
StopHandlerFits ==
    \A c \in Elements(cq) : Owned(RefOf(c)) /\ Stopped(c) => promise[c.op]

\* Whoever is told that its operation is under way is eventually called back
\* (or closes the ring).
Completes == \A o \in Ops : (phase[o] = "busy") ~> (phase[o] # "busy")

\* The ring keeps the promise of OpPromise: a submission is outstanding as long
\* as anything refers to it, and its owner is released by the very completion
\* that removes the last reference, with the result of that submission.
Promise == INSTANCE OpPromise WITH out <- Refs, owner <- phase, last <- got
KeepsPromise == Promise!Spec

=============================================================================
