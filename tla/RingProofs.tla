----------------------------- MODULE RingProofs -----------------------------
(***************************************************************************)
(* Theorems about Ring, for any number of objects, any queue size and any  *)
(* number of submissions and failures.                                     *)
(***************************************************************************)
EXTENDS Ring, TLAPS

-----------------------------------------------------------------------------
(* Sequences: what Append, Tail and a split at n do to the elements *)

LEMMA SplitType ==
    ASSUME NEW S, NEW s \in Seq(S), NEW n \in 1..Len(s)
    PROVE  /\ SubSeq(s, n + 1, Len(s)) \in Seq(S)
           /\ Len(SubSeq(s, n + 1, Len(s))) = Len(s) - n
           /\ {s[i] : i \in 1..n} \subseteq S
  OBVIOUS

\* The position of an entry after the first n were taken.
LEMMA Shifted ==
    ASSUME NEW m \in Nat, NEW n \in 1..m, NEW j \in 1..m, j > n
    PROVE  j - n \in 1..(m - n) /\ (j - n) + n = j
  OBVIOUS

\* The kernel takes the first n of s: nothing is lost.
LEMMA SplitElements ==
    ASSUME NEW S, NEW s \in Seq(S), NEW n \in 1..Len(s),
           NEW t, t = SubSeq(s, n + 1, Len(s))
    PROVE  Elements(s) = Elements(t) \cup {s[i] : i \in 1..n}
  <1>1. Len(t) = Len(s) - n /\ \A i \in 1..Len(t) : t[i] = s[i + n]
    OBVIOUS
  <1>2. ASSUME NEW j \in 1..Len(s), j > n
        PROVE  \E i \in 1..Len(t) : s[j] = t[i]
    <2>1. Len(s) \in Nat
      OBVIOUS
    <2>2. j - n \in 1..(Len(s) - n) /\ (j - n) + n = j
      BY <1>2, <2>1, Shifted
    <2> QED
      BY <1>1, <2>2
  <1>3. ASSUME NEW x, x \in {s[i] : i \in 1..Len(s)}
        PROVE  x \in {t[i] : i \in 1..Len(t)} \cup {s[i] : i \in 1..n}
    <2>1. PICK j \in 1..Len(s) : x = s[j]
      BY <1>3
    <2>2. CASE j > n
      BY <1>2, <2>1, <2>2
    <2>3. CASE ~(j > n)
      <3>1. j \in 1..n
        BY <2>3
      <3> QED
        BY <2>1, <3>1
    <2> QED
      BY <2>2, <2>3
  <1>4. ASSUME NEW x, x \in {t[i] : i \in 1..Len(t)} \cup {s[i] : i \in 1..n}
        PROVE  x \in {s[i] : i \in 1..Len(s)}
    <2>1. CASE x \in {t[i] : i \in 1..Len(t)}
      <3>1. PICK i \in 1..Len(t) : x = t[i]
        BY <2>1
      <3>2. i + n \in 1..Len(s) /\ x = s[i + n]
        BY <1>1, <3>1
      <3> QED
        BY <3>2
    <2>2. CASE x \in {s[i] : i \in 1..n}
      BY <2>2
    <2> QED
      BY <1>4, <2>1, <2>2
  <1> QED
    BY <1>3, <1>4 DEF Elements

LEMMA AppendElements ==
    ASSUME NEW S, NEW s \in Seq(S), NEW e \in S
    PROVE  Elements(Append(s, e)) = Elements(s) \cup {e}
  <1> DEFINE t == Append(s, e)
  <1>1. /\ Len(t) = Len(s) + 1
        /\ \A i \in 1..Len(s) : t[i] = s[i]
        /\ t[Len(s) + 1] = e
        /\ Len(s) \in Nat
    OBVIOUS
  <1>2. \A i \in 1..Len(t) : i \in 1..Len(s) \/ i = Len(s) + 1
    BY <1>1
  <1>3. \A i \in 1..Len(s) : i \in 1..Len(t)
    BY <1>1
  <1>4. Len(s) + 1 \in 1..Len(t)
    BY <1>1
  <1> QED
    BY <1>1, <1>2, <1>3, <1>4 DEF Elements

LEMMA TailElements ==
    ASSUME NEW S, NEW s \in Seq(S), s # <<>>, NEW t, t = Tail(s)
    PROVE  Elements(s) = Elements(t) \cup {Head(s)}
  <1>1. /\ Len(s) = Len(t) + 1
        /\ Len(t) \in Nat
        /\ Head(s) = s[1]
        /\ \A i \in 1..Len(t) : t[i] = s[i + 1]
    OBVIOUS
  <1>2. \A i \in 1..Len(s) : i = 1 \/ (i - 1 \in 1..Len(t) /\ (i - 1) + 1 = i)
    BY <1>1
  <1>3. 1 \in 1..Len(s) /\ \A i \in 1..Len(t) : i + 1 \in 1..Len(s)
    BY <1>1
  <1> QED
    BY <1>1, <1>2, <1>3 DEF Elements

LEMMA HeadType ==
    ASSUME TypeOK, cq # <<>>
    PROVE  Head(cq) \in Cqe /\ Head(cq).op \in Ops
  <1>1. Head(cq) \in Cqe
    BY DEF TypeOK
  <1> QED
    BY <1>1 DEF Cqe

LEMMA NewRefType ==
    ASSUME TypeOK, NEW o \in Ops
    PROVE  NewRef(o) \in Ref
  BY ConstantsAssumption DEF TypeOK, NewRef, Ref

-----------------------------------------------------------------------------
(* Type correctness *)

\* What do_submit leaves of the queues has the right type.
LEMMA DoSubmitType ==
    ASSUME TypeOK, NEW o \in Ops, DoSubmitOk(o) \/ DoSubmitError(o)
    PROVE  /\ sq' \in Seq(Ref)
           /\ Len(sq') <= SqEntries
           /\ inflight' \in SUBSET Ref
           /\ nsub' \in 0..MaxSubmits
           /\ submitErrors' \in 0..MaxSubmitErrors
  <1>1. CASE Refused(o) \/ SqFull(o)
    BY <1>1 DEF TypeOK, Refused, SqFull
  <1>2. CASE EnterFails(o)
    BY <1>2, NewRefType, ConstantsAssumption DEF TypeOK, EnterFails, FillSqe
  <1>3. CASE EnterTakes(o)
    <2> DEFINE all == Append(sq, NewRef(o))
    <2>1. all \in Seq(Ref) /\ Len(all) = Len(sq) + 1 /\ Len(all) <= SqEntries
      BY <1>3, NewRefType, ConstantsAssumption DEF TypeOK, EnterTakes, FillSqe
    <2>2. PICK n \in 1..Len(all) :
            /\ sq' = SubSeq(all, n + 1, Len(all))
            /\ inflight' = inflight \cup {all[i] : i \in 1..n}
      BY <1>3 DEF EnterTakes
    <2> HIDE DEF all
    <2>3. /\ sq' \in Seq(Ref)
          /\ Len(sq') = Len(all) - n
          /\ {all[i] : i \in 1..n} \subseteq Ref
      BY <2>1, <2>2, SplitType
    <2>4. Len(sq') <= SqEntries
      BY <2>1, <2>3, ConstantsAssumption DEF TypeOK
    <2>5. inflight' \in SUBSET Ref
      BY <2>2, <2>3 DEF TypeOK
    <2>6. nsub' \in 0..MaxSubmits
      BY <1>3, ConstantsAssumption DEF TypeOK, EnterTakes, FillSqe
    <2>7. submitErrors' = submitErrors
      BY <1>3 DEF EnterTakes
    <2> QED
      BY <2>3, <2>4, <2>5, <2>6, <2>7 DEF TypeOK
  <1> QED
    BY <1>1, <1>2, <1>3 DEF DoSubmitOk, DoSubmitError

\* What an accepted submission tells the owner has the right type.
LEMMA AcceptedType ==
    ASSUME TypeOK, NEW o \in Ops, DoSubmitOk(o)
    PROVE  phase' \in [Ops -> {"none", "idle", "busy"}] /\ cur' \in [Ops -> Nat]
  <1>1. nsub' \in Nat
    BY DoSubmitType, ConstantsAssumption
  <1>2. /\ phase' = [phase EXCEPT ![o] = "busy"]
        /\ cur' = [cur EXCEPT ![o] = nsub']
    BY DEF DoSubmitOk
  <1> QED
    BY <1>1, <1>2 DEF TypeOK

LEMMA InitType == Init => TypeOK
  BY ConstantsAssumption DEF Init, TypeOK

LEMMA NextType == TypeOK /\ [Next]_vars => TypeOK'
  <1> SUFFICES ASSUME TypeOK, [Next]_vars PROVE TypeOK'
    OBVIOUS
  <1> USE ConstantsAssumption
  <1>1. CASE DoInit
    BY <1>1 DEF DoInit, TypeOK, objectVars, boundVars
  <1>2. CASE Exit
    BY <1>2 DEF Exit, TypeOK, boundVars
  <1>3. CASE StartFromDisabled
    BY <1>3 DEF StartFromDisabled, TypeOK, objectVars, boundVars
  <1>4. CASE StopBegin \/ StopReturn
    BY <1>4 DEF StopBegin, StopReturn, TypeOK, kernelVars, objectVars, boundVars
  <1>5. ASSUME NEW o \in Ops, Make(o) \/ Destroy(o) PROVE TypeOK'
    <2>1. CASE Make(o)
      BY <2>1 DEF Make, TypeOK, kernelVars, boundVars
    <2>2. CASE Destroy(o)
      BY <2>2 DEF Destroy, TypeOK, kernelVars, boundVars
    <2> QED
      BY <1>5, <2>1, <2>2
  <1>6. ASSUME NEW o \in Ops, Submit(o) PROVE TypeOK'
    <2>1. DoSubmitOk(o) \/ DoSubmitError(o)
      BY <1>6 DEF Submit
    <2>2. phase' \in [Ops -> {"none", "idle", "busy"}] /\ cur' \in [Ops -> Nat]
      BY <1>6, AcceptedType DEF Submit, TypeOK
    <2> QED
      BY <1>6, <2>1, <2>2, DoSubmitType DEF Submit, TypeOK
  <1>7. ASSUME NEW o \in Ops, SubmitAndWait(o) PROVE TypeOK'
    <2>1. DoSubmitOk(o) \/ DoSubmitError(o)
      BY <1>7 DEF SubmitAndWait
    <2>2. /\ phase' \in [Ops -> {"none", "idle", "busy"}]
          /\ cur' \in [Ops -> Nat]
          /\ waiting' \in SUBSET Ops
          /\ pc' \in {"run", "wait", "stop", "crashed"}
      BY <1>7, AcceptedType DEF SubmitAndWait, TypeOK
    <2> QED
      BY <1>7, <2>1, <2>2, DoSubmitType DEF SubmitAndWait, TypeOK
  <1>8. ASSUME NEW o \in Ops, NEW stopAware \in Promises[o], Await(o, stopAware)
        PROVE  TypeOK'
    <2>1. DoSubmitOk(o) \/ DoSubmitError(o)
      BY <1>8 DEF Await
    <2>2. phase' \in [Ops -> {"none", "idle", "busy"}] /\ cur' \in [Ops -> Nat]
      BY <1>8, AcceptedType DEF Await, TypeOK
    <2>3. stopAware \in BOOLEAN
      BY <1>8
    <2>4. handler' \in [Ops -> BOOLEAN] /\ promise' \in [Ops -> BOOLEAN]
      BY <1>8, <2>3 DEF Await, SetupAwaiterCallback, TypeOK
    <2> QED
      BY <1>8, <2>1, <2>2, <2>4, DoSubmitType DEF Await, TypeOK
  <1>9. ASSUME NEW r \in inflight, NEW res \in {"value", "canceled"},
               NEW more \in BOOLEAN, Complete(r, res, more)
        PROVE  TypeOK'
    <2>1. [id |-> r.id, op |-> r.op, res |-> res, more |-> more] \in Cqe
      BY <1>9 DEF TypeOK, Ref, Cqe
    <2>2. cq' \in Seq(Cqe)
      BY <1>9, <2>1 DEF Complete, TypeOK
    <2>3. shots' \in 0..MaxShots
      BY <1>9 DEF Complete, TypeOK
    <2> QED
      BY <1>9, <2>2, <2>3 DEF Complete, TypeOK, objectVars
  <1>10. CASE Reap
    <2> DEFINE c == Head(cq)
    <2>1. c \in Cqe /\ cq' \in Seq(Cqe)
      BY <1>10 DEF Reap, TypeOK
    <2>2. /\ phase' \in [Ops -> {"none", "idle", "busy"}]
          /\ got' \in [Ops -> Nat]
          /\ pc' \in {"run", "wait", "stop", "crashed"}
      BY <1>10, <2>1 DEF Reap, Misfire, PhaseAfter, GotAfter, TypeOK, Cqe
    <2> QED
      BY <1>10, <2>1, <2>2 DEF Reap, TypeOK, boundVars
  <1>11. ASSUME NEW w \in Ops, WaitReturn(w) PROVE TypeOK'
    <2> DEFINE c == Head(cq)
    <2>1. c \in Cqe /\ cq' \in Seq(Cqe)
      BY <1>11 DEF WaitReturn, TypeOK
    <2>2. /\ phase' \in [Ops -> {"none", "idle", "busy"}]
          /\ got' \in [Ops -> Nat]
          /\ pc' \in {"run", "wait", "stop", "crashed"}
      BY <1>11, <2>1, ZenonT(40) DEF WaitReturn, PhaseAfter, GotAfter, TypeOK, Cqe
    <2> QED
      BY <1>11, <2>1, <2>2 DEF WaitReturn, TypeOK, boundVars
  <1>12. ASSUME NEW w \in Ops, WaitError(w) PROVE TypeOK'
    BY <1>12 DEF WaitError, TypeOK, kernelVars
  <1>13. CASE UNCHANGED vars
    BY <1>13 DEF vars, kernelVars, objectVars, boundVars, TypeOK
  <1> QED
    BY <1>1, <1>2, <1>3, <1>4, <1>5, <1>6, <1>7, <1>8, <1>9, <1>10, <1>11,
       <1>12, <1>13 DEF Next

\* Every variable keeps its type: in particular the submission queue never
\* holds more than SqEntries entries, whatever io_uring_submit left behind.
THEOREM TypeCorrect == Spec => []TypeOK
  BY InitType, NextType, PTL DEF Spec

-----------------------------------------------------------------------------
(* Nobody waits for a completion that will not come *)

\* Every object is awaited by coroutines with unhandled_stopped only, or by
\* coroutines without it only.
OnePromise == \A o \in Ops : Promises[o] # BOOLEAN

\* A synchronous operation is under way only while its owner is blocked.
SyncBlocks ==
    \A o \in Ops : Kind[o] = "sync" /\ phase[o] = "busy" =>
                     pc = "wait" /\ waiting = {o}

\* A cancel_handler was set by a promise of the kind that awaits now.
HandlerFits ==
    \A o \in Ops : handler[o] => /\ Kind[o] = "await"
                                 /\ TRUE \in Promises[o]
                                 /\ phase[o] = "busy" => promise[o]

WaiterInv == TypeOK /\ SyncBlocks /\ HandlerFits /\ NoLostWaiter

\* do_submit never loses an entry, and an accepted one is queued or in flight.
LEMMA DoSubmitRefs ==
    ASSUME TypeOK, NEW o \in Ops
    PROVE  /\ DoSubmitOk(o) =>
                (SqRefs \cup inflight)' = SqRefs \cup inflight \cup {NewRef(o)}
           /\ DoSubmitError(o) =>
                (SqRefs \cup inflight) \subseteq (SqRefs \cup inflight)'
  <1> DEFINE all == Append(sq, NewRef(o))
  <1>1. all \in Seq(Ref)
    BY NewRefType DEF TypeOK
  <1>2. Elements(all) = SqRefs \cup {NewRef(o)}
    <2>1. sq \in Seq(Ref) /\ NewRef(o) \in Ref
      BY NewRefType DEF TypeOK
    <2>2. Elements(all) = Elements(sq) \cup {NewRef(o)}
      BY <2>1, AppendElements
    <2> QED
      BY <2>2 DEF SqRefs
  <1>3. ASSUME DoSubmitOk(o)
        PROVE  (SqRefs \cup inflight)' = SqRefs \cup inflight \cup {NewRef(o)}
    <2>1. PICK n \in 1..Len(all) :
            /\ sq' = SubSeq(all, n + 1, Len(all))
            /\ inflight' = inflight \cup {all[i] : i \in 1..n}
      BY <1>3 DEF DoSubmitOk, EnterTakes
    <2> HIDE DEF all
    <2>2. Elements(all) = Elements(sq') \cup {all[i] : i \in 1..n}
      BY <1>1, <2>1, SplitElements
    <2> QED
      BY <1>2, <2>1, <2>2 DEF SqRefs
  <1>4. ASSUME DoSubmitError(o)
        PROVE  (SqRefs \cup inflight) \subseteq (SqRefs \cup inflight)'
    <2>1. CASE Refused(o) \/ SqFull(o)
      BY <2>1 DEF Refused, SqFull, SqRefs
    <2>2. CASE EnterFails(o)
      BY <1>2, <2>2 DEF EnterFails, SqRefs
    <2> QED
      BY <1>4, <2>1, <2>2 DEF DoSubmitError
  <1> QED
    BY <1>3, <1>4

\* A step that keeps the references, the completion queue and cur[o] keeps
\* Pending(o).
LEMMA StillPending ==
    ASSUME NEW o \in Ops, Pending(o), cq' = cq, cur'[o] = cur[o],
           (SqRefs \cup inflight) \subseteq (SqRefs \cup inflight)'
    PROVE  Pending(o)'
  BY DEF Pending, RefOf

LEMMA InitWaiter == Init => WaiterInv
  <1> SUFFICES ASSUME Init PROVE WaiterInv
    OBVIOUS
  <1>1. TypeOK
    BY InitType
  <1> QED
    BY <1>1 DEF Init, WaiterInv, SyncBlocks, HandlerFits, NoLostWaiter

\* An accepted submission makes its owner wait for a reference that exists;
\* a refused one takes none away.
LEMMA SubmitWaiter ==
    ASSUME WaiterInv, NEW o \in Ops, CanSubmit(o), cq' = cq,
           DoSubmitOk(o) \/ (DoSubmitError(o) /\ UNCHANGED <<phase, cur>>)
    PROVE  NoLostWaiter'
  <1> SUFFICES ASSUME NEW p \in Ops, phase'[p] = "busy" PROVE Pending(p)'
    BY DEF NoLostWaiter
  <1>1. CASE DoSubmitError(o) /\ UNCHANGED <<phase, cur>>
    BY <1>1, DoSubmitRefs, StillPending DEF WaiterInv, NoLostWaiter
  <1>2. CASE DoSubmitOk(o) /\ p # o
    <2>1. phase[p] = "busy" /\ cur'[p] = cur[p]
      BY <1>2 DEF DoSubmitOk, WaiterInv, TypeOK
    <2> QED
      BY <1>2, <2>1, DoSubmitRefs, StillPending DEF WaiterInv, NoLostWaiter
  <1>3. CASE DoSubmitOk(o) /\ p = o
    <2>1. cur'[o] = nsub + 1
      BY <1>3 DEF DoSubmitOk, EnterTakes, FillSqe, WaiterInv, TypeOK
    <2>2. NewRef(o) \in (SqRefs \cup inflight)'
      BY <1>3, DoSubmitRefs DEF WaiterInv
    <2> QED
      BY <1>3, <2>1, <2>2 DEF Pending, NewRef
  <1> QED
    BY <1>1, <1>2, <1>3

\* Delivering the first completion releases its owner, or leaves the others'
\* completions in the queue.
LEMMA DeliverWaiter ==
    ASSUME WaiterInv, cq # <<>>, cq' = Tail(cq),
           UNCHANGED <<sq, inflight, cur>>,
           NEW p \in Ops, phase[p] = "busy",
           Head(cq).op # p \/ Head(cq).more
    PROVE  Pending(p)'
  <1> DEFINE r == [id |-> cur[p], op |-> p]
  <1>1. Pending(p)
    BY DEF WaiterInv, NoLostWaiter
  <1>2. Elements(cq) = Elements(cq') \cup {Head(cq)}
    BY TailElements DEF WaiterInv, TypeOK
  <1>3. ASSUME NEW c \in Elements(cq), RefOf(c) = r, ~c.more
        PROVE  c \in Elements(cq')
    BY <1>2, <1>3 DEF RefOf
  <1>4. (SqRefs \cup inflight)' = SqRefs \cup inflight
    BY DEF SqRefs
  <1>5. cur'[p] = cur[p]
    OBVIOUS
  <1> QED
    BY <1>1, <1>3, <1>4, <1>5 DEF Pending

LEMMA NextWaiter ==
    ASSUME OnePromise, WaiterInv, [Next]_vars PROVE WaiterInv'
  <1> USE DEF WaiterInv
  <1>0. TypeOK'
    BY NextType
  <1>1. CASE DoInit \/ StartFromDisabled \/ StopBegin \/ StopReturn
    <2>1. UNCHANGED <<sq, inflight, cq, objectVars, waiting>> /\ pc # "wait"
      BY <1>1 DEF DoInit, StartFromDisabled, StopBegin, StopReturn, kernelVars
    <2>2. NoLostWaiter'
      BY <2>1 DEF NoLostWaiter, Pending, SqRefs, objectVars
    <2> QED
      BY <1>0, <2>1, <2>2 DEF SyncBlocks, HandlerFits, objectVars
  <1>2. CASE Exit
    <2>1. \A o \in Ops : phase'[o] # "busy"
      BY <1>2 DEF Exit, TypeOK
    <2> QED
      BY <1>0, <1>2, <2>1 DEF Exit, SyncBlocks, HandlerFits, NoLostWaiter
  <1>3. ASSUME NEW o \in Ops, Make(o) \/ Destroy(o) PROVE WaiterInv'
    <2>1. /\ UNCHANGED <<sq, inflight, cq, cur, waiting, pc>>
          /\ \A p \in Ops : phase'[p] = "busy" => phase[p] = "busy"
          /\ \A p \in Ops : handler'[p] => handler[p]
          /\ \A p \in Ops : phase'[p] = "busy" => promise'[p] = promise[p]
      <3>1. CASE Make(o)
        BY <3>1 DEF Make, TypeOK, kernelVars
      <3>2. CASE Destroy(o)
        BY <3>2 DEF Destroy, TypeOK, kernelVars
      <3> QED
        BY <1>3, <3>1, <3>2
    <2>2. NoLostWaiter'
      BY <2>1 DEF NoLostWaiter, Pending, SqRefs
    <2> QED
      BY <1>0, <2>1, <2>2 DEF SyncBlocks, HandlerFits
  <1>4. ASSUME NEW o \in Ops, Submit(o) PROVE WaiterInv'
    <2>1. NoLostWaiter'
      BY <1>4, SubmitWaiter DEF Submit
    <2>2. \A p \in Ops : phase'[p] = "busy" => phase[p] = "busy" \/ p = o
      BY <1>4 DEF Submit, DoSubmitOk, TypeOK
    <2>3. UNCHANGED <<handler, promise, pc, waiting>>
      BY <1>4 DEF Submit
    <2>4. Kind[o] # "sync" /\ Kind[o] # "await"
      BY <1>4 DEF Submit
    <2>5. SyncBlocks'
      BY <2>2, <2>3, <2>4 DEF SyncBlocks
    <2> QED
      BY <1>0, <2>1, <2>2, <2>3, <2>4, <2>5 DEF HandlerFits
  <1>5. ASSUME NEW o \in Ops, SubmitAndWait(o) PROVE WaiterInv'
    <2>1. NoLostWaiter'
      BY <1>5, SubmitWaiter DEF SubmitAndWait
    <2>2. UNCHANGED <<handler, promise>> /\ Kind[o] = "sync" /\ pc = "run"
      BY <1>5 DEF SubmitAndWait, CanSubmit
    <2>3. CASE DoSubmitOk(o) /\ pc' = "wait" /\ waiting' = {o}
      BY <1>0, <2>1, <2>2, <2>3 DEF DoSubmitOk, SyncBlocks, HandlerFits, TypeOK
    <2>4. CASE UNCHANGED <<phase, cur, pc, waiting>>
      BY <1>0, <2>1, <2>2, <2>4 DEF SyncBlocks, HandlerFits
    <2> QED
      BY <1>5, <2>3, <2>4 DEF SubmitAndWait
  <1>6. ASSUME NEW o \in Ops, NEW stopAware \in Promises[o], Await(o, stopAware)
        PROVE  WaiterInv'
    <2>1. NoLostWaiter'
      BY <1>6, SubmitWaiter DEF Await
    <2>2. \A p \in Ops : phase'[p] = "busy" => phase[p] = "busy" \/ p = o
      BY <1>6 DEF Await, DoSubmitOk, TypeOK
    <2>3. UNCHANGED <<pc, waiting>> /\ Kind[o] = "await"
      BY <1>6 DEF Await
    <2>4. SyncBlocks'
      BY <2>2, <2>3 DEF SyncBlocks
    <2>5. stopAware \in BOOLEAN /\ Promises[o] \subseteq BOOLEAN
      BY <1>6, ConstantsAssumption
    <2>6. /\ handler'[o] = (handler[o] \/ stopAware)
          /\ promise'[o] = stopAware
      BY <1>6, <2>5 DEF Await, SetupAwaiterCallback, TypeOK
    <2>7. handler'[o] => stopAware
      <3>1. SUFFICES ASSUME handler[o], stopAware = FALSE PROVE FALSE
        BY <2>5, <2>6
      <3>2. Promises[o] = {TRUE, FALSE}
        BY <2>5, <3>1 DEF HandlerFits
      <3> QED
        BY <3>2 DEF OnePromise
    <2>8. stopAware => TRUE \in Promises[o]
      BY <1>6, <2>5
    <2>9. ASSUME NEW p \in Ops, p # o
          PROVE  handler'[p] = handler[p] /\ promise'[p] = promise[p]
      BY <1>6, <2>9 DEF Await, SetupAwaiterCallback, TypeOK
    <2>10. HandlerFits'
      BY <2>2, <2>3, <2>6, <2>7, <2>8, <2>9 DEF HandlerFits
    <2> QED
      BY <1>0, <2>1, <2>4, <2>10
  <1>7. ASSUME NEW r \in inflight, NEW res \in {"value", "canceled"},
               NEW more \in BOOLEAN, Complete(r, res, more)
        PROVE  WaiterInv'
    <2> DEFINE c == [id |-> r.id, op |-> r.op, res |-> res, more |-> more]
    <2>1. UNCHANGED <<sq, phase, handler, promise, cur, waiting, pc>>
      BY <1>7 DEF Complete, objectVars
    <2>2. c \in Cqe /\ cq \in Seq(Cqe)
      BY <1>7 DEF TypeOK, Ref, Cqe
    <2>3. cq' = Append(cq, c)
      BY <1>7 DEF Complete
    <2>4. Elements(cq') = Elements(cq) \cup {c}
      BY <2>2, <2>3, AppendElements
    <2>5. r \in inflight' \/ ~c.more
      BY <1>7 DEF Complete
    <2>6. \A q \in inflight : q \in inflight' \/ q = r
      BY <1>7 DEF Complete
    <2>7. RefOf(c) = r
      BY <1>7 DEF RefOf, TypeOK, Ref
    <2>8. ASSUME NEW p \in Ops, Pending(p) PROVE Pending(p)'
      BY <2>1, <2>4, <2>5, <2>6, <2>7, <2>8 DEF Pending, SqRefs, RefOf
    <2>9. NoLostWaiter'
      BY <2>1, <2>8 DEF NoLostWaiter
    <2> QED
      BY <1>0, <2>1, <2>9 DEF SyncBlocks, HandlerFits
  <1>8. CASE Reap
    <2> DEFINE c == Head(cq)
    <2>1. c \in Cqe /\ c.op \in Ops
      BY <1>8, HeadType DEF Reap
    <2>2. UNCHANGED <<sq, inflight, handler, promise, cur, waiting>> /\ pc = "run"
      BY <1>8 DEF Reap
    <2>3. \A p \in Ops : phase'[p] = "busy" =>
                            phase[p] = "busy" /\ (c.op # p \/ c.more)
      <3>1. CASE Misfire(c)
        <4>1. phase[c.op] # "busy"
          BY <2>1, <3>1 DEF Misfire, Undefined, Stopped, HandlerFits
        <4> QED
          BY <3>1, <4>1 DEF Misfire
      <3>2. CASE phase' = PhaseAfter(c)
        <4>1. Kind[c.op] = "sync" => phase[c.op] # "busy"
          BY <2>1, <2>2 DEF SyncBlocks
        <4> QED
          BY <2>1, <3>2, <4>1 DEF PhaseAfter, TypeOK
      <3> QED
        BY <1>8, <3>1, <3>2 DEF Reap
    <2>4. cq # <<>> /\ cq' = Tail(cq)
      BY <1>8 DEF Reap
    <2>5. NoLostWaiter'
      BY <2>2, <2>3, <2>4, DeliverWaiter DEF NoLostWaiter
    <2>6. SyncBlocks'
      BY <2>2, <2>3 DEF SyncBlocks
    <2>7. HandlerFits'
      BY <2>2, <2>3 DEF HandlerFits
    <2> QED
      BY <1>0, <2>5, <2>6, <2>7
  <1>9. ASSUME NEW w \in Ops, WaitReturn(w) PROVE WaiterInv'
    <2> DEFINE c == Head(cq)
    <2>1. c \in Cqe /\ c.op \in Ops
      BY <1>9, HeadType DEF WaitReturn
    <2>2. /\ UNCHANGED <<sq, inflight, handler, promise, cur>>
          /\ w \in waiting
          /\ cq # <<>> /\ cq' = Tail(cq)
      BY <1>9 DEF WaitReturn
    <2>3. \A p \in Ops : phase'[p] = "busy" =>
                            phase[p] = "busy" /\ p # w /\ (c.op # p \/ c.more)
      <3>1. CASE Undefined(c) /\ phase' = [phase EXCEPT ![w] = "idle"]
        <4>1. phase[c.op] # "busy"
          BY <2>1, <3>1 DEF Undefined, Stopped, HandlerFits
        <4> QED
          BY <3>1, <4>1 DEF TypeOK
      <3>2. CASE phase' = [PhaseAfter(c) EXCEPT ![w] = "idle"]
        <4>1. Kind[c.op] = "sync" /\ phase[c.op] = "busy" => c.op = w
          BY <2>1, <2>2 DEF SyncBlocks
        <4> QED
          BY <2>1, <3>2, <4>1 DEF PhaseAfter, TypeOK
      <3> QED
        BY <1>9, <3>1, <3>2 DEF WaitReturn
    <2>4. NoLostWaiter'
      BY <2>2, <2>3, DeliverWaiter DEF NoLostWaiter
    <2>5. SyncBlocks'
      BY <2>2, <2>3 DEF SyncBlocks
    <2>6. HandlerFits'
      BY <2>2, <2>3 DEF HandlerFits
    <2> QED
      BY <1>0, <2>4, <2>5, <2>6
  <1>10. ASSUME NEW w \in Ops, WaitError(w) PROVE WaiterInv'
    <2>1. UNCHANGED <<sq, inflight, cq, handler, promise, cur>> /\ w \in waiting
      BY <1>10 DEF WaitError, kernelVars
    <2>2. \A p \in Ops : phase'[p] = "busy" => phase[p] = "busy" /\ p # w
      BY <1>10 DEF WaitError, TypeOK
    <2>3. NoLostWaiter'
      BY <2>1, <2>2 DEF NoLostWaiter, Pending, SqRefs
    <2> QED
      BY <1>0, <2>1, <2>2, <2>3 DEF SyncBlocks, HandlerFits
  <1>11. CASE UNCHANGED vars
    <2>1. NoLostWaiter'
      BY <1>11 DEF NoLostWaiter, Pending, SqRefs, vars, kernelVars, objectVars
    <2> QED
      BY <1>0, <1>11, <2>1 DEF SyncBlocks, HandlerFits, vars, objectVars
  <1> QED
    BY <1>1, <1>2, <1>3, <1>4, <1>5, <1>6, <1>7, <1>8, <1>9, <1>10, <1>11 DEF Next

\* Whatever io_uring_submit and io_uring_wait_cqe do, and however the styles
\* are mixed on one ring, an owner who was told that its operation is under
\* way has the completion of that submission still ahead of it.
THEOREM WaitersServed ==
    ASSUME OnePromise PROVE Spec => []NoLostWaiter
  <1>1. Init => WaiterInv
    BY InitWaiter
  <1>2. WaiterInv /\ [Next]_vars => WaiterInv'
    BY NextWaiter
  <1>3. WaiterInv => NoLostWaiter
    BY DEF WaiterInv
  <1> QED
    BY <1>1, <1>2, <1>3, PTL DEF Spec

-----------------------------------------------------------------------------
(* No completion reaches an object that did not ask for it *)

\* io_uring_submit and io_uring_wait_cqe do not fail, the ring is not created
\* disabled, submit_and_wait is not used next to other operations, and no
\* object is awaited by both kinds of coroutine.  Every conjunct is needed:
\* without it TLC finds NoOrphan, SyncReturnsOwn or StopHandlerFits violated.
NoFaults ==
    /\ MaxSubmitErrors = 0
    /\ MaxWaitErrors = 0
    /\ MayDisable = FALSE
    /\ SyncShared = FALSE
    /\ OnePromise

\* After the final completion of a submission there is nothing left of it.
FinalIsLast ==
    \A i \in 1..Len(cq) : ~cq[i].more =>
        /\ RefOf(cq[i]) \notin inflight
        /\ \A j \in 1..Len(cq) : RefOf(cq[j]) = RefOf(cq[i]) => j <= i

\* Only a multishot request announces more.
MoreIsMultishot ==
    \A i \in 1..Len(cq) : cq[i].more => Kind[cq[i].op] = "multishot"

\* Whoever blocks in submit_and_wait is alone on the ring.
AloneInWait ==
    /\ pc \in {"run", "stop"} => waiting = {}
    /\ \A o \in waiting : /\ waiting = {o}
                          /\ Kind[o] = "sync"
                          /\ \A r \in Refs : r.op = o

QueueEmpty == ring # "disabled" /\ sq = <<>> /\ pc # "crashed"

OwnedInv ==
    /\ WaiterInv
    /\ QueueEmpty
    /\ NoOrphan
    /\ FinalIsLast
    /\ MoreIsMultishot
    /\ AloneInWait

LEMMA InRefs ==
    ASSUME sq = <<>>
    PROVE  \A r : r \in Refs <=> r \in inflight \/ \E i \in 1..Len(cq) : r = RefOf(cq[i])
  <1>1. SqRefs = {}
    BY DEF SqRefs, Elements
  <1> QED
    BY <1>1 DEF Refs, CqRefs, Elements

LEMMA RefsType ==
    ASSUME TypeOK, sq = <<>>
    PROVE  /\ Refs \subseteq Ref
           /\ \A r \in Refs : r = [id |-> r.id, op |-> r.op] /\ r.op \in Ops
  <1>1. \A i \in 1..Len(cq) : cq[i] \in Cqe
    BY DEF TypeOK
  <1>2. \A i \in 1..Len(cq) : RefOf(cq[i]) \in Ref
    BY <1>1 DEF RefOf, Ref, Cqe
  <1>3. Refs \subseteq Ref
    BY <1>2, InRefs DEF TypeOK
  <1> QED
    BY <1>3 DEF Ref

\* do_submit hands its one entry to the kernel, or touches nothing.
LEMMA CleanSubmit ==
    ASSUME NoFaults, OwnedInv, NEW o \in Ops, CanSubmit(o), cq' = cq, ring' = ring,
           DoSubmitOk(o) \/ (DoSubmitError(o) /\ UNCHANGED <<phase, cur>>)
    PROVE  /\ sq' = <<>>
           /\ NoOrphan'
           /\ FinalIsLast'
           /\ Refs' \subseteq Refs \cup {NewRef(o)}
           /\ DoSubmitOk(o) \/ Refs' = Refs
  <1> USE DEF OwnedInv, WaiterInv
  <1>1. sq = <<>> /\ ring = "running" /\ submitErrors = 0
    BY ConstantsAssumption DEF QueueEmpty, CanSubmit, TypeOK, NoFaults
  <1>2. \A r \in Refs : r.op # o
    BY DEF NoOrphan, Owned, CanSubmit
  <1>3. CASE DoSubmitError(o) /\ UNCHANGED <<phase, cur>>
    <2>1. ~EnterFails(o)
      BY <1>1, ConstantsAssumption DEF EnterFails, NoFaults
    <2>2. UNCHANGED <<sq, inflight>>
      BY <1>3, <2>1 DEF DoSubmitError, Refused, SqFull
    <2>3. Refs' = Refs
      BY <2>2 DEF Refs, SqRefs, CqRefs
    <2> QED
      BY <1>1, <1>3, <2>2, <2>3 DEF NoOrphan, Owned, FinalIsLast
  <1>4. CASE DoSubmitOk(o)
    <2> DEFINE all == Append(sq, NewRef(o))
    <2>1. all = <<NewRef(o)>>
      BY <1>1
    <2>2. sq' = <<>> /\ inflight' = inflight \cup {NewRef(o)}
      <3>1. PICK n \in 1..Len(all) :
              /\ sq' = SubSeq(all, n + 1, Len(all))
              /\ inflight' = inflight \cup {all[i] : i \in 1..n}
        BY <1>4 DEF DoSubmitOk, EnterTakes
      <3>2. n = 1 /\ Len(all) = 1 /\ all[1] = NewRef(o)
        BY <2>1, <3>1
      <3> QED
        BY <2>1, <3>1, <3>2
    <2>3. NewRef(o).op = o /\ NewRef(o).id = nsub + 1
      BY DEF NewRef
    <2>4. Refs' = Refs \cup {NewRef(o)}
      BY <1>1, <2>2, InRefs DEF Refs, SqRefs, CqRefs
    <2>5. /\ phase'[o] = "busy" /\ cur'[o] = nsub + 1
          /\ \A p \in Ops : p # o => phase'[p] = phase[p] /\ cur'[p] = cur[p]
      BY <1>4 DEF DoSubmitOk, EnterTakes, FillSqe, TypeOK
    <2>6. \A r \in Refs : r.op \in Ops
      BY <1>1, RefsType
    <2>7. NoOrphan'
      BY <1>2, <2>3, <2>4, <2>5, <2>6 DEF NoOrphan, Owned
    <2>8. \A i \in 1..Len(cq) : RefOf(cq[i]) # NewRef(o)
      BY <1>1, <1>2, <2>3, InRefs
    <2>9. FinalIsLast'
      BY <2>2, <2>8 DEF FinalIsLast
    <2> QED
      BY <1>4, <2>2, <2>4, <2>7, <2>9
  <1> QED
    BY <1>3, <1>4

\* Delivering the first completion, and releasing its owner if it is final.
LEMMA CleanDeliver ==
    ASSUME OwnedInv, cq # <<>>, cq' = Tail(cq), UNCHANGED <<sq, inflight, cur>>,
           phase' = IF Head(cq).more THEN phase
                    ELSE [phase EXCEPT ![Head(cq).op] = "idle"]
    PROVE  /\ NoOrphan'
           /\ FinalIsLast'
           /\ MoreIsMultishot'
           /\ Refs' \subseteq Refs
           /\ RefOf(Head(cq)) \in Refs
  <1> USE DEF OwnedInv, WaiterInv
  <1> DEFINE c == Head(cq)
  <1>1. sq = <<>> /\ sq' = <<>>
    BY DEF QueueEmpty
  <1>2. /\ cq \in Seq(Cqe) /\ Len(cq) \in Nat /\ Len(cq') \in Nat
        /\ Len(cq) = Len(cq') + 1
        /\ c = cq[1]
        /\ \A i \in 1..Len(cq') : cq'[i] = cq[i + 1]
    BY DEF TypeOK
  <1>3. 1 \in 1..Len(cq) /\ \A i \in 1..Len(cq') : i + 1 \in 1..Len(cq)
    BY <1>2
  <1>4. RefOf(c) \in Refs
    BY <1>1, <1>2, <1>3, InRefs
  <1>5. \A r : r \in Refs' <=> r \in inflight \/ \E i \in 1..Len(cq') : r = RefOf(cq'[i])
    <2>1. \A r : r \in Refs' <=> r \in inflight' \/ \E i \in 1..Len(cq') : r = RefOf(cq'[i])
      <3>1. SqRefs' = {}
        BY <1>1 DEF SqRefs, Elements
      <3> QED
        BY <3>1 DEF Refs, CqRefs, Elements
    <2> QED
      BY <2>1
  <1>6. Refs' \subseteq Refs
    BY <1>1, <1>2, <1>3, <1>5, InRefs
  <1>7. FinalIsLast'
    <2> SUFFICES ASSUME NEW i \in 1..Len(cq'), ~cq'[i].more
                 PROVE  /\ RefOf(cq'[i]) \notin inflight
                        /\ \A j \in 1..Len(cq') : RefOf(cq'[j]) = RefOf(cq'[i]) => j <= i
      BY DEF FinalIsLast
    <2>1. /\ RefOf(cq[i + 1]) \notin inflight
          /\ \A j \in 1..Len(cq) : RefOf(cq[j]) = RefOf(cq[i + 1]) => j <= i + 1
      BY <1>2, <1>3 DEF FinalIsLast
    <2>2. ASSUME NEW j \in 1..Len(cq'), RefOf(cq'[j]) = RefOf(cq'[i]) PROVE j <= i
      <3>1. j + 1 <= i + 1
        BY <1>2, <1>3, <2>1, <2>2
      <3> QED
        BY <3>1
    <2> QED
      BY <1>2, <2>1, <2>2
  <1>8. MoreIsMultishot'
    BY <1>2, <1>3 DEF MoreIsMultishot
  <1>9. c.op \in Ops /\ Owned(RefOf(c)) /\ RefOf(c).op = c.op /\ RefOf(c).id = c.id
    <2>1. Owned(RefOf(c))
      BY <1>4 DEF NoOrphan
    <2>2. c.op \in Ops
      BY HeadType
    <2>3. RefOf(c).op = c.op /\ RefOf(c).id = c.id
      BY DEF RefOf
    <2> QED
      BY <2>1, <2>2, <2>3
  <1>10. ASSUME c.more PROVE NoOrphan'
    BY <1>6, <1>10 DEF NoOrphan, Owned
  <1>11. ASSUME ~c.more PROVE NoOrphan'
    <2>1. RefOf(c) \notin Refs'
      <3>1. /\ RefOf(cq[1]) \notin inflight
            /\ \A j \in 1..Len(cq) : RefOf(cq[j]) = RefOf(cq[1]) => j <= 1
        BY <1>2, <1>3, <1>11 DEF FinalIsLast
      <3>2. \A i \in 1..Len(cq') : ~(i + 1 <= 1)
        BY <1>2
      <3> QED
        BY <1>2, <1>3, <1>5, <3>1, <3>2
    <2>2. \A r \in Refs : r = [id |-> r.id, op |-> r.op] /\ r.op \in Ops
      BY <1>1, RefsType
    <2>3. ASSUME NEW r \in Refs' PROVE r.op # c.op
      <3>1. SUFFICES ASSUME r.op = c.op PROVE FALSE
        OBVIOUS
      <3>2. r.id = c.id
        BY <1>6, <1>9, <3>1 DEF NoOrphan, Owned
      <3> QED
        BY <1>6, <2>1, <2>2, <2>3, <3>1, <3>2 DEF RefOf
    <2>4. \A p \in Ops : p # c.op => phase'[p] = phase[p]
      BY <1>9, <1>11 DEF TypeOK
    <2> HIDE DEF c
    <2>5. ASSUME NEW r \in Refs' PROVE Owned(r)'
      <3>1. r \in Refs /\ r.op \in Ops /\ r.op # c.op
        BY <1>6, <2>2, <2>3
      <3>2. phase'[r.op] = phase[r.op] /\ cur'[r.op] = cur[r.op]
        BY <2>4, <3>1
      <3> QED
        BY <3>1, <3>2 DEF NoOrphan, Owned
    <2> QED
      BY <2>5 DEF NoOrphan
  <1>12. NoOrphan'
    BY <1>10, <1>11
  <1> QED
    BY <1>4, <1>6, <1>7, <1>8, <1>12

LEMMA InitOwned == Init => OwnedInv
  <1> SUFFICES ASSUME Init PROVE OwnedInv
    OBVIOUS
  <1>1. sq = <<>> /\ cq = <<>> /\ inflight = {} /\ waiting = {}
    BY DEF Init
  <1>2. Refs = {}
    BY <1>1 DEF Refs, SqRefs, CqRefs, Elements
  <1>3. WaiterInv /\ QueueEmpty
    BY InitWaiter DEF Init, QueueEmpty
  <1> QED
    BY <1>1, <1>2, <1>3
       DEF OwnedInv, NoOrphan, FinalIsLast, MoreIsMultishot, AloneInWait

\* The callback of a completion whose owner waits for it is well defined.
LEMMA NotUndefined ==
    ASSUME OwnedInv, cq # <<>>
    PROVE  /\ ~Undefined(Head(cq))
           /\ phase[Head(cq).op] = "busy"
           /\ cur[Head(cq).op] = Head(cq).id
           /\ RefOf(Head(cq)) \in Refs
  <1> DEFINE c == Head(cq)
  <1>1. c \in Cqe /\ c.op \in Ops
    BY HeadType DEF OwnedInv, WaiterInv
  <1>2. RefOf(c) \in Refs
    <2>1. c = cq[1] /\ 1 \in 1..Len(cq)
      BY DEF OwnedInv, WaiterInv, TypeOK
    <2> QED
      BY <2>1, InRefs DEF OwnedInv, QueueEmpty
  <1>3. phase[c.op] = "busy" /\ cur[c.op] = c.id
    <2>1. Owned(RefOf(c))
      BY <1>2 DEF OwnedInv, NoOrphan
    <2> QED
      BY <2>1 DEF Owned, RefOf
  <1>4. handler[c.op] => promise[c.op]
    BY <1>1, <1>3 DEF OwnedInv, WaiterInv, HandlerFits
  <1> QED
    BY <1>2, <1>3, <1>4 DEF Undefined, Stopped

\* While w blocks, the first completion is its own and final.
LEMMA OwnCompletion ==
    ASSUME OwnedInv, cq # <<>>, NEW w \in waiting
    PROVE  Head(cq).op = w /\ ~Head(cq).more
  <1> DEFINE c == Head(cq)
  <1>1. c.op = w
    <2>1. RefOf(c) \in Refs
      BY NotUndefined
    <2>2. RefOf(c).op = w
      BY <2>1 DEF OwnedInv, AloneInWait
    <2> QED
      BY <2>2 DEF RefOf
  <1>2. Kind[w] = "sync"
    BY DEF OwnedInv, AloneInWait
  <1>3. c = cq[1] /\ 1 \in 1..Len(cq) /\ c \in Cqe
    BY DEF OwnedInv, WaiterInv, TypeOK
  <1>4. c.more => Kind[c.op] = "multishot"
    BY <1>3 DEF OwnedInv, MoreIsMultishot
  <1> QED
    BY <1>1, <1>2, <1>4

LEMMA NextOwned ==
    ASSUME NoFaults, OwnedInv, [Next]_vars PROVE OwnedInv'
  <1>0. WaiterInv'
    BY NextWaiter DEF OwnedInv, NoFaults
  <1> USE DEF OwnedInv
  <1>1. CASE DoInit \/ StartFromDisabled \/ StopBegin \/ StopReturn
    <2>1. /\ UNCHANGED <<sq, inflight, cq, objectVars, waiting>>
          /\ pc \in {"run", "stop"} /\ pc' \in {"run", "stop"}
          /\ ring' # "disabled"
      BY <1>1 DEF DoInit, StartFromDisabled, StopBegin, StopReturn, kernelVars,
                  QueueEmpty, NoFaults
    <2>2. Refs' = Refs
      BY <2>1 DEF Refs, SqRefs, CqRefs
    <2> QED
      BY <1>0, <2>1, <2>2 DEF QueueEmpty, NoOrphan, Owned, FinalIsLast,
                              MoreIsMultishot, AloneInWait, objectVars
  <1>2. CASE Exit
    <2>1. sq' = <<>> /\ cq' = <<>> /\ inflight' = {} /\ pc = "run"
          /\ pc' = pc /\ waiting' = waiting /\ ring' = "invalid"
      BY <1>2 DEF Exit
    <2>2. Refs' = {}
      BY <2>1 DEF Refs, SqRefs, CqRefs, Elements
    <2> QED
      BY <1>0, <2>1, <2>2 DEF QueueEmpty, NoOrphan, FinalIsLast,
                              MoreIsMultishot, AloneInWait
  <1>3. ASSUME NEW o \in Ops, Make(o) \/ Destroy(o) PROVE OwnedInv'
    <2>1. /\ UNCHANGED <<ring, sq, inflight, cq, cur, waiting, pc>>
          /\ phase[o] # "busy" /\ pc = "run"
      BY <1>3 DEF Make, Destroy, kernelVars
    <2>2. \A p \in Ops : p # o => phase'[p] = phase[p]
      BY <1>3 DEF Make, Destroy, WaiterInv, TypeOK
    <2>3. Refs' = Refs
      BY <2>1 DEF Refs, SqRefs, CqRefs
    <2>4. \A r \in Refs : r.op \in Ops
      BY RefsType DEF WaiterInv, QueueEmpty
    <2>5. NoOrphan'
      BY <2>1, <2>2, <2>3, <2>4 DEF NoOrphan, Owned
    <2> QED
      BY <1>0, <2>1, <2>3, <2>5 DEF QueueEmpty, FinalIsLast, MoreIsMultishot, AloneInWait
  <1>4. ASSUME NEW o \in Ops,
               Submit(o) \/ \E stopAware \in Promises[o] : Await(o, stopAware)
        PROVE  OwnedInv'
    <2>1. /\ CanSubmit(o) /\ UNCHANGED <<ring, cq, waiting, pc>>
          /\ DoSubmitOk(o) \/ (DoSubmitError(o) /\ UNCHANGED <<phase, cur>>)
      BY <1>4 DEF Submit, Await
    <2>2. sq' = <<>> /\ NoOrphan' /\ FinalIsLast'
      BY <2>1, CleanSubmit
    <2>3. waiting = {}
      BY <2>1 DEF CanSubmit, AloneInWait
    <2> QED
      BY <1>0, <2>1, <2>2, <2>3 DEF QueueEmpty, MoreIsMultishot, AloneInWait
  <1>5. ASSUME NEW o \in Ops, SubmitAndWait(o) PROVE OwnedInv'
    <2>1. /\ CanSubmit(o) /\ UNCHANGED <<ring, cq>> /\ Kind[o] = "sync"
          /\ DoSubmitOk(o) \/ (DoSubmitError(o) /\ UNCHANGED <<phase, cur>>)
          /\ \A p \in Ops : phase[p] # "busy"
      BY <1>5 DEF SubmitAndWait, NoFaults
    <2>2. /\ sq' = <<>> /\ NoOrphan' /\ FinalIsLast'
          /\ Refs' \subseteq Refs \cup {NewRef(o)}
      BY <2>1, CleanSubmit
    <2>3. Refs = {}
      <3>1. \A r \in Refs : r.op \in Ops
        BY RefsType DEF WaiterInv, QueueEmpty
      <3> QED
        BY <2>1, <3>1 DEF NoOrphan, Owned
    <2>4. \A r \in Refs' : r.op = o
      BY <2>2, <2>3 DEF NewRef
    <2>5. waiting = {} /\ pc = "run"
      BY <2>1 DEF CanSubmit, AloneInWait
    <2>6. \/ pc' = "wait" /\ waiting' = {o}
          \/ UNCHANGED <<pc, waiting>>
      BY <1>5 DEF SubmitAndWait
    <2>7. AloneInWait'
      BY <2>1, <2>4, <2>5, <2>6 DEF AloneInWait
    <2> QED
      BY <1>0, <2>1, <2>2, <2>5, <2>6, <2>7 DEF QueueEmpty, MoreIsMultishot
  <1>6. ASSUME NEW r \in inflight, NEW res \in {"value", "canceled"},
               NEW more \in BOOLEAN, Complete(r, res, more)
        PROVE  OwnedInv'
    <2> DEFINE c == [id |-> r.id, op |-> r.op, res |-> res, more |-> more]
    <2>1. /\ UNCHANGED <<ring, sq, phase, cur, waiting, pc>>
          /\ cq' = Append(cq, c)
          /\ inflight' \subseteq inflight
          /\ ~more => r \notin inflight'
          /\ more => Kind[r.op] = "multishot"
      BY <1>6 DEF Complete, objectVars
    <2>2. RefOf(c) = r
      BY <1>6 DEF RefOf, WaiterInv, TypeOK, Ref
    <2>3. /\ Len(cq) \in Nat /\ Len(cq') = Len(cq) + 1
          /\ \A i \in 1..Len(cq) : cq'[i] = cq[i]
          /\ cq'[Len(cq) + 1] = c
      BY <2>1 DEF WaiterInv, TypeOK
    <2>4. \A i \in 1..Len(cq') : i \in 1..Len(cq) \/ i = Len(cq) + 1
      BY <2>3
    <2>5. c.more = more /\ c.op = r.op
      OBVIOUS
    <2> HIDE DEF c
    <2>6. Refs' \subseteq Refs
      <3>1. sq = <<>> /\ sq' = <<>> /\ SqRefs' = {}
        BY <2>1 DEF QueueEmpty, SqRefs, Elements
      <3>2. \A q \in Refs' : q \in inflight' \/ \E i \in 1..Len(cq') : q = RefOf(cq'[i])
        BY <3>1 DEF Refs, CqRefs, Elements
      <3> QED
        BY <2>1, <2>2, <2>3, <2>4, <3>1, <3>2, InRefs
    <2>7. NoOrphan' /\ AloneInWait'
      BY <2>1, <2>6 DEF NoOrphan, Owned, AloneInWait
    <2>8. FinalIsLast'
      <3>1. ASSUME NEW i \in 1..Len(cq), ~cq'[i].more
            PROVE  /\ RefOf(cq'[i]) \notin inflight'
                   /\ \A j \in 1..Len(cq') : RefOf(cq'[j]) = RefOf(cq'[i]) => j <= i
        <4>1. RefOf(cq[i]) \notin inflight
          BY <2>3, <3>1 DEF FinalIsLast
        <4>2. RefOf(cq'[Len(cq) + 1]) # RefOf(cq'[i])
          BY <2>2, <2>3, <4>1
        <4> QED
          BY <2>1, <2>3, <2>4, <3>1, <4>1, <4>2 DEF FinalIsLast
      <3>2. ASSUME ~cq'[Len(cq) + 1].more
            PROVE  /\ RefOf(cq'[Len(cq) + 1]) \notin inflight'
                   /\ \A j \in 1..Len(cq') : j <= Len(cq) + 1
        BY <2>1, <2>2, <2>3, <2>5, <3>2
      <3> QED
        BY <2>4, <3>1, <3>2 DEF FinalIsLast
    <2>9. MoreIsMultishot'
      BY <2>1, <2>3, <2>4, <2>5 DEF MoreIsMultishot
    <2> QED
      BY <1>0, <2>1, <2>7, <2>8, <2>9 DEF QueueEmpty
  <1>7. CASE Reap
    <2> DEFINE c == Head(cq)
    <2>1. /\ cq # <<>> /\ cq' = Tail(cq) /\ pc = "run" /\ pc' = pc
          /\ UNCHANGED <<ring, sq, inflight, cur, waiting>>
          /\ phase' = PhaseAfter(c)
      BY <1>7, NotUndefined DEF Reap, Misfire
    <2>2. phase[c.op] = "busy" /\ c.op \in Ops
      BY <2>1, NotUndefined, HeadType DEF WaiterInv
    <2>3. Kind[c.op] # "sync"
      BY <2>1, <2>2 DEF WaiterInv, SyncBlocks
    <2>4. phase' = IF c.more THEN phase ELSE [phase EXCEPT ![c.op] = "idle"]
      BY <2>1, <2>2, <2>3 DEF PhaseAfter
    <2>5. NoOrphan' /\ FinalIsLast' /\ MoreIsMultishot'
      BY <2>1, <2>4, CleanDeliver
    <2>6. waiting = {}
      BY <2>1 DEF AloneInWait
    <2> QED
      BY <1>0, <2>1, <2>5, <2>6 DEF QueueEmpty, AloneInWait
  <1>8. ASSUME NEW w \in Ops, WaitReturn(w) PROVE OwnedInv'
    <2> DEFINE c == Head(cq)
    <2>1. /\ cq # <<>> /\ cq' = Tail(cq) /\ pc' = "run" /\ waiting' = {}
          /\ UNCHANGED <<ring, sq, inflight, cur>>
          /\ w \in waiting
          /\ phase' = [PhaseAfter(c) EXCEPT ![w] = "idle"]
      BY <1>8, NotUndefined DEF WaitReturn
    <2>2. c.op = w /\ ~c.more /\ Kind[w] = "sync"
      BY <2>1, OwnCompletion DEF AloneInWait
    <2>3. phase' = IF c.more THEN phase ELSE [phase EXCEPT ![c.op] = "idle"]
      BY <2>1, <2>2 DEF PhaseAfter
    <2>4. NoOrphan' /\ FinalIsLast' /\ MoreIsMultishot'
      BY <2>1, <2>3, CleanDeliver
    <2> QED
      BY <1>0, <2>1, <2>4 DEF QueueEmpty, AloneInWait
  <1>9. ASSUME NEW w \in Ops, WaitError(w) PROVE OwnedInv'
    BY <1>9, ConstantsAssumption DEF WaitError, WaiterInv, TypeOK, NoFaults
  <1>10. CASE UNCHANGED vars
    <2>1. Refs' = Refs
      BY <1>10 DEF Refs, SqRefs, CqRefs, vars, kernelVars
    <2> QED
      BY <1>0, <1>10, <2>1 DEF vars, kernelVars, objectVars, QueueEmpty, NoOrphan,
           Owned, FinalIsLast, MoreIsMultishot, AloneInWait
  <1> QED
    BY <1>1, <1>2, <1>3, <1>4, <1>5, <1>6, <1>7, <1>8, <1>9, <1>10 DEF Next

\* With no failing system call and a caller that keeps the styles apart, every
\* user_data in the queues or the kernel points to a live object whose owner
\* waits for that very submission.
THEOREM NobodyOrphaned ==
    ASSUME NoFaults PROVE Spec => []NoOrphan
  <1>1. Init => OwnedInv
    BY InitOwned
  <1>2. OwnedInv /\ [Next]_vars => OwnedInv'
    BY NextOwned
  <1>3. OwnedInv => NoOrphan
    BY DEF OwnedInv
  <1> QED
    BY <1>1, <1>2, <1>3, PTL DEF Spec

\* The call that returns from submit_and_wait with a completion returns the
\* result of the operation it was called on.
THEOREM SyncOwnResult ==
    ASSUME NoFaults PROVE Spec => SyncReturnsOwn
  <1> DEFINE A == \A o \in waiting : waiting' = {} /\ cq' # cq => got'[o] = cur[o]
  <1>1. OwnedInv /\ [Next]_vars => [A]_vars
    <2> SUFFICES ASSUME OwnedInv, [Next]_vars, NEW o \in waiting,
                        waiting' = {}, cq' # cq
                 PROVE  got'[o] = cur[o]
      OBVIOUS
    <2>1. waiting # {} /\ o \in Ops /\ pc \notin {"run", "stop"}
      BY DEF OwnedInv, WaiterInv, TypeOK, AloneInWait
    <2>2. ASSUME NEW w \in Ops, WaitReturn(w) PROVE got'[o] = cur[o]
      <3> DEFINE c == Head(cq)
      <3>1. cq # <<>> /\ got' = GotAfter(c)
        BY <2>2, NotUndefined DEF WaitReturn
      <3>2. c.op = o /\ cur[c.op] = c.id
        BY <3>1, OwnCompletion, NotUndefined
      <3>3. ~Stopped(c)
        BY <3>2 DEF Stopped, OwnedInv, AloneInWait
      <3> QED
        BY <2>1, <3>1, <3>2, <3>3 DEF GotAfter, OwnedInv, WaiterInv, TypeOK
    <2>3. ASSUME NEW r \in inflight, NEW res \in {"value", "canceled"},
                 NEW more \in BOOLEAN, Complete(r, res, more)
          PROVE  FALSE
      BY <2>1, <2>3 DEF Complete
    <2>4. ASSUME NEW w \in Ops, WaitError(w) PROVE FALSE
      BY <2>4 DEF WaitError, kernelVars
    <2>5. CASE UNCHANGED vars
      BY <2>5 DEF vars, kernelVars
    <2> QED
      BY <2>1, <2>2, <2>3, <2>4, <2>5 DEF Next, DoInit, Exit, StartFromDisabled,
         StopBegin, StopReturn, Make, Destroy, Submit, SubmitAndWait, Await,
         CanSubmit, Reap, kernelVars
  <1>2. Init => OwnedInv
    BY InitOwned
  <1>3. OwnedInv /\ [Next]_vars => OwnedInv'
    BY NextOwned
  <1> QED
    BY <1>1, <1>2, <1>3, PTL DEF Spec, SyncReturnsOwn

-----------------------------------------------------------------------------
(* The ring implements the promise *)

LEMMA InitPromise == Init => Promise!Init
  <1> SUFFICES ASSUME Init PROVE Promise!Init
    OBVIOUS
  <1>1. Refs = {}
    BY DEF Init, Refs, SqRefs, CqRefs, Elements
  <1> QED
    BY <1>1 DEF Init, Promise!Init

\* Submissions are numbered in order.
Numbered == \A o \in Ops : cur[o] <= nsub

LEMMA NextNumbered ==
    ASSUME TypeOK, Numbered, [Next]_vars PROVE Numbered'
  <1>1. ASSUME NEW o \in Ops, DoSubmitOk(o) PROVE Numbered'
    <2>1. nsub' = nsub + 1 /\ cur' = [cur EXCEPT ![o] = nsub']
      BY <1>1 DEF DoSubmitOk, EnterTakes, FillSqe
    <2> QED
      BY <2>1, ConstantsAssumption DEF Numbered, TypeOK
  <1>2. ASSUME NEW o \in Ops, DoSubmitError(o), cur' = cur PROVE Numbered'
    <2>1. nsub' = nsub \/ nsub' = nsub + 1
      BY <1>2 DEF DoSubmitError, Refused, SqFull, EnterFails, FillSqe
    <2> QED
      BY <1>2, <2>1, ConstantsAssumption DEF Numbered, TypeOK
  <1>3. CASE UNCHANGED <<cur, nsub>>
    BY <1>3 DEF Numbered
  <1>4. ASSUME NEW o \in Ops,
               \/ Submit(o) \/ SubmitAndWait(o)
               \/ \E stopAware \in Promises[o] : Await(o, stopAware)
        PROVE  Numbered'
    BY <1>1, <1>2, <1>4 DEF Submit, SubmitAndWait, Await
  <1>5. CASE \/ DoInit \/ Exit \/ StartFromDisabled \/ StopBegin \/ StopReturn
             \/ Reap
             \/ UNCHANGED vars
    BY <1>3, <1>5 DEF DoInit, Exit, StartFromDisabled, StopBegin, StopReturn,
         Reap, vars, objectVars, boundVars
  <1>6. CASE \/ \E o \in Ops : Make(o) \/ Destroy(o)
             \/ \E r \in inflight, res \in {"value", "canceled"}, more \in BOOLEAN :
                   Complete(r, res, more)
             \/ \E w \in Ops : WaitReturn(w) \/ WaitError(w)
    BY <1>3, <1>6 DEF Make, Destroy, Complete, WaitReturn, WaitError,
         objectVars, boundVars
  <1> QED
    BY <1>4, <1>5, <1>6 DEF Next

\* Delivering a completion removes a submission exactly if it is the final one.
LEMMA DeliverRefs ==
    ASSUME OwnedInv, OwnedInv', cq # <<>>, cq' = Tail(cq),
           UNCHANGED <<sq, inflight, cur>>,
           phase' = IF Head(cq).more THEN phase
                    ELSE [phase EXCEPT ![Head(cq).op] = "idle"]
    PROVE  Refs' = IF Head(cq).more THEN Refs ELSE Refs \ {RefOf(Head(cq))}
  <1>0. PICK c : c = Head(cq)
    OBVIOUS
  <1>1. Refs' \subseteq Refs /\ NoOrphan' /\ RefOf(c) \in Refs
    BY <1>0, CleanDeliver
  <1>2. /\ c.op \in Ops /\ phase[c.op] = "busy" /\ cur[c.op] = c.id
        /\ phase \in [Ops -> {"none", "idle", "busy"}]
    BY <1>0, NotUndefined, HeadType DEF OwnedInv, WaiterInv, TypeOK
  <1>3. Elements(cq) = Elements(cq') \cup {c}
    BY <1>0, TailElements DEF OwnedInv, WaiterInv, TypeOK
  <1>4. \A r \in Refs : r \in Refs' \/ r = RefOf(c)
    BY <1>3 DEF Refs, CqRefs, SqRefs
  <1>5. CASE c.more
    <2>1. phase'[c.op] = "busy" /\ cur'[c.op] = c.id
      BY <1>0, <1>2, <1>5
    <2>2. Pending(c.op)'
      BY <1>2, <2>1 DEF OwnedInv, WaiterInv, NoLostWaiter
    <2>3. RefOf(c) = [id |-> cur'[c.op], op |-> c.op]
      BY <2>1 DEF RefOf
    <2>4. \/ RefOf(c) \in (SqRefs \cup inflight)'
          \/ \E d \in Elements(cq') : RefOf(d) = RefOf(c)
      BY <2>2, <2>3 DEF Pending
    <2>5. RefOf(c) \in Refs'
      BY <2>4 DEF Refs, CqRefs
    <2>6. Refs' = Refs
      BY <1>1, <1>4, <2>5
    <2> QED
      BY <1>0, <1>5, <2>6
  <1>6. CASE ~c.more
    <2>1. phase'[c.op] # "busy" /\ RefOf(c).op = c.op
      BY <1>0, <1>2, <1>6 DEF RefOf
    <2>2. RefOf(c) \notin Refs'
      BY <1>1, <2>1 DEF NoOrphan, Owned
    <2>3. Refs' = Refs \ {RefOf(c)}
      BY <1>1, <1>4, <2>2
    <2> QED
      BY <1>0, <1>6, <2>3
  <1> QED
    BY <1>5, <1>6

\* The callback of a completion is an intermediate report or the end.
LEMMA DeliverPromise ==
    ASSUME OwnedInv, OwnedInv', cq # <<>>, cq' = Tail(cq),
           UNCHANGED <<sq, inflight, cur>>,
           phase' = IF Head(cq).more THEN phase
                    ELSE [phase EXCEPT ![Head(cq).op] = "idle"],
           got' = GotAfter(Head(cq))
    PROVE  Promise!Next
  <1> DEFINE c == Head(cq)
             r == RefOf(c)
  <1>1. r \in Refs /\ phase[c.op] = "busy" /\ r.op = c.op /\ r.id = c.id
    BY NotUndefined DEF RefOf
  <1>2. got' = got \/ got' = [got EXCEPT ![c.op] = c.id]
    BY DEF GotAfter
  <1>3. CASE c.more
    <2>1. Refs' = Refs /\ phase' = phase
      BY <1>3, DeliverRefs
    <2>2. c = cq[1] /\ 1 \in 1..Len(cq)
      BY DEF OwnedInv, WaiterInv, TypeOK
    <2>3. Kind[c.op] = "multishot"
      BY <1>3, <2>2 DEF OwnedInv, MoreIsMultishot
    <2>4. got' = [got EXCEPT ![r.op] = r.id]
      BY <1>1, <2>3 DEF GotAfter, Stopped
    <2> HIDE DEF r, c
    <2>5. Promise!Report(r)
      BY <1>1, <2>1, <2>4 DEF Promise!Report
    <2> QED
      BY <1>1, <2>5 DEF Promise!Next
  <1>4. CASE ~c.more
    <2>1. Refs' = Refs \ {r} /\ phase' = [phase EXCEPT ![r.op] = "idle"]
      BY <1>1, <1>4, DeliverRefs
    <2> HIDE DEF r, c
    <2>2. Promise!Finish(r)
      BY <1>1, <1>2, <2>1 DEF Promise!Finish
    <2> QED
      BY <1>1, <2>2 DEF Promise!Next
  <1> QED
    BY <1>3, <1>4

\* An accepted submission is a new outstanding one.
LEMMA SubmitPromise ==
    ASSUME NoFaults, OwnedInv, Numbered, NEW o \in Ops, CanSubmit(o), cq' = cq,
           ring' = ring, got' = got,
           DoSubmitOk(o) \/ (DoSubmitError(o) /\ UNCHANGED <<phase, cur>>)
    PROVE  Promise!Next \/ UNCHANGED Promise!vars
  <1>1. CASE ~DoSubmitOk(o)
    BY <1>1, CleanSubmit DEF Promise!vars
  <1>2. CASE DoSubmitOk(o)
    <2>1. (SqRefs \cup inflight)' = SqRefs \cup inflight \cup {NewRef(o)}
      BY <1>2, DoSubmitRefs DEF OwnedInv, WaiterInv
    <2>2. Refs' = Refs \cup {NewRef(o)}
      BY <2>1 DEF Refs, CqRefs
    <2>3. \A r \in Refs : r.op # o
      BY DEF OwnedInv, NoOrphan, Owned, CanSubmit
    <2>4. \A r \in Refs : r.id # nsub + 1
      <3>1. \A r \in Refs : r.op \in Ops /\ cur[r.op] = r.id
        BY RefsType DEF OwnedInv, WaiterInv, QueueEmpty, NoOrphan, Owned
      <3>2. \A p \in Ops : cur[p] \in Nat /\ cur[p] <= nsub /\ nsub \in Nat
        BY ConstantsAssumption DEF Numbered, OwnedInv, WaiterInv, TypeOK
      <3> QED
        BY <3>1, <3>2
    <2>5. NewRef(o).op = o /\ NewRef(o).id = nsub + 1
      BY DEF NewRef
    <2>6. phase[o] = "idle" /\ phase' = [phase EXCEPT ![o] = "busy"]
      BY <1>2 DEF CanSubmit, DoSubmitOk
    <2>7. Promise!Accept(o)
      BY <2>2, <2>3, <2>4, <2>5, <2>6 DEF Promise!Accept
    <2> QED
      BY <2>7 DEF Promise!Next
  <1> QED
    BY <1>1, <1>2

LEMMA NextPromise ==
    ASSUME NoFaults, OwnedInv, OwnedInv', Numbered, [Next]_vars
    PROVE  Promise!Next \/ UNCHANGED Promise!vars
  <1>1. CASE DoInit \/ StartFromDisabled \/ StopBegin \/ StopReturn \/ UNCHANGED vars
    <2>1. UNCHANGED <<sq, inflight, cq, phase, got>>
      BY <1>1 DEF DoInit, StartFromDisabled, StopBegin, StopReturn, vars,
                  kernelVars, objectVars
    <2> QED
      BY <2>1 DEF Promise!vars, Refs, SqRefs, CqRefs
  <1>2. CASE Exit
    <2>1. Refs' = {}
      BY <1>2 DEF Exit, Refs, SqRefs, CqRefs, Elements
    <2>2. Promise!Close
      BY <1>2, <2>1 DEF Exit, Promise!Close
    <2> QED
      BY <2>2 DEF Promise!Next
  <1>3. ASSUME NEW o \in Ops, Make(o) \/ Destroy(o) PROVE Promise!Next
    <2>1. Refs' = Refs
      BY <1>3 DEF Make, Destroy, kernelVars, Refs, SqRefs, CqRefs
    <2>2. CASE Make(o)
      BY <2>1, <2>2 DEF Make, Promise!Make, Promise!Next
    <2>3. CASE Destroy(o)
      <3>1. \A r \in Refs : r.op # o
        BY <2>3 DEF Destroy, OwnedInv, NoOrphan, Owned
      <3> QED
        BY <2>1, <2>3, <3>1 DEF Destroy, Promise!Destroy, Promise!Next
    <2> QED
      BY <1>3, <2>2, <2>3
  <1>4. ASSUME NEW o \in Ops,
               \/ Submit(o) \/ SubmitAndWait(o)
               \/ \E stopAware \in Promises[o] : Await(o, stopAware)
        PROVE  Promise!Next \/ UNCHANGED Promise!vars
    <2>1. /\ CanSubmit(o) /\ UNCHANGED <<ring, cq, got>>
          /\ DoSubmitOk(o) \/ (DoSubmitError(o) /\ UNCHANGED <<phase, cur>>)
      BY <1>4 DEF Submit, SubmitAndWait, Await
    <2> QED
      BY <2>1, SubmitPromise
  <1>5. ASSUME NEW r \in inflight, NEW res \in {"value", "canceled"},
               NEW more \in BOOLEAN, Complete(r, res, more)
        PROVE  UNCHANGED Promise!vars
    <2> DEFINE c == [id |-> r.id, op |-> r.op, res |-> res, more |-> more]
    <2>1. /\ cq' = Append(cq, c)
          /\ UNCHANGED <<sq, phase, got>>
          /\ inflight' \subseteq inflight
          /\ \A q \in inflight : q \in inflight' \/ q = r
      BY <1>5 DEF Complete, objectVars
    <2>2. c \in Cqe /\ cq \in Seq(Cqe) /\ RefOf(c) = r
      BY <1>5 DEF OwnedInv, WaiterInv, TypeOK, Ref, Cqe, RefOf
    <2>3. Elements(cq') = Elements(cq) \cup {c}
      BY <2>1, <2>2, AppendElements
    <2> HIDE DEF c
    <2>4. CqRefs' = CqRefs \cup {r}
      BY <2>2, <2>3 DEF CqRefs
    <2>5. Refs' = Refs
      BY <1>5, <2>1, <2>4 DEF Refs, SqRefs
    <2> QED
      BY <2>1, <2>5 DEF Promise!vars
  <1>6. CASE Reap
    <2> DEFINE c == Head(cq)
    <2>1. /\ cq # <<>> /\ cq' = Tail(cq) /\ pc = "run"
          /\ UNCHANGED <<sq, inflight, cur>>
          /\ phase' = PhaseAfter(c) /\ got' = GotAfter(c)
      BY <1>6, NotUndefined DEF Reap, Misfire
    <2>2. phase[c.op] = "busy" /\ c.op \in Ops
      BY <2>1, NotUndefined, HeadType DEF OwnedInv, WaiterInv
    <2>3. Kind[c.op] # "sync"
      BY <2>1, <2>2 DEF OwnedInv, WaiterInv, SyncBlocks
    <2>4. phase' = IF c.more THEN phase ELSE [phase EXCEPT ![c.op] = "idle"]
      BY <2>1, <2>2, <2>3 DEF PhaseAfter
    <2> QED
      BY <2>1, <2>4, DeliverPromise
  <1>7. ASSUME NEW w \in Ops, WaitReturn(w) PROVE Promise!Next
    <2> DEFINE c == Head(cq)
    <2>1. /\ cq # <<>> /\ cq' = Tail(cq) /\ w \in waiting
          /\ UNCHANGED <<sq, inflight, cur>>
          /\ phase' = [PhaseAfter(c) EXCEPT ![w] = "idle"] /\ got' = GotAfter(c)
      BY <1>7, NotUndefined DEF WaitReturn
    <2>2. c.op = w /\ ~c.more /\ Kind[w] = "sync"
      BY <2>1, OwnCompletion DEF OwnedInv, AloneInWait
    <2>3. phase' = IF c.more THEN phase ELSE [phase EXCEPT ![c.op] = "idle"]
      BY <2>1, <2>2 DEF PhaseAfter
    <2> QED
      BY <2>1, <2>3, DeliverPromise
  <1>8. ASSUME NEW w \in Ops, WaitError(w) PROVE FALSE
    BY <1>8, ConstantsAssumption DEF WaitError, OwnedInv, WaiterInv, TypeOK, NoFaults
  <1> QED
    BY <1>1, <1>2, <1>3, <1>4, <1>5, <1>6, <1>7, <1>8 DEF Next

\* With no failing system call and a caller that keeps the styles apart, class
\* ring implements OpPromise: each accepted submission releases its owner
\* exactly once, with its own result, and nothing refers to it afterwards.
THEOREM RingKeepsPromise ==
    ASSUME NoFaults PROVE Spec => KeepsPromise
  <1>1. Init => OwnedInv /\ Numbered /\ Promise!Init
    <2>1. ASSUME Init PROVE Numbered
      <3>1. nsub = 0 /\ \A o \in Ops : cur[o] = 0
        BY <2>1 DEF Init
      <3>2. 0 <= 0
        OBVIOUS
      <3> QED
        BY <3>1, <3>2, Zenon DEF Numbered
    <2> QED
      BY <2>1, InitOwned, InitPromise
  <1>2. OwnedInv /\ Numbered /\ [Next]_vars =>
          OwnedInv' /\ Numbered' /\ [Promise!Next]_(Promise!vars)
    <2> SUFFICES ASSUME OwnedInv, Numbered, [Next]_vars
                 PROVE  OwnedInv' /\ Numbered' /\ [Promise!Next]_(Promise!vars)
      OBVIOUS
    <2>1. OwnedInv'
      BY NextOwned
    <2>2. Numbered'
      BY NextNumbered DEF OwnedInv, WaiterInv
    <2>3. Promise!Next \/ UNCHANGED Promise!vars
      BY <2>1, NextPromise
    <2> QED
      BY <2>1, <2>2, <2>3
  <1> QED
    BY <1>1, <1>2, PTL DEF Spec, KeepsPromise, Promise!Spec
=============================================================================
