--------------------------- MODULE RequestsProofs ---------------------------
(***************************************************************************)
(* Theorems about Requests, for any number of objects, futex words,        *)
(* requests, shots and stores.                                             *)
(***************************************************************************)
EXTENDS Requests, FiniteSetTheorems, SequenceTheorems, TLAPS

-----------------------------------------------------------------------------
(* Requests and completions *)

Objects == Targets \cup Cancels
Kinds == AllTargetKinds \cup AllCancelKinds
Expectations == UNION {[ws -> Int] : ws \in SUBSET Words}
Stages == {"queued", "armed", "firing"}

RequestType ==
    [id : Ids, op : Objects, kind : Kinds, asked : Nat, left : Nat,
     want : Expectations, to : Targets, stage : Stages]

CompletionType ==
    [id : Ids, op : Objects, kind : Kinds, asked : Nat, ev : Int, more : BOOLEAN]

\* What a build() may leave in an SQE.
SqeType == [kind : Kinds, asked : Nat, left : Nat, want : Expectations, to : Targets]

LEMMA NoExpectation == <<>> \in Expectations
  <1>1. <<>> \in [{} -> Int]
    OBVIOUS
  <1> QED
    BY <1>1 DEF Expectations

LEMMA OneShotType ==
    ASSUME NEW k \in Kinds, NEW to \in Targets
    PROVE  OneShot(k, to) \in SqeType /\ OneShot(k, to).kind = k
  BY NoExpectation DEF OneShot, Sqe, SqeType

\* The SQEs of the classes, and their counts: those of a timer are given by
\* repeat(n).
LEMMA TargetSqesType ==
    ASSUME word \in [Words -> Nat], NEW o \in Targets, NEW sqe \in TargetSqes(o)
    PROVE  /\ sqe \in SqeType
           /\ sqe.kind \in AllTargetKinds
           /\ sqe.kind = "mtimeout" => sqe.asked \in Repeats /\ sqe.left = BuildCount(sqe.asked)
  <1> USE RequestsAssumption
  <1>1. AllTargetKinds \subseteq Kinds
    BY DEF Kinds
  <1>2. CASE sqe \in {timeout(o), poll_add(o)}
    BY <1>1, <1>2, OneShotType DEF timeout, poll_add, AllTargetKinds
  <1>3. CASE sqe = poll_multishot(o)
    BY <1>1, <1>3, NoExpectation DEF poll_multishot, Sqe, SqeType, AllTargetKinds
  <1>4. CASE \E n \in Repeats : sqe = multishot_timeout(o, n)
    <2>1. PICK n \in Repeats : sqe = multishot_timeout(o, n)
      BY <1>4
    <2>2. BuildCount(n) \in Nat
      BY DEF BuildCount
    <2> QED
      BY <1>1, <2>1, <2>2, NoExpectation DEF multishot_timeout, Sqe, SqeType, AllTargetKinds
  <1>5. ASSUME NEW ws \in SUBSET Words, sqe = futex_waitv(o, ws)
        PROVE  sqe \in SqeType /\ sqe.kind = "futex"
    <2>1. Expect(ws) \in [ws -> Int]
      BY DEF Expect
    <2>2. Expect(ws) \in Expectations
      BY <2>1 DEF Expectations
    <2> QED
      BY <1>1, <1>5, <2>2 DEF futex_waitv, Sqe, SqeType, AllTargetKinds
  <1>6. CASE \E w \in Words : sqe = futex_wait(o, w)
    <2>1. PICK w \in Words : sqe = futex_wait(o, w)
      BY <1>6
    <2>2. sqe = futex_waitv(o, {w})
      BY <2>1 DEF futex_wait, futex_waitv
    <2> QED
      BY <1>5, <2>2 DEF AllTargetKinds
  <1>7. CASE \E ws \in SUBSET Words \ {{}} : sqe = futex_waitv(o, ws)
    BY <1>5, <1>7 DEF AllTargetKinds
  <1> QED
    BY <1>2, <1>3, <1>4, <1>6, <1>7 DEF TargetSqes

LEMMA CancelSqesType ==
    ASSUME NEW to \in Targets, NEW sqe \in CancelSqes(to)
    PROVE  sqe \in SqeType /\ sqe.kind \in AllCancelKinds
  <1>1. \E k \in AllCancelKinds : sqe = OneShot(k, to)
    BY DEF CancelSqes, AllCancelKinds, cancel, cancel_all, cancel_fd, timeout_cancel,
           poll_remove, poll_update
  <1>2. AllCancelKinds \subseteq Kinds
    BY DEF Kinds
  <1> QED
    BY <1>1, <1>2, OneShotType

\* A submission adds the request q of object o.
SubmitsAs(o, q) ==
    /\ nreq < MaxRequests
    /\ out[o] < MaxPerObject
    /\ nreq' = nreq + 1
    /\ out' = [out EXCEPT ![o] = @ + 1]
    /\ reqs' = reqs \cup {q}
    /\ q.id = nreq + 1
    /\ q.op = o
    /\ q.stage = "queued"
    /\ q.kind = "mtimeout" => q.asked \in Repeats /\ q.left = BuildCount(q.asked)
    /\ q.kind \in TargetKinds \cup CancelKinds
    /\ UNCHANGED <<cq, done, calls, report, ghostVars, futexVars, shots>>

LEMMA StartSubmits ==
    ASSUME word \in [Words -> Nat], nreq \in Nat, Start
    PROVE  \E o \in Objects, q \in RequestType : SubmitsAs(o, q)
  <1> USE RequestsAssumption
  <1>1. ASSUME NEW o \in Objects, NEW sqe \in SqeType, Submit(o, sqe),
               sqe.kind \in TargetKinds \cup CancelKinds,
               sqe.kind = "mtimeout" => sqe.asked \in Repeats /\ sqe.left = BuildCount(sqe.asked)
        PROVE  \E q \in RequestType : SubmitsAs(o, q)
    <2> DEFINE q == [id |-> nreq + 1, op |-> o, kind |-> sqe.kind, asked |-> sqe.asked,
                     left |-> sqe.left, want |-> sqe.want, to |-> sqe.to, stage |-> "queued"]
    <2>1. nreq + 1 \in Ids
      BY <1>1 DEF Submit, Ids
    <2>2. q \in RequestType
      BY <2>1 DEF RequestType, SqeType, Stages
    <2>3. SubmitsAs(o, q)
      BY <1>1 DEF SubmitsAs, Submit
    <2> QED
      BY <2>2, <2>3
  <1>2. CASE \E o \in Targets : \E sqe \in TargetSqes(o) :
               sqe.kind \in TargetKinds /\ Submit(o, sqe)
    BY <1>1, <1>2, TargetSqesType DEF Objects
  <1>3. CASE \E c \in Cancels, to \in Targets : \E sqe \in CancelSqes(to) :
               sqe.kind \in CancelKinds /\ Submit(c, sqe)
    <2>1. "mtimeout" \notin AllCancelKinds
      BY DEF AllCancelKinds
    <2> QED
      BY <1>1, <1>3, <2>1, CancelSqesType DEF Objects
  <1> QED
    BY <1>2, <1>3 DEF Start

-----------------------------------------------------------------------------
(* Sequences of completions *)

\* Where the elements are after a concatenation.
LEMMA ConcatAt ==
    ASSUME NEW S, NEW s \in Seq(S), NEW t \in Seq(S), NEW u, u = s \o t
    PROVE  /\ u \in Seq(S)
           /\ DOMAIN u = 1..(Len(s) + Len(t))
           /\ Len(u) = Len(s) + Len(t)
           /\ Len(s) \in Nat /\ Len(t) \in Nat
           /\ DOMAIN s = 1..Len(s) /\ DOMAIN t = 1..Len(t)
           /\ \A i \in DOMAIN s : i \in DOMAIN u /\ u[i] = s[i]
           /\ \A i \in DOMAIN t : Len(s) + i \in DOMAIN u /\ u[Len(s) + i] = t[i]
           /\ \A i \in DOMAIN u : \/ i \in DOMAIN s
                                  \/ i - Len(s) \in DOMAIN t
           /\ \A i \in DOMAIN u : i \notin DOMAIN s => u[i] = t[i - Len(s)]
  OBVIOUS

LEMMA FunctionIsSeq ==
    ASSUME NEW S, NEW n \in Nat, NEW t \in [1..n -> S]
    PROVE  t \in Seq(S)
  OBVIOUS

LEMMA TailAt ==
    ASSUME NEW S, NEW s \in Seq(S), s # <<>>, NEW t, t = Tail(s)
    PROVE  /\ t \in Seq(S)
           /\ Head(s) \in S
           /\ Head(s) = s[1]
           /\ Len(s) \in Nat
           /\ DOMAIN s = 1..Len(s)
           /\ DOMAIN t = 1..(Len(s) - 1)
           /\ 1 \in DOMAIN s
           /\ \A i \in DOMAIN t : i + 1 \in DOMAIN s /\ t[i] = s[i + 1]
           /\ \A i \in DOMAIN s : i # 1 => i - 1 \in DOMAIN t /\ t[i - 1] = s[i]
  OBVIOUS

\* The completions of a set of requests are posted in some order, each once.
LEMMA OrderOf ==
    ASSUME NEW S, IsFiniteSet(S), NEW s \in Orders(S)
    PROVE  /\ s \in Seq(S)
           /\ DOMAIN s = 1..Len(s)
           /\ Len(s) = Cardinality(S)
           /\ Len(s) \in Nat
           /\ \A x \in S : \E i \in DOMAIN s : s[i] = x
           /\ \A i, j \in DOMAIN s : s[i] = s[j] => i = j
  <1> DEFINE n == Cardinality(S)
  <1>1. n \in Nat
    BY FS_CardinalityType
  <1>2. s \in [1..n -> S] /\ \A x \in S : \E i \in DOMAIN s : s[i] = x
    BY DEF Orders
  <1>3. IsFiniteSet(1..n) /\ Cardinality(1..n) = n
    <2>1. /\ IsFiniteSet(1..n)
          /\ Cardinality(1..n) = IF 1 > n THEN 0 ELSE n - 1 + 1
      BY <1>1, FS_Interval
    <2> QED
      BY <1>1, <2>1
  <1>4. s \in Surjection(1..n, S)
    BY <1>2 DEF Surjection
  <1>5. s \in Injection(1..n, S)
    BY <1>3, <1>4, FS_SurjSameCardinalityImpliesInj
  <1>6. \A i, j \in 1..n : s[i] = s[j] => i = j
    BY <1>5 DEF Injection, IsInjective
  <1>7. s \in Seq(S) /\ Len(s) = n
    BY <1>1, <1>2
  <1> QED
    BY <1>1, <1>2, <1>6, <1>7

-----------------------------------------------------------------------------
(* Numbers of requests *)

\* Each submission that the caller waits for is a request of the kernel or one
\* last completion, never both and never twice; what is announced to be
\* followed by more is a value.
KernelInv ==
    /\ nreq \in 0..MaxRequests
    /\ reqs \subseteq RequestType
    /\ cq \in Seq(CompletionType)
    /\ \A r \in reqs : r.id <= nreq
    /\ \A r \in reqs : r.stage # "queued" => r.kind \in AllTargetKinds
    /\ \A k \in DOMAIN cq : cq[k].id <= nreq
    /\ \A q, r \in reqs : q.id = r.id => q = r
    /\ \A k, l \in DOMAIN cq : ~cq[k].more /\ ~cq[l].more /\ cq[k].id = cq[l].id => k = l
    /\ \A k \in DOMAIN cq : ~cq[k].more => \A r \in reqs : r.id # cq[k].id
    /\ \A k \in DOMAIN cq : cq[k].more => IsValue(cq[k]) /\ cq[k].kind \in {"mtimeout", "mpoll"}

BookType ==
    /\ done \in [Ids -> {"no", "value", "failed", "canceled"}]
    /\ calls \in [Ids -> Nat]
    /\ report \in [Ids -> Int]
    /\ hit \in [Ids -> SUBSET Ids]
    /\ missed \in [Ids -> BOOLEAN]
    /\ word \in [Words -> Nat]
    /\ wakes \subseteq Words

ReqIds(o) == {i \in Ids : \E r \in reqs : r.id = i /\ r.op = o}
LastIds(o) == {i \in Ids : \E k \in DOMAIN cq : cq[k].id = i /\ cq[k].op = o /\ ~cq[k].more}

\* The submissions of an object that are under way.
Pending(o) == ReqIds(o) \cup LastIds(o)

OutInv ==
    /\ out \in [Objects -> 0..MaxPerObject]
    /\ \A o \in Objects : out[o] = Cardinality(Pending(o))

NumberInv == KernelInv /\ BookType /\ OutInv

LEMMA IdsFinite == IsFiniteSet(Ids) /\ Ids \subseteq Nat
  BY FS_Interval, RequestsAssumption DEF Ids

LEMMA ReqsFinite ==
    ASSUME KernelInv, NEW S \in SUBSET reqs
    PROVE  IsFiniteSet(S) /\ Cardinality(S) \in Nat
  <1> DEFINE f == [r \in S |-> r.id]
  <1>1. f \in [S -> Ids]
    BY DEF KernelInv, RequestType
  <1>2. f \in Injection(S, Ids)
    BY <1>1 DEF KernelInv, Injection, IsInjective
  <1>3. IsFiniteSet(S)
    BY <1>2, IdsFinite, FS_Injection
  <1> QED
    BY <1>3, FS_CardinalityType

\* A completion of request r, or what has become of it.
Same(x, r) == x.id = r.id /\ x.op = r.op /\ x.kind = r.kind /\ x.asked = r.asked

\* The kernel posts the completions t and keeps, ends or changes requests; a
\* request that it ends is one whose last completion is among t.
Posts(t) ==
    /\ t \in Seq(CompletionType)
    /\ cq' = cq \o t
    /\ reqs' \subseteq RequestType
    /\ \A q \in reqs' : \E r \in reqs : Same(q, r)
    /\ \A q \in reqs' : q.stage # "queued" => q.kind \in AllTargetKinds
    /\ \A q, r \in reqs' : q.id = r.id => q = r
    /\ \A r \in reqs : \/ \E q \in reqs' : Same(q, r)
                       \/ \E k \in DOMAIN t : Same(t[k], r) /\ ~t[k].more
    /\ \A k \in DOMAIN t :
         /\ \E r \in reqs : Same(t[k], r)
         /\ ~t[k].more => \A q \in reqs' : q.id # t[k].id
         /\ t[k].more => IsValue(t[k]) /\ t[k].kind \in {"mtimeout", "mpoll"}
    /\ \A k, l \in DOMAIN t : ~t[k].more /\ ~t[l].more /\ t[k].id = t[l].id => k = l
    /\ UNCHANGED <<nreq, out>>

LEMMA PostsKernel ==
    ASSUME KernelInv, NEW t, Posts(t)
    PROVE  KernelInv'
  <1> DEFINE S == CompletionType
             u == cq'
  <1>1. /\ t \in Seq(S) /\ cq \in Seq(S) /\ u = cq \o t
    BY DEF Posts, KernelInv
  <1>2. /\ u \in Seq(S)
        /\ DOMAIN u = 1..(Len(cq) + Len(t))
        /\ Len(cq) \in Nat /\ Len(t) \in Nat
        /\ DOMAIN cq = 1..Len(cq) /\ DOMAIN t = 1..Len(t)
        /\ \A i \in DOMAIN cq : i \in DOMAIN u /\ u[i] = cq[i]
        /\ \A i \in DOMAIN u : \/ i \in DOMAIN cq
                               \/ i - Len(cq) \in DOMAIN t
        /\ \A i \in DOMAIN u : i \notin DOMAIN cq => u[i] = t[i - Len(cq)]
    BY <1>1, ConcatAt
  <1> HIDE DEF u, S
  <1>3. nreq' \in 0..MaxRequests /\ nreq' = nreq /\ reqs' \subseteq RequestType
    BY DEF Posts, KernelInv
  <1>4. \A r \in reqs' : r.id <= nreq'
    BY <1>3 DEF Posts, KernelInv, Same
  <1>5. \A k \in DOMAIN u : u[k].id <= nreq'
    <2>1. \A k \in DOMAIN cq : cq[k].id <= nreq
      BY DEF KernelInv
    <2>2. \A k \in DOMAIN t : t[k].id <= nreq
      BY SMTT(30) DEF KernelInv, Posts, Same
    <2> QED
      BY <1>2, <1>3, <2>1, <2>2
  <1>6. \A q, r \in reqs' : q.id = r.id => q = r
    BY DEF Posts
  <1>7. \A k \in DOMAIN u : ~u[k].more => \A r \in reqs' : r.id # u[k].id
    BY <1>2 DEF Posts, KernelInv, Same
  <1>8. \A k \in DOMAIN u : u[k].more => IsValue(u[k]) /\ u[k].kind \in {"mtimeout", "mpoll"}
    BY <1>2 DEF Posts, KernelInv
  <1>9. ASSUME NEW k \in DOMAIN u, NEW l \in DOMAIN u,
               ~u[k].more, ~u[l].more, u[k].id = u[l].id
        PROVE  k = l
    <2>1. CASE k \in DOMAIN cq /\ l \in DOMAIN cq
      BY <1>2, <1>9, <2>1 DEF KernelInv
    <2>2. CASE k \notin DOMAIN cq /\ l \notin DOMAIN cq
      <3>1. k - Len(cq) = l - Len(cq)
        BY <1>2, <1>9, <2>2 DEF Posts
      <3> QED
        BY <1>2, <3>1
    <2>3. ASSUME NEW i \in DOMAIN cq, NEW j \in DOMAIN t, ~cq[i].more, cq[i].id = t[j].id
          PROVE  FALSE
      BY <2>3 DEF KernelInv, Posts, Same
    <2> QED
      BY <1>2, <1>9, <2>1, <2>2, <2>3
  <1>10. \A r \in reqs' : r.stage # "queued" => r.kind \in AllTargetKinds
    BY DEF Posts
  <1> QED
    BY <1>2, <1>3, <1>4, <1>5, <1>6, <1>7, <1>8, <1>9, <1>10 DEF KernelInv, u, S

\* What is under way stays so: a request that ends leaves its last completion.
LEMMA PostsPending ==
    ASSUME KernelInv, NEW t, Posts(t), NEW o
    PROVE  Pending(o)' = Pending(o)
  <1> DEFINE S == CompletionType
             u == cq'
  <1>1. /\ t \in Seq(S) /\ cq \in Seq(S) /\ u = cq \o t
    BY DEF Posts, KernelInv
  <1>2. /\ \A i \in DOMAIN cq : i \in DOMAIN u /\ u[i] = cq[i]
        /\ \A i \in DOMAIN t : Len(cq) + i \in DOMAIN u /\ u[Len(cq) + i] = t[i]
        /\ \A i \in DOMAIN u : \/ i \in DOMAIN cq
                               \/ i - Len(cq) \in DOMAIN t
        /\ \A i \in DOMAIN u : i \notin DOMAIN cq => u[i] = t[i - Len(cq)]
    BY <1>1, ConcatAt
  <1> HIDE DEF u, S
  <1>3. ASSUME NEW i \in Ids, i \in Pending(o) PROVE i \in Pending(o)'
    <2>1. CASE \E k \in DOMAIN cq : cq[k].id = i /\ cq[k].op = o /\ ~cq[k].more
      BY <1>2, <2>1 DEF Pending, LastIds, u
    <2>2. CASE \E r \in reqs : r.id = i /\ r.op = o
      <3>1. PICK r \in reqs : r.id = i /\ r.op = o
        BY <2>2
      <3>2. CASE \E q \in reqs' : Same(q, r)
        BY <3>1, <3>2 DEF Pending, ReqIds, Same
      <3>3. CASE \E k \in DOMAIN t : Same(t[k], r) /\ ~t[k].more
        BY <1>2, <3>1, <3>3 DEF Pending, LastIds, u, Same
      <3> QED
        BY <3>2, <3>3 DEF Posts
    <2> QED
      BY <1>3, <2>1, <2>2 DEF Pending, ReqIds, LastIds
  <1>4. ASSUME NEW i \in Ids, i \in Pending(o)' PROVE i \in Pending(o)
    <2>1. CASE \E q \in reqs' : q.id = i /\ q.op = o
      BY <2>1 DEF Posts, Pending, ReqIds, Same
    <2>2. CASE \E k \in DOMAIN u : u[k].id = i /\ u[k].op = o /\ ~u[k].more
      <3>1. PICK k \in DOMAIN u : u[k].id = i /\ u[k].op = o /\ ~u[k].more
        BY <2>2
      <3>2. CASE k \in DOMAIN cq
        BY <1>2, <3>1, <3>2 DEF Pending, LastIds
      <3>3. CASE k \notin DOMAIN cq
        <4>1. k - Len(cq) \in DOMAIN t /\ u[k] = t[k - Len(cq)]
          BY <1>2, <3>3
        <4>2. PICK r \in reqs : Same(t[k - Len(cq)], r)
          BY <4>1 DEF Posts
        <4> QED
          BY <3>1, <4>1, <4>2 DEF Pending, ReqIds, Same
      <3> QED
        BY <3>2, <3>3
    <2> QED
      BY <1>4, <2>1, <2>2 DEF Pending, ReqIds, LastIds, u
  <1> QED
    BY <1>3, <1>4 DEF Pending, ReqIds, LastIds

LEMMA PostsNumbers ==
    ASSUME NumberInv, NEW t, Posts(t), BookType'
    PROVE  NumberInv'
  <1>1. KernelInv'
    BY PostsKernel DEF NumberInv
  <1>2. \A o : Pending(o)' = Pending(o)
    BY PostsPending DEF NumberInv
  <1>3. OutInv'
    BY <1>2 DEF NumberInv, OutInv, Posts
  <1> QED
    BY <1>1, <1>3 DEF NumberInv

\* The requests h end, with one completion each: t[k] is that of s[k].
EndsAs(h, s, t) ==
    /\ h \subseteq reqs
    /\ reqs' = reqs \ h
    /\ s \in Seq(h)
    /\ t \in Seq(CompletionType)
    /\ cq' = cq \o t
    /\ DOMAIN t = DOMAIN s
    /\ \A r \in h : \E k \in DOMAIN s : s[k] = r
    /\ \A k, l \in DOMAIN s : s[k] = s[l] => k = l
    /\ \A k \in DOMAIN t : Same(t[k], s[k]) /\ ~t[k].more
    /\ UNCHANGED <<nreq, out>>

LEMMA EndsPost ==
    ASSUME KernelInv, NEW h, NEW s, NEW t, EndsAs(h, s, t)
    PROVE  Posts(t)
  <1> USE DEF EndsAs
  <1>1. \A k \in DOMAIN s : s[k] \in h
    OBVIOUS
  <1>2. reqs' \subseteq RequestType
    BY DEF KernelInv
  <1>3. \A q \in reqs' : q.stage # "queued" => q.kind \in AllTargetKinds
    BY DEF KernelInv
  <1>4. \A q \in reqs' : \E r \in reqs : Same(q, r)
    BY DEF Same
  <1>5. \A q, r \in reqs' : q.id = r.id => q = r
    BY DEF KernelInv
  <1>6. \A r \in reqs : \/ \E q \in reqs' : Same(q, r)
                        \/ \E k \in DOMAIN t : Same(t[k], r) /\ ~t[k].more
    <2> SUFFICES ASSUME NEW r \in reqs
                 PROVE  \/ \E q \in reqs' : Same(q, r)
                        \/ \E k \in DOMAIN t : Same(t[k], r) /\ ~t[k].more
      OBVIOUS
    <2>1. CASE r \in h
      BY <2>1
    <2>2. CASE r \notin h
      BY <2>2 DEF Same
    <2> QED
      BY <2>1, <2>2
  <1>7. ASSUME NEW k \in DOMAIN t
        PROVE  /\ \E r \in reqs : Same(t[k], r)
               /\ ~t[k].more => \A q \in reqs' : q.id # t[k].id
               /\ ~t[k].more
    <2>1. s[k] \in h /\ s[k] \in reqs /\ Same(t[k], s[k]) /\ ~t[k].more
      BY <1>1
    <2>2. \A q \in reqs' : q.id # s[k].id
      BY <2>1 DEF KernelInv
    <2> QED
      BY <2>1, <2>2 DEF Same
  <1>8. ASSUME NEW k \in DOMAIN t, NEW l \in DOMAIN t, t[k].id = t[l].id
        PROVE  k = l
    <2>1. s[k] \in reqs /\ s[l] \in reqs /\ s[k].id = s[l].id
      BY <1>1, <1>8 DEF Same
    <2>2. s[k] = s[l]
      BY <2>1 DEF KernelInv
    <2> QED
      BY <2>2
  <1> QED
    BY <1>2, <1>3, <1>4, <1>5, <1>6, <1>7, <1>8 DEF Posts

\* A request becomes q, possibly with a completion that announces more.
KeepsAs(r, q, t) ==
    /\ r \in reqs
    /\ q \in RequestType
    /\ Same(q, r)
    /\ q.stage # "queued" => q.kind \in AllTargetKinds
    /\ reqs' = (reqs \ {r}) \cup {q}
    /\ t \in Seq(CompletionType)
    /\ cq' = cq \o t
    /\ \A k \in DOMAIN t : /\ Same(t[k], r)
                           /\ t[k].more
                           /\ IsValue(t[k])
                           /\ t[k].kind \in {"mtimeout", "mpoll"}
    /\ UNCHANGED <<nreq, out>>

LEMMA KeepsPost ==
    ASSUME KernelInv, NEW r, NEW q, NEW t, KeepsAs(r, q, t)
    PROVE  Posts(t)
  <1> USE DEF KeepsAs
  <1>1. reqs' \subseteq RequestType
    BY DEF KernelInv
  <1>2. \A p \in reqs' : \E o \in reqs : Same(p, o)
    BY DEF Same
  <1>3. \A p \in reqs' : p.stage # "queued" => p.kind \in AllTargetKinds
    BY DEF KernelInv
  <1>4. \A p, o \in reqs' : p.id = o.id => p = o
    BY DEF KernelInv, Same
  <1>5. \A o \in reqs : \E p \in reqs' : Same(p, o)
    BY DEF Same
  <1>6. \A k \in DOMAIN t : \E o \in reqs : Same(t[k], o)
    OBVIOUS
  <1> QED
    BY <1>1, <1>2, <1>3, <1>4, <1>5, <1>6 DEF Posts

LEMMA CqeType ==
    ASSUME NEW r \in RequestType, NEW ev \in Int, NEW more \in BOOLEAN
    PROVE  /\ Cqe(r, ev, more) \in CompletionType
           /\ Same(Cqe(r, ev, more), r)
           /\ Cqe(r, ev, more).ev = ev
           /\ Cqe(r, ev, more).more = more
  BY DEF Cqe, CompletionType, RequestType, Same

LEMMA RestageType ==
    ASSUME NEW r \in RequestType, NEW st \in Stages
    PROVE  LET q == [r EXCEPT !.stage = st]
           IN  q \in RequestType /\ Same(q, r) /\ q.stage = st /\ q.left = r.left
  BY DEF RequestType, Same, Stages

-----------------------------------------------------------------------------
(* The steps of the kernel *)

\* One request ends with the completion Cqe(r, ev, FALSE).
LEMMA EndsOne ==
    ASSUME KernelInv, NEW r \in reqs, NEW ev \in Int, reqs' = reqs \ {r},
           cq' = Append(cq, Cqe(r, ev, FALSE)), UNCHANGED <<nreq, out>>
    PROVE  EndsAs({r}, <<r>>, <<Cqe(r, ev, FALSE)>>)
  <1> DEFINE x == Cqe(r, ev, FALSE)
  <1>1. r \in RequestType /\ cq \in Seq(CompletionType)
    BY DEF KernelInv
  <1>2. x \in CompletionType /\ Same(x, r) /\ ~x.more
    BY <1>1, CqeType
  <1> HIDE DEF x
  <1>3. /\ <<x>> \in Seq(CompletionType)
        /\ <<r>> \in Seq({r})
        /\ DOMAIN <<x>> = {1} /\ DOMAIN <<r>> = {1}
        /\ <<x>>[1] = x /\ <<r>>[1] = r
    BY <1>2
  <1>4. cq' = cq \o <<x>>
    <2>1. cq' = Append(cq, x)
      BY DEF x
    <2>2. cq \in Seq(CompletionType) /\ x \in CompletionType
      BY <1>1, <1>2
    <2>3. Append(cq, x) = cq \o <<x>>
      BY ONLY <2>2, AppendIsConcat, Zenon
    <2> QED
      BY <2>1, <2>3
  <1>5. EndsAs({r}, <<r>>, <<x>>)
    BY <1>2, <1>3, <1>4 DEF EndsAs
  <1> QED
    BY <1>5 DEF x

\* Targets end by themselves: what ends is neither a cancellation nor cancelled,
\* and a timer that ends with a value has reached its last shot.
EndsItself(h, s, t) ==
    /\ EndsAs(h, s, t)
    /\ \A k \in DOMAIN t : /\ t[k].kind \in AllTargetKinds
                           /\ t[k].ev # -ECANCELED
                           /\ t[k].kind = "mtimeout" /\ IsValue(t[k]) => s[k].left = 1
    /\ UNCHANGED <<done, calls, report, ghostVars>>

\* A request goes on to another stage, or to the next shot.
GoesOn(r, q, t) ==
    /\ KeepsAs(r, q, t)
    /\ \/ t = <<>> /\ q.left = r.left
       \/ /\ \E x : t = <<x>>
          /\ q.kind = "mtimeout" => r.left # 1 /\ q.left = IF r.left = 0 THEN 0 ELSE r.left - 1
    /\ UNCHANGED <<done, calls, report, ghostVars>>

\* The step of a target in the kernel.
TargetStep ==
    \/ \E h, s, t : EndsItself(h, s, t)
    \/ \E r, q, t : GoesOn(r, q, t)

LEMMA RestageGoesOn ==
    ASSUME KernelInv, NEW r \in reqs, NEW st \in Stages, r.kind \in AllTargetKinds,
           reqs' = Restage(r, st), UNCHANGED <<cq, callerVars, ghostVars, nreq>>
    PROVE  TargetStep
  <1> DEFINE q == [r EXCEPT !.stage = st]
  <1>1. r \in RequestType /\ cq \in Seq(CompletionType)
    BY DEF KernelInv
  <1>2. q \in RequestType /\ Same(q, r) /\ q.left = r.left
    BY <1>1, RestageType
  <1>3. reqs' = (reqs \ {r}) \cup {q}
    BY DEF Restage
  <1>4. q.kind \in AllTargetKinds
    BY <1>2 DEF Same
  <1> HIDE DEF q
  <1>5. cq' = cq \o <<>> /\ <<>> \in Seq(CompletionType) /\ DOMAIN <<>> = {}
    BY <1>1
  <1>6. KeepsAs(r, q, <<>>)
    BY <1>2, <1>3, <1>4, <1>5 DEF KeepsAs, callerVars
  <1>7. GoesOn(r, q, <<>>)
    BY <1>2, <1>6 DEF GoesOn, callerVars
  <1> QED
    BY <1>7 DEF TargetStep

LEMMA EndsItselfStep ==
    ASSUME KernelInv, NEW r \in reqs, NEW ev \in Int, reqs' = reqs \ {r},
           cq' = Append(cq, Cqe(r, ev, FALSE)), UNCHANGED <<callerVars, ghostVars, nreq>>,
           r.kind \in AllTargetKinds, ev # -ECANCELED,
           r.kind = "mtimeout" => ev = -EAGAIN \/ r.left = 1
    PROVE  TargetStep
  <1> DEFINE x == Cqe(r, ev, FALSE)
  <1>1. EndsAs({r}, <<r>>, <<x>>)
    BY EndsOne DEF callerVars
  <1>2. x.kind = r.kind /\ x.ev = ev
    BY CqeType, ZenonT(40) DEF KernelInv, Same
  <1> HIDE DEF x
  <1>3. x.kind = "mtimeout" /\ IsValue(x) => r.left = 1
    <2>1. ev = -EAGAIN => ~(ev >= 0) /\ ev # -ETIME
      BY DEF EAGAIN, ETIME
    <2> QED
      BY <1>2, <2>1 DEF IsValue
  <1>4. \A k \in DOMAIN <<x>> : <<x>>[k] = x /\ <<r>>[k] = r
    OBVIOUS
  <1>5. EndsItself({r}, <<r>>, <<x>>)
    BY <1>1, <1>2, <1>3, <1>4 DEF EndsItself, callerVars
  <1> QED
    BY <1>5 DEF TargetStep

LEMMA ArmStep ==
    ASSUME KernelInv, NEW r \in reqs, Arm(r)
    PROVE  TargetStep
  <1> DEFINE changed == \E w \in DOMAIN r.want : r.want[w] # -1 /\ word[w] # r.want[w]
  <1>1. /\ r.kind \in AllTargetKinds
        /\ reqs' = IF changed THEN reqs \ {r} ELSE Restage(r, "armed")
        /\ cq' = IF changed THEN Append(cq, Cqe(r, -EAGAIN, FALSE)) ELSE cq
        /\ UNCHANGED <<callerVars, ghostVars, nreq>>
    BY DEF Arm
  <1> HIDE DEF changed
  <1>2. CASE changed
    <2>1. -EAGAIN \in Int /\ -EAGAIN # -ECANCELED
      BY DEF EAGAIN, ECANCELED
    <2> QED
      BY <1>1, <1>2, <2>1, EndsItselfStep
  <1>3. CASE ~changed
    <2>1. "armed" \in Stages
      BY DEF Stages
    <2> QED
      BY <1>1, <1>3, <2>1, RestageGoesOn
  <1> QED
    BY <1>2, <1>3

LEMMA FireStep ==
    ASSUME KernelInv, NEW r \in reqs, Fire(r)
    PROVE  TargetStep
  <1>1. "firing" \in Stages
    BY DEF Stages
  <1>2. r.kind \in AllTargetKinds
    BY DEF KernelInv, Fire
  <1> QED
    BY <1>1, <1>2, RestageGoesOn DEF Fire

LEMMA PostStep ==
    ASSUME KernelInv, NEW r \in reqs, Post(r)
    PROVE  TargetStep
  <1> DEFINE ev == IF r.kind \in {"timeout", "mtimeout"} THEN -ETIME ELSE 1
  <1>1. r.kind \in AllTargetKinds /\ r \in RequestType /\ cq \in Seq(CompletionType)
    BY DEF KernelInv, Post
  <1>2. ev \in Int /\ ev # -ECANCELED
    BY DEF ETIME, ECANCELED
  <1>3. UNCHANGED <<callerVars, ghostVars, nreq>>
    BY DEF Post
  <1>4. CASE /\ r.kind \in {"timeout", "poll", "mpoll"} \/ r.left = 1
             /\ reqs' = reqs \ {r}
             /\ cq' = Append(cq, Cqe(r, ev, FALSE))
    <2>1. r.kind = "mtimeout" => r.left = 1
      BY <1>4
    <2> HIDE DEF ev
    <2> QED
      BY <1>1, <1>2, <1>3, <1>4, <2>1, EndsItselfStep
  <1>5. CASE /\ r.kind \in {"mtimeout", "mpoll"}
             /\ r.left # 1
             /\ reqs' = (reqs \ {r}) \cup
                  {[r EXCEPT !.stage = "armed", !.left = IF @ = 0 THEN 0 ELSE @ - 1]}
             /\ cq' = Append(cq, Cqe(r, ev, TRUE))
    <2> DEFINE n == IF r.left = 0 THEN 0 ELSE r.left - 1
               q == [r EXCEPT !.stage = "armed", !.left = n]
               x == Cqe(r, ev, TRUE)
    <2>1. n \in Nat
      BY <1>1 DEF RequestType
    <2> HIDE DEF n
    <2>2. q \in RequestType
      BY <1>1, <2>1 DEF RequestType, Stages
    <2>3. Same(q, r) /\ q.left = n
      BY <1>1 DEF RequestType, Same
    <2>4. x \in CompletionType /\ Same(x, r) /\ x.more /\ x.ev = ev
      BY <1>1, <1>2, CqeType
    <2>5. x.kind = r.kind
      BY <2>4 DEF Same
    <2> HIDE DEF x
    <2>6. IsValue(x)
      <3>1. CASE r.kind = "mtimeout"
        BY <2>4, <2>5, <3>1 DEF IsValue
      <3>2. CASE r.kind = "mpoll"
        BY <2>4, <2>5, <3>2 DEF IsValue
      <3> QED
        BY <1>5, <3>1, <3>2
    <2> HIDE DEF q, ev
    <2>7. /\ cq' = cq \o <<x>>
          /\ <<x>> \in Seq(CompletionType)
          /\ \A k \in DOMAIN <<x>> : <<x>>[k] = x
      <3>1. cq' = Append(cq, x)
        BY <1>5 DEF x
      <3>2. cq \in Seq(CompletionType) /\ x \in CompletionType
        BY <1>1, <2>4
      <3>3. Append(cq, x) = cq \o <<x>>
        BY ONLY <3>2, AppendIsConcat, Zenon
      <3>4. <<x>> \in Seq(CompletionType) /\ \A k \in DOMAIN <<x>> : <<x>>[k] = x
        BY <2>4
      <3> QED
        BY <3>1, <3>3, <3>4
    <2>8. reqs' = (reqs \ {r}) \cup {q}
      BY <1>5 DEF q, n
    <2>9. q.kind \in AllTargetKinds
      BY <1>1, <2>3 DEF Same
    <2>10. KeepsAs(r, q, <<x>>)
      BY <1>3, <1>5, <2>2, <2>3, <2>4, <2>5, <2>6, <2>7, <2>8, <2>9 DEF KeepsAs, callerVars
    <2>11. GoesOn(r, q, <<x>>)
      BY <1>3, <1>5, <2>3, <2>10 DEF GoesOn, callerVars, n
    <2> QED
      BY <2>11 DEF TargetStep
  <1> QED
    BY <1>4, <1>5 DEF Post

\* The completions of the requests of s, all with the result ev.
CqesFor(s, ev) == [i \in DOMAIN s |-> Cqe(s[i], ev, FALSE)]

LEMMA CqesOf ==
    ASSUME KernelInv, NEW h, h \subseteq reqs, NEW s \in Orders(h), NEW ev \in Int,
           NEW t, t = CqesFor(s, ev)
    PROVE  /\ s \in Seq(h)
           /\ Len(s) \in Nat
           /\ DOMAIN s = 1..Len(s)
           /\ \A r \in h : \E k \in DOMAIN s : s[k] = r
           /\ \A k, l \in DOMAIN s : s[k] = s[l] => k = l
           /\ \A k \in DOMAIN s : s[k] \in h
           /\ t \in Seq(CompletionType)
           /\ DOMAIN t = DOMAIN s
           /\ \A k \in DOMAIN t : Same(t[k], s[k]) /\ t[k].ev = ev /\ ~t[k].more
  <1>1. IsFiniteSet(h)
    BY ReqsFinite
  <1>2. /\ s \in Seq(h)
        /\ Len(s) \in Nat
        /\ DOMAIN s = 1..Len(s)
        /\ \A r \in h : \E k \in DOMAIN s : s[k] = r
        /\ \A k, l \in DOMAIN s : s[k] = s[l] => k = l
    BY <1>1, OrderOf
  <1>3. \A k \in DOMAIN s : s[k] \in h
    BY <1>2
  <1>4. DOMAIN t = DOMAIN s /\ \A k \in DOMAIN s : t[k] = Cqe(s[k], ev, FALSE)
    BY Zenon DEF CqesFor
  <1>5. ASSUME NEW k \in DOMAIN s
        PROVE  /\ t[k] \in CompletionType
               /\ Same(t[k], s[k]) /\ t[k].ev = ev /\ ~t[k].more
    <2>1. s[k] \in RequestType
      BY <1>3 DEF KernelInv
    <2> DEFINE x == Cqe(s[k], ev, FALSE)
    <2>2. x \in CompletionType /\ Same(x, s[k]) /\ x.ev = ev /\ ~x.more
      BY <2>1, CqeType
    <2>3. t[k] = x
      BY <1>4
    <2> HIDE DEF x
    <2> QED
      BY <2>2, <2>3
  <1>6. t \in [DOMAIN s -> CompletionType]
    <2>1. \A k \in DOMAIN s : Cqe(s[k], ev, FALSE) \in CompletionType
      BY <1>4, <1>5
    <2> QED
      BY <2>1, Zenon DEF CqesFor
  <1>7. t \in [1..Len(s) -> CompletionType]
    BY ONLY <1>2, <1>6
  <1>8. t \in Seq(CompletionType)
    BY ONLY <1>2, <1>7, FunctionIsSeq
  <1> QED
    BY <1>2, <1>3, <1>4, <1>5, <1>8

LEMMA WakeStep ==
    ASSUME KernelInv, NEW w \in Words, Wake(w)
    PROVE  TargetStep
  <1> DEFINE h == NotifyAll(w)
  <1>1. PICK s \in Orders(h) :
          /\ reqs' = reqs \ h
          /\ cq' = cq \o [i \in DOMAIN s |-> Cqe(s[i], 0, FALSE)]
    BY DEF Wake
  <1> DEFINE t == [i \in DOMAIN s |-> Cqe(s[i], 0, FALSE)]
  <1>2. h \subseteq reqs /\ \A r \in h : r.kind = "futex"
    BY DEF NotifyAll, Waiters
  <1>3. cq' = cq \o t /\ t = CqesFor(s, 0)
    BY <1>1, Zenon DEF CqesFor
  <1> HIDE DEF h, t
  <1>4. /\ s \in Seq(h)
        /\ \A r \in h : \E k \in DOMAIN s : s[k] = r
        /\ \A k, l \in DOMAIN s : s[k] = s[l] => k = l
        /\ \A k \in DOMAIN s : s[k] \in h
        /\ t \in Seq(CompletionType)
        /\ DOMAIN t = DOMAIN s
        /\ \A k \in DOMAIN t : Same(t[k], s[k]) /\ t[k].ev = 0 /\ ~t[k].more
    BY <1>2, <1>3, CqesOf
  <1>5. UNCHANGED <<callerVars, ghostVars, nreq>>
    BY DEF Wake
  <1>6. EndsAs(h, s, t)
    BY <1>1, <1>2, <1>3, <1>4, <1>5 DEF EndsAs, callerVars
  <1>7. \A k \in DOMAIN t : t[k].kind = "futex" /\ t[k].ev = 0
    BY <1>2, <1>4 DEF Same
  <1>8. EndsItself(h, s, t)
    BY <1>5, <1>6, <1>7 DEF EndsItself, callerVars, AllTargetKinds, ECANCELED
  <1> QED
    BY <1>8 DEF TargetStep

\* A cancellation c ends the requests h, in the order s, and then itself.
CancelsAs(c, h, s, t) ==
    /\ c \in reqs
    /\ c.kind \in AllCancelKinds
    /\ EndsAs(h \cup {c}, s \o <<c>>, t)
    /\ h \in Victims(c.kind, {r \in Named(c) : r.stage = "armed"})
    /\ Len(s) \in Nat
    /\ DOMAIN t = 1..(Len(s) + 1)
    /\ \A k \in 1..Len(s) : t[k].ev = -ECANCELED /\ \E r \in h : Same(t[k], r)
    /\ \A r \in h : \E k \in 1..Len(s) : Same(t[k], r)
    /\ Same(t[Len(s) + 1], c)
    /\ t[Len(s) + 1].ev = CancelResult(c.kind, {r \in Named(c) : r.stage # "queued"}, h)
    /\ hit' = [hit EXCEPT ![c.id] = {r.id : r \in h}]
    /\ missed' = [missed EXCEPT ![c.id] =
                    \E r \in Meant(c) : r.stage = "armed" /\ h = {} /\ c.kind # "poll_update"]
    /\ UNCHANGED <<done, calls, report>>

\* A cancellation ends only targets that are armed.
LEMMA VictimsAre ==
    ASSUME KernelInv, NEW c, NEW h \in Victims(c.kind, {r \in Named(c) : r.stage = "armed"})
    PROVE  /\ h \subseteq reqs
           /\ \A r \in h : r.stage = "armed" /\ r.kind \in AllTargetKinds
  <1>1. h \subseteq {r \in Named(c) : r.stage = "armed"}
    BY DEF Victims
  <1>2. Named(c) \subseteq reqs
    BY DEF Named, Meant
  <1> QED
    BY <1>1, <1>2 DEF KernelInv

LEMMA KindsApart == AllTargetKinds \cap AllCancelKinds = {}
  BY DEF AllTargetKinds, AllCancelKinds

LEMMA CancelResultType ==
    ASSUME KernelInv, NEW k, NEW found, NEW h \in SUBSET reqs
    PROVE  /\ CancelResult(k, found, h) \in Int
           /\ CancelResult(k, found, h) # -ECANCELED
  <1>1. Cardinality(h) \in Nat
    BY ReqsFinite
  <1> QED
    BY <1>1 DEF CancelResult, ENOENT, EALREADY, ECANCELED

LEMMA CancelStep ==
    ASSUME KernelInv, NEW c \in reqs, ExecuteCancel(c)
    PROVE  \E h, s, t : CancelsAs(c, h, s, t)
  <1> DEFINE found == {r \in Named(c) : r.stage # "queued"}
             armed == {r \in Named(c) : r.stage = "armed"}
  <1>1. {r \in found : r.stage = "armed"} = armed
    OBVIOUS
  <1>2. PICK h \in Victims(c.kind, armed) : \E s \in Orders(h) :
          /\ reqs' = reqs \ (h \cup {c})
          /\ cq' = cq \o [i \in DOMAIN s |-> Cqe(s[i], -ECANCELED, FALSE)]
                      \o <<Cqe(c, CancelResult(c.kind, found, h), FALSE)>>
          /\ hit' = [hit EXCEPT ![c.id] = {r.id : r \in h}]
          /\ missed' = [missed EXCEPT ![c.id] =
                          \E r \in Meant(c) : r.stage = "armed" /\ h = {}
                                              /\ c.kind # "poll_update"]
    BY <1>1, ZenonT(40) DEF ExecuteCancel
  <1>3. PICK s \in Orders(h) :
          /\ reqs' = reqs \ (h \cup {c})
          /\ cq' = cq \o [i \in DOMAIN s |-> Cqe(s[i], -ECANCELED, FALSE)]
                      \o <<Cqe(c, CancelResult(c.kind, found, h), FALSE)>>
    BY <1>2
  <1> DEFINE ts == [i \in DOMAIN s |-> Cqe(s[i], -ECANCELED, FALSE)]
             x == Cqe(c, CancelResult(c.kind, found, h), FALSE)
             t == ts \o <<x>>
             sc == s \o <<c>>
  <1>4. c.kind \in AllCancelKinds /\ UNCHANGED <<callerVars, nreq>>
    BY DEF ExecuteCancel
  <1>5. h \subseteq reqs /\ c \notin h
    BY <1>4, VictimsAre, KindsApart
  <1>6. /\ -ECANCELED \in Int
        /\ x = Cqe(c, CancelResult(c.kind, found, h), FALSE)
    BY DEF ECANCELED
  <1>7. ts = CqesFor(s, -ECANCELED)
    BY Zenon DEF CqesFor
  <1>8. cq' = (cq \o ts) \o <<x>>
    BY <1>3
  <1> HIDE DEF ts, x
  <1>9. /\ s \in Seq(h)
        /\ Len(s) \in Nat
        /\ DOMAIN s = 1..Len(s)
        /\ \A r \in h : \E k \in DOMAIN s : s[k] = r
        /\ \A k, l \in DOMAIN s : s[k] = s[l] => k = l
        /\ \A k \in DOMAIN s : s[k] \in h
        /\ ts \in Seq(CompletionType)
        /\ DOMAIN ts = DOMAIN s
        /\ \A k \in DOMAIN ts : Same(ts[k], s[k]) /\ ts[k].ev = -ECANCELED /\ ~ts[k].more
    <2> HIDE DEF found, armed
    <2> QED
      BY <1>5, <1>6, <1>7, CqesOf
  <1>10. /\ x \in CompletionType
        /\ Same(x, c)
        /\ x.ev = CancelResult(c.kind, found, h)
        /\ ~x.more
    <2> DEFINE ev == CancelResult(c.kind, found, h)
    <2>1. ev \in Int
      BY <1>5, CancelResultType
    <2>2. c \in RequestType
      BY DEF KernelInv
    <2> HIDE DEF ev
    <2>3. x = Cqe(c, ev, FALSE)
      BY <1>6 DEF ev
    <2>4. x \in CompletionType /\ Same(x, c) /\ x.ev = ev /\ ~x.more
      BY <2>1, <2>2, <2>3, CqeType
    <2> QED
      BY <2>4 DEF ev
  <1>11. hit' = [hit EXCEPT ![c.id] = {r.id : r \in h}]
    BY <1>2
  <1>12. missed' = [missed EXCEPT ![c.id] =
                      \E r \in Meant(c) : r.stage = "armed" /\ h = {} /\ c.kind # "poll_update"]
    BY <1>2
  <1>13. <<x>> \in Seq(CompletionType) /\ cq \in Seq(CompletionType)
    BY <1>10 DEF KernelInv
  <1>14. cq' = cq \o t
    <2>1. ts \in Seq(CompletionType)
      BY <1>9
    <2>2. \A u \in Seq(CompletionType) : (cq \o ts) \o u = cq \o (ts \o u)
      BY <1>13, <2>1, ConcatAssociative, SMTT(30)
    <2> QED
      BY <1>8, <1>13, <2>2
  <1>15. /\ t \in Seq(CompletionType)
         /\ DOMAIN t = 1..(Len(s) + 1)
         /\ \A k \in 1..Len(s) : t[k] = ts[k]
         /\ t[Len(s) + 1] = x
    <2>1. Len(ts) = Len(s)
      BY ONLY <1>9
    <2> QED
      BY ONLY <1>9, <1>10, <2>1 DEF t
  <1>16. /\ sc \in Seq(h \cup {c})
         /\ DOMAIN sc = 1..(Len(s) + 1)
         /\ \A k \in 1..Len(s) : sc[k] = s[k]
         /\ sc[Len(s) + 1] = c
    <2>1. s \in Seq(h \cup {c})
      BY ONLY <1>9
    <2> QED
      BY ONLY <1>9, <2>1 DEF sc
  <1> HIDE DEF t, sc
  <1>17. \A r \in h \cup {c} : \E k \in DOMAIN sc : sc[k] = r
    BY <1>9, <1>16
  <1>18. \A k, l \in DOMAIN sc : sc[k] = sc[l] => k = l
    BY <1>5, <1>9, <1>16, SMTT(30)
  <1>19. \A k \in DOMAIN t : Same(t[k], sc[k]) /\ ~t[k].more
    BY <1>9, <1>10, <1>15, <1>16
  <1>20. EndsAs(h \cup {c}, sc, t)
    BY <1>3, <1>4, <1>5, <1>14, <1>15, <1>16, <1>17, <1>18, <1>19 DEF EndsAs, callerVars
  <1>21. \A k \in 1..Len(s) : t[k].ev = -ECANCELED /\ \E r \in h : Same(t[k], r)
    BY <1>9, <1>15
  <1>22. \A r \in h : \E k \in 1..Len(s) : Same(t[k], r)
    BY <1>9, <1>15
  <1>23. CancelsAs(c, h, s, t)
    BY <1>4, <1>9, <1>10, <1>11, <1>12, <1>15, <1>20, <1>21, <1>22
       DEF CancelsAs, callerVars, sc
  <1> QED
    BY <1>23

-----------------------------------------------------------------------------
(* Every step keeps the numbers *)

LEMMA PendingFinite ==
    ASSUME NEW o
    PROVE  IsFiniteSet(Pending(o)) /\ Cardinality(Pending(o)) \in Nat
  <1>1. Pending(o) \in SUBSET Ids
    BY DEF Pending, ReqIds, LastIds
  <1>2. IsFiniteSet(Pending(o))
    BY <1>1, IdsFinite, FS_Subset
  <1> QED
    BY <1>2, FS_CardinalityType

LEMMA InitNumbers == Init => NumberInv
  <1> SUFFICES ASSUME Init PROVE NumberInv
    OBVIOUS
  <1> USE RequestsAssumption
  <1>1. cq = <<>> /\ <<>> \in Seq(CompletionType) /\ DOMAIN <<>> = {} /\ reqs = {}
    BY DEF Init
  <1>2. KernelInv
    BY <1>1 DEF Init, KernelInv
  <1>3. BookType
    <2>1. /\ done \in [Ids -> {"no", "value", "failed", "canceled"}]
          /\ calls \in [Ids -> Nat]
          /\ report \in [Ids -> Int]
      BY DEF Init
    <2>2. /\ hit \in [Ids -> SUBSET Ids]
          /\ missed \in [Ids -> BOOLEAN]
      BY DEF Init
    <2>3. word \in [Words -> Nat] /\ wakes \subseteq Words
      BY DEF Init
    <2> QED
      BY <2>1, <2>2, <2>3 DEF BookType
  <1>4. \A o : Pending(o) = {}
    BY <1>1 DEF Pending, ReqIds, LastIds
  <1>5. OutInv
    <2>1. out = [o \in Objects |-> 0]
      BY DEF Init, Objects
    <2>2. \A o : Cardinality(Pending(o)) = 0
      BY <1>4, FS_EmptySet
    <2> QED
      BY <2>1, <2>2 DEF OutInv
  <1> QED
    BY <1>2, <1>3, <1>5 DEF NumberInv

LEMMA SubmitNumbers ==
    ASSUME NumberInv, NEW o \in Objects, NEW q \in RequestType, SubmitsAs(o, q)
    PROVE  NumberInv'
  <1> USE RequestsAssumption
  <1>1. KernelInv /\ BookType /\ OutInv
    BY DEF NumberInv
  <1>2. nreq \in Nat /\ nreq + 1 \in Nat /\ nreq < nreq + 1 /\ nreq' = nreq + 1
    BY <1>1 DEF KernelInv, SubmitsAs
  <1>3. q.id = nreq + 1 /\ q.op = o /\ q.stage = "queued" /\ reqs' = reqs \cup {q} /\ cq' = cq
    BY DEF SubmitsAs
  <1>4. \A r \in reqs : r.id <= nreq /\ r.id \in Nat
    BY <1>1, IdsFinite DEF KernelInv, RequestType
  <1>5. \A k \in DOMAIN cq : cq[k].id <= nreq /\ cq[k].id \in Nat
    <2>1. \A k \in DOMAIN cq : cq[k] \in CompletionType
      BY <1>1 DEF KernelInv
    <2> QED
      BY <1>1, <2>1, IdsFinite DEF KernelInv, CompletionType
  <1>6. KernelInv'
    <2>1. nreq' \in 0..MaxRequests
      BY <1>1, <1>2 DEF KernelInv, SubmitsAs
    <2>2. reqs' \subseteq RequestType /\ cq' \in Seq(CompletionType)
      BY <1>1, <1>3 DEF KernelInv
    <2>3. \A r \in reqs' : r.id <= nreq'
      BY <1>2, <1>3, <1>4
    <2>4. \A r \in reqs' : r.stage # "queued" => r.kind \in AllTargetKinds
      BY <1>1, <1>3 DEF KernelInv
    <2>5. \A k \in DOMAIN cq' : cq'[k].id <= nreq'
      BY <1>2, <1>3, <1>5
    <2>6. \A p, r \in reqs' : p.id = r.id => p = r
      <3>1. \A r \in reqs : r.id # q.id
        BY <1>2, <1>3, <1>4
      <3> QED
        BY <1>1, <1>3, <3>1 DEF KernelInv
    <2>7. \A k \in DOMAIN cq' : ~cq'[k].more => \A r \in reqs' : r.id # cq'[k].id
      <3>1. \A k \in DOMAIN cq : cq[k].id # q.id
        BY <1>2, <1>3, <1>5
      <3> QED
        BY <1>1, <1>3, <3>1 DEF KernelInv
    <2>8. /\ \A k, l \in DOMAIN cq' :
               ~cq'[k].more /\ ~cq'[l].more /\ cq'[k].id = cq'[l].id => k = l
          /\ \A k \in DOMAIN cq' :
               cq'[k].more => IsValue(cq'[k]) /\ cq'[k].kind \in {"mtimeout", "mpoll"}
      BY <1>1, <1>3 DEF KernelInv
    <2> QED
      BY <2>1, <2>2, <2>3, <2>4, <2>5, <2>6, <2>7, <2>8 DEF KernelInv
  <1>7. BookType'
    BY <1>1 DEF BookType, SubmitsAs, ghostVars, futexVars
  <1>8. /\ Pending(o)' = Pending(o) \cup {q.id}
        /\ \A p : p # o => Pending(p)' = Pending(p)
    <2>1. q.id \in Ids
      BY DEF RequestType
    <2> QED
      BY <1>3, <2>1 DEF Pending, ReqIds, LastIds
  <1>9. q.id \notin Pending(o)
    BY <1>2, <1>3, <1>4, <1>5 DEF Pending, ReqIds, LastIds
  <1>10. Cardinality(Pending(o)') = Cardinality(Pending(o)) + 1
    BY <1>8, <1>9, PendingFinite, FS_AddElement, ZenonT(40)
  <1>11. OutInv'
    <2>1. out' = [out EXCEPT ![o] = @ + 1] /\ out[o] < MaxPerObject
      BY DEF SubmitsAs
    <2>2. out \in [Objects -> 0..MaxPerObject] /\ \A p \in Objects : out[p] = Cardinality(Pending(p))
      BY <1>1 DEF OutInv
    <2>3. out' \in [Objects -> 0..MaxPerObject]
      BY <2>1, <2>2
    <2>4. \A p \in Objects : out'[p] = Cardinality(Pending(p)')
      BY <1>8, <1>10, <2>1, <2>2
    <2> QED
      BY <2>3, <2>4 DEF OutInv
  <1> QED
    BY <1>6, <1>7, <1>11 DEF NumberInv

LEMMA TargetNumbers ==
    ASSUME NumberInv, TargetStep, word' \in [Words -> Nat], wakes' \subseteq Words
    PROVE  NumberInv'
  <1>1. BookType'
    <2>1. UNCHANGED <<done, calls, report, hit, missed>>
      BY DEF TargetStep, EndsItself, GoesOn, ghostVars
    <2> QED
      BY <2>1 DEF NumberInv, BookType
  <1>2. \E t : Posts(t)
    BY EndsPost, KeepsPost DEF NumberInv, TargetStep, EndsItself, GoesOn
  <1> QED
    BY <1>1, <1>2, PostsNumbers

LEMMA CancelNumbers ==
    ASSUME NumberInv, NEW c \in reqs, ExecuteCancel(c)
    PROVE  NumberInv'
  <1>1. KernelInv /\ BookType
    BY DEF NumberInv
  <1>2. PICK h, s, t : CancelsAs(c, h, s, t)
    BY <1>1, CancelStep
  <1>3. c.id \in Ids /\ {r.id : r \in h} \in SUBSET Ids
    <2>1. h \in Victims(c.kind, {r \in Named(c) : r.stage = "armed"})
      BY <1>2 DEF CancelsAs
    <2>2. h \subseteq reqs
      BY <1>1, <2>1, VictimsAre
    <2>3. \A r \in reqs : r.id \in Ids
      BY <1>1 DEF KernelInv, RequestType
    <2> QED
      BY <2>2, <2>3
  <1>4. UNCHANGED <<word, wakes>>
    BY DEF ExecuteCancel, futexVars
  <1>5. hit' \in [Ids -> SUBSET Ids]
    BY <1>1, <1>2, <1>3 DEF CancelsAs, BookType
  <1>6. missed' \in [Ids -> BOOLEAN]
    <2> DEFINE b == \E r \in Meant(c) : r.stage = "armed" /\ h = {} /\ c.kind # "poll_update"
    <2>1. b \in BOOLEAN
      OBVIOUS
    <2>2. missed' = [missed EXCEPT ![c.id] = b]
      BY <1>2 DEF CancelsAs
    <2> HIDE DEF b
    <2> QED
      BY <1>1, <1>3, <2>1, <2>2 DEF BookType
  <1>7. BookType'
    BY <1>1, <1>2, <1>4, <1>5, <1>6 DEF BookType, CancelsAs
  <1>8. Posts(t)
    BY <1>1, <1>2, EndsPost DEF CancelsAs
  <1> QED
    BY <1>7, <1>8, PostsNumbers

\* What the callback of completion x does.
ReapsAs(x) ==
    /\ cq # <<>>
    /\ x = Head(cq)
    /\ cq' = Tail(cq)
    /\ out' = [out EXCEPT ![x.op] = IF x.more THEN @ ELSE @ - 1]
    /\ done' = [done EXCEPT ![x.id] = IF x.more THEN @ ELSE Outcome(x)]
    /\ calls' = [calls EXCEPT ![x.id] = IF x.more THEN @ + 1 ELSE 0]
    /\ report' = [report EXCEPT ![x.id] = IF x.kind \in AllCancelKinds \ {"poll_update"}
                                          THEN CancelledCount(x.kind, x.ev) ELSE @]
    /\ UNCHANGED <<reqs, hit, missed, word, wakes, nreq>>

\* The owner is told that it is over exactly by a completion without
\* IORING_CQE_F_MORE, since one with the flag is a value.
LEMMA ReapStep ==
    ASSUME KernelInv, Reap
    PROVE  \E x \in CompletionType : ReapsAs(x)
  <1> DEFINE x == Head(cq)
  <1>1. cq # <<>> /\ cq \in Seq(CompletionType)
    BY DEF Reap, KernelInv
  <1>2. x \in CompletionType /\ x = cq[1] /\ 1 \in DOMAIN cq
    BY <1>1, TailAt
  <1>3. x.more => IsValue(x)
    BY <1>2 DEF KernelInv
  <1>4. x.more \in BOOLEAN
    BY <1>2 DEF CompletionType
  <1>5. Over(x) <=> ~x.more
    BY <1>3, <1>4 DEF Over, More
  <1>6. /\ cq' = Tail(cq)
        /\ out' = [out EXCEPT ![x.op] = IF Over(x) THEN @ - 1 ELSE @]
        /\ done' = [done EXCEPT ![x.id] = IF Over(x) THEN Outcome(x) ELSE @]
        /\ calls' = [calls EXCEPT ![x.id] = IF Over(x) THEN 0 ELSE @ + 1]
        /\ report' = [report EXCEPT ![x.id] = IF x.kind \in AllCancelKinds \ {"poll_update"}
                                              THEN CancelledCount(x.kind, x.ev) ELSE @]
        /\ UNCHANGED <<reqs, hit, missed, word, wakes, nreq>>
    BY DEF Reap, ghostVars, futexVars
  <1>7. ReapsAs(x)
    <2>1. x = Head(cq)
      OBVIOUS
    <2> HIDE DEF x
    <2>2. CASE x.more
      BY <1>1, <1>5, <1>6, <2>1, <2>2 DEF ReapsAs
    <2>3. CASE ~x.more
      BY <1>1, <1>5, <1>6, <2>1, <2>3 DEF ReapsAs
    <2> QED
      BY <2>2, <2>3
  <1> QED
    BY <1>2, <1>7

LEMMA ReapNumbers ==
    ASSUME NumberInv, NEW x \in CompletionType, ReapsAs(x)
    PROVE  NumberInv'
  <1> DEFINE u == cq'
  <1>1. KernelInv /\ BookType /\ OutInv
    BY DEF NumberInv
  <1>2. cq \in Seq(CompletionType) /\ cq # <<>> /\ u = Tail(cq) /\ x = Head(cq)
    BY <1>1 DEF KernelInv, ReapsAs
  <1>3. /\ u \in Seq(CompletionType)
        /\ x = cq[1]
        /\ DOMAIN cq = 1..Len(cq) /\ Len(cq) \in Nat
        /\ DOMAIN u = 1..(Len(cq) - 1)
        /\ 1 \in DOMAIN cq
        /\ \A i \in DOMAIN u : i + 1 \in DOMAIN cq /\ u[i] = cq[i + 1]
        /\ \A i \in DOMAIN cq : i # 1 => i - 1 \in DOMAIN u /\ u[i - 1] = cq[i]
    BY <1>2, TailAt
  <1>4. x.id \in Ids /\ x.op \in Objects /\ x.more \in BOOLEAN /\ x.ev \in Int
    BY DEF CompletionType
  <1> HIDE DEF u
  <1>5. KernelInv'
    <2>1. \A k \in DOMAIN u : u[k].id <= nreq
      BY <1>1, <1>3 DEF KernelInv
    <2>2. \A k, l \in DOMAIN u : ~u[k].more /\ ~u[l].more /\ u[k].id = u[l].id => k = l
      <3> TAKE k, l \in DOMAIN u
      <3> HAVE ~u[k].more /\ ~u[l].more /\ u[k].id = u[l].id
      <3>1. k + 1 = l + 1
        BY <1>1, <1>3 DEF KernelInv
      <3> QED
        BY <1>3, <3>1
    <2>3. \A k \in DOMAIN u : ~u[k].more => \A r \in reqs : r.id # u[k].id
      BY <1>1, <1>3 DEF KernelInv
    <2>4. \A k \in DOMAIN u : u[k].more => IsValue(u[k]) /\ u[k].kind \in {"mtimeout", "mpoll"}
      BY <1>1, <1>3 DEF KernelInv
    <2>5. reqs' = reqs /\ nreq' = nreq
      BY DEF ReapsAs
    <2> QED
      BY <1>1, <1>3, <2>1, <2>2, <2>3, <2>4, <2>5 DEF KernelInv, u
  <1>6. BookType'
    <2>1. Outcome(x) \in {"no", "value", "failed", "canceled"}
      BY DEF Outcome
    <2>2. CancelledCount(x.kind, x.ev) \in Int
      BY <1>4 DEF CancelledCount
    <2>3. done' \in [Ids -> {"no", "value", "failed", "canceled"}]
      BY <1>1, <1>4, <2>1 DEF ReapsAs, BookType
    <2>4. calls' \in [Ids -> Nat]
      BY <1>1, <1>4 DEF ReapsAs, BookType
    <2>5. report' \in [Ids -> Int]
      BY <1>1, <1>4, <2>2 DEF ReapsAs, BookType
    <2> QED
      BY <1>1, <2>3, <2>4, <2>5 DEF BookType, ReapsAs
  <1>7. \A o : ReqIds(o)' = ReqIds(o)
    BY DEF ReapsAs, ReqIds
  <1>8. ASSUME NEW o, x.more \/ x.op # o
        PROVE  Pending(o)' = Pending(o)
    <2>1. \A i \in Ids : (\E k \in DOMAIN u : u[k].id = i /\ u[k].op = o /\ ~u[k].more)
                         <=> (\E k \in DOMAIN cq : cq[k].id = i /\ cq[k].op = o /\ ~cq[k].more)
      BY <1>3, <1>8
    <2> QED
      BY <1>7, <2>1 DEF Pending, LastIds, u
  <1>9. ASSUME ~x.more
        PROVE  Pending(x.op)' = Pending(x.op) \ {x.id} /\ x.id \in Pending(x.op)
    <2>1. x.id \in LastIds(x.op)
      BY <1>3, <1>4, <1>9 DEF LastIds
    <2>2. x.id \notin ReqIds(x.op)
      BY <1>1, <1>3, <1>9 DEF ReqIds, KernelInv
    <2>3. \A k \in DOMAIN cq : ~cq[k].more /\ cq[k].id = x.id => k = 1
      BY <1>1, <1>3, <1>9 DEF KernelInv
    <2>4. \A k \in DOMAIN u : u[k].id = x.id => u[k].more
      <3> TAKE k \in DOMAIN u
      <3> HAVE u[k].id = x.id
      <3>1. k + 1 \in DOMAIN cq /\ u[k] = cq[k + 1] /\ k + 1 # 1
        BY <1>3
      <3> QED
        BY <2>3, <3>1
    <2>5. \A i \in Ids : (\E k \in DOMAIN u : u[k].id = i /\ u[k].op = x.op /\ ~u[k].more)
                         <=> /\ i # x.id
                             /\ \E k \in DOMAIN cq : cq[k].id = i /\ cq[k].op = x.op /\ ~cq[k].more
      BY <1>3, <2>4
    <2>6. LastIds(x.op)' = LastIds(x.op) \ {x.id}
      BY <2>5 DEF LastIds, u
    <2> QED
      BY <1>7, <2>1, <2>2, <2>6 DEF Pending
  <1>10. OutInv'
    <2>1. out \in [Objects -> 0..MaxPerObject] /\ \A p \in Objects : out[p] = Cardinality(Pending(p))
      BY <1>1 DEF OutInv
    <2>2. out' = [out EXCEPT ![x.op] = IF x.more THEN @ ELSE @ - 1]
      BY DEF ReapsAs
    <2>3. CASE x.more
      BY <1>4, <1>8, <2>1, <2>2, <2>3 DEF OutInv
    <2>4. CASE ~x.more
      <3>1. Cardinality(Pending(x.op)') = Cardinality(Pending(x.op)) - 1
        BY <1>9, <2>4, PendingFinite, FS_RemoveElement
      <3>2. Cardinality(Pending(x.op)') \in Nat
        BY <1>9, <2>4, PendingFinite, FS_RemoveElement, FS_CardinalityType
      <3>3. out' \in [Objects -> 0..MaxPerObject]
        BY <1>4, <2>1, <2>2, <2>4, <3>1, <3>2, RequestsAssumption
      <3>4. \A p \in Objects : out'[p] = Cardinality(Pending(p)')
        BY <1>4, <1>8, <2>1, <2>2, <2>4, <3>1
      <3> QED
        BY <3>3, <3>4 DEF OutInv
    <2> QED
      BY <2>3, <2>4
  <1> QED
    BY <1>5, <1>6, <1>10 DEF NumberInv

LEMMA NextNumbers == NumberInv /\ [Next]_vars => NumberInv'
  <1> SUFFICES ASSUME NumberInv, [Next]_vars PROVE NumberInv'
    OBVIOUS
  <1>1. KernelInv /\ BookType
    BY DEF NumberInv
  <1>2. CASE Start
    <2>1. word \in [Words -> Nat] /\ nreq \in Nat
      BY <1>1 DEF BookType, KernelInv
    <2> QED
      BY <1>2, <2>1, StartSubmits, SubmitNumbers
  <1>3. ASSUME NEW r \in reqs, Arm(r) \/ Post(r) \/ Fire(r) PROVE NumberInv'
    <2>1. TargetStep
      BY <1>1, <1>3, ArmStep, PostStep, FireStep
    <2>2. UNCHANGED <<word, wakes>>
      BY <1>3 DEF Arm, Post, Fire, futexVars
    <2> QED
      BY <1>1, <2>1, <2>2, TargetNumbers DEF BookType
  <1>4. ASSUME NEW r \in reqs, ExecuteCancel(r) PROVE NumberInv'
    BY <1>4, CancelNumbers
  <1>5. ASSUME NEW w \in Words, Wake(w) PROVE NumberInv'
    <2>1. TargetStep
      BY <1>1, <1>5, WakeStep
    <2>2. word' = word /\ wakes' = wakes \ {w}
      BY <1>5 DEF Wake
    <2> QED
      BY <1>1, <2>1, <2>2, TargetNumbers DEF BookType
  <1>6. ASSUME UNCHANGED <<reqs, cq, out, nreq>>, BookType' PROVE NumberInv'
    <2>1. KernelInv'
      BY <1>1, <1>6 DEF KernelInv
    <2>2. OutInv'
      BY <1>6 DEF NumberInv, OutInv, Pending, ReqIds, LastIds
    <2> QED
      BY <1>6, <2>1, <2>2 DEF NumberInv
  <1>7. ASSUME NEW w \in Words, Store(w) PROVE NumberInv'
    BY <1>1, <1>6, <1>7 DEF Store, BookType, kernelVars, callerVars, ghostVars
  <1>8. CASE Reap
    BY <1>1, <1>8, ReapStep, ReapNumbers
  <1>9. CASE UNCHANGED vars
    BY <1>1, <1>6, <1>9 DEF vars, BookType, kernelVars, callerVars, ghostVars, futexVars
  <1> QED
    BY <1>2, <1>3, <1>4, <1>5, <1>7, <1>8, <1>9 DEF Next, Process

\* The requests, the completions and the caller's book-keeping have their types
\* in every state; in particular no callback (do_callback) ends more submissions
\* of an object than there were.
THEOREM TypeCorrect == Spec => []TypeOK
  <1>1. NumberInv => TypeOK
    <2> SUFFICES ASSUME NumberInv PROVE TypeOK
      OBVIOUS
    <2>1. KernelInv /\ BookType /\ OutInv
      BY DEF NumberInv
    <2>2. \A r \in reqs : r.id \in 1..nreq /\ r.left \in Nat
                          /\ r.stage \in {"queued", "armed", "firing"}
      BY <2>1 DEF KernelInv, RequestType, Stages, Ids
    <2>3. \A i \in DOMAIN cq : cq[i].id \in 1..nreq
      <3>1. \A i \in DOMAIN cq : cq[i] \in CompletionType
        BY <2>1 DEF KernelInv
      <3> QED
        BY <2>1, <3>1 DEF KernelInv, CompletionType, Ids
    <2> QED
      BY <2>1, <2>2, <2>3 DEF TypeOK, BookType, OutInv, Objects
  <1> QED
    BY <1>1, InitNumbers, NextNumbers, PTL DEF Spec

-----------------------------------------------------------------------------
(* Over means over *)

\* Requests and last completions of an object are counted by their numbers.
LEMMA CountedByNumber ==
    ASSUME KernelInv, NEW o
    PROVE  Cardinality(Pending(o)) =
             Cardinality({r \in reqs : r.op = o})
             + Cardinality({k \in DOMAIN cq : cq[k].op = o /\ ~cq[k].more})
  <1> DEFINE R == {r \in reqs : r.op = o}
             L == {k \in DOMAIN cq : cq[k].op = o /\ ~cq[k].more}
             f == [r \in R |-> r.id]
             g == [k \in L |-> cq[k].id]
  <1>1. \A k \in DOMAIN cq : cq[k] \in CompletionType
    BY DEF KernelInv
  <1>2. ReqIds(o) \in SUBSET Ids /\ LastIds(o) \in SUBSET Ids
    BY DEF ReqIds, LastIds
  <1>3. IsFiniteSet(ReqIds(o)) /\ IsFiniteSet(LastIds(o))
    BY <1>2, IdsFinite, FS_Subset
  <1>4. Cardinality(R) = Cardinality(ReqIds(o))
    <2>1. f \in [R -> ReqIds(o)]
      BY DEF ReqIds, KernelInv, RequestType
    <2>2. f \in Injection(R, ReqIds(o))
      BY <2>1 DEF KernelInv, Injection, IsInjective
    <2>3. \A i \in ReqIds(o) : \E r \in R : f[r] = i
      BY DEF ReqIds
    <2>4. f \in Surjection(R, ReqIds(o))
      BY <2>1, <2>3 DEF Surjection
    <2> HIDE DEF f, R
    <2> QED
      BY <1>3, <2>2, <2>4, FS_Injection
  <1>5. Cardinality(L) = Cardinality(LastIds(o))
    <2>1. g \in [L -> LastIds(o)]
      BY <1>1 DEF LastIds, CompletionType
    <2>2. \A k, l \in L : g[k] = g[l] => k = l
      BY DEF KernelInv
    <2>3. g \in Injection(L, LastIds(o))
      BY <2>1, <2>2 DEF Injection, IsInjective
    <2>4. \A i \in LastIds(o) : \E k \in L : g[k] = i
      BY DEF LastIds
    <2>5. g \in Surjection(L, LastIds(o))
      BY <2>1, <2>4 DEF Surjection
    <2> HIDE DEF g, L
    <2> QED
      BY <1>3, <2>3, <2>5, FS_Injection
  <1>6. ReqIds(o) \cap LastIds(o) = {}
    BY DEF ReqIds, LastIds, KernelInv
  <1>7. Cardinality(Pending(o)) = Cardinality(ReqIds(o)) + Cardinality(LastIds(o))
    <2>1. Cardinality(Pending(o)) = Cardinality(ReqIds(o)) + Cardinality(LastIds(o))
                                    - Cardinality(ReqIds(o) \cap LastIds(o))
      BY <1>3, FS_Union DEF Pending
    <2>2. Cardinality(ReqIds(o) \cap LastIds(o)) = 0
      BY <1>6, FS_EmptySet
    <2>3. Cardinality(ReqIds(o)) \in Nat /\ Cardinality(LastIds(o)) \in Nat
      BY <1>3, FS_CardinalityType
    <2> QED
      BY <2>1, <2>2, <2>3
  <1> QED
    BY <1>4, <1>5, <1>7

\* When the callback says that an operation is over, the kernel has nothing of it
\* any more, and until then it has exactly what the caller counts, for any
\* interleaving of shots, ends and cancellations (the do_callback of the targets).
THEOREM OverIsOver == Spec => []OverMeansOver
  <1>1. NumberInv => OverMeansOver
    <2> SUFFICES ASSUME NumberInv, NEW o \in Targets \cup Cancels
                 PROVE  out[o] = Cardinality({r \in reqs : r.op = o})
                                 + Cardinality({i \in DOMAIN cq : cq[i].op = o /\ ~cq[i].more})
      BY DEF OverMeansOver
    <2>1. out[o] = Cardinality(Pending(o))
      BY DEF NumberInv, OutInv, Objects
    <2> QED
      BY <2>1, CountedByNumber DEF NumberInv
  <1> QED
    BY <1>1, InitNumbers, NextNumbers, PTL DEF Spec

-----------------------------------------------------------------------------
(* One winner, and a truthful report *)

Hit(i) == \E j \in Ids : i \in hit[j]

\* Nothing is known yet of a request that is to come or in the kernel.
Fresh(i) == done[i] = "no" /\ report[i] = -2 /\ hit[i] = {} /\ ~Hit(i)

\* A request is ended by one cancellation at most, and the completion that waits
\* to be reaped says whether it was.
HitInv ==
    /\ \A i \in Ids : i > nreq => Fresh(i)
    /\ \A r \in reqs : Fresh(r.id)
    /\ \A k \in DOMAIN cq : ~cq[k].more =>
         /\ done[cq[k].id] = "no"
         /\ report[cq[k].id] = -2
         /\ cq[k].ev = -ECANCELED <=> Hit(cq[k].id)
    /\ \A i, j, l \in Ids : i \in hit[j] /\ i \in hit[l] => j = l
    /\ \A i \in Ids : /\ done[i] = "canceled" => Hit(i)
                      /\ Hit(i) => done[i] \in {"no", "canceled"}

WinnerInv == NumberInv /\ HitInv

LEMMA InitHit == Init => HitInv
  <1> SUFFICES ASSUME Init PROVE HitInv
    OBVIOUS
  <1>1. DOMAIN cq = {} /\ reqs = {}
    BY DEF Init
  <1>2. \A i \in Ids : done[i] = "no" /\ report[i] = -2 /\ hit[i] = {}
    BY DEF Init
  <1>3. \A i \in Ids : Fresh(i)
    BY <1>2 DEF Fresh, Hit
  <1> QED
    BY <1>1, <1>2, <1>3 DEF HitInv, Fresh

LEMMA SubmitHit ==
    ASSUME WinnerInv, NEW o \in Objects, NEW q \in RequestType, SubmitsAs(o, q)
    PROVE  HitInv'
  <1>1. KernelInv /\ HitInv
    BY DEF WinnerInv, NumberInv
  <1>2. UNCHANGED <<cq, done, report, hit>> /\ nreq' = nreq + 1 /\ reqs' = reqs \cup {q}
        /\ q.id = nreq + 1 /\ q.id \in Ids
    BY DEF SubmitsAs, ghostVars, RequestType
  <1>3. \A i : Fresh(i)' = Fresh(i) /\ Hit(i)' = Hit(i)
    BY <1>2 DEF Fresh, Hit
  <1>4. nreq \in Nat /\ Ids \subseteq Nat
    BY <1>1, IdsFinite, RequestsAssumption DEF KernelInv
  <1>5. \A i \in Ids : i > nreq' => Fresh(i)'
    BY <1>1, <1>2, <1>3, <1>4 DEF HitInv
  <1>6. \A r \in reqs' : Fresh(r.id)'
    BY <1>1, <1>2, <1>3, <1>4 DEF HitInv
  <1> QED
    BY <1>1, <1>2, <1>3, <1>5, <1>6 DEF HitInv

\* A step that posts completions of requests that were not cancelled.
LEMMA PostsHit ==
    ASSUME WinnerInv, NEW t, Posts(t), UNCHANGED <<done, report, hit>>,
           \A k \in DOMAIN t : ~t[k].more => t[k].ev # -ECANCELED
    PROVE  HitInv'
  <1> DEFINE u == cq'
  <1>1. KernelInv /\ HitInv
    BY DEF WinnerInv, NumberInv
  <1>2. t \in Seq(CompletionType) /\ cq \in Seq(CompletionType) /\ u = cq \o t
    BY <1>1 DEF Posts, KernelInv
  <1>3. /\ \A i \in DOMAIN cq : i \in DOMAIN u /\ u[i] = cq[i]
        /\ \A i \in DOMAIN u : \/ i \in DOMAIN cq
                               \/ i - Len(cq) \in DOMAIN t
        /\ \A i \in DOMAIN u : i \notin DOMAIN cq => u[i] = t[i - Len(cq)]
    BY <1>2, ConcatAt
  <1>4. \A i : Fresh(i)' = Fresh(i) /\ Hit(i)' = Hit(i)
    BY DEF Fresh, Hit
  <1> HIDE DEF u
  <1>5. \A i \in Ids : i > nreq' => Fresh(i)'
    BY <1>1, <1>4 DEF HitInv, Posts
  <1>6. \A r \in reqs' : Fresh(r.id)'
    BY <1>1, <1>4 DEF HitInv, Posts, Same
  <1>7. ASSUME NEW k \in DOMAIN u, ~u[k].more
        PROVE  /\ done[u[k].id] = "no"
               /\ report[u[k].id] = -2
               /\ u[k].ev = -ECANCELED <=> Hit(u[k].id)
    <2>1. CASE k \in DOMAIN cq
      BY <1>1, <1>3, <1>7, <2>1 DEF HitInv
    <2>2. CASE k \notin DOMAIN cq
      <3>1. k - Len(cq) \in DOMAIN t /\ u[k] = t[k - Len(cq)]
        BY <1>3, <2>2
      <3>2. PICK r \in reqs : Same(u[k], r)
        BY <3>1 DEF Posts
      <3>3. Fresh(u[k].id)
        BY <1>1, <3>2 DEF HitInv, Same
      <3>4. u[k].ev # -ECANCELED
        BY <1>7, <3>1
      <3> QED
        BY <3>3, <3>4 DEF Fresh
    <2> QED
      BY <2>1, <2>2
  <1> QED
    BY <1>1, <1>4, <1>5, <1>6, <1>7 DEF HitInv, u

LEMMA TargetHit ==
    ASSUME WinnerInv, TargetStep
    PROVE  HitInv'
  <1>1. KernelInv
    BY DEF WinnerInv, NumberInv
  <1>2. ASSUME NEW h, NEW s, NEW t, EndsItself(h, s, t) PROVE HitInv'
    <2>1. Posts(t)
      BY <1>1, <1>2, EndsPost DEF EndsItself
    <2> QED
      BY <1>2, <2>1, PostsHit DEF EndsItself, ghostVars
  <1>3. ASSUME NEW r, NEW q, NEW t, GoesOn(r, q, t) PROVE HitInv'
    <2>1. Posts(t)
      BY <1>1, <1>3, KeepsPost DEF GoesOn
    <2>2. \A k \in DOMAIN t : t[k].more
      BY <1>3 DEF GoesOn, KeepsAs
    <2> QED
      BY <1>3, <2>1, <2>2, PostsHit DEF GoesOn, ghostVars
  <1> QED
    BY <1>2, <1>3 DEF TargetStep

\* The requests that a cancellation hits were not hit before, and it had hit none.
LEMMA CancelHits ==
    ASSUME WinnerInv, NEW c, NEW h, NEW s, NEW t, CancelsAs(c, h, s, t)
    PROVE  /\ c \in reqs /\ c.id \in Ids
           /\ h \subseteq reqs /\ c \notin h
           /\ \A r \in h : r.id \in Ids /\ r.id # c.id
           /\ hit'[c.id] = {r.id : r \in h}
           /\ \A j \in Ids : j # c.id => hit'[j] = hit[j]
           /\ \A i : Hit(i)' <=> Hit(i) \/ \E r \in h : r.id = i
  <1>1. KernelInv /\ HitInv /\ BookType
    BY DEF WinnerInv, NumberInv
  <1>2. c \in reqs /\ c.kind \in AllCancelKinds
    BY DEF CancelsAs
  <1>3. h \subseteq reqs /\ c \notin h
    <2>1. h \in Victims(c.kind, {r \in Named(c) : r.stage = "armed"})
      BY DEF CancelsAs
    <2> QED
      BY <1>1, <1>2, <2>1, VictimsAre, KindsApart
  <1>4. \A r \in reqs : r.id \in Ids
    BY <1>1 DEF KernelInv, RequestType
  <1>5. \A r \in h : r.id # c.id
    BY <1>1, <1>2, <1>3 DEF KernelInv
  <1>6. /\ hit'[c.id] = {r.id : r \in h}
        /\ \A j \in Ids : j # c.id => hit'[j] = hit[j]
    BY <1>1, <1>2, <1>4 DEF CancelsAs, BookType
  <1>7. hit[c.id] = {}
    BY <1>1, <1>2 DEF HitInv, Fresh
  <1>8. \A i : Hit(i)' <=> Hit(i) \/ \E r \in h : r.id = i
    BY <1>2, <1>4, <1>6, <1>7 DEF Hit
  <1> QED
    BY <1>2, <1>3, <1>4, <1>5, <1>6, <1>8

LEMMA CancelHit ==
    ASSUME WinnerInv, NEW c, NEW h, NEW s, NEW t, CancelsAs(c, h, s, t)
    PROVE  HitInv'
  <1> DEFINE u == cq'
             Now(i) == \E j \in Ids : i \in hit'[j]
  <1>1. KernelInv /\ HitInv /\ BookType
    BY DEF WinnerInv, NumberInv
  <1>2. /\ c \in reqs /\ c.id \in Ids
        /\ h \subseteq reqs /\ c \notin h
        /\ \A r \in h : r.id \in Ids /\ r.id # c.id
        /\ hit'[c.id] = {r.id : r \in h}
        /\ \A j \in Ids : j # c.id => hit'[j] = hit[j]
        /\ \A i : Now(i) <=> Hit(i) \/ \E r \in h : r.id = i
    <2>1. \A i : Hit(i)' <=> Now(i)
      BY DEF Hit
    <2> QED
      BY <2>1, CancelHits
  <1>3. /\ UNCHANGED <<done, report, nreq>>
        /\ reqs' = reqs \ (h \cup {c})
        /\ t \in Seq(CompletionType) /\ cq \in Seq(CompletionType) /\ u = cq \o t
    BY <1>1 DEF CancelsAs, EndsAs, KernelInv
  <1>4. /\ \A i \in DOMAIN cq : i \in DOMAIN u /\ u[i] = cq[i]
        /\ \A i \in DOMAIN u : \/ i \in DOMAIN cq
                               \/ i - Len(cq) \in DOMAIN t
        /\ \A i \in DOMAIN u : i \notin DOMAIN cq => u[i] = t[i - Len(cq)]
    BY <1>3, ConcatAt
  <1> HIDE DEF u, Now
  <1>5. nreq \in Nat /\ Ids \subseteq Nat /\ \A r \in reqs : r.id <= nreq
    BY <1>1, IdsFinite, RequestsAssumption DEF KernelInv
  <1>6. ASSUME NEW i \in Ids, Fresh(i), i # c.id, \A r \in h : r.id # i
        PROVE  Fresh(i)'
    BY <1>2, <1>3, <1>6 DEF Fresh, Hit, Now
  <1>7. \A i \in Ids : i > nreq' => Fresh(i)'
    BY <1>1, <1>2, <1>3, <1>5, <1>6 DEF HitInv
  <1>8. \A r \in reqs' : Fresh(r.id)'
    <2> TAKE r \in reqs'
    <2>1. r \in reqs /\ r \notin h /\ r # c
      BY <1>3
    <2>2. r.id \in Ids
      BY <1>1, <2>1 DEF KernelInv, RequestType
    <2>3. r.id # c.id /\ \A q \in h : q.id # r.id
      BY <1>1, <1>2, <2>1 DEF KernelInv
    <2> QED
      BY <1>1, <1>6, <2>1, <2>2, <2>3 DEF HitInv
  <1>9. ASSUME NEW k \in DOMAIN u, ~u[k].more
        PROVE  /\ done[u[k].id] = "no"
               /\ report[u[k].id] = -2
               /\ u[k].ev = -ECANCELED <=> Now(u[k].id)
    <2>1. CASE k \in DOMAIN cq
      <3>1. u[k] = cq[k] /\ \A r \in reqs : r.id # u[k].id
        BY <1>1, <1>4, <1>9, <2>1 DEF KernelInv
      <3>2. Now(u[k].id) <=> Hit(u[k].id)
        BY <1>2, <3>1
      <3> QED
        BY <1>1, <1>9, <2>1, <3>1, <3>2 DEF HitInv
    <2>2. CASE k \notin DOMAIN cq
      <3> DEFINE l == k - Len(cq)
      <3>1. l \in DOMAIN t /\ u[k] = t[l]
        BY <1>4, <2>2
      <3>2. Len(s) \in Nat /\ DOMAIN t = 1..(Len(s) + 1)
        BY DEF CancelsAs
      <3> HIDE DEF l
      <3>3. CASE l \in 1..Len(s)
        <4>1. PICK r \in h : Same(t[l], r)
          BY <3>3 DEF CancelsAs
        <4>2. t[l].ev = -ECANCELED
          BY <3>3 DEF CancelsAs
        <4>3. u[k].id = r.id
          BY <3>1, <4>1 DEF Same
        <4>4. Now(u[k].id)
          BY <1>2, <4>3
        <4>5. Fresh(u[k].id)
          BY <1>1, <1>2, <4>3 DEF HitInv
        <4> QED
          BY <3>1, <4>2, <4>4, <4>5 DEF Fresh
      <3>4. CASE l = Len(s) + 1
        <4>1. u[k].id = c.id
          BY <3>1, <3>4 DEF CancelsAs, Same
        <4>2. u[k].ev # -ECANCELED
          <5>1. u[k].ev = CancelResult(c.kind, {r \in Named(c) : r.stage # "queued"}, h)
            BY <3>1, <3>4 DEF CancelsAs
          <5> QED
            BY <1>1, <1>2, <5>1, CancelResultType
        <4>3. Fresh(c.id)
          BY <1>1, <1>2 DEF HitInv
        <4>4. ~Now(c.id)
          BY <1>2, <4>3 DEF Fresh
        <4> QED
          BY <4>1, <4>2, <4>3, <4>4 DEF Fresh
      <3> QED
        BY <3>1, <3>2, <3>3, <3>4
    <2> QED
      BY <2>1, <2>2
  <1>10. \A i, j, l \in Ids : i \in hit'[j] /\ i \in hit'[l] => j = l
    <2>1. \A r \in h : \A j \in Ids : r.id \notin hit[j]
      BY <1>1, <1>2 DEF HitInv, Fresh, Hit
    <2> QED
      BY <1>1, <1>2, <2>1 DEF HitInv
  <1>11. \A i \in Ids : /\ done'[i] = "canceled" => Now(i)
                        /\ Now(i) => done'[i] \in {"no", "canceled"}
    <2>1. \A r \in h : done[r.id] = "no"
      BY <1>1, <1>2 DEF HitInv, Fresh
    <2> QED
      BY <1>1, <1>2, <1>3, <2>1 DEF HitInv
  <1> QED
    BY <1>3, <1>7, <1>8, <1>9, <1>10, <1>11 DEF HitInv, Hit, Now, u

LEMMA ReapHit ==
    ASSUME WinnerInv, NEW x \in CompletionType, ReapsAs(x)
    PROVE  HitInv'
  <1> DEFINE u == cq'
  <1>1. KernelInv /\ HitInv /\ BookType
    BY DEF WinnerInv, NumberInv
  <1>2. cq \in Seq(CompletionType) /\ cq # <<>> /\ u = Tail(cq) /\ x = Head(cq)
    BY <1>1 DEF KernelInv, ReapsAs
  <1>3. /\ x = cq[1]
        /\ DOMAIN cq = 1..Len(cq) /\ Len(cq) \in Nat
        /\ DOMAIN u = 1..(Len(cq) - 1)
        /\ 1 \in DOMAIN cq
        /\ \A i \in DOMAIN u : i + 1 \in DOMAIN cq /\ u[i] = cq[i + 1]
    BY <1>2, TailAt
  <1>4. x.id \in Ids /\ x.more \in BOOLEAN /\ x.ev \in Int
    BY DEF CompletionType
  <1> HIDE DEF u
  <1>5. UNCHANGED <<reqs, hit, nreq>> /\ \A i : Hit(i)' = Hit(i)
    BY DEF ReapsAs, Hit
  <1>6. /\ \A i \in Ids : i # x.id => done'[i] = done[i] /\ report'[i] = report[i]
        /\ done'[x.id] = IF x.more THEN done[x.id] ELSE Outcome(x)
        /\ x.kind \notin AllCancelKinds => report'[x.id] = report[x.id]
    BY <1>1, <1>4 DEF ReapsAs, BookType
  <1>7. x.more => x.kind \notin AllCancelKinds
    BY <1>1, <1>3 DEF KernelInv, AllCancelKinds
  <1>8. \A i \in Ids : i # x.id \/ x.more => done'[i] = done[i] /\ report'[i] = report[i]
    BY <1>6, <1>7
  <1>9. ~x.more => /\ \A r \in reqs : r.id # x.id
                   /\ x.id <= nreq
                   /\ \A k \in DOMAIN u : ~u[k].more => u[k].id # x.id
    <2> HAVE ~x.more
    <2>1. \A r \in reqs : r.id # x.id
      BY <1>1, <1>3 DEF KernelInv
    <2>2. x.id <= nreq
      BY <1>1, <1>3 DEF KernelInv
    <2>3. \A k \in DOMAIN cq : ~cq[k].more /\ cq[k].id = x.id => k = 1
      BY <1>1, <1>3 DEF KernelInv
    <2>4. \A k \in DOMAIN u : k + 1 # 1
      BY <1>3
    <2> QED
      BY <1>3, <2>1, <2>2, <2>3, <2>4
  <1>10. \A i \in Ids : Fresh(i) /\ (i # x.id \/ x.more) => Fresh(i)'
    BY <1>5, <1>8 DEF Fresh
  <1>11. \A i \in Ids : i > nreq' => Fresh(i)'
    <2>1. \A i \in Ids : i > nreq => i # x.id \/ x.more
      BY <1>4, <1>9, IdsFinite, <1>1 DEF KernelInv
    <2> QED
      BY <1>1, <1>5, <1>10, <2>1 DEF HitInv
  <1>12. \A r \in reqs' : Fresh(r.id)'
    <2>1. \A r \in reqs : r.id \in Ids
      BY <1>1 DEF KernelInv, RequestType
    <2> QED
      BY <1>1, <1>4, <1>5, <1>9, <1>10, <2>1 DEF HitInv
  <1>13. ASSUME NEW k \in DOMAIN u, ~u[k].more
         PROVE  /\ done'[u[k].id] = "no"
                /\ report'[u[k].id] = -2
                /\ u[k].ev = -ECANCELED <=> Hit(u[k].id)
    <2>1. u[k] = cq[k + 1] /\ k + 1 \in DOMAIN cq
      BY <1>3
    <2>2. u[k] \in CompletionType
      BY <1>2, <2>1
    <2>3. u[k].id \in Ids
      BY <2>2 DEF CompletionType
    <2>4. done'[u[k].id] = done[u[k].id] /\ report'[u[k].id] = report[u[k].id]
      BY <1>4, <1>8, <1>9, <1>13, <2>3
    <2> QED
      BY <1>1, <1>5, <1>13, <2>1, <2>4 DEF HitInv
  <1>14. ~x.more => /\ Outcome(x) = "canceled" <=> x.ev = -ECANCELED
                    /\ x.ev = -ECANCELED <=> Hit(x.id)
    <2>1. Outcome(x) = "canceled" <=> x.ev = -ECANCELED
      <3>1. x.ev = -ECANCELED => ~IsValue(x)
        BY <1>4 DEF IsValue, ECANCELED, ETIME
      <3> QED
        BY <3>1 DEF Outcome
    <2> QED
      BY <1>1, <1>3, <2>1 DEF HitInv
  <1>15. \A i \in Ids : /\ done'[i] = "canceled" => Hit(i)'
                        /\ Hit(i)' => done'[i] \in {"no", "canceled"}
    <2> TAKE i \in Ids
    <2>1. CASE i # x.id \/ x.more
      BY <1>1, <1>5, <1>8, <2>1 DEF HitInv
    <2>2. CASE i = x.id /\ ~x.more
      BY <1>5, <1>6, <1>14, <2>2
    <2> QED
      BY <1>4, <2>1, <2>2
  <1> QED
    BY <1>1, <1>5, <1>11, <1>12, <1>13, <1>15 DEF HitInv, u

LEMMA NextWinner == WinnerInv /\ [Next]_vars => WinnerInv'
  <1> SUFFICES ASSUME WinnerInv, [Next]_vars PROVE WinnerInv'
    OBVIOUS
  <1>1. NumberInv /\ KernelInv /\ BookType /\ NumberInv'
    BY NextNumbers DEF WinnerInv, NumberInv
  <1>2. CASE Start
    <2>1. word \in [Words -> Nat] /\ nreq \in Nat
      BY <1>1 DEF BookType, KernelInv
    <2> QED
      BY <1>1, <1>2, <2>1, StartSubmits, SubmitHit DEF WinnerInv
  <1>3. ASSUME NEW r \in reqs, Arm(r) \/ Post(r) \/ Fire(r) PROVE HitInv'
    BY <1>1, <1>3, ArmStep, PostStep, FireStep, TargetHit
  <1>4. ASSUME NEW c \in reqs, ExecuteCancel(c) PROVE HitInv'
    BY <1>1, <1>4, CancelStep, CancelHit
  <1>5. ASSUME NEW w \in Words, Wake(w) PROVE HitInv'
    BY <1>1, <1>5, WakeStep, TargetHit
  <1>6. ASSUME UNCHANGED <<reqs, cq, nreq, done, report, hit>> PROVE HitInv'
    <2>1. \A i : Fresh(i)' = Fresh(i) /\ Hit(i)' = Hit(i)
      BY <1>6 DEF Fresh, Hit
    <2> QED
      BY <1>6, <2>1 DEF WinnerInv, HitInv
  <1>7. ASSUME NEW w \in Words, Store(w) PROVE HitInv'
    BY <1>6, <1>7 DEF Store, kernelVars, callerVars, ghostVars
  <1>8. CASE Reap
    BY <1>1, <1>8, ReapStep, ReapHit DEF WinnerInv
  <1>9. CASE UNCHANGED vars
    BY <1>1, <1>6, <1>9 DEF WinnerInv, vars, kernelVars, callerVars, ghostVars
  <1> QED
    BY <1>1, <1>2, <1>3, <1>4, <1>5, <1>7, <1>8, <1>9 DEF WinnerInv, Next, Process

LEMMA InitWinner == Init => WinnerInv
  BY InitNumbers, InitHit DEF WinnerInv

\* A target that raced with cancellations was ended by exactly one of them, and
\* its callback says so, or by none, and its own result arrives: for any number of
\* targets and of cancellations of any kind (the do_callback of targets).
THEOREM RaceHasOneWinner == Spec => []OneWinner
  <1>1. WinnerInv => OneWinner
    <2> SUFFICES ASSUME WinnerInv, NEW i \in Ids
                 PROVE  LET winners == {j \in Ids : i \in hit[j]}
                        IN /\ Cardinality(winners) <= 1
                           /\ done[i] = "canceled" => winners # {}
                           /\ winners # {} => done[i] \in {"no", "canceled"}
      BY DEF OneWinner
    <2> DEFINE winners == {j \in Ids : i \in hit[j]}
    <2>1. HitInv
      BY DEF WinnerInv
    <2>2. winners # {} <=> Hit(i)
      BY DEF Hit
    <2>3. Cardinality(winners) <= 1
      <3>1. CASE winners = {}
        <4>1. Cardinality(winners) = 0
          BY <3>1, FS_EmptySet
        <4> QED
          BY <4>1
      <3>2. CASE winners # {}
        <4>1. PICK j \in Ids : winners = {j}
          BY <2>1, <3>2 DEF HitInv
        <4>2. Cardinality(winners) = 1
          BY <4>1, FS_Singleton
        <4> QED
          BY <4>2
      <3> QED
        BY <3>1, <3>2
    <2> QED
      BY <2>1, <2>2, <2>3 DEF HitInv
  <1> QED
    BY <1>1, InitWinner, NextWinner, PTL DEF Spec

\* The completion of a cancellation that ended the requests H has their number,
\* or is a success where it could only end one.
CountsIn(x, H) ==
    ~x.more /\ x.kind \in AllCancelKinds \ {"poll_update"} =>
      /\ x.kind = "cancel_all" => x.ev = Cardinality(H)
      /\ x.kind # "cancel_all" /\ x.ev >= 0 => Cardinality(H) = 1

TruthInv ==
    /\ WinnerInv
    /\ \A r \in reqs : r.kind # "cancel_fd"
    /\ \A k \in DOMAIN cq : CountsIn(cq[k], hit[cq[k].id])
    /\ \A i \in Ids : ~missed[i]
    /\ \A i \in Ids : report[i] >= 0 => report[i] = Cardinality(hit[i])

\* Completions that are posted to targets do not touch the counts.
LEMMA PostsTruth ==
    ASSUME TruthInv, WinnerInv', NEW t, Posts(t), UNCHANGED <<report, hit, missed>>,
           \A k \in DOMAIN t : t[k].kind \in AllTargetKinds
    PROVE  TruthInv'
  <1> DEFINE u == cq'
  <1>1. KernelInv
    BY DEF TruthInv, WinnerInv, NumberInv
  <1>2. t \in Seq(CompletionType) /\ cq \in Seq(CompletionType) /\ u = cq \o t
    BY <1>1 DEF Posts, KernelInv
  <1>3. /\ \A i \in DOMAIN u : \/ i \in DOMAIN cq
                               \/ i - Len(cq) \in DOMAIN t
        /\ \A i \in DOMAIN cq : u[i] = cq[i]
        /\ \A i \in DOMAIN u : i \notin DOMAIN cq => u[i] = t[i - Len(cq)]
    BY <1>2, ConcatAt
  <1> HIDE DEF u
  <1>4. \A r \in reqs' : r.kind # "cancel_fd"
    BY DEF TruthInv, Posts, Same
  <1>5. ASSUME NEW k \in DOMAIN u PROVE CountsIn(u[k], hit[u[k].id])
    <2>1. CASE k \in DOMAIN cq
      BY <1>3, <2>1 DEF TruthInv
    <2>2. CASE k \notin DOMAIN cq
      <3>1. u[k].kind \in AllTargetKinds
        BY <1>3, <2>2
      <3> QED
        BY <3>1, KindsApart DEF CountsIn
    <2> QED
      BY <2>1, <2>2
  <1> QED
    BY <1>4, <1>5 DEF TruthInv, u, CountsIn

LEMMA TargetTruth ==
    ASSUME TruthInv, WinnerInv', TargetStep
    PROVE  TruthInv'
  <1>1. KernelInv
    BY DEF TruthInv, WinnerInv, NumberInv
  <1>2. ASSUME NEW h, NEW s, NEW t, EndsItself(h, s, t) PROVE TruthInv'
    <2>1. Posts(t)
      BY <1>1, <1>2, EndsPost DEF EndsItself
    <2>2. \A k \in DOMAIN t : t[k].kind \in AllTargetKinds
      BY <1>2 DEF EndsItself
    <2> QED
      BY <1>2, <2>1, <2>2, PostsTruth DEF EndsItself, ghostVars
  <1>3. ASSUME NEW r, NEW q, NEW t, GoesOn(r, q, t) PROVE TruthInv'
    <2>1. Posts(t)
      BY <1>1, <1>3, KeepsPost DEF GoesOn
    <2>2. \A k \in DOMAIN t : t[k].kind \in AllTargetKinds
      BY <1>3 DEF GoesOn, KeepsAs, AllTargetKinds
    <2> QED
      BY <1>3, <2>1, <2>2, PostsTruth DEF GoesOn, ghostVars
  <1> QED
    BY <1>2, <1>3 DEF TargetStep

\* The numbers of a set of requests are as many as the requests.
LEMMA NumbersCount ==
    ASSUME KernelInv, NEW h \in SUBSET reqs
    PROVE  Cardinality({r.id : r \in h}) = Cardinality(h)
  <1> DEFINE T == {r.id : r \in h}
             f == [r \in h |-> r.id]
  <1>1. IsFiniteSet(h)
    BY ReqsFinite
  <1>2. f \in [h -> T]
    OBVIOUS
  <1>3. \A q, r \in h : f[q] = f[r] => q = r
    BY DEF KernelInv
  <1>4. f \in Injection(h, T)
    BY <1>2, <1>3 DEF Injection, IsInjective
  <1>5. f \in Surjection(h, T)
    BY <1>2 DEF Surjection
  <1> HIDE DEF f, T
  <1>6. Cardinality(T) = Cardinality(h)
    BY <1>1, <1>4, <1>5, FS_Surjection
  <1> QED
    BY <1>6 DEF T

\* The result of a cancellation other than cancel_fd counts what it ended, and it
\* leaves no armed target alone.
LEMMA CancelCounts ==
    ASSUME KernelInv, NEW c, c.kind \in AllCancelKinds, c.kind # "cancel_fd",
           NEW h \in Victims(c.kind, {r \in Named(c) : r.stage = "armed"}),
           NEW ev, ev = CancelResult(c.kind, {r \in Named(c) : r.stage # "queued"}, h)
    PROVE  /\ c.kind = "cancel_all" => ev = Cardinality(h)
           /\ c.kind \notin {"cancel_all", "poll_update"} /\ ev >= 0 => Cardinality(h) = 1
           /\ ~ \E r \in Meant(c) : r.stage = "armed" /\ h = {} /\ c.kind # "poll_update"
  <1> DEFINE armed == {r \in Named(c) : r.stage = "armed"}
             found == {r \in Named(c) : r.stage # "queued"}
  <1>1. Named(c) = Meant(c)
    BY DEF Named
  <1>2. h \in Victims(c.kind, armed) /\ ev = CancelResult(c.kind, found, h)
    OBVIOUS
  <1>3. \A r \in Meant(c) : r.stage = "armed" => armed # {}
    BY <1>1
  <1> HIDE DEF armed, found
  <1>4. c.kind # "poll_update" /\ h = {} => armed = {}
    BY <1>2 DEF Victims
  <1>5. c.kind = "cancel_all" => ev = Cardinality(h)
    BY <1>2 DEF CancelResult
  <1>6. ASSUME c.kind \notin {"cancel_all", "poll_update"}, ev >= 0
        PROVE  Cardinality(h) = 1
    <2>1. h # {}
      <3>1. CASE h = {}
        <4>1. ev \in {-ENOENT, -EALREADY}
          BY <1>2, <1>6, <3>1 DEF CancelResult
        <4> QED
          BY <1>6, <4>1 DEF ENOENT, EALREADY
      <3> QED
        BY <3>1
    <2>2. \E r \in armed : h = {r}
      BY <1>2, <1>6, <2>1 DEF Victims
    <2> QED
      BY <2>2, FS_Singleton
  <1> QED
    BY <1>3, <1>4, <1>5, <1>6

LEMMA CancelTruth ==
    ASSUME TruthInv, WinnerInv', NEW c, NEW h, NEW s, NEW t, CancelsAs(c, h, s, t)
    PROVE  TruthInv'
  <1> DEFINE u == cq'
             found == {r \in Named(c) : r.stage # "queued"}
             lost == \E r \in Meant(c) : r.stage = "armed" /\ h = {} /\ c.kind # "poll_update"
  <1>1. WinnerInv /\ KernelInv /\ HitInv /\ BookType
    BY DEF TruthInv, WinnerInv, NumberInv
  <1>2. /\ c \in reqs /\ c.id \in Ids
        /\ h \subseteq reqs /\ c \notin h
        /\ \A r \in h : r.id \in Ids /\ r.id # c.id
        /\ hit'[c.id] = {r.id : r \in h}
        /\ \A j \in Ids : j # c.id => hit'[j] = hit[j]
    BY <1>1, CancelHits
  <1>3. /\ report' = report
        /\ reqs' = reqs \ (h \cup {c})
        /\ t \in Seq(CompletionType) /\ cq \in Seq(CompletionType) /\ u = cq \o t
        /\ missed' = [missed EXCEPT ![c.id] = lost]
        /\ c.kind \in AllCancelKinds
    BY <1>1 DEF CancelsAs, EndsAs, KernelInv
  <1>4. /\ \A i \in DOMAIN u : \/ i \in DOMAIN cq
                               \/ i - Len(cq) \in DOMAIN t
        /\ \A i \in DOMAIN cq : u[i] = cq[i]
        /\ \A i \in DOMAIN u : i \notin DOMAIN cq => u[i] = t[i - Len(cq)]
    BY <1>3, ConcatAt
  <1>5. c.kind # "cancel_fd"
    BY <1>2 DEF TruthInv
  <1>6. /\ c.kind = "cancel_all" => CancelResult(c.kind, found, h) = Cardinality(h)
        /\ c.kind \notin {"cancel_all", "poll_update"} /\ CancelResult(c.kind, found, h) >= 0
             => Cardinality(h) = 1
        /\ ~lost
    <2>1. h \in Victims(c.kind, {r \in Named(c) : r.stage = "armed"})
      BY DEF CancelsAs
    <2> QED
      BY <1>1, <1>3, <1>5, <2>1, CancelCounts
  <1>7. Cardinality(hit'[c.id]) = Cardinality(h)
    BY <1>1, <1>2, NumbersCount
  <1>8. Len(s) \in Nat /\ DOMAIN t = 1..(Len(s) + 1)
    BY DEF CancelsAs
  <1>9. \A k \in 1..Len(s) : t[k].kind \in AllTargetKinds
    <2>1. h \in Victims(c.kind, {r \in Named(c) : r.stage = "armed"})
      BY DEF CancelsAs
    <2>2. \A r \in h : r.kind \in AllTargetKinds
      BY <1>1, <2>1, VictimsAre
    <2> QED
      BY <2>2 DEF CancelsAs, Same
  <1>10. /\ t[Len(s) + 1].id = c.id
         /\ t[Len(s) + 1].kind = c.kind
         /\ t[Len(s) + 1].ev = CancelResult(c.kind, found, h)
    BY DEF CancelsAs, Same
  <1> HIDE DEF u, lost, found
  <1>11. ASSUME NEW k \in DOMAIN u PROVE CountsIn(u[k], hit'[u[k].id])
    <2>1. CASE k \in DOMAIN cq
      <3>1. u[k] = cq[k] /\ CountsIn(cq[k], hit[cq[k].id]) /\ cq[k] \in CompletionType
        BY <1>3, <1>4, <2>1 DEF TruthInv
      <3>2. ~u[k].more => u[k].id # c.id /\ u[k].id \in Ids
        BY <1>1, <1>2, <2>1, <3>1 DEF KernelInv, CompletionType
      <3>3. ~u[k].more => hit'[u[k].id] = hit[u[k].id]
        BY <1>2, <3>2
      <3> QED
        BY <3>1, <3>3 DEF CountsIn
    <2>2. CASE k \notin DOMAIN cq
      <3> DEFINE l == k - Len(cq)
      <3>1. l \in DOMAIN t /\ u[k] = t[l]
        BY <1>4, <2>2
      <3> HIDE DEF l
      <3>2. CASE l \in 1..Len(s)
        BY <1>9, <3>1, <3>2, KindsApart DEF CountsIn
      <3>3. CASE l = Len(s) + 1
        BY <1>6, <1>7, <1>10, <3>1, <3>3 DEF CountsIn
      <3> QED
        BY <1>8, <3>1, <3>2, <3>3
    <2> QED
      BY <2>1, <2>2
  <1>12. \A r \in reqs' : r.kind # "cancel_fd"
    BY <1>3 DEF TruthInv
  <1>13. \A i \in Ids : ~missed'[i]
    BY <1>1, <1>2, <1>3, <1>6 DEF TruthInv, BookType
  <1>14. \A i \in Ids : report'[i] >= 0 => report'[i] = Cardinality(hit'[i])
    <2>1. report[c.id] = -2
      BY <1>1, <1>2 DEF HitInv, Fresh
    <2> TAKE i \in Ids
    <2>2. CASE i = c.id
      BY <1>3, <2>1, <2>2
    <2>3. CASE i # c.id
      BY <1>2, <1>3, <2>3 DEF TruthInv
    <2> QED
      BY <2>2, <2>3
  <1> QED
    BY <1>11, <1>12, <1>13, <1>14 DEF TruthInv, u, CountsIn

LEMMA ReapTruth ==
    ASSUME TruthInv, WinnerInv', NEW x \in CompletionType, ReapsAs(x)
    PROVE  TruthInv'
  <1> DEFINE u == cq'
  <1>1. WinnerInv /\ KernelInv /\ HitInv /\ BookType
    BY DEF TruthInv, WinnerInv, NumberInv
  <1>2. cq \in Seq(CompletionType) /\ cq # <<>> /\ u = Tail(cq) /\ x = Head(cq)
    BY <1>1 DEF KernelInv, ReapsAs
  <1>3. /\ x = cq[1]
        /\ 1 \in DOMAIN cq
        /\ \A i \in DOMAIN u : i + 1 \in DOMAIN cq /\ u[i] = cq[i + 1]
    BY <1>2, TailAt
  <1>4. x.id \in Ids /\ x.more \in BOOLEAN /\ x.ev \in Int
    BY DEF CompletionType
  <1>5. UNCHANGED <<reqs, hit, missed>>
    BY DEF ReapsAs
  <1>6. /\ \A i \in Ids : i # x.id => report'[i] = report[i]
        /\ report'[x.id] = IF x.kind \in AllCancelKinds \ {"poll_update"}
                           THEN CancelledCount(x.kind, x.ev) ELSE report[x.id]
    BY <1>1, <1>4 DEF ReapsAs, BookType
  <1> HIDE DEF u
  <1>7. \A k \in DOMAIN u : CountsIn(u[k], hit[u[k].id])
    BY <1>3 DEF TruthInv
  <1>8. report'[x.id] >= 0 => report'[x.id] = Cardinality(hit[x.id])
    <2>1. CASE x.kind \notin AllCancelKinds \ {"poll_update"}
      BY <1>4, <1>6, <2>1 DEF TruthInv
    <2>2. CASE x.kind \in AllCancelKinds \ {"poll_update"}
      <3>1. ~x.more
        BY <1>1, <1>3, <2>2 DEF KernelInv, AllCancelKinds
      <3>2. CountsIn(x, hit[x.id])
        BY <1>3 DEF TruthInv
      <3>3. CASE x.ev < 0
        BY <1>6, <2>2, <3>3 DEF CancelledCount
      <3>4. CASE x.ev >= 0
        BY <1>4, <1>6, <2>2, <3>1, <3>2, <3>4 DEF CancelledCount, CountsIn
      <3> QED
        BY <1>4, <3>3, <3>4
    <2> QED
      BY <2>1, <2>2
  <1>9. \A i \in Ids : report'[i] >= 0 => report'[i] = Cardinality(hit[i])
    BY <1>6, <1>8 DEF TruthInv
  <1> QED
    BY <1>5, <1>7, <1>9 DEF TruthInv, u

LEMMA NextTruth ==
    ASSUME "cancel_fd" \notin CancelKinds
    PROVE  TruthInv /\ [Next]_vars => TruthInv'
  <1> SUFFICES ASSUME TruthInv, [Next]_vars PROVE TruthInv'
    OBVIOUS
  <1>1. WinnerInv /\ WinnerInv' /\ KernelInv /\ BookType
    BY NextWinner DEF TruthInv, WinnerInv, NumberInv
  <1>2. CASE Start
    <2>1. word \in [Words -> Nat] /\ nreq \in Nat
      BY <1>1 DEF BookType, KernelInv
    <2>2. PICK o \in Objects, q \in RequestType : SubmitsAs(o, q)
      BY <1>2, <2>1, StartSubmits
    <2>3. /\ UNCHANGED <<cq, report, hit, missed>>
          /\ reqs' = reqs \cup {q}
          /\ q.kind \in TargetKinds \cup CancelKinds
      BY <2>2 DEF SubmitsAs, ghostVars
    <2>4. q.kind # "cancel_fd"
      BY <2>3, RequestsAssumption DEF AllTargetKinds
    <2> QED
      BY <1>1, <2>3, <2>4 DEF TruthInv
  <1>3. ASSUME NEW r \in reqs, Arm(r) \/ Post(r) \/ Fire(r) PROVE TruthInv'
    BY <1>1, <1>3, ArmStep, PostStep, FireStep, TargetTruth
  <1>4. ASSUME NEW c \in reqs, ExecuteCancel(c) PROVE TruthInv'
    BY <1>1, <1>4, CancelStep, CancelTruth
  <1>5. ASSUME NEW w \in Words, Wake(w) PROVE TruthInv'
    BY <1>1, <1>5, WakeStep, TargetTruth
  <1>6. ASSUME UNCHANGED <<reqs, cq, report, hit, missed>> PROVE TruthInv'
    BY <1>1, <1>6 DEF TruthInv
  <1>7. ASSUME NEW w \in Words, Store(w) PROVE TruthInv'
    BY <1>6, <1>7 DEF Store, kernelVars, callerVars, ghostVars
  <1>8. CASE Reap
    BY <1>1, <1>8, ReapStep, ReapTruth
  <1>9. CASE UNCHANGED vars
    BY <1>6, <1>9 DEF vars, kernelVars, callerVars, ghostVars
  <1> QED
    BY <1>2, <1>3, <1>4, <1>5, <1>7, <1>8, <1>9 DEF Next, Process

\* The number that a cancellation passes to its callback (do_callback in
\* cancel.hpp, timeout.hpp and poll.hpp) is that of the requests that it ended, and
\* it fails only if its target was not armed, unless it names a file.
THEOREM ReportsAreTrue ==
    ASSUME "cancel_fd" \notin CancelKinds
    PROVE  Spec => []CancelReportsTruth
  <1>1. Init => TruthInv
    <2> SUFFICES ASSUME Init PROVE TruthInv
      OBVIOUS
    <2>1. DOMAIN cq = {} /\ reqs = {} /\ WinnerInv
      BY InitWinner DEF Init
    <2>2. \A i \in Ids : ~missed[i] /\ report[i] = -2
      BY DEF Init
    <2> QED
      BY <2>1, <2>2 DEF TruthInv
  <1>2. TruthInv /\ [Next]_vars => TruthInv'
    BY NextTruth
  <1>3. TruthInv => CancelReportsTruth
    BY DEF TruthInv, CancelReportsTruth
  <1> QED
    BY <1>1, <1>2, <1>3, PTL DEF Spec

-----------------------------------------------------------------------------
(* Timers repeat as often as they were asked to *)

\* The completions of request i that announce more and were not reaped.
Shots(i) == {k \in DOMAIN cq : cq[k].id = i /\ cq[k].more}

\* Calls that were made, completions on their way and shots that are left make up
\* what was asked for; a timer without an end counts nothing.
Counts(i, n, left) ==
    IF n = 0 THEN left = 0
    ELSE left > 0 /\ calls[i] + Cardinality(Shots(i)) + left = n

RepeatInv ==
    /\ NumberInv
    /\ \A i \in Ids : i > nreq => calls[i] = 0
    /\ \A r \in reqs : r.kind = "mtimeout" => Counts(r.id, r.asked, r.left)
    /\ \A k, l \in DOMAIN cq : ~cq[k].more /\ cq[l].id = cq[k].id => l <= k
    /\ \A k \in DOMAIN cq : ~cq[k].more /\ cq[k].kind = "mtimeout" =>
         \E n \in Nat : Counts(cq[k].id, cq[k].asked, n) /\ (IsValue(cq[k]) => n = 1)
    /\ \A k \in DOMAIN cq : cq[k].more =>
         \/ \E r \in reqs : Same(cq[k], r)
         \/ \E l \in DOMAIN cq : ~cq[l].more /\ Same(cq[k], cq[l])

LEMMA ShotsFinite ==
    ASSUME KernelInv, NEW i
    PROVE  IsFiniteSet(Shots(i)) /\ Cardinality(Shots(i)) \in Nat
  <1>1. Shots(i) \in SUBSET (1..Len(cq)) /\ Len(cq) \in Nat
    BY DEF Shots, KernelInv
  <1>2. IsFiniteSet(1..Len(cq))
    BY <1>1, FS_Interval
  <1>3. IsFiniteSet(Shots(i))
    BY <1>1, <1>2, FS_Subset
  <1> QED
    BY <1>3, FS_CardinalityType

LEMMA InitRepeat == Init => RepeatInv
  <1> SUFFICES ASSUME Init PROVE RepeatInv
    OBVIOUS
  <1>1. DOMAIN cq = {} /\ reqs = {}
    BY DEF Init
  <1>2. \A i \in Ids : calls[i] = 0
    BY DEF Init
  <1> QED
    BY <1>1, <1>2, InitNumbers DEF RepeatInv

LEMMA SubmitRepeat ==
    ASSUME RepeatInv, NumberInv', \A n \in Repeats : n < CountModulus,
           NEW o \in Objects, NEW q \in RequestType, SubmitsAs(o, q)
    PROVE  RepeatInv'
  <1>1. KernelInv /\ BookType
    BY DEF RepeatInv, NumberInv
  <1>2. /\ UNCHANGED <<cq, calls>>
        /\ nreq' = nreq + 1 /\ q.id = nreq + 1 /\ q.id \in Ids
        /\ reqs' = reqs \cup {q}
        /\ q.asked \in Nat
        /\ q.kind = "mtimeout" => q.asked \in Repeats /\ q.left = BuildCount(q.asked)
    BY DEF SubmitsAs, RequestType
  <1>3. nreq \in Nat /\ Ids \subseteq Nat
    BY <1>1, IdsFinite, RequestsAssumption DEF KernelInv
  <1>4. \A i : Shots(i)' = Shots(i)
    BY <1>2 DEF Shots
  <1>5. \A i, n, left : Counts(i, n, left)' = Counts(i, n, left)
    BY <1>2, <1>4 DEF Counts
  <1>6. q.kind = "mtimeout" => Counts(q.id, q.asked, q.left)
    <2> HAVE q.kind = "mtimeout"
    <2>1. q.left = q.asked
      <3>1. \A n \in Nat : n < CountModulus => n % CountModulus = n
        BY RequestsAssumption
      <3> QED
        BY <1>2, <3>1 DEF BuildCount
    <2>2. calls[q.id] = 0
      BY <1>2, <1>3 DEF RepeatInv
    <2>3. Shots(q.id) = {}
      BY <1>1, <1>2, <1>3 DEF Shots, KernelInv
    <2>4. Cardinality(Shots(q.id)) = 0
      BY <2>3, FS_EmptySet
    <2> QED
      BY <1>2, <2>1, <2>2, <2>4 DEF Counts
  <1>7. \A r \in reqs' : r.kind = "mtimeout" => Counts(r.id, r.asked, r.left)'
    BY <1>2, <1>5, <1>6 DEF RepeatInv
  <1>8. \A i \in Ids : i > nreq' => calls'[i] = 0
    BY <1>2, <1>3 DEF RepeatInv
  <1> QED
    BY <1>2, <1>5, <1>7, <1>8 DEF RepeatInv

\* Ends of requests: their counts pass to their last completions.
LEMMA EndsRepeat ==
    ASSUME RepeatInv, NumberInv', NEW h, NEW s, NEW t, EndsAs(h, s, t), calls' = calls,
           \A k \in DOMAIN t : t[k].kind = "mtimeout" /\ IsValue(t[k]) => s[k].left = 1
    PROVE  RepeatInv'
  <1> DEFINE u == cq'
  <1>1. KernelInv /\ BookType
    BY DEF RepeatInv, NumberInv
  <1>2. /\ t \in Seq(CompletionType) /\ cq \in Seq(CompletionType) /\ u = cq \o t
        /\ reqs' = reqs \ h /\ h \subseteq reqs /\ nreq' = nreq
        /\ DOMAIN t = DOMAIN s /\ s \in Seq(h)
        /\ \A k \in DOMAIN t : Same(t[k], s[k]) /\ ~t[k].more
    BY <1>1 DEF EndsAs, KernelInv
  <1>3. /\ DOMAIN u = 1..(Len(cq) + Len(t))
        /\ Len(cq) \in Nat /\ Len(t) \in Nat
        /\ DOMAIN cq = 1..Len(cq) /\ DOMAIN t = 1..Len(t)
        /\ \A i \in DOMAIN cq : i \in DOMAIN u /\ u[i] = cq[i]
        /\ \A i \in DOMAIN t : Len(cq) + i \in DOMAIN u /\ u[Len(cq) + i] = t[i]
        /\ \A i \in DOMAIN u : \/ i \in DOMAIN cq
                               \/ i - Len(cq) \in DOMAIN t
        /\ \A i \in DOMAIN u : i \notin DOMAIN cq => u[i] = t[i - Len(cq)]
    BY <1>2, ConcatAt
  <1>4. \A k \in DOMAIN s : s[k] \in h /\ s[k] \in reqs
    BY <1>2
  <1> DEFINE After(i) == {k \in DOMAIN u : u[k].id = i /\ u[k].more}
  <1> HIDE DEF u
  <1>5. \A i : After(i) = Shots(i)
    <2> TAKE i
    <2>1. \A k \in After(i) : k \in DOMAIN cq
      BY <1>2, <1>3
    <2> QED
      BY <1>3, <2>1 DEF Shots
  <1>6. \A i : Shots(i)' = Shots(i)
    BY <1>5 DEF Shots, u
  <1>7. \A i, n, left : Counts(i, n, left)' = Counts(i, n, left)
    BY <1>6 DEF Counts
  <1>8. ASSUME NEW k \in DOMAIN u, NEW l \in DOMAIN u, ~u[k].more, u[l].id = u[k].id
        PROVE  l <= k
    <2>1. CASE k \in DOMAIN cq /\ l \in DOMAIN cq
      BY <1>3, <1>8, <2>1 DEF RepeatInv
    <2>2. CASE k \in DOMAIN cq /\ l \notin DOMAIN cq
      <3>1. PICK r \in reqs : r.id = u[l].id
        BY <1>2, <1>3, <1>4, <2>2 DEF Same
      <3> QED
        BY <1>1, <1>3, <1>8, <2>2, <3>1 DEF KernelInv
    <2>3. CASE k \notin DOMAIN cq /\ l \in DOMAIN cq
      BY <1>3, <2>3
    <2>4. CASE k \notin DOMAIN cq /\ l \notin DOMAIN cq
      <3> DEFINE i == k - Len(cq)
                 j == l - Len(cq)
      <3>1. i \in DOMAIN t /\ j \in DOMAIN t /\ u[k] = t[i] /\ u[l] = t[j]
        BY <1>3, <2>4
      <3> HIDE DEF i, j
      <3>2. s[i] \in reqs /\ s[j] \in reqs /\ s[i].id = s[j].id
        BY <1>2, <1>4, <1>8, <3>1 DEF Same
      <3>3. s[i] = s[j]
        BY <1>1, <3>2 DEF KernelInv
      <3>4. i = j
        BY <1>2, <3>1, <3>3 DEF EndsAs
      <3> QED
        BY <1>3, <3>4 DEF i, j
    <2> QED
      BY <2>1, <2>2, <2>3, <2>4
  <1>9. ASSUME NEW k \in DOMAIN u, ~u[k].more, u[k].kind = "mtimeout"
        PROVE  \E n \in Nat : Counts(u[k].id, u[k].asked, n) /\ (IsValue(u[k]) => n = 1)
    <2>1. CASE k \in DOMAIN cq
      BY <1>3, <1>9, <2>1 DEF RepeatInv
    <2>2. CASE k \notin DOMAIN cq
      <3> DEFINE i == k - Len(cq)
      <3>1. i \in DOMAIN t /\ u[k] = t[i]
        BY <1>3, <2>2
      <3> HIDE DEF i
      <3>2. s[i] \in reqs /\ Same(t[i], s[i])
        BY <1>2, <1>4, <3>1
      <3>3. Counts(s[i].id, s[i].asked, s[i].left)
        BY <1>9, <3>1, <3>2 DEF RepeatInv, Same
      <3>4. s[i].left \in Nat
        BY <1>1, <3>2 DEF KernelInv, RequestType
      <3>5. IsValue(u[k]) => s[i].left = 1
        BY <1>9, <3>1
      <3>6. Counts(u[k].id, u[k].asked, s[i].left)
        BY <3>1, <3>2, <3>3 DEF Same
      <3> QED
        BY <3>4, <3>5, <3>6
    <2> QED
      BY <2>1, <2>2
  <1>10. ASSUME NEW k \in DOMAIN u, u[k].more
         PROVE  \/ \E r \in reqs' : Same(u[k], r)
                \/ \E l \in DOMAIN u : ~u[l].more /\ Same(u[k], u[l])
    <2>1. k \in DOMAIN cq /\ u[k] = cq[k]
      BY <1>2, <1>3, <1>10
    <2>2. CASE \E l \in DOMAIN cq : ~cq[l].more /\ Same(cq[k], cq[l])
      BY <1>3, <2>1, <2>2
    <2>3. ASSUME NEW r \in reqs, Same(cq[k], r)
          PROVE  \/ \E q \in reqs' : Same(u[k], q)
                 \/ \E l \in DOMAIN u : ~u[l].more /\ Same(u[k], u[l])
      <3>1. CASE r \notin h
        BY <1>2, <2>1, <2>3, <3>1
      <3>2. CASE r \in h
        <4>1. PICK j \in DOMAIN s : s[j] = r
          BY <3>2 DEF EndsAs
        <4>2. j \in DOMAIN t /\ Same(t[j], r) /\ ~t[j].more
          BY <1>2, <4>1
        <4>3. Same(u[k], t[j])
          BY <2>1, <2>3, <4>2 DEF Same
        <4> QED
          BY <1>3, <4>2, <4>3
      <3> QED
        BY <3>1, <3>2
    <2> QED
      BY <1>10, <2>1, <2>2, <2>3 DEF RepeatInv
  <1>11. \A r \in reqs' : r.kind = "mtimeout" => Counts(r.id, r.asked, r.left)
    BY <1>2 DEF RepeatInv
  <1>12. \A i \in Ids : i > nreq' => calls'[i] = 0
    BY <1>2 DEF RepeatInv
  <1> QED
    BY <1>7, <1>8, <1>9, <1>10, <1>11, <1>12 DEF RepeatInv, u

\* A request goes on: a shot passes from what is left to what is on its way.
LEMMA KeepsRepeat ==
    ASSUME RepeatInv, NumberInv', NEW r, NEW q, NEW t, GoesOn(r, q, t)
    PROVE  RepeatInv'
  <1> DEFINE u == cq'
             After(i) == {k \in DOMAIN u : u[k].id = i /\ u[k].more}
             Now(i, n, left) ==
               IF n = 0 THEN left = 0
               ELSE left > 0 /\ calls[i] + Cardinality(After(i)) + left = n
  <1>1. KernelInv /\ BookType
    BY DEF RepeatInv, NumberInv
  <1>2. /\ t \in Seq(CompletionType) /\ cq \in Seq(CompletionType) /\ u = cq \o t
        /\ r \in reqs /\ reqs' = (reqs \ {r}) \cup {q}
        /\ q.id = r.id /\ q.kind = r.kind /\ q.asked = r.asked /\ q.left \in Nat
        /\ r.left \in Nat /\ r.asked \in Nat /\ r.id \in Ids
        /\ nreq' = nreq /\ calls' = calls
        /\ \A k \in DOMAIN t : Same(t[k], r) /\ Same(t[k], q) /\ t[k].more
    BY <1>1 DEF GoesOn, KeepsAs, KernelInv, RequestType, Same
  <1>3. /\ DOMAIN u = 1..(Len(cq) + Len(t))
        /\ Len(cq) \in Nat /\ Len(t) \in Nat
        /\ DOMAIN cq = 1..Len(cq) /\ DOMAIN t = 1..Len(t)
        /\ \A i \in DOMAIN cq : i \in DOMAIN u /\ u[i] = cq[i]
        /\ \A i \in DOMAIN t : Len(cq) + i \in DOMAIN u /\ u[Len(cq) + i] = t[i]
        /\ \A i \in DOMAIN u : \/ i \in DOMAIN cq
                               \/ i - Len(cq) \in DOMAIN t
        /\ \A i \in DOMAIN u : i \notin DOMAIN cq => u[i] = t[i - Len(cq)]
    BY <1>2, ConcatAt
  <1> HIDE DEF u
  <1>4. \A i : i # r.id => After(i) = Shots(i)
    <2> TAKE i
    <2> HAVE i # r.id
    <2>1. \A k \in After(i) : k \in DOMAIN cq
      BY <1>2, <1>3 DEF Same
    <2> QED
      BY <1>3, <2>1 DEF Shots
  <1>5. \A k \in DOMAIN u : ~u[k].more => k \in DOMAIN cq /\ u[k] = cq[k] /\ u[k].id # r.id
    <2> TAKE k \in DOMAIN u
    <2> HAVE ~u[k].more
    <2>1. k \in DOMAIN cq
      BY <1>2, <1>3
    <2> QED
      BY <1>1, <1>2, <1>3, <2>1 DEF KernelInv
  <1>6. r.kind = "mtimeout" => Now(q.id, q.asked, q.left)
    <2> HAVE r.kind = "mtimeout"
    <2>1. Counts(r.id, r.asked, r.left)
      BY <1>2 DEF RepeatInv
    <2>2. CASE t = <<>> /\ q.left = r.left
      <3>1. u = cq
        BY <1>2, <2>2
      <3>2. After(r.id) = Shots(r.id)
        BY <3>1 DEF Shots
      <3> QED
        BY <1>2, <2>1, <2>2, <3>2, ZenonT(40) DEF Counts
    <2>3. CASE /\ \E x : t = <<x>>
               /\ r.left # 1 /\ q.left = IF r.left = 0 THEN 0 ELSE r.left - 1
      <3> DEFINE m == Len(cq) + 1
      <3>1. Len(t) = 1
        BY <2>3
      <3>2. m \in DOMAIN u /\ u[m] = t[1] /\ m \notin DOMAIN cq /\ 1 \in DOMAIN t
        BY <1>3, <3>1
      <3>3. \A k \in DOMAIN u : k \in DOMAIN cq \/ k = m
        BY <1>3, <3>1
      <3> HIDE DEF m
      <3>4. After(r.id) = Shots(r.id) \cup {m}
        BY <1>2, <1>3, <3>2, <3>3 DEF Shots, Same
      <3>5. m \notin Shots(r.id)
        BY <3>2 DEF Shots
      <3>6. Cardinality(After(r.id)) = Cardinality(Shots(r.id)) + 1
        BY <1>1, <3>4, <3>5, ShotsFinite, FS_AddElement
      <3>7. Cardinality(Shots(r.id)) \in Nat /\ calls[r.id] \in Nat
        BY <1>1, <1>2, ShotsFinite DEF BookType
      <3> DEFINE a == Cardinality(After(r.id))
                 b == Cardinality(Shots(r.id))
                 c == calls[r.id]
      <3>8. a = b + 1 /\ b \in Nat /\ c \in Nat
        BY <3>6, <3>7
      <3>9. IF r.asked = 0 THEN r.left = 0 ELSE r.left > 0 /\ c + b + r.left = r.asked
        BY <2>1 DEF Counts
      <3>10. IF q.asked = 0 THEN q.left = 0 ELSE q.left > 0 /\ c + a + q.left = q.asked
        <4> HIDE DEF a, b, c
        <4> QED
          BY <1>2, <2>3, <3>8, <3>9, SMTT(30)
      <3> HIDE DEF After
      <3> QED
        BY <1>2, <3>10
    <2> QED
      BY <1>2, <2>2, <2>3 DEF GoesOn
  <1>7. \A i, n, left : i # r.id => Now(i, n, left) = Counts(i, n, left)
    <2> HIDE DEF After
    <2> QED
      BY <1>4 DEF Counts
  <1>8. \A p \in reqs' : p.kind = "mtimeout" => Now(p.id, p.asked, p.left)
    <2> TAKE p \in reqs'
    <2> HAVE p.kind = "mtimeout"
    <2> HIDE DEF Now
    <2>1. CASE p = q
      BY <1>2, <1>6, <2>1
    <2>2. CASE p # q
      <3>1. p \in reqs /\ p # r
        BY <1>2, <2>2
      <3>2. p.id # r.id
        BY <1>1, <1>2, <3>1 DEF KernelInv
      <3>3. Counts(p.id, p.asked, p.left)
        BY <3>1 DEF RepeatInv
      <3> QED
        BY <1>7, <3>2, <3>3
    <2> QED
      BY <2>1, <2>2
  <1>9. \A k, l \in DOMAIN u : ~u[k].more /\ u[l].id = u[k].id => l <= k
    <2> TAKE k, l \in DOMAIN u
    <2> HAVE ~u[k].more /\ u[l].id = u[k].id
    <2>1. k \in DOMAIN cq /\ u[k] = cq[k] /\ u[k].id # r.id
      BY <1>5
    <2>2. l \in DOMAIN cq /\ u[l] = cq[l]
      BY <1>2, <1>3, <2>1 DEF Same
    <2> QED
      BY <2>1, <2>2 DEF RepeatInv
  <1>10. \A k \in DOMAIN u : ~u[k].more /\ u[k].kind = "mtimeout" =>
           \E n \in Nat : Now(u[k].id, u[k].asked, n) /\ (IsValue(u[k]) => n = 1)
    <2> TAKE k \in DOMAIN u
    <2> HAVE ~u[k].more /\ u[k].kind = "mtimeout"
    <2> HIDE DEF Now
    <2>1. k \in DOMAIN cq /\ u[k] = cq[k] /\ u[k].id # r.id
      BY <1>5
    <2>2. PICK n \in Nat : Counts(u[k].id, u[k].asked, n) /\ (IsValue(u[k]) => n = 1)
      BY <2>1 DEF RepeatInv
    <2> QED
      BY <1>7, <2>1, <2>2
  <1>11. ASSUME NEW k \in DOMAIN u, u[k].more
         PROVE  \/ \E p \in reqs' : Same(u[k], p)
                \/ \E l \in DOMAIN u : ~u[l].more /\ Same(u[k], u[l])
    <2>1. CASE k \in DOMAIN cq
      <3>1. u[k] = cq[k] /\ cq[k].more
        BY <1>3, <1>11, <2>1
      <3>2. CASE \E p \in reqs : Same(cq[k], p)
        <4>1. PICK p \in reqs : Same(cq[k], p)
          BY <3>2
        <4>2. CASE p = r
          <5>1. Same(q, r)
            BY DEF GoesOn, KeepsAs
          <5>2. Same(u[k], q)
            BY <3>1, <4>1, <4>2, <5>1 DEF Same
          <5> QED
            BY <1>2, <5>2
        <4> QED
          BY <1>2, <3>1, <4>1, <4>2
      <3>3. CASE \E l \in DOMAIN cq : ~cq[l].more /\ Same(cq[k], cq[l])
        BY <1>3, <3>1, <3>3
      <3> QED
        BY <2>1, <3>1, <3>2, <3>3 DEF RepeatInv
    <2>2. CASE k \notin DOMAIN cq
      <3>1. Same(u[k], q)
        BY <1>2, <1>3, <2>2
      <3> QED
        BY <1>2, <3>1
    <2> QED
      BY <2>1, <2>2
  <1>12. \A i \in Ids : i > nreq' => calls'[i] = 0
    BY <1>2 DEF RepeatInv
  <1>13. \A i, n, left : Now(i, n, left) = Counts(i, n, left)'
    BY <1>2 DEF Counts, Shots, u
  <1> HIDE DEF Now
  <1> QED
    BY <1>8, <1>9, <1>10, <1>11, <1>12, <1>13 DEF RepeatInv, u

LEMMA TargetRepeat ==
    ASSUME RepeatInv, NumberInv', TargetStep
    PROVE  RepeatInv'
  <1>1. ASSUME NEW h, NEW s, NEW t, EndsItself(h, s, t) PROVE RepeatInv'
    BY <1>1, EndsRepeat DEF EndsItself
  <1> QED
    BY <1>1, KeepsRepeat DEF TargetStep

\* A cancelled timer ends with -ECANCELED, which is no value.
LEMMA CancelRepeat ==
    ASSUME RepeatInv, NumberInv', NEW c, NEW h, NEW s, NEW t, CancelsAs(c, h, s, t)
    PROVE  RepeatInv'
  <1>1. EndsAs(h \cup {c}, s \o <<c>>, t) /\ calls' = calls
    BY DEF CancelsAs
  <1>2. \A k \in DOMAIN t : ~(t[k].kind = "mtimeout" /\ IsValue(t[k]))
    <2> TAKE k \in DOMAIN t
    <2>1. CASE k \in 1..Len(s)
      <3>1. t[k].ev = -ECANCELED
        BY <2>1 DEF CancelsAs
      <3> QED
        BY <3>1 DEF IsValue, ECANCELED, ETIME
    <2>2. CASE k = Len(s) + 1
      <3>1. t[k].kind \in AllCancelKinds
        BY <2>2 DEF CancelsAs, Same
      <3> QED
        BY <3>1 DEF AllCancelKinds
    <2>3. Len(s) \in Nat /\ DOMAIN t = 1..(Len(s) + 1)
      BY DEF CancelsAs
    <2> QED
      BY <2>1, <2>2, <2>3
  <1> QED
    BY <1>1, <1>2, EndsRepeat

\* A callback that is told of more counts one call more and one completion less;
\* the one that is told of the end has no successor.
LEMMA ReapRepeat ==
    ASSUME RepeatInv, NumberInv', NEW x \in CompletionType, ReapsAs(x)
    PROVE  RepeatInv'
  <1> DEFINE u == cq'
             w == calls'
             After(i) == {k \in DOMAIN u : u[k].id = i /\ u[k].more}
             Now(i, n, left) ==
               IF n = 0 THEN left = 0
               ELSE left > 0 /\ w[i] + Cardinality(After(i)) + left = n
  <1>1. KernelInv /\ BookType
    BY DEF RepeatInv, NumberInv
  <1>2. cq \in Seq(CompletionType) /\ cq # <<>> /\ u = Tail(cq) /\ x = Head(cq)
    BY <1>1 DEF KernelInv, ReapsAs
  <1>3. /\ x = cq[1]
        /\ DOMAIN cq = 1..Len(cq) /\ Len(cq) \in Nat
        /\ DOMAIN u = 1..(Len(cq) - 1)
        /\ 1 \in DOMAIN cq
        /\ \A i \in DOMAIN u : i + 1 \in DOMAIN cq /\ u[i] = cq[i + 1]
        /\ \A i \in DOMAIN cq : i # 1 => i - 1 \in DOMAIN u /\ u[i - 1] = cq[i]
    BY <1>2, TailAt
  <1>4. x.id \in Ids /\ x.more \in BOOLEAN
    BY DEF CompletionType
  <1>5. /\ reqs' = reqs /\ nreq' = nreq
        /\ \A i \in Ids : i # x.id => w[i] = calls[i]
        /\ x.more => w[x.id] = calls[x.id] + 1
        /\ \A i \in Ids : calls[i] \in Nat
    BY <1>1, <1>4 DEF ReapsAs, BookType
  <1> HIDE DEF u, w
  <1>6. \A i : Cardinality(After(i)) = Cardinality(Shots(i) \ {1})
    <2> TAKE i
    <2> DEFINE A == After(i)
               B == Shots(i) \ {1}
               f == [k \in A |-> k + 1]
    <2>1. \A k \in A : k \in Nat /\ k + 1 \in B
      BY <1>3 DEF Shots
    <2>2. \A l \in B : l \in Nat /\ l - 1 \in A
      BY <1>3 DEF Shots
    <2>3. A \subseteq 1..(Len(cq) - 1)
      BY <1>3
    <2> HIDE DEF A, B
    <2>4. IsFiniteSet(A)
      <3>1. IsFiniteSet(1..(Len(cq) - 1))
        BY <1>3, FS_Interval
      <3> QED
        BY <2>3, <3>1, FS_Subset
    <2>5. f \in Bijection(A, B)
      <3>1. f \in [A -> B]
        BY <2>1
      <3>2. \A k, l \in A : f[k] = f[l] => k = l
        BY <2>1
      <3>3. \A l \in B : \E k \in A : f[k] = l
        <4> TAKE l \in B
        <4>1. l - 1 \in A /\ f[l - 1] = l
          BY <2>2
        <4> QED
          BY <4>1
      <3> HIDE DEF f
      <3> QED
        BY <3>1, <3>2, <3>3 DEF Bijection, Injection, Surjection, IsInjective
    <2>6. Cardinality(A) = Cardinality(B)
      BY <2>4, <2>5, FS_Bijection DEF ExistsBijection
    <2> QED
      BY <2>6 DEF A, B
  <1>7. \A i : i # x.id => Cardinality(After(i)) = Cardinality(Shots(i))
    <2> TAKE i
    <2> HAVE i # x.id
    <2>1. Shots(i) \ {1} = Shots(i)
      BY <1>3 DEF Shots
    <2> QED
      BY <1>6, <2>1
  <1>8. x.more => /\ Cardinality(After(x.id)) = Cardinality(Shots(x.id)) - 1
                  /\ Cardinality(Shots(x.id)) \in Nat
    <2> HAVE x.more
    <2>1. 1 \in Shots(x.id)
      BY <1>3 DEF Shots
    <2>2. Cardinality(Shots(x.id) \ {1}) = Cardinality(Shots(x.id)) - 1
      BY <1>1, <2>1, ShotsFinite, FS_RemoveElement
    <2> QED
      BY <1>1, <1>6, <2>2, ShotsFinite
  <1> HIDE DEF After
  <1>9. ASSUME NEW i \in Ids, NEW n \in Nat, NEW left \in Nat, Counts(i, n, left), x.more \/ i # x.id
        PROVE  Now(i, n, left)
    <2>1. CASE i # x.id
      BY <1>5, <1>7, <1>9, <2>1 DEF Counts
    <2>2. CASE i = x.id /\ x.more
      <3> DEFINE a == Cardinality(After(x.id))
                 b == Cardinality(Shots(x.id))
                 c == calls[x.id]
      <3>1. b \in Nat /\ a = b - 1 /\ c \in Nat /\ w[x.id] = c + 1
        BY <1>4, <1>5, <1>8, <2>2
      <3>2. IF n = 0 THEN left = 0 ELSE left > 0 /\ c + b + left = n
        BY <1>9, <2>2 DEF Counts
      <3>3. IF n = 0 THEN left = 0 ELSE left > 0 /\ (c + 1) + a + left = n
        <4> HIDE DEF a, b, c
        <4> QED
          BY <3>1, <3>2
      <3> QED
        BY <2>2, <3>1, <3>3
    <2> QED
      BY <1>4, <1>9, <2>1, <2>2
  <1> HIDE DEF Now
  <1>10. \A r \in reqs : r.kind = "mtimeout" => Now(r.id, r.asked, r.left)
    <2> TAKE r \in reqs
    <2> HAVE r.kind = "mtimeout"
    <2>1. Counts(r.id, r.asked, r.left)
      BY DEF RepeatInv
    <2>2. x.more \/ r.id # x.id
      BY <1>1, <1>3 DEF KernelInv
    <2>3. r.id \in Ids /\ r.asked \in Nat /\ r.left \in Nat
      BY <1>1 DEF KernelInv, RequestType
    <2> QED
      BY <1>9, <2>1, <2>2, <2>3
  <1>11. \A k, l \in DOMAIN u : ~u[k].more /\ u[l].id = u[k].id => l <= k
    <2> TAKE k, l \in DOMAIN u
    <2> HAVE ~u[k].more /\ u[l].id = u[k].id
    <2>1. l + 1 <= k + 1
      BY <1>3 DEF RepeatInv
    <2> QED
      BY <1>3, <2>1
  <1>12. ASSUME NEW k \in DOMAIN u, ~u[k].more, u[k].kind = "mtimeout"
         PROVE  \E n \in Nat : Now(u[k].id, u[k].asked, n) /\ (IsValue(u[k]) => n = 1)
    <2>1. k + 1 \in DOMAIN cq /\ u[k] = cq[k + 1] /\ k + 1 # 1
      BY <1>3
    <2>2. PICK n \in Nat : Counts(u[k].id, u[k].asked, n) /\ (IsValue(u[k]) => n = 1)
      <3> DEFINE l == k + 1
      <3>1. l \in DOMAIN cq /\ ~cq[l].more /\ cq[l].kind = "mtimeout" /\ u[k] = cq[l]
        BY <1>12, <2>1
      <3> HIDE DEF l
      <3>2. \E n \in Nat : Counts(cq[l].id, cq[l].asked, n) /\ (IsValue(cq[l]) => n = 1)
        BY <3>1 DEF RepeatInv
      <3> QED
        BY <3>1, <3>2
    <2>3. x.more \/ u[k].id # x.id
      <3> DEFINE l == k + 1
      <3>1. l \in DOMAIN cq /\ ~cq[l].more /\ u[k] = cq[l] /\ l # 1
        BY <1>12, <2>1
      <3> HIDE DEF l
      <3>2. ~cq[1].more /\ cq[1].id = cq[l].id => l = 1
        BY <1>1, <1>3, <3>1 DEF KernelInv
      <3> QED
        BY <1>3, <3>1, <3>2
    <2>4. u[k].id \in Ids /\ u[k].asked \in Nat
      <3>1. \A l \in DOMAIN cq : cq[l] \in CompletionType
        BY <1>2
      <3>2. u[k] \in CompletionType
        BY <2>1, <3>1
      <3> QED
        BY <3>2 DEF CompletionType
    <2> QED
      BY <1>9, <2>2, <2>3, <2>4
  <1>13. ASSUME NEW k \in DOMAIN u, u[k].more
         PROVE  \/ \E r \in reqs : Same(u[k], r)
                \/ \E l \in DOMAIN u : ~u[l].more /\ Same(u[k], u[l])
    <2>1. k + 1 \in DOMAIN cq /\ u[k] = cq[k + 1] /\ k + 1 # 1 /\ k \in Nat
      BY <1>3
    <2>2. ASSUME NEW l \in DOMAIN cq, ~cq[l].more, Same(u[k], cq[l])
          PROVE  \E m \in DOMAIN u : ~u[m].more /\ Same(u[k], u[m])
      <3>1. k + 1 <= l
        BY <2>1, <2>2 DEF RepeatInv, Same
      <3>2. l # 1
        BY <1>3, <2>1, <3>1
      <3> QED
        BY <1>3, <2>2, <3>2
    <2> QED
      BY <1>13, <2>1, <2>2 DEF RepeatInv
  <1>14. \A i \in Ids : i > nreq => w[i] = 0
    <2>1. x.id <= nreq /\ nreq \in Nat /\ Ids \subseteq Nat
      BY <1>1, <1>3, IdsFinite, RequestsAssumption DEF KernelInv
    <2> QED
      BY <1>4, <1>5, <2>1 DEF RepeatInv
  <1>15. \A i, n, left : Now(i, n, left) = Counts(i, n, left)'
    BY DEF Counts, Shots, Now, After, u, w
  <1> QED
    BY <1>5, <1>10, <1>11, <1>12, <1>13, <1>14, <1>15 DEF RepeatInv, u, w

LEMMA NextRepeat ==
    ASSUME \A n \in Repeats : n < CountModulus
    PROVE  RepeatInv /\ [Next]_vars => RepeatInv'
  <1> SUFFICES ASSUME RepeatInv, [Next]_vars PROVE RepeatInv'
    OBVIOUS
  <1>1. NumberInv /\ NumberInv' /\ KernelInv /\ BookType
    BY NextNumbers DEF RepeatInv, NumberInv
  <1>2. CASE Start
    <2>1. word \in [Words -> Nat] /\ nreq \in Nat
      BY <1>1 DEF BookType, KernelInv
    <2>2. PICK o \in Objects, q \in RequestType : SubmitsAs(o, q)
      BY <1>2, <2>1, StartSubmits
    <2> QED
      BY <1>1, <2>2, SubmitRepeat
  <1>3. ASSUME NEW r \in reqs, Arm(r) \/ Post(r) \/ Fire(r) PROVE RepeatInv'
    BY <1>1, <1>3, ArmStep, PostStep, FireStep, TargetRepeat
  <1>4. ASSUME NEW c \in reqs, ExecuteCancel(c) PROVE RepeatInv'
    BY <1>1, <1>4, CancelStep, CancelRepeat
  <1>5. ASSUME NEW w \in Words, Wake(w) PROVE RepeatInv'
    BY <1>1, <1>5, WakeStep, TargetRepeat
  <1>6. ASSUME UNCHANGED <<reqs, cq, calls, nreq>> PROVE RepeatInv'
    <2>1. \A i, n, left : Counts(i, n, left)' = Counts(i, n, left)
      BY <1>6 DEF Counts, Shots
    <2> QED
      BY <1>1, <1>6, <2>1 DEF RepeatInv
  <1>7. ASSUME NEW w \in Words, Store(w) PROVE RepeatInv'
    BY <1>6, <1>7 DEF Store, kernelVars, callerVars
  <1>8. CASE Reap
    BY <1>1, <1>8, ReapStep, ReapRepeat
  <1>9. CASE UNCHANGED vars
    BY <1>6, <1>9 DEF vars, kernelVars, callerVars
  <1> QED
    BY <1>2, <1>3, <1>4, <1>5, <1>7, <1>8, <1>9 DEF Next, Process

\* A timer that was told to repeat n times (multishot_timeout_operation with
\* repeat(n)) calls n times with a value unless it is cancelled, and one that
\* repeats forever never ends by itself, if n fits into the unsigned int that
\* build() makes of it.
THEOREM RepeatsHold ==
    ASSUME \A n \in Repeats : n < CountModulus
    PROVE  Spec => RepeatsAsAsked
  <1> DEFINE Step == Reap /\ Head(cq).kind = "mtimeout" /\ IsValue(Head(cq)) =>
                       LET x == Head(cq) IN
                       IF Over(x) THEN calls[x.id] + 1 = x.asked
                       ELSE x.asked > 0 => calls[x.id] + 1 < x.asked
  <1>1. RepeatInv => Step
    <2> SUFFICES ASSUME RepeatInv, cq # <<>>, NEW x, x = Head(cq), x.kind = "mtimeout", IsValue(x)
                 PROVE  IF Over(x) THEN calls[x.id] + 1 = x.asked
                        ELSE x.asked > 0 => calls[x.id] + 1 < x.asked
      BY DEF Reap
    <2>1. KernelInv /\ BookType
      BY DEF RepeatInv, NumberInv
    <2>2. /\ cq \in Seq(CompletionType) /\ x \in CompletionType
          /\ x = cq[1] /\ 1 \in DOMAIN cq /\ DOMAIN cq = 1..Len(cq) /\ Len(cq) \in Nat
      BY <2>1, TailAt DEF KernelInv
    <2>3. x.id \in Ids /\ x.asked \in Nat /\ x.more \in BOOLEAN
      BY <2>2 DEF CompletionType
    <2>4. calls[x.id] \in Nat /\ Cardinality(Shots(x.id)) \in Nat
      BY <2>1, <2>3, ShotsFinite DEF BookType
    <2>5. Over(x) <=> ~x.more
      BY <2>3 DEF Over, More
    <2>6. CASE ~x.more
      <3>1. \E n \in Nat : Counts(x.id, x.asked, n) /\ n = 1
        BY <2>2, <2>6 DEF RepeatInv
      <3>2. Counts(x.id, x.asked, 1)
        BY <3>1
      <3>3. Shots(x.id) = {}
        <4>1. \A l \in DOMAIN cq : cq[l].id = x.id => l <= 1
          BY <2>2, <2>6 DEF RepeatInv
        <4>2. \A l \in DOMAIN cq : cq[l].id = x.id => l = 1
          BY <2>2, <4>1
        <4> QED
          BY <2>2, <2>6, <4>2 DEF Shots
      <3>4. Cardinality(Shots(x.id)) = 0
        BY <3>3, FS_EmptySet
      <3> QED
        BY <2>3, <2>4, <2>5, <2>6, <3>2, <3>4 DEF Counts
    <2>7. CASE x.more
      <3>1. \E left \in Nat : Counts(x.id, x.asked, left)
        <4>1. CASE \E r \in reqs : Same(x, r)
          <5>1. PICK r \in reqs : Same(x, r)
            BY <4>1
          <5>2. r.left \in Nat /\ Counts(r.id, r.asked, r.left)
            BY <2>1, <5>1 DEF RepeatInv, KernelInv, RequestType, Same
          <5>3. Counts(x.id, x.asked, r.left)
            BY <5>1, <5>2 DEF Same
          <5> QED
            BY <5>2, <5>3
        <4>2. CASE \E l \in DOMAIN cq : ~cq[l].more /\ Same(x, cq[l])
          <5>1. PICK l \in DOMAIN cq : ~cq[l].more /\ Same(x, cq[l])
            BY <4>2
          <5>2. PICK left \in Nat : Counts(cq[l].id, cq[l].asked, left)
            BY <5>1 DEF RepeatInv, Same
          <5>3. Counts(x.id, x.asked, left)
            BY <5>1, <5>2 DEF Same
          <5> QED
            BY <5>3
        <4> QED
          BY <2>2, <2>7, <4>1, <4>2 DEF RepeatInv
      <3>2. PICK left \in Nat : Counts(x.id, x.asked, left)
        BY <3>1
      <3>3. Cardinality(Shots(x.id)) # 0
        <4>1. 1 \in Shots(x.id)
          BY <2>2, <2>7 DEF Shots
        <4> QED
          BY <2>1, <4>1, ShotsFinite, FS_EmptySet
      <3> QED
        BY <2>3, <2>4, <2>5, <2>7, <3>2, <3>3 DEF Counts
    <2> QED
      BY <2>3, <2>6, <2>7
  <1> HIDE DEF Step
  <1>2. Spec => [][Step]_vars
    BY <1>1, InitRepeat, NextRepeat, PTL DEF Spec
  <1> QED
    BY <1>2 DEF RepeatsAsAsked, Step
=============================================================================
