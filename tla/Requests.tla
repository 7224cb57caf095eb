------------------------------ MODULE Requests ------------------------------
(***************************************************************************)
(* Requests that stay pending until something happens, and the operations  *)
(* that end them early: the timeouts of iouops/timeout.hpp, the polls of   *)
(* iouops/file/poll.hpp, the futex waits of iouops/futex.hpp, and the      *)
(* cancellations of iouops/cancel.hpp, timeout.hpp and poll.hpp.           *)
(*                                                                         *)
(* A target is named by its operation_identifier, the address of the       *)
(* object, so a cancellation hits whatever is pending for that address when*)
(* the kernel executes it.  The races are between a target that fires, the *)
(* cancellation of it, the reaping of both completions, and for futexes the*)
(* thread that stores into the word and wakes.                             *)
(*                                                                         *)
(* Every request has a number that the program does not see.  The kernel   *)
(* is external: a request is queued, then armed, then fires.               *)
(***************************************************************************)
EXTENDS Integers, Sequences, FiniteSets

CONSTANTS
    Targets,     \* objects of timeout, poll and futex wait operations
    Cancels,     \* objects of cancellation operations
    TargetKinds, \* which targets the caller submits, a subset of AllTargetKinds
    CancelKinds, \* which cancellations, a subset of AllCancelKinds
    Words,       \* futex words
    Repeats,     \* arguments of repeat(n)
    CountModulus,\* 2^32: the kernel is given n as an unsigned int
    MaxPerObject,\* bound: requests of one object that are outstanding at a time
    MaxRequests, \* bound: requests in a behaviour
    MaxShots,    \* bound: completions with IORING_CQE_F_MORE
    MaxStores    \* bound: stores into the futex words

AllTargetKinds == {"timeout", "mtimeout", "poll", "mpoll", "futex"}
AllCancelKinds == {"cancel", "cancel_all", "cancel_fd", "timeout_cancel",
                   "poll_remove", "poll_update"}

ASSUME RequestsAssumption ==
    /\ Targets \cap Cancels = {}
    /\ TargetKinds \subseteq AllTargetKinds
    /\ CancelKinds \subseteq AllCancelKinds
    /\ Repeats \subseteq Nat
    /\ CountModulus \in Nat \ {0}
    /\ MaxPerObject \in Nat
    /\ MaxRequests \in Nat
    /\ MaxShots \in Nat
    /\ MaxStores \in Nat

ETIME     == 62
ECANCELED == 125
ENOENT    == 2
EALREADY  == 114
EAGAIN    == 11

Ids == 1..MaxRequests

VARIABLES
    reqs,    \* requests that the kernel has
    cq,      \* completions that were not reaped, in order
    out,     \* out[o]: submissions of o whose end the caller has not seen
    done,    \* done[i]: how request i ended in the eyes of the caller: "no" (it
             \* has not), "value", "failed" or "canceled"
    calls,   \* calls[i]: callbacks with a value for request i, until it is over
    hit,     \* hit[i]: the requests that cancellation i ended
    missed,  \* missed[i]: did cancellation i find its target armed, and left it?
    report,  \* report[i]: the number that cancellation i reported, -1 for an
             \* error, -2 if it has not reported
    word,    \* word[w]: the value of futex word w
    wakes,   \* words that were stored to, before the storing thread woke waiters
    nreq, shots, stores

kernelVars == <<reqs, cq>>
callerVars == <<out, done, calls, report>>
ghostVars  == <<hit, missed>>
futexVars  == <<word, wakes, stores>>
vars == <<kernelVars, callerVars, ghostVars, futexVars, nreq, shots>>

Init ==
    /\ reqs = {}
    /\ cq = <<>>
    /\ out = [o \in Targets \cup Cancels |-> 0]
    /\ done = [i \in Ids |-> "no"]
    /\ calls = [i \in Ids |-> 0]
    /\ report = [i \in Ids |-> -2]
    /\ hit = [i \in Ids |-> {}]
    /\ missed = [i \in Ids |-> FALSE]
    /\ word = [w \in Words |-> 0]
    /\ wakes = {}
    /\ nreq = 0
    /\ shots = 0
    /\ stores = 0

-----------------------------------------------------------------------------
(* build() *)

\* What a build() asks for: n is the number of shots that the caller asked for
\* (0 if forever), left the count that the kernel is given for a timer, want the
\* futex words with the values expected there, to the target of a cancellation.
Sqe(k, n, left, want, to) ==
    [kind |-> k, asked |-> n, left |-> left, want |-> want, to |-> to]

OneShot(k, to) == Sqe(k, 1, 1, <<>>, to)

\* timeout_operation.
timeout(o) == OneShot("timeout", o)

\* Mutant: repeat(n) counts the repetitions after the first shot.
BuildCountPlusOne(n) == (n + 1) % CountModulus

\* The count of io_uring_prep_timeout, an unsigned int; 0 is forever.
BuildCount(n) == n % CountModulus

\* multishot_timeout_operation with repeat(n), repeat_forever() for n = 0.
multishot_timeout(o, n) == Sqe("mtimeout", n, BuildCount(n), <<>>, o)

\* file_poll_add_operation and file_poll_multishot_operation.
poll_add(o) == OneShot("poll", o)
poll_multishot(o) == Sqe("mpoll", 1, 0, <<>>, o)

\* Mutant: the value expected in the word is read by the kernel, not given.
ExpectNothing(ws) == [w \in ws |-> -1]

\* expected_value(v), or the val of make_futex_waitv, as the caller read it.
Expect(ws) == [w \in ws |-> word[w]]

\* futex_wait_operation on one word, futex_waitv_operation on several.
futex_wait(o, w) == Sqe("futex", 1, 1, Expect({w}), o)
futex_waitv(o, ws) == Sqe("futex", 1, 1, Expect(ws), o)

\* The cancellations with their target(): an identifier, or for cancel_fd a file,
\* which stands for the object that polls it.
cancel(to) == OneShot("cancel", to)
cancel_all(to) == OneShot("cancel_all", to)
cancel_fd(to) == OneShot("cancel_fd", to)
timeout_cancel(to) == OneShot("timeout_cancel", to)
poll_remove(to) == OneShot("poll_remove", to)
poll_update(to) == OneShot("poll_update", to)

TargetSqes(o) ==
    {timeout(o), poll_add(o), poll_multishot(o)}
    \cup {multishot_timeout(o, n) : n \in Repeats}
    \cup {futex_wait(o, w) : w \in Words}
    \cup {futex_waitv(o, ws) : ws \in SUBSET Words \ {{}}}

CancelSqes(to) ==
    {cancel(to), cancel_all(to), cancel_fd(to), timeout_cancel(to), poll_remove(to),
     poll_update(to)}

\* submit() of object o.
Submit(o, sqe) ==
    /\ nreq < MaxRequests
    /\ out[o] < MaxPerObject
    /\ nreq' = nreq + 1
    /\ out' = [out EXCEPT ![o] = @ + 1]
    /\ reqs' = reqs \cup {[id |-> nreq + 1, op |-> o, kind |-> sqe.kind, asked |-> sqe.asked,
                           left |-> sqe.left, want |-> sqe.want, to |-> sqe.to,
                           stage |-> "queued"]}
    /\ UNCHANGED <<cq, done, calls, report, ghostVars, futexVars, shots>>

-----------------------------------------------------------------------------
(* The kernel *)

Cqe(r, ev, more) ==
    [id |-> r.id, op |-> r.op, kind |-> r.kind, asked |-> r.asked, ev |-> ev, more |-> more]

\* The kernel takes the requests from the submission queue in order.
Taken(r) == r \in reqs /\ r.stage = "queued" /\ \A q \in reqs : q.stage = "queued" => r.id <= q.id

Restage(r, s) == (reqs \ {r}) \cup {[r EXCEPT !.stage = s]}

\* A target is armed, unless a futex word has changed since it was read.
Arm(r) ==
    LET changed == \E w \in DOMAIN r.want : r.want[w] # -1 /\ word[w] # r.want[w] IN
    /\ Taken(r)
    /\ r.kind \in AllTargetKinds
    /\ reqs' = IF changed THEN reqs \ {r} ELSE Restage(r, "armed")
    /\ cq' = IF changed THEN Append(cq, Cqe(r, -EAGAIN, FALSE)) ELSE cq
    /\ UNCHANGED <<callerVars, ghostVars, futexVars, nreq, shots>>

\* A timer expires or a file is ready; from here a cancellation comes too late.
Fire(r) ==
    /\ r \in reqs
    /\ r.stage = "armed"
    /\ r.kind # "futex"
    /\ reqs' = Restage(r, "firing")
    /\ UNCHANGED <<cq, callerVars, ghostVars, futexVars, nreq, shots>>

\* The completion of a shot: the last one of a timer that counts, any one of a
\* poll, or one that is followed by more.
Post(r) ==
    LET ev == IF r.kind \in {"timeout", "mtimeout"} THEN -ETIME ELSE 1 IN
    /\ r \in reqs
    /\ r.stage = "firing"
    /\ \/ /\ r.kind \in {"timeout", "poll", "mpoll"} \/ r.left = 1
          /\ reqs' = reqs \ {r}
          /\ cq' = Append(cq, Cqe(r, ev, FALSE))
          /\ UNCHANGED shots
       \/ /\ r.kind \in {"mtimeout", "mpoll"}
          /\ r.left # 1
          /\ shots < MaxShots
          /\ shots' = shots + 1
          /\ reqs' = (reqs \ {r}) \cup
               {[r EXCEPT !.stage = "armed", !.left = IF @ = 0 THEN 0 ELSE @ - 1]}
          /\ cq' = Append(cq, Cqe(r, ev, TRUE))
    /\ UNCHANGED <<callerVars, ghostVars, futexVars, nreq>>

\* What IORING_OP_TIMEOUT_REMOVE, POLL_REMOVE and ASYNC_CANCEL look for.
Matching(k) ==
    CASE k = "timeout_cancel" -> {"timeout", "mtimeout"}
      [] k \in {"poll_remove", "poll_update"} -> {"poll", "mpoll"}
      [] OTHER -> AllTargetKinds

\* The requests that a cancellation is meant for.
Meant(c) == {r \in reqs : r.op = c.to /\ r.kind \in Matching(c.kind)}

\* Those that it names.  cancel_base starts with IORING_ASYNC_CANCEL_USERDATA,
\* and cancel_fd passes it on next to IORING_ASYNC_CANCEL_FD with an address of
\* 0: the kernel looks for a request of that file whose user_data is 0, and no
\* operation has that address.
Named(c) == IF c.kind = "cancel_fd" THEN {} ELSE Meant(c)

\* cqe->res of a cancellation that found the requests found and ended those in h.
\* An ideal for cancel_all: the kernel also counts requests that it found already
\* executing.
CancelResult(k, found, h) ==
    IF k = "cancel_all" THEN Cardinality(h)
    ELSE IF found = {} THEN -ENOENT
    ELSE IF h = {} /\ k # "poll_update" THEN -EALREADY ELSE 0

\* The requests that a cancellation ends: one or all of those that have not
\* begun to fire.
Victims(k, armed) ==
    IF k = "poll_update" \/ armed = {} THEN {{}}
    ELSE IF k = "cancel_all" THEN {armed} ELSE {{r} : r \in armed}

\* The completions of the victims, in some order, before that of c.
Orders(S) == {s \in [1..Cardinality(S) -> S] : \A x \in S : \E i \in DOMAIN s : s[i] = x}

\* The kernel executes a cancellation.
ExecuteCancel(c) ==
    LET found == {r \in Named(c) : r.stage # "queued"}
        armed == {r \in found : r.stage = "armed"}
    IN /\ Taken(c)
       /\ c.kind \in AllCancelKinds
       /\ \E h \in Victims(c.kind, armed) : \E s \in Orders(h) :
            /\ reqs' = reqs \ (h \cup {c})
            /\ cq' = cq \o [i \in DOMAIN s |-> Cqe(s[i], -ECANCELED, FALSE)]
                        \o <<Cqe(c, CancelResult(c.kind, found, h), FALSE)>>
            /\ hit' = [hit EXCEPT ![c.id] = {r.id : r \in h}]
            /\ missed' = [missed EXCEPT ![c.id] =
                            \E r \in Meant(c) : r.stage = "armed" /\ h = {}
                                                /\ c.kind # "poll_update"]
       /\ UNCHANGED <<callerVars, futexVars, nreq, shots>>

-----------------------------------------------------------------------------
(* The thread that changes a futex word *)

Store(w) ==
    /\ stores < MaxStores
    /\ w \notin wakes
    /\ stores' = stores + 1
    /\ word' = [word EXCEPT ![w] = @ + 1]
    /\ wakes' = wakes \cup {w}
    /\ UNCHANGED <<kernelVars, callerVars, ghostVars, nreq, shots>>

Waiters(w) == {r \in reqs : r.kind = "futex" /\ r.stage = "armed" /\ w \in DOMAIN r.want}

\* The waiters that futex_wake_operation with notify_all() ends.
NotifyAll(w) == Waiters(w)

\* futex_wake_operation on a ring of the storing thread.
Wake(w) ==
    /\ w \in wakes
    /\ wakes' = wakes \ {w}
    /\ \E s \in Orders(NotifyAll(w)) :
         /\ reqs' = reqs \ NotifyAll(w)
         /\ cq' = cq \o [i \in DOMAIN s |-> Cqe(s[i], 0, FALSE)]
    /\ UNCHANGED <<callerVars, ghostVars, word, stores, nreq, shots>>

-----------------------------------------------------------------------------
(* do_callback *)

\* Mutant: the number is cqe->res even where a single request was named.
CountIsResult(k, ev) == IF ev >= 0 THEN ev ELSE -1

\* The number that a cancellation passes to its callback, -1 for an error.
CancelledCount(k, ev) ==
    IF ev < 0 THEN -1 ELSE IF k = "cancel_all" THEN ev ELSE 1

\* Mutant: IORING_CQE_F_MORE is only looked at when the result is not -ETIME.
MoreUnlessTime(x) == x.more /\ x.ev # -ETIME

\* The callback of a multishot operation is told that there are more.
More(x) == x.more

\* Mutant: whatever ends a timeout is its expiry.
TimeoutIsValue(x) == x.ev >= 0 \/ x.kind \in {"timeout", "mtimeout"}

\* A value: -ETIME is one for the timeouts.
IsValue(x) == x.ev >= 0 \/ (x.kind \in {"timeout", "mtimeout"} /\ x.ev = -ETIME)

Outcome(x) ==
    IF IsValue(x) THEN "value" ELSE IF x.ev = -ECANCELED THEN "canceled" ELSE "failed"

Over(x) == ~IsValue(x) \/ ~More(x)

\* The callback of the object that the first completion names.
Reap ==
    /\ cq # <<>>
    /\ LET x == Head(cq)
       IN /\ cq' = Tail(cq)
          /\ out' = [out EXCEPT ![x.op] = IF Over(x) THEN @ - 1 ELSE @]
          /\ done' = [done EXCEPT ![x.id] = IF Over(x) THEN Outcome(x) ELSE @]
          /\ calls' = [calls EXCEPT ![x.id] = IF Over(x) THEN 0 ELSE @ + 1]
          /\ report' = [report EXCEPT ![x.id] =
                          IF x.kind \in AllCancelKinds \ {"poll_update"}
                          THEN CancelledCount(x.kind, x.ev) ELSE @]
    /\ UNCHANGED <<reqs, ghostVars, futexVars, nreq, shots>>

Start ==
    \/ \E o \in Targets : \E sqe \in TargetSqes(o) :
         sqe.kind \in TargetKinds /\ Submit(o, sqe)
    \/ \E c \in Cancels, to \in Targets : \E sqe \in CancelSqes(to) :
         sqe.kind \in CancelKinds /\ Submit(c, sqe)

Process == \E r \in reqs : Arm(r) \/ ExecuteCancel(r) \/ Post(r)

Next ==
    \/ Start
    \/ Process
    \/ \E r \in reqs : Fire(r)
    \/ \E w \in Words : Store(w) \/ Wake(w)
    \/ Reap

\* The kernel gets to what it was given, the storing thread to its wake, and the
\* owner of the ring to its completions.  Nobody says when a timer expires.
Fairness ==
    /\ WF_vars(Process)
    /\ WF_vars(Reap)
    /\ \A w \in Words : WF_vars(Wake(w))

Spec == Init /\ [][Next]_vars /\ Fairness

-----------------------------------------------------------------------------
(* Properties *)

\* Requests, completions and the caller's book-keeping have their types: no
\* callback ends more submissions of an object than there were (Reap).
TypeOK ==
    /\ \A r \in reqs : r.id \in 1..nreq /\ r.left \in Nat
                       /\ r.stage \in {"queued", "armed", "firing"}
    /\ \A i \in DOMAIN cq : cq[i].id \in 1..nreq
    /\ out \in [Targets \cup Cancels -> 0..MaxPerObject]
    /\ done \in [Ids -> {"no", "value", "failed", "canceled"}]
    /\ calls \in [Ids -> Nat]
    /\ report \in [Ids -> Int]
    /\ hit \in [Ids -> SUBSET Ids]
    /\ missed \in [Ids -> BOOLEAN]
    /\ word \in [Words -> Nat]
    /\ wakes \subseteq Words

\* When the callback says that an operation is over the kernel has nothing of it
\* any more, so that the object may be destroyed; until then it has exactly what
\* the caller counts, through any interleaving of shots, ends and cancellations.
OverMeansOver ==
    \A o \in Targets \cup Cancels :
      out[o] = Cardinality({r \in reqs : r.op = o})
               + Cardinality({i \in DOMAIN cq : cq[i].op = o /\ ~cq[i].more})

\* A target that raced with cancellations has one winner: it was ended by exactly
\* one of them and its callback says so, or by none and its own result arrives.
OneWinner ==
    \A i \in Ids :
      LET winners == {j \in Ids : i \in hit[j]}
      IN /\ Cardinality(winners) <= 1
         /\ done[i] = "canceled" => winners # {}
         /\ winners # {} => done[i] \in {"no", "canceled"}

\* "On success, callback receive a number indicating how many operations were
\* cancelled": the number is that of the requests that the cancellation ended,
\* and a cancellation fails only if its target was not armed when the kernel
\* looked.
CancelReportsTruth ==
    \A i \in Ids :
      /\ report[i] >= 0 => report[i] = Cardinality(hit[i])
      /\ report[i] # -2 => ~missed[i]

\* A timer that was told to repeat n times calls n times with a value unless it
\* is cancelled, and one that repeats forever never ends by itself.
RepeatsAsAsked ==
    [][Reap /\ Head(cq).kind = "mtimeout" /\ IsValue(Head(cq)) =>
         LET x == Head(cq) IN
         IF Over(x) THEN calls[x.id] + 1 = x.asked
         ELSE x.asked > 0 => calls[x.id] + 1 < x.asked]_vars

\* A futex wait does not outlive a change of its word: when the word differs from
\* the expected value and the thread that stored has issued its wake, or the wait
\* was not yet queued, the callback comes.
ChangedWordWakes ==
    \A i \in Ids :
      (\E r \in reqs : r.id = i /\ \E w \in DOMAIN r.want : word[w] # r.want[w])
        ~> done[i] # "no"
=============================================================================
