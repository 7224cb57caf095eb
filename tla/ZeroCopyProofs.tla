--------------------------- MODULE ZeroCopyProofs ---------------------------
(***************************************************************************)
(* Theorems about ZeroCopy, for any set of operations and any number of    *)
(* sends.                                                                  *)
(***************************************************************************)
EXTENDS ZeroCopy, TLAPS

-----------------------------------------------------------------------------
(* Sequences: where the elements are after Append and Tail *)

LEMMA AppendAt ==
    ASSUME NEW S, NEW s \in Seq(S), NEW e \in S, NEW t, t = Append(s, e)
    PROVE  /\ t \in Seq(S)
           /\ Len(t) = Len(s) + 1
           /\ Len(s) \in Nat
           /\ \A i \in 1..Len(t) : \/ i \in 1..Len(s) /\ t[i] = s[i]
                                   \/ i = Len(s) + 1 /\ t[i] = e
  OBVIOUS

LEMMA TailAt ==
    ASSUME NEW S, NEW s \in Seq(S), s # <<>>, NEW t, t = Tail(s)
    PROVE  /\ t \in Seq(S)
           /\ Head(s) \in S
           /\ Head(s) = s[1]
           /\ 1 \in 1..Len(s)
           /\ Len(s) \in Nat
           /\ Len(t) = Len(s) - 1
           /\ \A i \in 1..Len(t) : i + 1 \in 1..Len(s) /\ t[i] = s[i + 1]
  OBVIOUS

-----------------------------------------------------------------------------
(* Type correctness *)

\* A completion has exactly one decoding.
LEMMA DecodeCases ==
    ASSUME NEW c \in Cqe
    PROVE  /\ c.ev < 0 => Decode(c) = "fail"
           /\ c.ev >= 0 /\ c.more => Decode(c) = "send_result_more"
           /\ c.ev >= 0 /\ ~c.more /\ c.notif => Decode(c) = "buffer_free_notification"
           /\ c.ev >= 0 /\ ~c.more /\ ~c.notif => Decode(c) = "send_result_nomore"
           /\ Decode(c) \in {"fail", "send_result_more", "buffer_free_notification",
                             "send_result_nomore"}
           /\ DecodeMsg(c) = Decode(c)
  <1>1. c.ev \in Int /\ c.more \in BOOLEAN /\ c.notif \in BOOLEAN
    BY DEF Cqe
  <1>2. (c.ev < 0 \/ c.ev >= 0) /\ ~(c.ev < 0 /\ c.ev >= 0)
    BY <1>1
  <1>3. CASE c.ev < 0
    BY <1>2, <1>3 DEF Decode, DecodeMsg
  <1>4. CASE c.ev >= 0 /\ c.more
    BY <1>2, <1>4 DEF Decode, DecodeMsg
  <1>5. CASE c.ev >= 0 /\ ~c.more /\ c.notif
    BY <1>2, <1>5 DEF Decode, DecodeMsg
  <1>6. CASE c.ev >= 0 /\ ~c.more /\ ~c.notif
    BY <1>2, <1>6 DEF Decode, DecodeMsg
  <1> QED
    BY <1>1, <1>2, <1>3, <1>4, <1>5, <1>6

LEMMA CqType ==
    ASSUME TypeOK
    PROVE  /\ Len(cq) \in Nat
           /\ \A i \in 1..Len(cq) : cq[i].op \in Ops /\ cq[i].ev \in Int /\ cq[i].more \in BOOLEAN
  <1>1. cq \in Seq(Cqe)
    BY DEF TypeOK
  <1>2. Len(cq) \in Nat /\ \A i \in 1..Len(cq) : cq[i] \in Cqe
    BY <1>1
  <1> QED
    BY <1>2 DEF Cqe

LEMMA CountType ==
    ASSUME TypeOK, NEW o \in Ops
    PROVE  /\ sending[o] \in Nat /\ (sending[o] = 0 \/ sending[o] > 0)
           /\ lent[o] \in Nat /\ (lent[o] = 0 \/ lent[o] > 0)
  <1>1. sending[o] \in Nat /\ lent[o] \in Nat
    BY DEF TypeOK
  <1> QED
    BY <1>1

\* What Reap does, whichever of the two classes the object is of.
LEMMA ReapStep ==
    ASSUME TypeOK, Reap, NEW c, c = Head(cq)
    PROVE  /\ c \in Cqe
           /\ c.op \in Ops
           /\ cq' = Tail(cq)
           /\ told' = [told EXCEPT ![c.op] = Decode(c)]
           /\ owner' = [owner EXCEPT ![c.op] = OwnerAfter(Decode(c))]
           /\ due' = [due EXCEPT ![c.op] = IF Decode(c) \in Outcomes THEN @ - 1 ELSE @]
           /\ missed' = missed \cup {o \in {c.op} : c.ev < 0 /\ c.more}
           /\ copied' = copied \cup {o \in {c.op} : c.ev < 0 /\ c.notif}
           /\ UNCHANGED <<sending, lent, failed, nsend>>
  <1>1. c \in Cqe
    BY DEF TypeOK, Reap
  <1>2. DecodeMsg(c) = Decode(c) /\ c.op \in Ops
    BY <1>1, DecodeCases DEF Cqe
  <1> QED
    BY <1>1, <1>2 DEF Reap

\* The completions that the kernel posts.
LEMMA PostedType ==
    ASSUME NEW o \in Ops, NEW more \in BOOLEAN, NEW notif \in BOOLEAN
    PROVE  /\ \A ok \in BOOLEAN :
                [op |-> o, ev |-> IF ok THEN BytesSent ELSE -ECANCELED,
                 more |-> more, notif |-> notif] \in Cqe
           /\ \A res \in {0, UsageCopied} :
                [op |-> o, ev |-> res, more |-> more, notif |-> notif] \in Cqe
  BY DEF Cqe, BytesSent, ECANCELED, UsageCopied

LEMMA InitType == Init => TypeOK
  BY ZeroCopyAssumption DEF Init, TypeOK

LEMMA NextType == TypeOK /\ [Next]_vars => TypeOK'
  <1> SUFFICES ASSUME TypeOK, [Next]_vars PROVE TypeOK'
    OBVIOUS
  <1> USE ZeroCopyAssumption
  <1>1. ASSUME NEW o \in Ops, Lend(o) PROVE TypeOK'
    <2>1. sending' \in [Ops -> Nat] /\ due' \in [Ops -> Int] /\ nsend' \in 0..MaxSends
      BY <1>1 DEF Lend, TypeOK
    <2> QED
      BY <1>1, <2>1 DEF Lend, TypeOK
  <1>2. ASSUME NEW o \in Ops, NEW ok \in BOOLEAN, NEW more \in BOOLEAN,
               PostResult(o, ok, more)
        PROVE  TypeOK'
    <2>1. PICK e \in Cqe : cq' = Append(cq, e)
      BY <1>2, PostedType DEF PostResult
    <2>2. cq' \in Seq(Cqe)
      BY <2>1 DEF TypeOK
    <2>3. sending' \in [Ops -> Nat] /\ lent' \in [Ops -> Nat]
      BY <1>2 DEF PostResult, TypeOK
    <2> QED
      BY <1>2, <2>2, <2>3 DEF PostResult, TypeOK, history
  <1>3. ASSUME NEW o \in Ops, NEW res \in {0, UsageCopied}, PostNotification(o, res)
        PROVE  TypeOK'
    <2>1. PICK e \in Cqe : cq' = Append(cq, e)
      BY <1>3, PostedType DEF PostNotification
    <2>2. cq' \in Seq(Cqe)
      BY <2>1 DEF TypeOK
    <2>3. lent' \in [Ops -> Nat]
      BY <1>3 DEF PostNotification, TypeOK
    <2> QED
      BY <1>3, <2>2, <2>3 DEF PostNotification, TypeOK, history
  <1>4. CASE Reap
    <2> DEFINE c == Head(cq)
    <2>1. /\ c \in Cqe /\ c.op \in Ops
          /\ cq' = Tail(cq)
          /\ told' = [told EXCEPT ![c.op] = Decode(c)]
          /\ owner' = [owner EXCEPT ![c.op] = OwnerAfter(Decode(c))]
          /\ due' = [due EXCEPT ![c.op] = IF Decode(c) \in Outcomes THEN @ - 1 ELSE @]
          /\ missed' = missed \cup {o \in {c.op} : c.ev < 0 /\ c.more}
          /\ copied' = copied \cup {o \in {c.op} : c.ev < 0 /\ c.notif}
          /\ UNCHANGED <<sending, lent, failed, nsend>>
      BY <1>4, ReapStep
    <2>2. cq' \in Seq(Cqe)
      BY <1>4, <2>1 DEF TypeOK, Reap
    <2>3. /\ told' \in [Ops -> {"nothing", "fail", "send_result_more",
                                "send_result_nomore", "buffer_free_notification"}]
          /\ owner' \in [Ops -> {"free", "busy", "sent"}]
      BY <2>1, DecodeCases DEF TypeOK, OwnerAfter
    <2>4. due' \in [Ops -> Int] /\ missed' \subseteq Ops /\ copied' \subseteq Ops
      BY <2>1 DEF TypeOK
    <2> QED
      BY <2>1, <2>2, <2>3, <2>4 DEF TypeOK
  <1>5. CASE UNCHANGED vars
    BY <1>5 DEF vars, history, TypeOK
  <1> QED
    BY <1>1, <1>2, <1>3, <1>4, <1>5 DEF Next, Send, SendMsg

\* The variables keep their types: every decoding is one of the four results.
THEOREM TypeCorrect == Spec => []TypeOK
  BY InitType, NextType, PTL DEF Spec

-----------------------------------------------------------------------------
(* The owner has its buffer for itself *)

\* What the kernel owes to an object whose errors were all announced in full:
\* it sends once, or owes one notification.
OweInv ==
    \A o \in Ops : o \notin missed =>
      /\ sending[o] > 0 => sending[o] = 1 /\ owner[o] = "busy" /\ lent[o] = 0
      /\ lent[o] > 0 => lent[o] = 1 /\ owner[o] # "free"

\* A completion of such an object is under way only while the owner waits and
\* the kernel does not send any more; one without IORING_CQE_F_MORE is the last.
CqInv ==
    \A i \in 1..Len(cq) : cq[i].op \notin missed =>
      /\ sending[cq[i].op] = 0
      /\ owner[cq[i].op] # "free"
      /\ ~cq[i].more => /\ lent[cq[i].op] = 0
                        /\ \A j \in 1..Len(cq) : j > i => cq[j].op # cq[i].op

BufferInv == TypeOK /\ OweInv /\ CqInv

LEMMA InitBuffer == Init => BufferInv
  <1> SUFFICES ASSUME Init PROVE BufferInv
    OBVIOUS
  <1>1. TypeOK
    BY InitType
  <1>2. OweInv
    <2>1. \A o \in Ops : sending[o] = 0 /\ lent[o] = 0
      BY DEF Init
    <2>2. ~(0 > 0)
      OBVIOUS
    <2> QED
      BY <2>1, <2>2 DEF OweInv
  <1>3. Len(cq) = 0
    BY DEF Init
  <1>4. CqInv
    BY <1>3 DEF CqInv
  <1> QED
    BY <1>1, <1>2, <1>4 DEF BufferInv

LEMMA NextBuffer ==
    ASSUME BufferInv, [Next]_vars
    PROVE  BufferInv'
  <1>0. TypeOK /\ TypeOK' /\ OweInv /\ CqInv
    BY NextType DEF BufferInv
  <1>1. ASSUME NEW o \in Ops, Lend(o) PROVE OweInv' /\ CqInv'
    <2>1. /\ cq' = cq /\ lent' = lent /\ missed' = missed
          /\ owner[o] = "free" /\ owner'[o] = "busy"
          /\ sending'[o] = sending[o] + 1
          /\ \A p \in Ops : p # o => owner'[p] = owner[p] /\ sending'[p] = sending[p]
      BY <1>0, <1>1 DEF Lend, TypeOK
    <2>2. o \notin missed => sending[o] = 0 /\ lent[o] = 0
      BY <1>0, <2>1, CountType DEF OweInv
    <2>3. OweInv'
      BY <1>0, <2>1, <2>2 DEF OweInv
    <2>4. \A i \in 1..Len(cq) : /\ cq[i].op \in Ops
                                /\ cq[i].op \notin missed => cq[i].op # o
      BY <1>0, <2>1, CqType DEF CqInv
    <2>5. CqInv'
      BY <1>0, <2>1, <2>4 DEF CqInv
    <2> QED
      BY <2>3, <2>5
  <1>2. ASSUME NEW o \in Ops, NEW ok \in BOOLEAN, NEW more \in BOOLEAN,
               PostResult(o, ok, more)
        PROVE  OweInv' /\ CqInv'
    <2> DEFINE e == [op |-> o, ev |-> IF ok THEN BytesSent ELSE -ECANCELED,
                     more |-> more, notif |-> FALSE]
    <2>1. /\ sending[o] > 0
          /\ sending'[o] = sending[o] - 1
          /\ owner' = owner /\ missed' = missed
          /\ more => lent'[o] = lent[o] + 1
          /\ ~more => lent'[o] = lent[o]
          /\ \A p \in Ops : p # o => lent'[p] = lent[p] /\ sending'[p] = sending[p]
      BY <1>0, <1>2 DEF PostResult, TypeOK, history
    <2>2. o \notin missed => /\ sending[o] = 1 /\ owner[o] = "busy" /\ lent[o] = 0
                             /\ sending'[o] = 0
                             /\ \A i \in 1..Len(cq) : cq[i].op # o
      BY <1>0, <2>1 DEF OweInv, CqInv
    <2>3. OweInv'
      BY <1>0, <2>1, <2>2 DEF OweInv
    <2>4. e \in Cqe /\ e.op = o /\ e.more = more
      BY PostedType
    <2>5. cq \in Seq(Cqe) /\ cq' = Append(cq, e)
      BY <1>0, <1>2 DEF PostResult, TypeOK
    <2> HIDE DEF e
    <2>6. /\ Len(cq') = Len(cq) + 1
          /\ Len(cq) \in Nat
          /\ \A i \in 1..Len(cq') : \/ i \in 1..Len(cq) /\ cq'[i] = cq[i]
                                    \/ i = Len(cq) + 1 /\ cq'[i] = e
      BY <2>4, <2>5, AppendAt
    <2>7. \A i \in 1..Len(cq) : cq[i].op \in Ops
      BY <1>0, CqType
    <2>8. ASSUME NEW i \in 1..Len(cq'), cq'[i].op \notin missed
          PROVE  /\ sending'[cq'[i].op] = 0
                 /\ owner'[cq'[i].op] # "free"
                 /\ ~cq'[i].more => lent'[cq'[i].op] = 0
      <3>1. CASE i \in 1..Len(cq) /\ cq'[i] = cq[i]
        BY <1>0, <2>1, <2>2, <2>7, <2>8, <3>1 DEF CqInv
      <3>2. CASE cq'[i] = e
        BY <2>1, <2>2, <2>4, <2>8, <3>2
      <3> QED
        BY <2>6, <3>1, <3>2
    <2>9. ASSUME NEW i \in 1..Len(cq'), cq'[i].op \notin missed, ~cq'[i].more,
                 NEW j \in 1..Len(cq'), j > i
          PROVE  cq'[j].op # cq'[i].op
      BY <1>0, <2>2, <2>4, <2>6, <2>9 DEF CqInv
    <2> QED
      BY <2>1, <2>3, <2>8, <2>9 DEF CqInv
  <1>3. ASSUME NEW o \in Ops, NEW res \in {0, UsageCopied}, PostNotification(o, res)
        PROVE  OweInv' /\ CqInv'
    <2> DEFINE e == [op |-> o, ev |-> res, more |-> FALSE, notif |-> TRUE]
    <2>1. /\ lent[o] > 0 /\ lent'[o] = lent[o] - 1
          /\ UNCHANGED <<owner, sending, missed>>
          /\ \A p \in Ops : p # o => lent'[p] = lent[p]
      BY <1>0, <1>3 DEF PostNotification, TypeOK, history
    <2>2. o \notin missed => /\ lent[o] = 1 /\ owner[o] # "free" /\ sending[o] = 0
                             /\ lent'[o] = 0
                             /\ \A i \in 1..Len(cq) : ~cq[i].more => cq[i].op # o
      <3>1. ASSUME o \notin missed
            PROVE  lent[o] = 1 /\ owner[o] # "free" /\ sending[o] = 0 /\ lent'[o] = 0
        BY <1>0, <2>1, <3>1, CountType DEF OweInv
      <3>2. ASSUME o \notin missed
            PROVE  \A i \in 1..Len(cq) : ~cq[i].more => cq[i].op # o
        BY <1>0, <2>1, <3>2 DEF CqInv
      <3> QED
        BY <3>1, <3>2
    <2>3. OweInv'
      BY <1>0, <2>1, <2>2 DEF OweInv
    <2>4. e \in Cqe /\ e.op = o /\ ~e.more
      BY PostedType
    <2>5. cq \in Seq(Cqe) /\ cq' = Append(cq, e)
      BY <1>0, <1>3 DEF PostNotification, TypeOK
    <2> HIDE DEF e
    <2>6. /\ Len(cq') = Len(cq) + 1
          /\ Len(cq) \in Nat
          /\ \A i \in 1..Len(cq') : \/ i \in 1..Len(cq) /\ cq'[i] = cq[i]
                                    \/ i = Len(cq) + 1 /\ cq'[i] = e
      BY <2>4, <2>5, AppendAt
    <2>7. \A i \in 1..Len(cq) : cq[i].op \in Ops
      BY <1>0, CqType
    <2>8. ASSUME NEW i \in 1..Len(cq'), cq'[i].op \notin missed
          PROVE  /\ sending'[cq'[i].op] = 0
                 /\ owner'[cq'[i].op] # "free"
                 /\ ~cq'[i].more => lent'[cq'[i].op] = 0
      <3>1. CASE i \in 1..Len(cq) /\ cq'[i] = cq[i]
        BY <1>0, <2>1, <2>2, <2>7, <2>8, <3>1 DEF CqInv
      <3>2. CASE cq'[i] = e
        BY <2>1, <2>2, <2>4, <2>8, <3>2
      <3> QED
        BY <2>6, <3>1, <3>2
    <2>9. ASSUME NEW i \in 1..Len(cq'), cq'[i].op \notin missed, ~cq'[i].more,
                 NEW j \in 1..Len(cq'), j > i
          PROVE  cq'[j].op # cq'[i].op
      BY <1>0, <2>2, <2>4, <2>6, <2>9 DEF CqInv
    <2> QED
      BY <2>1, <2>3, <2>8, <2>9 DEF CqInv
  <1>4. ASSUME Reap PROVE OweInv' /\ CqInv'
    <2> DEFINE c == Head(cq)
    <2>1. /\ c \in Cqe /\ c.op \in Ops
          /\ cq' = Tail(cq)
          /\ owner' = [owner EXCEPT ![c.op] = OwnerAfter(Decode(c))]
          /\ missed' = missed \cup {o \in {c.op} : c.ev < 0 /\ c.more}
          /\ sending' = sending /\ lent' = lent
      BY <1>0, <1>4, ReapStep
    <2>2. cq \in Seq(Cqe) /\ cq # <<>>
      BY <1>0, <1>4 DEF Reap, TypeOK
    <2>3. /\ c = cq[1] /\ 1 \in 1..Len(cq)
          /\ Len(cq) \in Nat
          /\ Len(cq') = Len(cq) - 1
          /\ \A i \in 1..Len(cq') : i + 1 \in 1..Len(cq) /\ cq'[i] = cq[i + 1]
      BY <2>1, <2>2, TailAt
    <2>4. c.op \notin missed => /\ sending[c.op] = 0
                                /\ ~c.more => /\ lent[c.op] = 0
                                              /\ \A j \in 1..Len(cq) : j > 1 => cq[j].op # c.op
      BY <1>0, <2>3 DEF CqInv
    <2>5. c.more \in BOOLEAN /\ c.ev \in Int
      BY <2>1 DEF Cqe
    <2>6. /\ c.more /\ c.op \notin missed' => owner'[c.op] = "sent"
          /\ \A p \in Ops : p # c.op => owner'[p] = owner[p]
          /\ \A p : p \notin missed' => p \notin missed
      <3>1. c.more /\ c.op \notin missed' => c.ev >= 0
        BY <2>1, <2>5
      <3> QED
        BY <1>0, <2>1, <3>1, DecodeCases DEF TypeOK, OwnerAfter
    <2> HIDE DEF c
    <2>7. OweInv'
      <3> SUFFICES ASSUME NEW o \in Ops, o \notin missed'
                   PROVE  /\ sending[o] > 0 =>
                               sending[o] = 1 /\ owner'[o] = "busy" /\ lent[o] = 0
                          /\ lent[o] > 0 => lent[o] = 1 /\ owner'[o] # "free"
        BY <2>1 DEF OweInv
      <3>1. CASE o # c.op
        BY <1>0, <2>6, <3>1 DEF OweInv
      <3>2. CASE o = c.op
        BY <1>0, <2>4, <2>5, <2>6, <3>2 DEF OweInv
      <3> QED
        BY <3>1, <3>2
    <2>8. ASSUME NEW i \in 1..Len(cq'), cq'[i].op \notin missed'
          PROVE  /\ sending'[cq'[i].op] = 0
                 /\ owner'[cq'[i].op] # "free"
                 /\ ~cq'[i].more => lent'[cq'[i].op] = 0
      <3>1. i + 1 \in 1..Len(cq) /\ cq'[i] = cq[i + 1] /\ i + 1 > 1
        BY <2>3
      <3>2. cq[i + 1].op \notin missed /\ cq[i + 1].op \in Ops
        BY <1>0, <2>6, <2>8, <3>1, CqType
      <3>3. /\ sending[cq[i + 1].op] = 0
            /\ owner[cq[i + 1].op] # "free"
            /\ ~cq[i + 1].more => lent[cq[i + 1].op] = 0
        BY <1>0, <3>1, <3>2 DEF CqInv
      <3>4. owner'[cq[i + 1].op] # "free"
        BY <2>4, <2>5, <2>6, <2>8, <3>1, <3>2, <3>3
      <3> QED
        BY <2>1, <3>1, <3>3, <3>4
    <2>9. ASSUME NEW i \in 1..Len(cq'), cq'[i].op \notin missed', ~cq'[i].more,
                 NEW j \in 1..Len(cq'), j > i
          PROVE  cq'[j].op # cq'[i].op
      <3>1. /\ i + 1 \in 1..Len(cq) /\ cq'[i] = cq[i + 1]
            /\ j + 1 \in 1..Len(cq) /\ cq'[j] = cq[j + 1]
            /\ j + 1 > i + 1
        BY <2>3, <2>9
      <3> QED
        BY <1>0, <2>6, <2>9, <3>1 DEF CqInv
    <2>10. CqInv'
      BY <2>8, <2>9 DEF CqInv
    <2> QED
      BY <2>7, <2>10
  <1>5. ASSUME UNCHANGED vars PROVE OweInv' /\ CqInv'
    <2>1. owner' = owner /\ sending' = sending /\ lent' = lent /\ cq' = cq /\ missed' = missed
      BY <1>5 DEF vars, history
    <2>2. OweInv'
      BY <1>0, <2>1 DEF OweInv
    <2>3. CqInv'
      BY <1>0, <2>1 DEF CqInv
    <2> QED
      BY <2>2, <2>3
  <1>6. OweInv' /\ CqInv'
    <2>1. CASE Next
      BY <1>1, <1>2, <1>3, <1>4, <2>1 DEF Next, Send, SendMsg
    <2> QED
      BY <1>5, <2>1
  <1> QED
    BY <1>0, <1>6 DEF BufferInv

LEMMA BufferInvSuffices == BufferInv => BufferIsOwners
  <1> SUFFICES ASSUME BufferInv, NEW o \in Ops, owner[o] = "free", o \notin missed
               PROVE  HasBuffer(o)
    BY DEF BufferIsOwners
  <1>1. sending[o] = 0 /\ lent[o] = 0
    BY CountType DEF BufferInv, OweInv
  <1>2. \A i \in 1..Len(cq) : cq[i].op # o
    BY DEF BufferInv, CqInv
  <1> QED
    BY <1>1, <1>2 DEF HasBuffer

\* Whatever sends fail and whatever the kernel announces with the failure, an
\* owner that was told its send is over, by whichever of the decoded results,
\* has its buffer for itself and no completion for its object is under way,
\* unless the object was given an error with IORING_CQE_F_MORE.
THEOREM OwnerHasBuffer == Spec => []BufferIsOwners
  <1>1. BufferInv /\ [Next]_vars => BufferInv'
    BY NextBuffer
  <1> QED
    BY InitBuffer, <1>1, BufferInvSuffices, PTL DEF Spec

-----------------------------------------------------------------------------
(* Failures are failures of the send *)

\* A completion that will be decoded as an error belongs to a send that failed,
\* or it is a notification with the usage bit.
ErrorInv ==
    \A i \in 1..Len(cq) : cq[i].op \notin missed /\ cq[i].ev < 0 =>
                             failed[cq[i].op] \/ cq[i].notif

HonestInv == BufferInv /\ ErrorInv /\ HonestFailure

LEMMA InitHonest == Init => HonestInv
  <1> SUFFICES ASSUME Init PROVE HonestInv
    OBVIOUS
  <1>1. Len(cq) = 0 /\ \A o \in Ops : told[o] = "nothing"
    BY DEF Init
  <1>2. ErrorInv
    BY <1>1 DEF ErrorInv
  <1>3. HonestFailure
    BY <1>1 DEF HonestFailure
  <1> QED
    BY <1>2, <1>3, InitBuffer DEF HonestInv

LEMMA NextHonest ==
    ASSUME HonestInv, [Next]_vars
    PROVE  HonestInv'
  <1>0. TypeOK /\ BufferInv /\ BufferInv' /\ OweInv /\ CqInv /\ ErrorInv /\ HonestFailure
    BY NextBuffer DEF HonestInv, BufferInv
  <1>1. ASSUME NEW o \in Ops, Lend(o) PROVE ErrorInv' /\ HonestFailure'
    <2>1. UNCHANGED <<cq, failed, told, missed, copied>>
      BY <1>1 DEF Lend
    <2>2. \A p \in Ops : owner'[p] = "free" => owner[p] = "free"
      BY <1>0, <1>1 DEF Lend, TypeOK
    <2> QED
      BY <1>0, <2>1, <2>2 DEF ErrorInv, HonestFailure
  <1>2. ASSUME NEW o \in Ops, NEW ok \in BOOLEAN, NEW more \in BOOLEAN,
               PostResult(o, ok, more)
        PROVE  ErrorInv' /\ HonestFailure'
    <2>1. PICK e \in Cqe : cq' = Append(cq, e) /\ e.op = o /\ (ok => e.ev >= 0)
      <3> DEFINE e == [op |-> o, ev |-> IF ok THEN BytesSent ELSE -ECANCELED,
                       more |-> more, notif |-> FALSE]
      <3>1. cq' = Append(cq, e) /\ e \in Cqe /\ e.op = o
        BY <1>2, PostedType DEF PostResult
      <3>2. ok => e.ev >= 0
        BY DEF BytesSent
      <3> QED
        BY <3>1, <3>2
    <2>2. /\ sending[o] > 0
          /\ owner' = owner /\ told' = told /\ missed' = missed /\ copied' = copied
          /\ failed'[o] = ~ok
          /\ \A p \in Ops : p # o => failed'[p] = failed[p]
      BY <1>0, <1>2 DEF PostResult, TypeOK, history
    <2>3. o \notin missed => owner[o] = "busy" /\ \A i \in 1..Len(cq) : cq[i].op # o
      BY <1>0, <2>2 DEF OweInv, CqInv
    <2>4. HonestFailure'
      BY <1>0, <2>2, <2>3 DEF HonestFailure
    <2>5. cq \in Seq(Cqe)
      BY <1>0 DEF TypeOK
    <2>6. \A i \in 1..Len(cq') : \/ i \in 1..Len(cq) /\ cq'[i] = cq[i]
                                 \/ i = Len(cq) + 1 /\ cq'[i] = e
      BY <2>1, <2>5, AppendAt
    <2>7. \A i \in 1..Len(cq) : cq[i].op \in Ops
      BY <1>0, CqType
    <2>8. e.ev < 0 => failed'[e.op]
      <3>1. e.ev < 0 => ~(e.ev >= 0)
        BY DEF Cqe
      <3> QED
        BY <2>1, <2>2, <3>1
    <2>9. ErrorInv'
      BY <1>0, <2>2, <2>3, <2>6, <2>7, <2>8 DEF ErrorInv
    <2> QED
      BY <2>4, <2>9
  <1>3. ASSUME NEW o \in Ops, NEW res \in {0, UsageCopied}, PostNotification(o, res)
        PROVE  ErrorInv' /\ HonestFailure'
    <2>1. PICK e \in Cqe : cq' = Append(cq, e) /\ e.notif
      BY <1>3, PostedType DEF PostNotification
    <2>2. UNCHANGED <<owner, told, failed, missed, copied>>
      BY <1>3 DEF PostNotification, history
    <2>3. cq \in Seq(Cqe)
      BY <1>0 DEF TypeOK
    <2>4. \A i \in 1..Len(cq') : \/ i \in 1..Len(cq) /\ cq'[i] = cq[i]
                                 \/ i = Len(cq) + 1 /\ cq'[i] = e
      BY <2>1, <2>3, AppendAt
    <2>5. ErrorInv'
      BY <1>0, <2>1, <2>2, <2>4 DEF ErrorInv
    <2>6. HonestFailure'
      BY <1>0, <2>2 DEF HonestFailure
    <2> QED
      BY <2>5, <2>6
  <1>4. ASSUME Reap PROVE ErrorInv' /\ HonestFailure'
    <2> DEFINE c == Head(cq)
    <2>1. /\ c \in Cqe /\ c.op \in Ops
          /\ cq' = Tail(cq)
          /\ told' = [told EXCEPT ![c.op] = Decode(c)]
          /\ owner' = [owner EXCEPT ![c.op] = OwnerAfter(Decode(c))]
          /\ missed' = missed \cup {o \in {c.op} : c.ev < 0 /\ c.more}
          /\ copied' = copied \cup {o \in {c.op} : c.ev < 0 /\ c.notif}
          /\ failed' = failed
      BY <1>0, <1>4, ReapStep
    <2>2. cq \in Seq(Cqe) /\ cq # <<>>
      BY <1>0, <1>4 DEF Reap, TypeOK
    <2>3. /\ c = cq[1] /\ 1 \in 1..Len(cq)
          /\ \A i \in 1..Len(cq') : i + 1 \in 1..Len(cq) /\ cq'[i] = cq[i + 1]
      BY <2>1, <2>2, TailAt
    <2>4. Decode(c) = "fail" => c.ev < 0
      <3>1. c.ev \in Int /\ c.more \in BOOLEAN /\ c.notif \in BOOLEAN
        BY <2>1 DEF Cqe
      <3> QED
        BY <2>1, <3>1, DecodeCases
    <2>5. c.ev < 0 => failed[c.op] \/ c.op \in missed' \cup copied'
      <3>1. c.ev < 0 /\ c.op \notin missed => failed[c.op] \/ c.notif
        BY <1>0, <2>3 DEF ErrorInv
      <3> QED
        BY <2>1, <3>1
    <2>6. /\ told'[c.op] = Decode(c)
          /\ \A p \in Ops : p # c.op => told'[p] = told[p] /\ owner'[p] = owner[p]
          /\ missed \subseteq missed' /\ copied \subseteq copied'
      BY <1>0, <2>1 DEF TypeOK
    <2> HIDE DEF c
    <2>7. HonestFailure'
      <3> SUFFICES ASSUME NEW o \in Ops, told'[o] = "fail", owner'[o] = "free"
                   PROVE  failed'[o] \/ o \in missed' \cup copied'
        BY DEF HonestFailure
      <3>1. CASE o = c.op
        BY <2>1, <2>4, <2>5, <2>6, <3>1
      <3>2. CASE o # c.op
        BY <1>0, <2>1, <2>6, <3>2 DEF HonestFailure
      <3> QED
        BY <3>1, <3>2
    <2>8. ErrorInv'
      BY <1>0, <2>1, <2>3, <2>6 DEF ErrorInv
    <2> QED
      BY <2>7, <2>8
  <1>5. ASSUME UNCHANGED vars PROVE ErrorInv' /\ HonestFailure'
    BY <1>0, <1>5 DEF vars, history, ErrorInv, HonestFailure
  <1>6. ErrorInv' /\ HonestFailure'
    <2>1. ASSUME Next PROVE ErrorInv' /\ HonestFailure'
      BY <1>1, <1>2, <1>3, <1>4, <2>1 DEF Next, Send, SendMsg
    <2> QED
      BY <1>5, <2>1
  <1> QED
    BY <1>0, <1>6 DEF HonestInv

\* An owner that holds an error for its last send had a send that failed,
\* whatever the flags of the completions, or its object was given one of the two
\* completions whose flags do_callback does not look at.
THEOREM FailuresAreHonest == Spec => []HonestFailure
  <1>1. HonestInv /\ [Next]_vars => HonestInv'
    BY NextHonest
  <1>2. HonestInv => HonestFailure
    BY DEF HonestInv
  <1> QED
    BY InitHonest, <1>1, <1>2, PTL DEF Spec

-----------------------------------------------------------------------------
(* Every send is reported once *)

\* The result of a send comes before its notification: a result waits in the
\* queue only while the owner waits for it, and ahead of everything else of its
\* object; a notification waits, or is owed, behind it or after it was reaped.
ResultInv ==
    \A i \in 1..Len(cq) : cq[i].op \notin missed =>
      /\ ~cq[i].notif => /\ owner[cq[i].op] = "busy"
                         /\ \A j \in 1..Len(cq) : j < i => cq[j].op # cq[i].op
      /\ cq[i].notif => ~cq[i].more
      /\ cq[i].notif => \/ owner[cq[i].op] = "sent"
                        \/ \E j \in 1..Len(cq) : j < i /\ cq[j].op = cq[i].op

OwedInv ==
    \A o \in Ops : o \notin missed /\ lent[o] > 0 =>
      owner[o] = "sent" \/ \E j \in 1..Len(cq) : cq[j].op = o

ReportInv == BufferInv /\ ResultInv /\ OwedInv /\ OneResultEach

LEMMA InitReport == Init => ReportInv
  <1> SUFFICES ASSUME Init PROVE ReportInv
    OBVIOUS
  <1>1. Len(cq) = 0 /\ \A o \in Ops : lent[o] = 0 /\ due[o] = 0 /\ owner[o] = "free"
    BY DEF Init
  <1>2. ResultInv
    BY <1>1 DEF ResultInv
  <1>3. OwedInv
    <2>1. ~(0 > 0)
      OBVIOUS
    <2> QED
      BY <1>1, <2>1 DEF OwedInv
  <1>4. OneResultEach
    BY <1>1 DEF OneResultEach
  <1> QED
    BY <1>2, <1>3, <1>4, InitBuffer DEF ReportInv

LEMMA NextReport ==
    ASSUME ReportInv, [Next]_vars
    PROVE  ReportInv'
  <1>0. /\ TypeOK /\ BufferInv /\ BufferInv' /\ OweInv /\ CqInv
        /\ ResultInv /\ OwedInv /\ OneResultEach
    BY NextBuffer DEF ReportInv, BufferInv
  <1> DEFINE Goal == ResultInv' /\ OwedInv' /\ OneResultEach'
  <1>1. ASSUME NEW o \in Ops, Lend(o) PROVE Goal
    <2>1. /\ UNCHANGED <<cq, lent, missed, copied>>
          /\ owner[o] = "free" /\ owner'[o] = "busy"
          /\ due'[o] = due[o] + 1
          /\ \A p \in Ops : p # o => owner'[p] = owner[p] /\ due'[p] = due[p]
      BY <1>0, <1>1 DEF Lend, TypeOK
    <2>2. \A i \in 1..Len(cq) : /\ cq[i].op \in Ops
                                /\ cq[i].op \notin missed => cq[i].op # o
      BY <1>0, <2>1, CqType DEF CqInv
    <2>3. ResultInv'
      BY <1>0, <2>1, <2>2 DEF ResultInv
    <2>4. OwedInv'
      <3>1. o \notin missed => ~(lent[o] > 0)
        BY <1>0, <2>1 DEF OweInv
      <3> QED
        BY <1>0, <2>1, <3>1 DEF OwedInv
    <2>5. OneResultEach'
      <3>1. o \notin missed \cup copied => due[o] = 0 /\ due'[o] = 1
        BY <1>0, <2>1 DEF OneResultEach
      <3> QED
        BY <1>0, <2>1, <3>1 DEF OneResultEach
    <2> QED
      BY <2>3, <2>4, <2>5
  <1>2. ASSUME NEW o \in Ops, NEW ok \in BOOLEAN, NEW more \in BOOLEAN,
               PostResult(o, ok, more)
        PROVE  Goal
    <2>1. PICK e \in Cqe : cq' = Append(cq, e) /\ e.op = o /\ ~e.notif
      BY <1>2, PostedType DEF PostResult
    <2>2. /\ sending[o] > 0
          /\ UNCHANGED <<owner, due, missed, copied>>
          /\ \A p \in Ops : p # o => lent'[p] = lent[p]
      BY <1>0, <1>2 DEF PostResult, TypeOK, history
    <2>3. o \notin missed => owner[o] = "busy" /\ \A i \in 1..Len(cq) : cq[i].op # o
      BY <1>0, <2>2 DEF OweInv, CqInv
    <2>4. cq \in Seq(Cqe)
      BY <1>0 DEF TypeOK
    <2>5. /\ Len(cq') = Len(cq) + 1
          /\ Len(cq) \in Nat
          /\ \A i \in 1..Len(cq') : \/ i \in 1..Len(cq) /\ cq'[i] = cq[i]
                                    \/ i = Len(cq) + 1 /\ cq'[i] = e
      BY <2>1, <2>4, AppendAt
    <2>6. /\ \A i \in 1..Len(cq) : i \in 1..Len(cq') /\ cq'[i] = cq[i]
          /\ Len(cq) + 1 \in 1..Len(cq') /\ cq'[Len(cq) + 1] = e
      BY <2>1, <2>4
    <2>7. ResultInv'
      <3> SUFFICES ASSUME NEW i \in 1..Len(cq'), cq'[i].op \notin missed
                   PROVE  /\ ~cq'[i].notif =>
                               /\ owner[cq'[i].op] = "busy"
                               /\ \A j \in 1..Len(cq') : j < i => cq'[j].op # cq'[i].op
                          /\ cq'[i].notif => ~cq'[i].more
                          /\ cq'[i].notif =>
                               \/ owner[cq'[i].op] = "sent"
                               \/ \E j \in 1..Len(cq') : j < i /\ cq'[j].op = cq'[i].op
        BY <2>2 DEF ResultInv
      <3>1. CASE i \in 1..Len(cq) /\ cq'[i] = cq[i]
        <4>1. \A j \in 1..Len(cq') : j < i => j \in 1..Len(cq) /\ cq'[j] = cq[j]
          BY <2>5, <3>1
        <4> QED
          BY <1>0, <2>6, <3>1, <4>1 DEF ResultInv
      <3>2. CASE i = Len(cq) + 1 /\ cq'[i] = e
        <4>1. \A j \in 1..Len(cq') : j < i => j \in 1..Len(cq) /\ cq'[j] = cq[j]
          BY <2>5, <3>2
        <4> QED
          BY <2>1, <2>3, <3>2, <4>1
      <3> QED
        BY <2>5, <3>1, <3>2
    <2>8. OwedInv'
      <3>1. \E j \in 1..Len(cq') : cq'[j].op = o
        BY <2>1, <2>6
      <3> QED
        BY <1>0, <2>2, <2>6, <3>1 DEF OwedInv
    <2>9. OneResultEach'
      BY <1>0, <2>2 DEF OneResultEach
    <2> QED
      BY <2>7, <2>8, <2>9
  <1>3. ASSUME NEW o \in Ops, NEW res \in {0, UsageCopied}, PostNotification(o, res)
        PROVE  Goal
    <2>1. PICK e \in Cqe : cq' = Append(cq, e) /\ e.op = o /\ e.notif /\ ~e.more
      BY <1>3, PostedType DEF PostNotification
    <2>2. /\ lent[o] > 0
          /\ UNCHANGED <<owner, due, missed, copied>>
          /\ \A p \in Ops : p # o => lent'[p] = lent[p]
      BY <1>0, <1>3 DEF PostNotification, TypeOK, history
    <2>3. o \notin missed => owner[o] = "sent" \/ \E j \in 1..Len(cq) : cq[j].op = o
      BY <1>0, <2>2 DEF OwedInv
    <2>4. cq \in Seq(Cqe)
      BY <1>0 DEF TypeOK
    <2>5. /\ Len(cq') = Len(cq) + 1
          /\ Len(cq) \in Nat
          /\ \A i \in 1..Len(cq') : \/ i \in 1..Len(cq) /\ cq'[i] = cq[i]
                                    \/ i = Len(cq) + 1 /\ cq'[i] = e
      BY <2>1, <2>4, AppendAt
    <2>6. /\ \A i \in 1..Len(cq) : i \in 1..Len(cq') /\ cq'[i] = cq[i] /\ i < Len(cq) + 1
          /\ Len(cq) + 1 \in 1..Len(cq') /\ cq'[Len(cq) + 1] = e
      BY <2>1, <2>4
    <2>7. ResultInv'
      <3> SUFFICES ASSUME NEW i \in 1..Len(cq'), cq'[i].op \notin missed
                   PROVE  /\ ~cq'[i].notif =>
                               /\ owner[cq'[i].op] = "busy"
                               /\ \A j \in 1..Len(cq') : j < i => cq'[j].op # cq'[i].op
                          /\ cq'[i].notif => ~cq'[i].more
                          /\ cq'[i].notif =>
                               \/ owner[cq'[i].op] = "sent"
                               \/ \E j \in 1..Len(cq') : j < i /\ cq'[j].op = cq'[i].op
        BY <2>2 DEF ResultInv
      <3>1. CASE i \in 1..Len(cq) /\ cq'[i] = cq[i]
        <4>1. \A j \in 1..Len(cq') : j < i => j \in 1..Len(cq) /\ cq'[j] = cq[j]
          BY <2>5, <3>1
        <4> QED
          BY <1>0, <2>6, <3>1, <4>1 DEF ResultInv
      <3>2. CASE i = Len(cq) + 1 /\ cq'[i] = e
        BY <2>1, <2>3, <2>6, <3>2
      <3> QED
        BY <2>5, <3>1, <3>2
    <2>8. OwedInv'
      <3>1. \E j \in 1..Len(cq') : cq'[j].op = o
        BY <2>1, <2>6
      <3> QED
        BY <1>0, <2>2, <2>6, <3>1 DEF OwedInv
    <2>9. OneResultEach'
      BY <1>0, <2>2 DEF OneResultEach
    <2> QED
      BY <2>7, <2>8, <2>9
  <1>4. ASSUME Reap PROVE Goal
    <2> DEFINE c == Head(cq)
    <2>1. /\ c \in Cqe /\ c.op \in Ops
          /\ cq' = Tail(cq)
          /\ owner' = [owner EXCEPT ![c.op] = OwnerAfter(Decode(c))]
          /\ due' = [due EXCEPT ![c.op] = IF Decode(c) \in Outcomes THEN @ - 1 ELSE @]
          /\ missed' = missed \cup {o \in {c.op} : c.ev < 0 /\ c.more}
          /\ copied' = copied \cup {o \in {c.op} : c.ev < 0 /\ c.notif}
          /\ lent' = lent
      BY <1>0, <1>4, ReapStep
    <2>2. cq \in Seq(Cqe) /\ cq # <<>>
      BY <1>0, <1>4 DEF Reap, TypeOK
    <2>3. /\ c = cq[1] /\ 1 \in 1..Len(cq)
          /\ Len(cq) \in Nat
          /\ Len(cq') = Len(cq) - 1
          /\ \A i \in 1..Len(cq') : i + 1 \in 1..Len(cq) /\ cq'[i] = cq[i + 1]
      BY <2>1, <2>2, TailAt
    <2>4. c.more \in BOOLEAN /\ c.notif \in BOOLEAN /\ c.ev \in Int
      BY <2>1 DEF Cqe
    <2>5. c.op \notin missed =>
            /\ ~c.notif => owner[c.op] = "busy"
            /\ c.notif => owner[c.op] = "sent"
            /\ ~c.more => lent[c.op] = 0 /\ \A j \in 1..Len(cq) : j > 1 => cq[j].op # c.op
      <3>1. \A j \in 1..Len(cq) : ~(j < 1)
        BY <2>3
      <3> QED
        BY <1>0, <2>3, <3>1 DEF ResultInv, CqInv
    <2>6. /\ \A p \in Ops : p # c.op => owner'[p] = owner[p] /\ due'[p] = due[p]
          /\ \A p : p \notin missed' => p \notin missed
          /\ \A p : p \notin copied' => p \notin copied
      BY <1>0, <2>1 DEF TypeOK
    <2>7. /\ owner'[c.op] = OwnerAfter(Decode(c))
          /\ Decode(c) \in Outcomes => due'[c.op] = due[c.op] - 1
          /\ Decode(c) \notin Outcomes => due'[c.op] = due[c.op]
      BY <1>0, <2>1 DEF TypeOK
    <2>8. c.more /\ c.op \notin missed' => owner'[c.op] = "sent"
      <3>1. c.more /\ c.op \notin missed' => c.ev >= 0
        BY <2>1, <2>4
      <3> QED
        BY <2>1, <2>7, <3>1, DecodeCases DEF OwnerAfter
    <2>9. \A j \in 1..Len(cq) : j # 1 => j - 1 \in 1..Len(cq') /\ cq'[j - 1] = cq[j]
      BY <2>3
    <2>10. c.op \notin missed' \cup copied' =>
             due'[c.op] = IF owner'[c.op] = "busy" THEN 1 ELSE 0
      <3> SUFFICES ASSUME c.op \notin missed' \cup copied'
                   PROVE  due'[c.op] = 0 /\ owner'[c.op] # "busy"
        OBVIOUS
      <3>1. due[c.op] = IF owner[c.op] = "busy" THEN 1 ELSE 0
        BY <1>0, <2>1, <2>6 DEF OneResultEach
      <3>2. CASE c.notif
        <4>1. c.ev >= 0
          BY <2>1, <2>4, <3>2
        <4>2. owner[c.op] = "sent"
          BY <2>5, <2>6, <3>2
        <4>3. ~c.more
          BY <1>0, <2>3, <2>4, <2>6, <3>2 DEF ResultInv
        <4>4. Decode(c) = "buffer_free_notification"
          BY <2>1, <3>2, <4>1, <4>3, DecodeCases
        <4> QED
          BY <2>7, <3>1, <4>2, <4>4 DEF Outcomes, OwnerAfter
      <3>3. CASE ~c.notif
        <4>1. owner[c.op] = "busy"
          BY <2>5, <2>6, <3>3
        <4>2. Decode(c) \in Outcomes
          BY <2>1, <2>4, <3>3, DecodeCases DEF Outcomes
        <4>3. due'[c.op] = 0
          BY <2>7, <3>1, <4>1, <4>2
        <4> QED
          BY <2>7, <4>3 DEF OwnerAfter
      <3> QED
        BY <2>4, <3>2, <3>3
    <2> HIDE DEF c
    <2>11. OneResultEach'
      <3> SUFFICES ASSUME NEW o \in Ops, o \notin missed' \cup copied'
                   PROVE  due'[o] = IF owner'[o] = "busy" THEN 1 ELSE 0
        BY DEF OneResultEach
      <3>1. CASE o = c.op
        BY <2>10, <3>1
      <3>2. CASE o # c.op
        BY <1>0, <2>6, <3>2 DEF OneResultEach
      <3> QED
        BY <3>1, <3>2
    <2>12. OwedInv'
      <3> SUFFICES ASSUME NEW o \in Ops, o \notin missed', lent[o] > 0
                   PROVE  owner'[o] = "sent" \/ \E j \in 1..Len(cq') : cq'[j].op = o
        BY <2>1 DEF OwedInv
      <3>1. CASE o = c.op
        <4>1. ~(0 > 0)
          OBVIOUS
        <4> QED
          BY <2>4, <2>5, <2>6, <2>8, <3>1, <4>1
      <3>2. CASE o # c.op
        <4>1. owner[o] = "sent" \/ \E j \in 1..Len(cq) : cq[j].op = o
          BY <1>0, <2>6 DEF OwedInv
        <4> QED
          BY <2>3, <2>6, <2>9, <3>2, <4>1
      <3> QED
        BY <3>1, <3>2
    <2>13. ResultInv'
      <3> SUFFICES ASSUME NEW i \in 1..Len(cq'), cq'[i].op \notin missed'
                   PROVE  /\ ~cq'[i].notif =>
                               /\ owner'[cq'[i].op] = "busy"
                               /\ \A j \in 1..Len(cq') : j < i => cq'[j].op # cq'[i].op
                          /\ cq'[i].notif => ~cq'[i].more
                          /\ cq'[i].notif =>
                               \/ owner'[cq'[i].op] = "sent"
                               \/ \E j \in 1..Len(cq') : j < i /\ cq'[j].op = cq'[i].op
        BY DEF ResultInv
      <3>1. i + 1 \in 1..Len(cq) /\ cq'[i] = cq[i + 1] /\ i + 1 > 1 /\ 1 < i + 1
        BY <2>3
      <3> DEFINE o == cq[i + 1].op
      <3>2. o \notin missed /\ o \in Ops
        BY <1>0, <2>6, <3>1, CqType
      <3>3. CASE ~cq[i + 1].notif
        <4>1. owner[o] = "busy" /\ \A j \in 1..Len(cq) : j < i + 1 => cq[j].op # o
          BY <1>0, <3>1, <3>2, <3>3 DEF ResultInv
        <4>2. o # c.op
          BY <2>3, <3>1, <4>1
        <4>3. \A j \in 1..Len(cq') : j < i =>
                j + 1 \in 1..Len(cq) /\ j + 1 < i + 1 /\ cq'[j] = cq[j + 1]
          BY <2>3
        <4> QED
          BY <2>6, <3>1, <3>2, <3>3, <4>1, <4>2, <4>3
      <3>4. CASE cq[i + 1].notif
        <4>0. ~cq[i + 1].more
          BY <1>0, <3>1, <3>2, <3>4 DEF ResultInv
        <4>1. CASE o = c.op
          <5>1. c.more
            BY <2>4, <2>5, <3>1, <3>2, <4>1
          <5> QED
            BY <2>8, <3>1, <3>4, <4>0, <4>1, <5>1
        <4>2. CASE o # c.op /\ owner[o] = "sent"
          BY <2>6, <3>1, <3>2, <3>4, <4>0, <4>2
        <4>3. CASE o # c.op /\ owner[o] # "sent"
          <5>1. PICK j \in 1..Len(cq) : j < i + 1 /\ cq[j].op = o
            BY <1>0, <3>1, <3>2, <3>4, <4>3 DEF ResultInv
          <5>2. j # 1
            BY <2>3, <4>3, <5>1
          <5>3. j - 1 \in 1..Len(cq') /\ cq'[j - 1] = cq[j] /\ j - 1 < i
            BY <2>9, <5>1, <5>2
          <5> QED
            BY <3>1, <3>4, <4>0, <5>1, <5>3
        <4> QED
          BY <4>1, <4>2, <4>3
      <3>5. cq[i + 1].notif \in BOOLEAN
        <4>1. cq[i + 1] \in Cqe
          BY <2>2, <3>1
        <4> QED
          BY <4>1 DEF Cqe
      <3> QED
        BY <3>3, <3>4, <3>5
    <2> QED
      BY <2>11, <2>12, <2>13
  <1>5. ASSUME UNCHANGED vars PROVE Goal
    <2>1. UNCHANGED <<owner, lent, cq, due, missed, copied>>
      BY <1>5 DEF vars, history
    <2>2. ResultInv'
      BY <1>0, <2>1 DEF ResultInv
    <2>3. OwedInv'
      BY <1>0, <2>1 DEF OwedInv
    <2>4. OneResultEach'
      BY <1>0, <2>1 DEF OneResultEach
    <2> QED
      BY <2>2, <2>3, <2>4
  <1>6. Goal
    <2> HIDE DEF Goal
    <2>1. ASSUME Next PROVE Goal
      BY <1>1, <1>2, <1>3, <1>4, <2>1 DEF Next, Send, SendMsg
    <2> QED
      BY <1>5, <2>1
  <1> QED
    BY <1>0, <1>6 DEF ReportInv

\* Every send is reported to the callback once, before the notification, and no
\* notification is taken for a result, unless the object was given one of the
\* two completions whose flags do_callback does not look at.
THEOREM SendsReportedOnce == Spec => []OneResultEach
  <1>1. ReportInv /\ [Next]_vars => ReportInv'
    BY NextReport
  <1>2. ReportInv => OneResultEach
    BY DEF ReportInv
  <1> QED
    BY InitReport, <1>1, <1>2, PTL DEF Spec
=============================================================================
