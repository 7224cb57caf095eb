------------------------------ MODULE ZeroCopy ------------------------------
(***************************************************************************)
(* The zero-copy sends of include/iouxx/iouops/network/sendrecv.hpp:       *)
(* socket_send_zc_operation and socket_sendmsg_zc_operation.               *)
(*                                                                         *)
(* A zero-copy send lends its buffer to the kernel and may complete twice: *)
(* once with the number of bytes sent, once with a notification that the   *)
(* buffer is free.  The object decodes each completion into one of three   *)
(* results or an error, and the owner of the buffer decides from these     *)
(* alone when it may write to the buffer, submit again or destroy the      *)
(* object.  The kernel is external.                                        *)
(***************************************************************************)
EXTENDS Integers, Sequences

CONSTANTS
    Ops,             \* zero-copy operations, each with a buffer of its own
    MsgOps,          \* the ones that are socket_sendmsg_zc_operation
    ReportUsage,     \* the ones with ring_options(s_zc_report_usage), which only
                     \* socket_send_zc_operation passes on to the kernel
    MaxSends         \* bound: sends in a behaviour

ASSUME ZeroCopyAssumption ==
    /\ MsgOps \subseteq Ops
    /\ ReportUsage \subseteq Ops \ MsgOps
    /\ MaxSends \in Nat

VARIABLES
    owner,    \* owner[o]: "free" (the buffer is the owner's), "busy", or
              \* "sent" (bytes were sent, the notification is awaited)
    sending,  \* sending[o]: sends of o that the kernel has not completed
    lent,     \* lent[o]: notifications of o that the kernel still has to post,
              \* each of which stands for a use of the buffer
    cq,       \* completions in order
    failed,   \* failed[o]: did the last send of o fail in the kernel?
    told,     \* told[o]: the result that the callback of o received last
    due,      \* due[o]: sends of o minus results reported to its callback
    missed,   \* objects that got an error with IORING_CQE_F_MORE: a
              \* notification follows and the callback was not told
    copied,   \* objects that got a notification with the usage bit set
    nsend     \* number of sends

\* What only the properties look at.
history == <<due, missed, copied>>
vars == <<owner, sending, lent, cq, failed, told, history, nsend>>

ECANCELED == 125
BytesSent == 1

\* IORING_NOTIF_USAGE_ZC_COPIED is 1U << 31, and cqe->res is a signed 32-bit
\* integer: the largest negative one.
UsageCopied == (-2147483647) - 1

Cqe == [op : Ops, ev : Int, more : BOOLEAN, notif : BOOLEAN]

Init ==
    /\ owner = [o \in Ops |-> "free"]
    /\ sending = [o \in Ops |-> 0]
    /\ lent = [o \in Ops |-> 0]
    /\ cq = <<>>
    /\ failed = [o \in Ops |-> FALSE]
    /\ told = [o \in Ops |-> "nothing"]
    /\ due = [o \in Ops |-> 0]
    /\ missed = {}
    /\ copied = {}
    /\ nsend = 0

\* The owner fills its buffer and submits: the kernel has it.
Lend(o) ==
    /\ owner[o] = "free"
    /\ nsend < MaxSends
    /\ nsend' = nsend + 1
    /\ owner' = [owner EXCEPT ![o] = "busy"]
    /\ sending' = [sending EXCEPT ![o] = @ + 1]
    /\ due' = [due EXCEPT ![o] = @ + 1]
    /\ UNCHANGED <<lent, cq, failed, told, missed, copied>>

\* build: io_uring_prep_send_zc with the ring flags of the object.
Send(o) == o \notin MsgOps /\ Lend(o)

\* build: io_uring_prep_sendmsg_zc, which takes no ring flags.
SendMsg(o) == o \in MsgOps /\ Lend(o)

\* The kernel posts the result of the send.  IORING_CQE_F_MORE announces the
\* notification, of a failed send too when the kernel had taken the buffer;
\* a send that was copied at once, or that failed early, has none.
PostResult(o, ok, more) ==
    /\ sending[o] > 0
    /\ sending' = [sending EXCEPT ![o] = @ - 1]
    /\ lent' = [lent EXCEPT ![o] = IF more THEN @ + 1 ELSE @]
    /\ failed' = [failed EXCEPT ![o] = ~ok]
    /\ cq' = Append(cq, [op |-> o, ev |-> IF ok THEN BytesSent ELSE -ECANCELED,
                         more |-> more, notif |-> FALSE])
    /\ UNCHANGED <<owner, told, history, nsend>>

\* The kernel is done with the buffer.  With IORING_SEND_ZC_REPORT_USAGE the
\* result of the notification says whether the data had to be copied.
PostNotification(o, res) ==
    /\ lent[o] > 0
    /\ res # 0 => o \in ReportUsage
    /\ lent' = [lent EXCEPT ![o] = @ - 1]
    /\ cq' = Append(cq, [op |-> o, ev |-> res, more |-> FALSE, notif |-> TRUE])
    /\ UNCHANGED <<owner, sending, failed, told, history, nsend>>

\* Mutant: the flags are ignored, every success is final.
DecodeIgnoringFlags(c) == IF c.ev < 0 THEN "fail" ELSE "send_result_nomore"

\* Mutant: the notification is taken for a result with more to come.
DecodeNotifAsMore(c) ==
    IF c.ev < 0 THEN "fail"
    ELSE IF c.more \/ c.notif THEN "send_result_more" ELSE "send_result_nomore"

\* Mutant: a result of no bytes is an error (ev > 0 instead of ev >= 0).
DecodeZeroFails(c) ==
    IF c.ev <= 0 THEN "fail"
    ELSE IF c.more THEN "send_result_more" ELSE "send_result_nomore"

\* Mutant: F_NOTIF is not looked at, the notification is a result of 0 bytes.
DecodeNotifAsResult(c) ==
    IF c.ev < 0 THEN "fail"
    ELSE IF c.more THEN "send_result_more" ELSE "send_result_nomore"

\* do_callback of send_zc: the sign of ev first, the flags only if it is not negative.
Decode(c) ==
    CASE c.ev < 0                          -> "fail"
      [] c.ev >= 0 /\ c.more               -> "send_result_more"
      [] c.ev >= 0 /\ ~c.more /\ c.notif   -> "buffer_free_notification"
      [] c.ev >= 0 /\ ~c.more /\ ~c.notif  -> "send_result_nomore"

\* do_callback of sendmsg_zc is the same text once more.
DecodeMsg(c) == Decode(c)

\* Only send_result_more tells the owner to wait for a notification.
OwnerAfter(result) == IF result = "send_result_more" THEN "sent" ELSE "free"

\* The callback results that report the outcome of a send.
Outcomes == {"fail", "send_result_more", "send_result_nomore"}

Reap ==
    /\ cq # <<>>
    /\ cq' = Tail(cq)
    /\ LET c == Head(cq)
           result == IF c.op \in MsgOps THEN DecodeMsg(c) ELSE Decode(c)
       IN /\ told' = [told EXCEPT ![c.op] = result]
          /\ owner' = [owner EXCEPT ![c.op] = OwnerAfter(result)]
          /\ due' = [due EXCEPT ![c.op] = IF result \in Outcomes THEN @ - 1 ELSE @]
          /\ missed' = missed \cup {o \in {c.op} : c.ev < 0 /\ c.more}
          /\ copied' = copied \cup {o \in {c.op} : c.ev < 0 /\ c.notif}
    /\ UNCHANGED <<sending, lent, failed, nsend>>

Next ==
    \/ \E o \in Ops : Send(o)
    \/ \E o \in Ops : SendMsg(o)
    \/ \E o \in Ops, ok \in BOOLEAN, more \in BOOLEAN : PostResult(o, ok, more)
    \/ \E o \in Ops, res \in {0, UsageCopied} : PostNotification(o, res)
    \/ Reap

Spec == Init /\ [][Next]_vars

\* The kernel completes every send and returns every buffer, and the event
\* loop reaps.
FairSpec ==
    /\ Spec
    /\ \A o \in Ops : /\ WF_vars(\E ok, more \in BOOLEAN : PostResult(o, ok, more))
                      /\ WF_vars(\E res \in {0, UsageCopied} : PostNotification(o, res))
    /\ WF_vars(Reap)

-----------------------------------------------------------------------------
(* Properties *)

\* The variables have their types.
TypeOK ==
    /\ owner \in [Ops -> {"free", "busy", "sent"}]
    /\ sending \in [Ops -> Nat]
    /\ lent \in [Ops -> Nat]
    /\ cq \in Seq(Cqe)
    /\ failed \in [Ops -> BOOLEAN]
    /\ told \in [Ops -> {"nothing", "fail", "send_result_more",
                         "send_result_nomore", "buffer_free_notification"}]
    /\ due \in [Ops -> Int]
    /\ missed \subseteq Ops
    /\ copied \subseteq Ops
    /\ nsend \in 0..MaxSends

\* The kernel does not use the buffer and no completion of o is on its way.
HasBuffer(o) ==
    /\ sending[o] = 0
    /\ lent[o] = 0
    /\ \A i \in 1..Len(cq) : cq[i].op # o

\* An owner that do_callback told that the operation is over owns its buffer
\* alone, whatever it was told and however the completions of several sends
\* interleave.  The one exception is an object that was given an error whose
\* IORING_CQE_F_MORE do_callback does not look at.
BufferIsOwners == \A o \in Ops : owner[o] = "free" /\ o \notin missed => HasBuffer(o)

\* The same without the exception: what the comment in do_callback says of the
\* two completions of a send.
OverMeansFree == \A o \in Ops : owner[o] = "free" => HasBuffer(o)

\* do_callback reports a failure only for a send that failed: neither a send of
\* no bytes nor the notification of a good send is an error, except for the
\* notifications that carry the usage bit.
HonestFailure ==
    \A o \in Ops : told[o] = "fail" /\ owner[o] = "free" =>
                     failed[o] \/ o \in missed \cup copied

\* The notification that the buffer is free reaches the callback as such, with
\* the usage bit or without it.
NotificationIsNoError ==
    [][cq # <<>> /\ cq' = Tail(cq) /\ Head(cq).notif =>
         told'[Head(cq).op] = "buffer_free_notification"]_vars

\* Every send is reported once: do_callback gives the callback one result of
\* the send, before the notification, and the notification is no result.
OneResultEach ==
    \A o \in Ops \ (missed \cup copied) :
        due[o] = IF owner[o] = "busy" THEN 1 ELSE 0

\* Every buffer comes back to its owner, whatever fails.
BufferReturns == \A o \in Ops : (owner[o] # "free") ~> (owner[o] = "free")
=============================================================================
