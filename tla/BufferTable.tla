----------------------------- MODULE BufferTable ----------------------------
(***************************************************************************)
(* The registered buffers of a ring and the I/O that uses them:            *)
(* register_buffer_table, register_buffers and update_buffer_table of      *)
(* class ring with ring_management_operation as the unregistration         *)
(* operation, the read and write operations of iouops/file/fileio.hpp, and *)
(* the plain send and receive operations of iouops/network/sendrecv.hpp.   *)
(*                                                                         *)
(* The question is when the owner of some memory may reuse it.  Memory     *)
(* that an I/O operation was given is the kernel's until the callback;     *)
(* memory in the table is the kernel's until it was replaced there AND no  *)
(* request uses it any more, which the kernel tells by a completion whose  *)
(* user_data is the tag.  All buffers of a registration carry the same     *)
(* tag, the address of the unregistration operation, so its callback does  *)
(* not say which buffer came back: the owner has to count.                 *)
(*                                                                         *)
(* The kernel is external: resource nodes, requests, completions.          *)
(***************************************************************************)
EXTENDS Integers, Sequences, FiniteSets

CONSTANTS
    Bufs,       \* pieces of memory
    NSlots,     \* size of the buffer table
    Ops,        \* I/O operation objects
    Programs,   \* which operation class each object is of, None if unused
    Unregs,     \* ring_management_operation objects
    MaxNodes,   \* bound: buffers registered in a behaviour
    MaxSubmits, \* bound: I/O operations submitted in a behaviour
    None

Kinds == {"read", "read_fixed", "readv", "readv_fixed", "write", "write_fixed",
          "writev", "writev_fixed", "send", "recv", "sendmsg"}

ASSUME BufferTableAssumption ==
    /\ NSlots \in Nat \ {0}
    /\ Programs \subseteq [Ops -> Kinds \cup {None}]
    /\ MaxNodes \in Nat
    /\ MaxSubmits \in Nat
    /\ None \notin Bufs \cup Unregs \cup {"untagged"}
    /\ "untagged" \notin Unregs

Slots == 0..(NSlots - 1)
NodeIds == 1..MaxNodes
EINVAL == 22

\* What the fd member and is_fixed say: descriptor 0, or slot 0 of the direct
\* descriptor table.
Targets == [fd : {0}, is_fixed : BOOLEAN]

VARIABLES
    registered, \* does the ring have a buffer table?
    table,      \* table[i]: the node in slot i, 0 if it is empty
    node,       \* node[n]: the buffer and the tag of resource node n
    nnode,      \* number of nodes made
    reqs,       \* requests that the kernel has
    cq,         \* completions that were not reaped
    kind,       \* kind[o]: the class of object o
    member,     \* member[o]: buf, buf_index and the target of the object
    asked,      \* asked[o]: the buffer and the file that the caller named last
    busy,       \* operations that wait for their callback
    owed,       \* owed[u]: calls of u that the owner still waits for
    lent,       \* lent[b]: the unregistration operation that b was registered
                \* with, "untagged" if with none, None if b is not registered
    codesOk,    \* was every argument of make_system_error_code >= 0 so far?
    nsub

kernelVars == <<registered, table, node, nnode, reqs, cq>>
opVars     == <<kind, member, asked, busy, nsub>>
ownerVars  == <<owed, lent, codesOk>>
vars == <<kernelVars, opVars, ownerVars>>

NoNode == [buf |-> None, tag |-> None]

Init ==
    /\ registered = FALSE
    /\ table = [i \in Slots |-> 0]
    /\ node = [n \in NodeIds |-> NoNode]
    /\ nnode = 0
    /\ reqs = {}
    /\ cq = {}
    /\ kind \in Programs
    /\ member = [o \in Ops |-> [buf |-> None, buf_index |-> -1,
                                target |-> [fd |-> 0, is_fixed |-> FALSE]]]
    /\ asked = [o \in Ops |-> [buf |-> None, target |-> [fd |-> 0, is_fixed |-> FALSE]]]
    /\ busy = {}
    /\ owed = [u \in Unregs |-> 0]
    /\ lent = [b \in Bufs |-> None]
    /\ codesOk = TRUE
    /\ nsub = 0

-----------------------------------------------------------------------------
(* Resource nodes *)

InTable(t) == {t[i] : i \in Slots} \ {0}
Using(rs)  == {r.node : r \in rs} \ {0}

\* The nodes that go when the table is t and the requests are rs.
Released(t, rs) == (InTable(table) \cup Using(reqs)) \ (InTable(t) \cup Using(rs))

\* A node that goes and has a tag posts a completion for it.
TagCqe(n) == [n |-> n, op |-> node[n].tag, ev |-> 0, buf |-> None, target |-> None]
TagCqes(ns) == {TagCqe(n) : n \in {m \in ns : node[m].tag # None}}
Without(ns) == [n \in NodeIds |-> IF n \in ns THEN NoNode ELSE node[n]]

-----------------------------------------------------------------------------
(* Registration *)

\* Mutant: a tag for the first buffer only.
TagsFirst(unreg, n) == [i \in 1..n |-> IF i = 1 THEN unreg ELSE None]

\* std::vector<__u64> tags(iovecs.size(), to_tag(&unreg_op)), or nullptr.
Tags(unreg, n) == [i \in 1..n |-> unreg]

\* Mutant: the sign of ev is lost.
ErrorValue(ev) == IF ev < 0 THEN -ev ELSE ev

\* make_system_error_code(-ev) after a registration call.  The calls that update
\* a table return the number of updated entries.
ErrorCode(ev) == -ev

\* What the owner makes of the code: a negative one is a count, 0 is success.
RegisteredCount(code, n) == IF code = 0 THEN n ELSE IF code < 0 THEN -code ELSE 0

\* The caller registers memory that it owns, and not twice.
Registrable(bufs) ==
    /\ \A i \in DOMAIN bufs : lent[bufs[i]] = None
    /\ \A i, j \in DOMAIN bufs : i # j => bufs[i] # bufs[j]

\* The first k of bufs were put into the table t at off; ev was returned.
Enter(off, bufs, unreg, k, ev) ==
    LET tags == Tags(unreg, Len(bufs))
        t == [i \in Slots |-> IF off <= i /\ i < off + k THEN nnode + 1 + i - off
                              ELSE table[i]]
        c == RegisteredCount(ErrorCode(ev), Len(bufs))
    IN /\ nnode + k <= MaxNodes
       /\ nnode' = nnode + k
       /\ table' = t
       /\ node' = [n \in NodeIds |->
                     IF nnode < n /\ n <= nnode + k
                     THEN [buf |-> bufs[n - nnode], tag |-> tags[n - nnode]]
                     ELSE Without(Released(t, reqs))[n]]
       /\ cq' = cq \cup TagCqes(Released(t, reqs))
       /\ codesOk' = (codesOk /\ ErrorCode(ev) >= 0)
       /\ owed' = [u \in Unregs |-> IF u = unreg THEN owed[u] + c ELSE owed[u]]
       /\ lent' = [b \in Bufs |->
                     IF \E i \in 1..c : bufs[i] = b
                     THEN IF unreg = None THEN "untagged" ELSE unreg ELSE lent[b]]
       /\ UNCHANGED <<reqs, opVars>>

\* register_buffer_table: a sparse table.
RegisterBufferTable ==
    /\ ~registered
    /\ registered' = TRUE
    /\ UNCHANGED <<table, node, nnode, reqs, cq, opVars, ownerVars>>

\* register_buffers, with (unreg in Unregs) or without (None) notification.
RegisterBuffers(bufs, unreg) ==
    /\ ~registered
    /\ registered' = TRUE
    /\ Len(bufs) <= NSlots
    /\ Registrable(bufs)
    /\ Enter(0, bufs, unreg, Len(bufs), 0)

\* update_buffer_table: the kernel replaces the entries one by one up to one
\* that it rejects, and returns the number of replaced ones if there is any.
UpdateBufferTable(off, bufs, unreg) ==
    /\ registered
    /\ UNCHANGED registered
    /\ Registrable(bufs)
    /\ \/ \E k \in 1..Len(bufs) :
            /\ off + k <= NSlots
            /\ Enter(off, bufs, unreg, k, k)
       \/ Enter(off, bufs, unreg, 0, -EINVAL)

\* update_buffer_table with k empty buffers, which takes entries out.
ClearEntries(off, k) ==
    LET t == [i \in Slots |-> IF off <= i /\ i < off + k THEN 0 ELSE table[i]] IN
    /\ registered
    /\ off + k <= NSlots
    /\ table' = t
    /\ node' = Without(Released(t, reqs))
    /\ cq' = cq \cup TagCqes(Released(t, reqs))
    /\ codesOk' = (codesOk /\ ErrorCode(k) >= 0)
    /\ UNCHANGED <<registered, nnode, reqs, opVars, owed, lent>>

-----------------------------------------------------------------------------
(* I/O operations *)

\* The setters, as functions of the members.  A chain of calls may leave one out
\* (None): the value of an earlier submission of the object stays.

\* Mutant: the overload for a file leaves is_fixed alone.
FileKeepsFixed(m, t) ==
    IF t = None THEN m ELSE [m EXCEPT !.target.is_fixed = @ \/ t.is_fixed]

\* file(f) of the file operations: each overload sets fd and is_fixed.
File(m, t) == IF t = None THEN m ELSE [m EXCEPT !.target = t]

\* socket(s) of the socket operations, with the same overloads.
Socket(m, t) == IF t = None THEN m ELSE [m EXCEPT !.target = t]

\* buffer(b) of the file operations.
FileBuffer(m, b) == IF b = None THEN m ELSE [m EXCEPT !.buf = b]

\* buffer(off, b) of the vectored ones, for one cell of the array of iovecs.
VectorBuffer(m, b) == IF b = None THEN m ELSE [m EXCEPT !.buf = b]

\* buffer(b, i) of the socket operations sets buf_index too, by default to -1.
SocketBuffer(m, b, i) == IF b = None THEN m ELSE [m EXCEPT !.buf = b, !.buf_index = i]

\* message(hdr), where the memory is what the header points to.
Message(m, b) == IF b = None THEN m ELSE [m EXCEPT !.buf = b]

\* index(i) of the _fixed operations.
Index(m, i) == IF i \in Slots THEN [m EXCEPT !.buf_index = i] ELSE m

\* The members after file(t).buffer(b, i).index(i), as far as the class has those.
SetMembers(k, m, t, b, i) ==
    CASE k \in {"read", "write"}               -> FileBuffer(File(m, t), b)
      [] k \in {"readv", "writev"}             -> VectorBuffer(File(m, t), b)
      [] k \in {"read_fixed", "write_fixed"}   -> Index(FileBuffer(File(m, t), b), i)
      [] k \in {"readv_fixed", "writev_fixed"} -> Index(VectorBuffer(File(m, t), b), i)
      [] k \in {"send", "recv"}                -> SocketBuffer(Socket(m, t), b, i)
      [] k = "sendmsg"                         -> Message(Socket(m, t), b)

\* The request that a build() makes of the members: with a registered buffer the
\* kernel is given the index next to the memory.
Sqe(m, fixed) == [buf |-> m.buf, fixed |-> fixed, index |-> m.buf_index, target |-> m.target]

\* The build() of each class; its setters are above, its do_callback is ReapIo.
file_read(m)         == Sqe(m, FALSE)
file_read_fixed(m)   == Sqe(m, TRUE)
file_readv(m)        == Sqe(m, FALSE)
file_readv_fixed(m)  == Sqe(m, TRUE)
file_write(m)        == Sqe(m, FALSE)
file_write_fixed(m)  == Sqe(m, TRUE)
file_writev(m)       == Sqe(m, FALSE)
file_writev_fixed(m) == Sqe(m, TRUE)
socket_send(m)       == Sqe(m, m.buf_index >= 0)
socket_recv(m)       == Sqe(m, m.buf_index >= 0)
socket_sendmsg(m)    == Sqe(m, FALSE)

Build(k, m) ==
    CASE k = "read"         -> file_read(m)
      [] k = "read_fixed"   -> file_read_fixed(m)
      [] k = "readv"        -> file_readv(m)
      [] k = "readv_fixed"  -> file_readv_fixed(m)
      [] k = "write"        -> file_write(m)
      [] k = "write_fixed"  -> file_write_fixed(m)
      [] k = "writev"       -> file_writev(m)
      [] k = "writev_fixed" -> file_writev_fixed(m)
      [] k = "send"         -> socket_send(m)
      [] k = "recv"         -> socket_recv(m)
      [] k = "sendmsg"      -> socket_sendmsg(m)

\* file(t).buffer(b, i).index(i).submit().
Submit(o, t, b, i) ==
    LET m == SetMembers(kind[o], member[o], t, b, i)
        sqe == Build(kind[o], m)
    IN /\ kind[o] # None
       /\ o \notin busy
       /\ nsub < MaxSubmits
       /\ m.buf # None
       /\ nsub' = nsub + 1
       /\ busy' = busy \cup {o}
       /\ member' = [member EXCEPT ![o] = m]
       /\ asked' = [asked EXCEPT ![o].buf = IF b = None THEN @ ELSE b,
                                ![o].target = IF t = None THEN @ ELSE t]
       /\ reqs' = reqs \cup {[op |-> o, buf |-> sqe.buf, fixed |-> sqe.fixed,
                              index |-> sqe.index, target |-> sqe.target,
                              node |-> 0, issued |-> FALSE]}
       /\ UNCHANGED <<kind, registered, table, node, nnode, cq, ownerVars>>

IoCqe(r, ev) == [n |-> 0, op |-> r.op, ev |-> ev, buf |-> r.buf, target |-> r.target]

\* The node in a slot, 0 if the index is not one.
NodeAt(i) == IF i \in Slots THEN table[i] ELSE 0

\* The kernel begins with a request: a registered buffer is looked up and has
\* to contain the memory that the SQE names.
Issue(r) ==
    LET n == IF r.fixed THEN NodeAt(r.index) ELSE 0
        bad == r.fixed /\ (n = 0 \/ node[n].buf # r.buf)
    IN /\ r \in reqs
       /\ ~r.issued
       /\ reqs' = (reqs \ {r}) \cup
                    IF bad THEN {} ELSE {[r EXCEPT !.node = n, !.issued = TRUE]}
       /\ cq' = cq \cup IF bad THEN {IoCqe(r, -EINVAL)} ELSE {}
       /\ UNCHANGED <<registered, table, node, nnode, opVars, ownerVars>>

\* The kernel is done with a request, and lets go of its node.
Complete(r, ev) ==
    /\ r \in reqs
    /\ r.issued
    /\ reqs' = reqs \ {r}
    /\ cq' = cq \cup {IoCqe(r, ev)} \cup TagCqes(Released(table, reqs \ {r}))
    /\ node' = Without(Released(table, reqs \ {r}))
    /\ UNCHANGED <<registered, table, nnode, opVars, ownerVars>>

\* The memory that the callback is told to look at: recv makes a span that starts
\* at the buf member, the others report a count.
Span(c) == IF kind[c.op] = "recv" THEN member[c.op].buf ELSE c.buf

\* do_callback of an I/O operation.
ReapIo(c) ==
    /\ c \in cq
    /\ c.n = 0
    /\ cq' = cq \ {c}
    /\ busy' = busy \ {c.op}
    /\ UNCHANGED <<registered, table, node, nnode, reqs, kind, member, asked, nsub, ownerVars>>

\* ring_management_operation::do_callback: the owner counts, and takes back all
\* the buffers of the operation when none is owed.
ReapTag(c) ==
    LET u == c.op IN
    /\ c \in cq
    /\ c.n # 0
    /\ cq' = cq \ {c}
    /\ owed' = [owed EXCEPT ![u] = @ - 1]
    /\ lent' = [b \in Bufs |-> IF lent[b] = u /\ owed[u] = 1 THEN None ELSE lent[b]]
    /\ UNCHANGED <<registered, table, node, nnode, reqs, opVars, codesOk>>

\* reinit() of the ring: requests are cancelled, table and completions dropped,
\* and neither the callbacks nor the unregistration operations are called.
Exit ==
    /\ registered' = FALSE
    /\ table' = [i \in Slots |-> 0]
    /\ reqs' = {}
    /\ cq' = {}
    /\ busy' = {}
    /\ owed' = [u \in Unregs |-> 0]
    /\ lent' = [b \in Bufs |-> None]
    /\ node' = Without(NodeIds)
    /\ UNCHANGED <<nnode, kind, member, asked, nsub, codesOk>>

\* Sequences of one or two buffers.
Batches == UNION {[1..n -> Bufs] : n \in 1..2}

Registering ==
    \/ RegisterBufferTable
    \/ \E bufs \in Batches, u \in Unregs \cup {None} : RegisterBuffers(bufs, u)
    \/ \E off \in Slots, bufs \in Batches, u \in Unregs \cup {None} :
         UpdateBufferTable(off, bufs, u)
    \/ \E off \in Slots, k \in 1..2 : ClearEntries(off, k)

Kernel ==
    \/ \E r \in reqs : Issue(r)
    \/ \E r \in reqs : \E ev \in {1, -EINVAL} : Complete(r, ev)

Reap == \E c \in cq : ReapIo(c) \/ ReapTag(c)

Next ==
    \/ Registering
    \/ \E o \in Ops, t \in Targets \cup {None}, b \in Bufs \cup {None}, i \in {-1} \cup Slots :
         Submit(o, t, b, i)
    \/ Kernel
    \/ Reap
    \/ Exit

\* The kernel finishes the requests it has and the owner reaps what there is.
Fairness == WF_vars(Kernel) /\ WF_vars(Reap)

Spec == Init /\ [][Next]_vars /\ Fairness

-----------------------------------------------------------------------------
(* Properties *)

Request == [op : Ops, buf : Bufs, fixed : BOOLEAN, index : {-1} \cup Slots,
            target : Targets, node : 0..MaxNodes, issued : BOOLEAN]

\* The table, the requests and the owners' counts have their types: an owner is
\* never called back more often than it counted (ring_management_operation).
TypeOK ==
    /\ registered \in BOOLEAN
    /\ table \in [Slots -> 0..MaxNodes]
    /\ node \in [NodeIds -> [buf : Bufs \cup {None}, tag : Unregs \cup {None}]]
    /\ nnode \in 0..MaxNodes
    /\ reqs \subseteq Request
    /\ \A c \in cq : c.op \in IF c.n = 0 THEN Ops ELSE Unregs
    /\ kind \in Programs
    /\ member \in [Ops -> [buf : Bufs \cup {None}, buf_index : {-1} \cup Slots, target : Targets]]
    /\ asked \in [Ops -> [buf : Bufs \cup {None}, target : Targets]]
    /\ busy \subseteq Ops
    /\ owed \in [Unregs -> 0..MaxNodes]
    /\ lent \in [Bufs -> Unregs \cup {None, "untagged"}]
    /\ codesOk \in BOOLEAN
    /\ nsub \in 0..MaxSubmits

\* Memory that the kernel may still touch: in the table, or used by a request.
KernelUses(b) ==
    \/ \E n \in InTable(table) \cup Using(reqs) : node[n].buf = b
    \/ \E r \in reqs : r.buf = b

\* Memory that its owner takes for free is not used by the kernel: an owner that
\* counts the calls of its unregistration operation, and reads the code of
\* update_buffer_table as the count that it is, never reuses a buffer too early.
FreeMemoryIsFree ==
    \A b \in Bufs :
      lent[b] = None /\ (\A o \in busy : asked[o].buf # b) => ~KernelUses(b)

\* A callback that reports success reports the transfer that was asked for: the
\* buffer and the file named last before the submission, and with recv a span
\* over the memory that the kernel wrote, whatever other settings of the object,
\* updates of the table and failed attempts came before.
TransferAsAsked ==
    [][\A c \in cq :
         ReapIo(c) /\ c.ev >= 0 =>
           /\ c.buf = asked[c.op].buf
           /\ c.target = asked[c.op].target
           /\ Span(c) = c.buf]_vars

\* Once no buffer of an unregistration operation is in the table any more, the
\* operation has been called for all of them and the owner gets them back.
BuffersComeBack ==
    \A u \in Unregs :
      (owed[u] > 0 /\ \A n \in InTable(table) : node[n].tag # u)
        ~> (owed[u] = 0 \/ \E n \in InTable(table) : node[n].tag = u)

\* make_system_error_code is documented with "Pre: ev >= 0".
ErrorCodePre == codesOk
=============================================================================
