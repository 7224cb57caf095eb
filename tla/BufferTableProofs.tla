-------------------------- MODULE BufferTableProofs -------------------------
(***************************************************************************)
(* Theorems about BufferTable, for any table, any number of operations,    *)
(* buffers, unregistration operations, submissions and registrations.      *)
(***************************************************************************)
EXTENDS BufferTable, FiniteSetTheorems, TLAPS

-----------------------------------------------------------------------------
(* Members and requests *)

Members == [buf : Bufs \cup {None}, buf_index : {-1} \cup Slots, target : Targets]

\* What a chain of setters leaves in an object: the buffer and the file it names,
\* and what was there where it names none.
LEMMA SetMembersSets ==
    ASSUME NEW k \in Kinds, NEW m \in Members, NEW t \in Targets \cup {None},
           NEW b \in Bufs \cup {None}, NEW i \in {-1} \cup Slots
    PROVE  /\ SetMembers(k, m, t, b, i) \in Members
           /\ SetMembers(k, m, t, b, i).buf = IF b = None THEN m.buf ELSE b
           /\ SetMembers(k, m, t, b, i).target = IF t = None THEN m.target ELSE t
  <1> DEFINE Good(x, c) == /\ x \in Members
                           /\ x.buf = (IF c = None THEN m.buf ELSE c)
                           /\ x.target = (IF t = None THEN m.target ELSE t)
  <1>1. Good(File(m, t), None) /\ Good(Socket(m, t), None)
    BY DEF File, Socket, Members
  <1>2. \A x : Good(x, None) => Good(FileBuffer(x, b), b) /\ Good(VectorBuffer(x, b), b)
    BY DEF FileBuffer, VectorBuffer, Members
  <1>3. \A x : Good(x, None) => Good(Message(x, b), b) /\ Good(SocketBuffer(x, b, i), b)
    BY DEF Message, SocketBuffer, Members
  <1>4. \A x : Good(x, b) => Good(Index(x, i), b)
    BY DEF Index, Members
  <1> HIDE DEF Good
  <1>5. CASE k \in {"read", "write"}
    BY <1>1, <1>2, <1>5 DEF SetMembers, Good
  <1>6. CASE k \in {"readv", "writev"}
    BY <1>1, <1>2, <1>6 DEF SetMembers, Good
  <1>7. CASE k \in {"read_fixed", "write_fixed"}
    BY <1>1, <1>2, <1>4, <1>7 DEF SetMembers, Good
  <1>8. CASE k \in {"readv_fixed", "writev_fixed"}
    BY <1>1, <1>2, <1>4, <1>8 DEF SetMembers, Good
  <1>9. CASE k \in {"send", "recv"}
    BY <1>1, <1>3, <1>9 DEF SetMembers, Good
  <1>10. CASE k = "sendmsg"
    BY <1>1, <1>3, <1>10 DEF SetMembers, Good
  <1> QED
    BY <1>5, <1>6, <1>7, <1>8, <1>9, <1>10 DEF Kinds

\* Every build() passes the members on.
LEMMA BuildPasses ==
    ASSUME NEW k \in Kinds, NEW m \in Members
    PROVE  /\ Build(k, m).buf = m.buf
           /\ Build(k, m).index = m.buf_index
           /\ Build(k, m).target = m.target
           /\ Build(k, m).fixed \in BOOLEAN
  <1>1. \A f \in BOOLEAN : /\ Sqe(m, f).buf = m.buf
                           /\ Sqe(m, f).index = m.buf_index
                           /\ Sqe(m, f).target = m.target
                           /\ Sqe(m, f).fixed \in BOOLEAN
    BY DEF Sqe
  <1>2. \E f \in BOOLEAN : Build(k, m) = Sqe(m, f)
    <2>1. CASE k \in {"read", "readv", "write", "writev", "sendmsg"}
      BY <2>1 DEF Build, file_read, file_readv, file_write, file_writev, socket_sendmsg
    <2>2. CASE k \in {"read_fixed", "readv_fixed", "write_fixed", "writev_fixed"}
      BY <2>2 DEF Build, file_read_fixed, file_readv_fixed, file_write_fixed,
                  file_writev_fixed
    <2>3. CASE k \in {"send", "recv"}
      <3>1. (m.buf_index >= 0) \in BOOLEAN
        BY DEF Members
      <3>2. Build(k, m) = Sqe(m, m.buf_index >= 0)
        BY <2>3 DEF Build, socket_send, socket_recv
      <3> QED
        BY <3>1, <3>2
    <2> QED
      BY <2>1, <2>2, <2>3 DEF Kinds
  <1> QED
    BY <1>1, <1>2

\* Operation o is submitted as request q with the members m, after a chain of
\* setters that names the file t and the buffer b.
SubmitsAs(o, t, b, m, q) ==
    /\ o \notin busy
    /\ busy' = busy \cup {o}
    /\ nsub < MaxSubmits
    /\ nsub' = nsub + 1
    /\ m.buf # None
    /\ m.buf = IF b = None THEN member[o].buf ELSE b
    /\ m.target = IF t = None THEN member[o].target ELSE t
    /\ member' = [member EXCEPT ![o] = m]
    /\ asked' \in [Ops -> [buf : Bufs \cup {None}, target : Targets]]
    /\ asked'[o].buf = IF b = None THEN asked[o].buf ELSE b
    /\ asked'[o].target = IF t = None THEN asked[o].target ELSE t
    /\ \A p \in Ops \ {o} : asked'[p] = asked[p]
    /\ q.op = o /\ q.buf = m.buf /\ q.target = m.target
    /\ q.node = 0 /\ q.issued = FALSE
    /\ reqs' = reqs \cup {q}
    /\ UNCHANGED <<kind, registered, table, node, nnode, cq, ownerVars>>

\* The request that Submit hands to the kernel, and the object that it leaves.
LEMMA SubmitStep ==
    ASSUME TypeOK, NEW o \in Ops, NEW t \in Targets \cup {None}, NEW b \in Bufs \cup {None},
           NEW i \in {-1} \cup Slots, Submit(o, t, b, i)
    PROVE  \E m \in Members, q \in Request : SubmitsAs(o, t, b, m, q)
  <1> DEFINE m == SetMembers(kind[o], member[o], t, b, i)
             sqe == Build(kind[o], m)
             q == [op |-> o, buf |-> sqe.buf, fixed |-> sqe.fixed, index |-> sqe.index,
                   target |-> sqe.target, node |-> 0, issued |-> FALSE]
  <1>1. kind[o] \in Kinds
    BY BufferTableAssumption DEF Submit, TypeOK
  <1>2. member[o] \in Members
    BY DEF TypeOK, Members
  <1>3. /\ m \in Members
        /\ m.buf = IF b = None THEN member[o].buf ELSE b
        /\ m.target = IF t = None THEN member[o].target ELSE t
    <2> DEFINE k == kind[o]
               x == member[o]
    <2>1. k \in Kinds /\ x \in Members
      BY <1>1, <1>2
    <2> HIDE DEF k, x
    <2>2. /\ SetMembers(k, x, t, b, i) \in Members
          /\ SetMembers(k, x, t, b, i).buf = IF b = None THEN x.buf ELSE b
          /\ SetMembers(k, x, t, b, i).target = IF t = None THEN x.target ELSE t
      BY <2>1, SetMembersSets
    <2> QED
      BY <2>2 DEF k, x
  <1>4. /\ sqe.buf = m.buf
        /\ sqe.index = m.buf_index
        /\ sqe.target = m.target
        /\ sqe.fixed \in BOOLEAN
    <2> HIDE DEF m
    <2> QED
      BY <1>1, <1>3, BuildPasses
  <1>5. /\ o \notin busy
        /\ nsub < MaxSubmits
        /\ m.buf # None
        /\ nsub' = nsub + 1
        /\ busy' = busy \cup {o}
        /\ member' = [member EXCEPT ![o] = m]
        /\ asked' = [asked EXCEPT ![o].buf = IF b = None THEN @ ELSE b,
                                 ![o].target = IF t = None THEN @ ELSE t]
        /\ reqs' = reqs \cup {q}
        /\ UNCHANGED <<kind, registered, table, node, nnode, cq, ownerVars>>
    BY DEF Submit
  <1> HIDE DEF m, sqe
  <1>6. q \in Request
    BY <1>3, <1>4, <1>5, BufferTableAssumption DEF Members, Request
  <1>7. q.op = o /\ q.buf = m.buf /\ q.target = m.target /\ q.node = 0 /\ q.issued = FALSE
    BY <1>4
  <1> HIDE DEF q
  <1>8. /\ asked' \in [Ops -> [buf : Bufs \cup {None}, target : Targets]]
        /\ asked'[o].buf = IF b = None THEN asked[o].buf ELSE b
        /\ asked'[o].target = IF t = None THEN asked[o].target ELSE t
        /\ \A p \in Ops \ {o} : asked'[p] = asked[p]
    <2> DEFINE c == IF b = None THEN asked[o].buf ELSE b
               d == IF t = None THEN asked[o].target ELSE t
               a1 == [asked EXCEPT ![o].buf = c]
    <2>1. asked \in [Ops -> [buf : Bufs \cup {None}, target : Targets]]
      BY DEF TypeOK
    <2>2. c \in Bufs \cup {None} /\ d \in Targets
      BY <2>1
    <2>3. asked' = [a1 EXCEPT ![o].target = d]
      BY <1>5, <2>1
    <2> HIDE DEF c, d
    <2>4. /\ a1 \in [Ops -> [buf : Bufs \cup {None}, target : Targets]]
          /\ a1[o].buf = c
          /\ \A p \in Ops \ {o} : a1[p] = asked[p]
      BY <2>1, <2>2
    <2> HIDE DEF a1
    <2>5. /\ asked' \in [Ops -> [buf : Bufs \cup {None}, target : Targets]]
          /\ asked'[o].buf = c
          /\ asked'[o].target = d
          /\ \A p \in Ops \ {o} : asked'[p] = asked[p]
      BY <2>2, <2>3, <2>4
    <2> QED
      BY <2>5 DEF c, d
  <1>9. SubmitsAs(o, t, b, m, q)
    BY <1>3, <1>5, <1>7, <1>8 DEF SubmitsAs
  <1> QED
    BY <1>3, <1>6, <1>9

-----------------------------------------------------------------------------
(* Nodes *)

\* The nodes that the kernel has.
Live == InTable(table) \cup Using(reqs)

\* The completions of unregistration operations.
TagCq == {c \in cq : c.n # 0}

\* The nodes for which unregistration operation u is still to be called.
Waiting(u) ==
    {n \in Live : node[n].tag = u} \cup {c.n : c \in {d \in TagCq : d.op = u}}

\* A batch is a sequence of one or two buffers.
LEMMA BatchType ==
    ASSUME NEW bufs \in Batches
    PROVE  /\ bufs \in Seq(Bufs)
           /\ Len(bufs) \in 1..2
           /\ DOMAIN bufs = 1..Len(bufs)
           /\ \A i \in 1..Len(bufs) : bufs[i] \in Bufs
  <1>1. PICK n \in 1..2 : bufs \in [1..n -> Bufs]
    BY DEF Batches
  <1>2. bufs \in Seq(Bufs)
    BY <1>1
  <1>3. Len(bufs) = n
    BY <1>1, <1>2
  <1> QED
    BY <1>1, <1>2, <1>3

\* The nodes that a registration makes.
Made(k) == {n \in NodeIds : nnode < n /\ n <= nnode + k}

\* What a registration of the first k buffers leaves.
Entered(bufs, unreg, k) ==
    /\ nnode + k <= MaxNodes
    /\ nnode' = nnode + k
    /\ table' \in [Slots -> 0..MaxNodes]
    /\ Live' \subseteq Live \cup Made(k)
    /\ Made(k) \subseteq Live'
    /\ node' \in [NodeIds -> [buf : Bufs \cup {None}, tag : Unregs \cup {None}]]
    /\ \A n \in Made(k) : node'[n].buf = bufs[n - nnode] /\ node'[n].tag = unreg
    /\ \A n \in NodeIds \ Made(k) : n \notin Live \ Live' => node'[n] = node[n]
    /\ cq' = cq \cup TagCqes(Live \ Live')
    /\ codesOk' \in BOOLEAN
    /\ owed' = [u \in Unregs |-> IF u = unreg THEN owed[u] + k ELSE owed[u]]
    /\ lent' = [b \in Bufs |->
                  IF \E i \in 1..k : bufs[i] = b
                  THEN IF unreg = None THEN "untagged" ELSE unreg ELSE lent[b]]
    /\ UNCHANGED <<reqs, opVars>>

LEMMA EnterStep ==
    ASSUME TypeOK, NEW off \in Slots, NEW bufs \in Batches, NEW unreg \in Unregs \cup {None},
           NEW k \in 0..Len(bufs), NEW ev, RegisteredCount(ErrorCode(ev), Len(bufs)) = k,
           off + k <= NSlots, Enter(off, bufs, unreg, k, ev)
    PROVE  Entered(bufs, unreg, k)
  <1> USE BufferTableAssumption
  <1> DEFINE t == [i \in Slots |-> IF off <= i /\ i < off + k THEN nnode + 1 + i - off
                                   ELSE table[i]]
             gone == Released(t, reqs)
  <1>1. /\ nnode + k <= MaxNodes
        /\ nnode' = nnode + k
        /\ table' = t
        /\ cq' = cq \cup TagCqes(gone)
        /\ codesOk' \in BOOLEAN
        /\ owed' = [u \in Unregs |-> IF u = unreg THEN owed[u] + k ELSE owed[u]]
        /\ lent' = [b \in Bufs |->
                      IF \E i \in 1..k : bufs[i] = b
                      THEN IF unreg = None THEN "untagged" ELSE unreg ELSE lent[b]]
        /\ UNCHANGED <<reqs, opVars>>
    BY DEF Enter
  <1>2. node' = [n \in NodeIds |->
                   IF nnode < n /\ n <= nnode + k
                   THEN [buf |-> bufs[n - nnode], tag |-> Tags(unreg, Len(bufs))[n - nnode]]
                   ELSE Without(gone)[n]]
    BY DEF Enter
  <1>3. nnode \in Nat /\ nnode <= MaxNodes /\ k \in Nat /\ off \in Nat
    BY BatchType DEF TypeOK, Slots
  <1>4. /\ \A i \in Slots : off <= i /\ i < off + k => t[i] = nnode + 1 + i - off
        /\ \A i \in Slots : ~(off <= i /\ i < off + k) => t[i] = table[i]
    OBVIOUS
  <1>5. \A i \in Slots : off <= i /\ i < off + k => t[i] \in Made(k)
    BY <1>1, <1>3, <1>4 DEF Made, NodeIds, Slots
  <1>6. \A n \in Made(k) : off + n - nnode - 1 \in Slots /\ t[off + n - nnode - 1] = n
    <2> SUFFICES ASSUME NEW n \in Made(k)
                 PROVE  off + n - nnode - 1 \in Slots /\ t[off + n - nnode - 1] = n
      OBVIOUS
    <2> DEFINE i == off + n - nnode - 1
    <2>1. i \in Slots /\ off <= i /\ i < off + k /\ nnode + 1 + i - off = n
      BY <1>3 DEF Made, NodeIds, Slots
    <2> QED
      BY <1>4, <2>1
  <1>7. t \in [Slots -> 0..MaxNodes]
    <2>1. \A i \in Slots : t[i] \in 0..MaxNodes
      BY <1>3, <1>4, <1>5 DEF TypeOK, Made, NodeIds
    <2> QED
      BY <2>1
  <1> HIDE DEF t
  <1>8. InTable(t) \subseteq InTable(table) \cup Made(k)
    BY <1>4, <1>5 DEF InTable
  <1>9. Made(k) \subseteq InTable(t)
    BY <1>6 DEF InTable, Made, NodeIds
  <1>10. Live' = InTable(t) \cup Using(reqs)
    BY <1>1 DEF Live, InTable, Using
  <1>11. gone = Live \ Live'
    BY <1>10 DEF Released, Live
  <1>12. /\ Live' \subseteq Live \cup Made(k)
         /\ Made(k) \subseteq Live'
    BY <1>8, <1>9, <1>10 DEF Live
  <1> HIDE DEF gone
  <1>13. ASSUME NEW n \in Made(k)
         PROVE  node'[n] = [buf |-> bufs[n - nnode], tag |-> unreg]
    <2>1. n - nnode \in 1..Len(bufs) /\ n \in NodeIds /\ nnode < n /\ n <= nnode + k
      BY <1>3, BatchType DEF Made, NodeIds
    <2>2. Tags(unreg, Len(bufs))[n - nnode] = unreg
      BY <2>1 DEF Tags
    <2> QED
      BY <1>2, <2>1, <2>2
  <1>14. ASSUME NEW n \in NodeIds \ Made(k)
         PROVE  node'[n] = IF n \in gone THEN NoNode ELSE node[n]
    BY <1>2 DEF Made, Without
  <1>15. node' \in [NodeIds -> [buf : Bufs \cup {None}, tag : Unregs \cup {None}]]
    <2>1. \A n \in Made(k) : node'[n] \in [buf : Bufs \cup {None}, tag : Unregs \cup {None}]
      <3>1. \A n \in Made(k) : n - nnode \in 1..Len(bufs)
        BY <1>3, BatchType DEF Made, NodeIds
      <3>2. \A n \in Made(k) : bufs[n - nnode] \in Bufs
        BY <3>1, BatchType
      <3>3. \A b \in Bufs : [buf |-> b, tag |-> unreg]
                            \in [buf : Bufs \cup {None}, tag : Unregs \cup {None}]
        OBVIOUS
      <3> QED
        BY ONLY <1>13, <3>2, <3>3
    <2>2. \A n \in NodeIds \ Made(k) :
            node'[n] \in [buf : Bufs \cup {None}, tag : Unregs \cup {None}]
      BY <1>14 DEF NoNode, TypeOK
    <2> QED
      BY <1>2, <2>1, <2>2
  <1>16. \A n \in NodeIds \ Made(k) : n \notin Live \ Live' => node'[n] = node[n]
    BY <1>11, <1>14
  <1>17. cq' = cq \cup TagCqes(Live \ Live')
    BY <1>1, <1>11
  <1>18. table' \in [Slots -> 0..MaxNodes]
    BY <1>1, <1>7
  <1>19. \A n \in Made(k) : node'[n].buf = bufs[n - nnode] /\ node'[n].tag = unreg
    <2> SUFFICES ASSUME NEW n \in Made(k)
                 PROVE  node'[n].buf = bufs[n - nnode] /\ node'[n].tag = unreg
      OBVIOUS
    <2>1. node'[n] = [buf |-> bufs[n - nnode], tag |-> unreg]
      BY <1>13
    <2> QED
      BY ONLY <2>1
  <1> QED
    BY <1>1, <1>12, <1>15, <1>16, <1>17, <1>18, <1>19 DEF Entered

\* Nodes that the kernel has, and nodes that it has let go of with a completion
\* that was not reaped, were made and are different; each has one completion.
NodesKnown ==
    /\ Live \subseteq 1..nnode
    /\ \A c \in TagCq : c.n \in 1..nnode /\ c.n \notin Live
    /\ \A c, d \in TagCq : c.n = d.n => c = d

\* The owner of a buffer that the kernel has knows that it is lent, and to whom.
LentInv ==
    \A n \in Live :
      /\ node[n].buf \in Bufs
      /\ lent[node[n].buf] = IF node[n].tag = None THEN "untagged" ELSE node[n].tag

\* The owners' counts are right.
OwedInv == \A u \in Unregs : owed[u] = Cardinality(Waiting(u))

\* A request takes its node when it is issued.
IssueInv == \A r \in reqs : ~r.issued => r.node = 0

NodeInv == TypeOK /\ NodesKnown /\ LentInv /\ OwedInv /\ IssueInv

LEMMA LiveNodes ==
    ASSUME TypeOK
    PROVE  Live \subseteq NodeIds
  BY BufferTableAssumption DEF Live, InTable, Using, TypeOK, NodeIds, Request

LEMMA TagCqeFields ==
    \A n : TagCqe(n).n = n /\ TagCqe(n).op = node[n].tag
  BY DEF TagCqe

\* Nodes are made, and the kernel lets go of others.
LEMMA NodesMove ==
    ASSUME TypeOK, NodesKnown, NEW k \in Nat, nnode' = nnode + k, nnode + k <= MaxNodes,
           Live' \subseteq Live \cup Made(k), Made(k) \subseteq Live',
           \A n \in Live : n \in Live' => node'[n] = node[n],
           TagCq' = TagCq \cup TagCqes(Live \ Live')
    PROVE  /\ NodesKnown'
           /\ \A u \in Unregs :
                /\ Waiting(u) \subseteq 1..nnode
                /\ Waiting(u)' = Waiting(u) \cup {n \in Made(k) : node'[n].tag = u}
  <1> USE BufferTableAssumption
  <1>1. nnode \in Nat
    BY DEF TypeOK
  <1>2. \A n \in Made(k) : n \in 1..nnode' /\ n \notin 1..nnode
    BY <1>1 DEF Made, NodeIds
  <1>3. 1..nnode \subseteq 1..nnode'
    BY <1>1
  <1>4. Live' \subseteq 1..nnode'
    BY <1>2, <1>3 DEF NodesKnown
  <1>5. ASSUME NEW c \in TagCq'
        PROVE  \/ c \in TagCq
               \/ c.n \in Live /\ c.n \notin Live' /\ c = TagCqe(c.n) /\ c.op = node[c.n].tag
    <2>1. CASE c \in TagCqes(Live \ Live')
      <3>1. PICK n \in Live \ Live' : c = TagCqe(n)
        BY <2>1 DEF TagCqes
      <3> QED
        BY <3>1, TagCqeFields
    <2> QED
      BY <1>5, <2>1
  <1>6. ASSUME NEW c \in TagCq' PROVE c.n \in 1..nnode' /\ c.n \notin Live'
    <2>1. CASE c \in TagCq
      <3>1. c.n \in 1..nnode /\ c.n \notin Live
        BY <2>1 DEF NodesKnown
      <3> QED
        BY <1>2, <1>3, <3>1
    <2>2. CASE c.n \in Live /\ c.n \notin Live'
      BY <1>3, <2>2 DEF NodesKnown
    <2> QED
      BY <1>5, <2>1, <2>2
  <1>7. ASSUME NEW c \in TagCq', NEW d \in TagCq', c.n = d.n PROVE c = d
    <2>1. \A x \in TagCq : x.n \notin Live
      BY DEF NodesKnown
    <2>2. c \in TagCq <=> d \in TagCq
      BY <1>5, <1>7, <2>1
    <2>3. CASE c \in TagCq
      BY <1>7, <2>2, <2>3 DEF NodesKnown
    <2>4. CASE c \notin TagCq
      BY <1>5, <1>7, <2>2, <2>4
    <2> QED
      BY <2>3, <2>4
  <1>8. NodesKnown'
    BY <1>4, <1>6, <1>7 DEF NodesKnown
  <1>9. ASSUME NEW u \in Unregs PROVE Waiting(u) \subseteq 1..nnode
    BY DEF Waiting, NodesKnown
  <1>10. ASSUME NEW u \in Unregs
         PROVE  Waiting(u)' = Waiting(u) \cup {n \in Made(k) : node'[n].tag = u}
    <2> DEFINE new == {n \in Made(k) : node'[n].tag = u}
    <2>1. Waiting(u)' =
            {n \in Live' : node'[n].tag = u} \cup {c.n : c \in {d \in TagCq' : d.op = u}}
      BY DEF Waiting
    <2>2. ASSUME NEW n \in Waiting(u)' PROVE n \in Waiting(u) \cup new
      <3>1. CASE n \in Live' /\ node'[n].tag = u
        BY <3>1 DEF Waiting
      <3>2. ASSUME NEW c \in TagCq', c.op = u, c.n = n PROVE n \in Waiting(u)
        BY <1>5, <3>2 DEF Waiting
      <3> QED
        BY <2>1, <2>2, <3>1, <3>2
    <2>3. ASSUME NEW n \in Waiting(u) PROVE n \in Waiting(u)'
      <3>1. CASE n \in Live /\ node[n].tag = u /\ n \in Live'
        BY <2>1, <3>1
      <3>2. CASE n \in Live /\ node[n].tag = u /\ n \notin Live'
        <4>1. TagCqe(n) \in TagCq'
          BY <3>2 DEF TagCqes
        <4> QED
          BY <2>1, <3>2, <4>1, TagCqeFields
      <3>3. ASSUME NEW c \in TagCq, c.op = u, c.n = n PROVE n \in Waiting(u)'
        BY <2>1, <3>3
      <3> QED
        BY <2>3, <3>1, <3>2, <3>3 DEF Waiting
    <2>4. ASSUME NEW n \in new PROVE n \in Waiting(u)'
      BY <2>1
    <2> QED
      BY <2>2, <2>3, <2>4
  <1> QED
    BY <1>8, <1>9, <1>10

\* What the owners know stays true when the kernel lets go of nodes.
LEMMA NodesGo ==
    ASSUME NodeInv, nnode' = nnode, Live' \subseteq Live,
           \A n \in Live : n \in Live' => node'[n] = node[n],
           TagCq' = TagCq \cup TagCqes(Live \ Live'),
           UNCHANGED <<owed, lent>>
    PROVE  NodesKnown' /\ LentInv' /\ OwedInv'
  <1>1. nnode \in Nat /\ nnode <= MaxNodes /\ nnode + 0 = nnode
    BY BufferTableAssumption DEF NodeInv, TypeOK
  <1>2. Made(0) = {}
    BY <1>1, BufferTableAssumption DEF Made, NodeIds
  <1>3. NodesKnown' /\ \A u \in Unregs : Waiting(u)' = Waiting(u)
    BY <1>1, <1>2, NodesMove DEF NodeInv
  <1>4. LentInv'
    BY DEF NodeInv, LentInv
  <1>5. OwedInv'
    BY <1>3 DEF NodeInv, OwedInv
  <1> QED
    BY <1>3, <1>4, <1>5

-----------------------------------------------------------------------------
(* The kernel's nodes and the owners' counts, action by action *)

\* The types but for the bound on the owners' counts.
BasicType ==
    /\ registered \in BOOLEAN
    /\ table \in [Slots -> 0..MaxNodes]
    /\ node \in [NodeIds -> [buf : Bufs \cup {None}, tag : Unregs \cup {None}]]
    /\ nnode \in 0..MaxNodes
    /\ reqs \subseteq Request
    /\ \A c \in cq : c.op \in IF c.n = 0 THEN Ops ELSE Unregs
    /\ kind \in Programs
    /\ member \in [Ops -> Members]
    /\ asked \in [Ops -> [buf : Bufs \cup {None}, target : Targets]]
    /\ busy \subseteq Ops
    /\ DOMAIN owed = Unregs /\ owed = [u \in Unregs |-> owed[u]]
    /\ lent \in [Bufs -> Unregs \cup {None, "untagged"}]
    /\ codesOk \in BOOLEAN
    /\ nsub \in 0..MaxSubmits

LEMMA TypeIsBasic == TypeOK => BasicType
  BY DEF TypeOK, BasicType, Members

\* An owner waits for no more nodes than there are.
LEMMA CountsAreBounded ==
    BasicType /\ NodesKnown /\ OwedInv
      => TypeOK /\ \A u \in Unregs : IsFiniteSet(Waiting(u))
  <1> SUFFICES ASSUME BasicType, NodesKnown, OwedInv
               PROVE  TypeOK /\ \A u \in Unregs : IsFiniteSet(Waiting(u))
    OBVIOUS
  <1>1. nnode \in Nat /\ nnode <= MaxNodes
    BY BufferTableAssumption DEF BasicType
  <1>2. IsFiniteSet(1..nnode) /\ Cardinality(1..nnode) = nnode
    BY <1>1, FS_Interval
  <1>3. ASSUME NEW u \in Unregs
        PROVE  IsFiniteSet(Waiting(u)) /\ Cardinality(Waiting(u)) \in 0..MaxNodes
    <2>1. Waiting(u) \subseteq 1..nnode
      BY DEF Waiting, NodesKnown
    <2>2. IsFiniteSet(Waiting(u)) /\ Cardinality(Waiting(u)) <= nnode
      BY <1>2, <2>1, FS_Subset
    <2>3. Cardinality(Waiting(u)) \in Nat
      BY <2>2, FS_CardinalityType
    <2> QED
      BY <1>1, <2>2, <2>3, BufferTableAssumption
  <1>4. owed \in [Unregs -> 0..MaxNodes]
    <2>1. \A u \in Unregs : owed[u] \in 0..MaxNodes
      BY <1>3 DEF OwedInv
    <2>2. owed = [u \in Unregs |-> owed[u]]
      BY DEF BasicType
    <2> QED
      BY <2>1, <2>2
  <1> QED
    BY <1>3, <1>4 DEF BasicType, TypeOK, Members

\* The completions for nodes that go are for unregistration operations.
LEMMA TagCqesType ==
    ASSUME TypeOK, NEW ns \in SUBSET NodeIds
    PROVE  \A c \in TagCqes(ns) : c.n # 0 /\ c.op \in Unregs
  <1> SUFFICES ASSUME NEW c \in TagCqes(ns) PROVE c.n # 0 /\ c.op \in Unregs
    OBVIOUS
  <1>1. PICK n \in ns : c = TagCqe(n) /\ node[n].tag # None
    BY DEF TagCqes
  <1>2. n # 0 /\ node[n].tag \in Unregs
    <2>1. n \in NodeIds
      BY <1>1
    <2>2. node[n] \in [buf : Bufs \cup {None}, tag : Unregs \cup {None}]
      BY <2>1 DEF TypeOK
    <2>3. node[n].tag \in Unregs
      BY <1>1, <2>2
    <2> QED
      BY <2>1, <2>3 DEF NodeIds
  <1> QED
    BY <1>1, <1>2, TagCqeFields

LEMMA IoCqeFields ==
    \A r, ev : /\ IoCqe(r, ev).n = 0
               /\ IoCqe(r, ev).op = r.op
               /\ IoCqe(r, ev).buf = r.buf
               /\ IoCqe(r, ev).target = r.target
  BY DEF IoCqe

\* Dropping nodes: the table and the requests are as given, the rest follows.
LEMMA ReleaseStep ==
    ASSUME NodeInv, NEW io, \A c \in io : c.n = 0 /\ c.op \in Ops,
           table' \in [Slots -> 0..MaxNodes], reqs' \subseteq Request, IssueInv',
           Live' \subseteq Live,
           node' = Without(Live \ Live'),
           cq' = cq \cup io \cup TagCqes(Live \ Live'),
           codesOk' \in BOOLEAN,
           UNCHANGED <<registered, nnode, opVars, owed, lent>>
    PROVE  NodeInv'
  <1> DEFINE gone == Live \ Live'
  <1>1. TypeOK /\ BasicType
    BY TypeIsBasic DEF NodeInv
  <1>2. gone \subseteq NodeIds /\ Live \subseteq NodeIds
    BY <1>1, LiveNodes
  <1>3. \A c \in TagCqes(gone) : c.n # 0 /\ c.op \in Unregs
    BY <1>1, <1>2, TagCqesType
  <1>4. node' = [n \in NodeIds |-> IF n \in gone THEN NoNode ELSE node[n]]
    BY DEF Without
  <1> HIDE DEF gone
  <1>5. node' \in [NodeIds -> [buf : Bufs \cup {None}, tag : Unregs \cup {None}]]
    <2>1. NoNode \in [buf : Bufs \cup {None}, tag : Unregs \cup {None}]
      BY DEF NoNode
    <2>2. node \in [NodeIds -> [buf : Bufs \cup {None}, tag : Unregs \cup {None}]]
      BY <1>1 DEF BasicType
    <2> QED
      BY ONLY <1>4, <2>1, <2>2
  <1>6. \A n \in Live : n \in Live' => node'[n] = node[n]
    BY <1>2, <1>4 DEF gone
  <1>7. TagCq' = TagCq \cup TagCqes(gone)
    BY <1>3 DEF TagCq, gone
  <1>8. \A c \in cq' : c.op \in IF c.n = 0 THEN Ops ELSE Unregs
    BY <1>1, <1>3 DEF BasicType, gone
  <1>9. BasicType'
    BY <1>1, <1>5, <1>8 DEF BasicType, opVars
  <1>10. NodesKnown' /\ LentInv' /\ OwedInv'
    BY <1>6, <1>7, NodesGo DEF gone
  <1>11. TypeOK'
    BY <1>9, <1>10, CountsAreBounded, PTL
  <1> QED
    BY <1>10, <1>11 DEF NodeInv

LEMMA ClearEntriesNodes ==
    ASSUME NodeInv, NEW off \in Slots, NEW k \in 1..2, ClearEntries(off, k)
    PROVE  NodeInv'
  <1> DEFINE t == [i \in Slots |-> IF off <= i /\ i < off + k THEN 0 ELSE table[i]]
  <1>1. /\ table' = t
        /\ node' = Without(Released(t, reqs))
        /\ cq' = cq \cup TagCqes(Released(t, reqs))
        /\ codesOk' \in BOOLEAN
        /\ UNCHANGED <<registered, nnode, reqs, opVars, owed, lent>>
    BY DEF ClearEntries
  <1>2. t \in [Slots -> 0..MaxNodes]
    BY BufferTableAssumption DEF NodeInv, TypeOK
  <1>3. InTable(t) \subseteq InTable(table)
    BY DEF InTable
  <1> HIDE DEF t
  <1>4. Live' = InTable(t) \cup Using(reqs)
    BY <1>1 DEF Live, InTable, Using
  <1>5. Live' \subseteq Live /\ Released(t, reqs) = Live \ Live'
    BY <1>3, <1>4 DEF Released, Live
  <1>6. IssueInv' /\ reqs' \subseteq Request
    BY <1>1 DEF NodeInv, IssueInv, TypeOK
  <1> DEFINE io == {}
  <1>7. /\ cq' = cq \cup io \cup TagCqes(Live \ Live')
        /\ \A c \in io : c.n = 0 /\ c.op \in Ops
    BY <1>1, <1>5
  <1> HIDE DEF io
  <1>8. node' = Without(Live \ Live') /\ table' \in [Slots -> 0..MaxNodes]
    BY <1>1, <1>2, <1>5
  <1> QED
    BY <1>1, <1>5, <1>6, <1>7, <1>8, ReleaseStep

LEMMA CompleteNodes ==
    ASSUME NodeInv, NEW r \in reqs, NEW ev, Complete(r, ev)
    PROVE  NodeInv'
  <1> DEFINE rs == reqs \ {r}
             io == {IoCqe(r, ev)}
  <1>1. /\ reqs' = rs
        /\ cq' = cq \cup io \cup TagCqes(Released(table, rs))
        /\ node' = Without(Released(table, rs))
        /\ UNCHANGED <<registered, table, nnode, opVars, owed, lent, codesOk>>
    BY DEF Complete, ownerVars
  <1>2. Using(rs) \subseteq Using(reqs)
    BY DEF Using
  <1>3. IssueInv' /\ reqs' \subseteq Request
    BY <1>1 DEF NodeInv, IssueInv, TypeOK
  <1>4. \A c \in io : c.n = 0 /\ c.op \in Ops
    BY IoCqeFields DEF NodeInv, TypeOK, Request
  <1> HIDE DEF rs, io
  <1>5. Live' = InTable(table) \cup Using(rs)
    BY <1>1 DEF Live, InTable, Using
  <1>6. Live' \subseteq Live /\ Released(table, rs) = Live \ Live'
    BY <1>2, <1>5 DEF Released, Live
  <1>7. table' \in [Slots -> 0..MaxNodes] /\ codesOk' \in BOOLEAN
    BY <1>1 DEF NodeInv, TypeOK
  <1>8. /\ node' = Without(Live \ Live')
        /\ cq' = cq \cup io \cup TagCqes(Live \ Live')
    BY <1>1, <1>6
  <1> QED
    BY <1>1, <1>3, <1>4, <1>6, <1>7, <1>8, ReleaseStep

\* A step that leaves the kernel's nodes and their completions alone.
LEMMA QuietStep ==
    ASSUME NodeInv, BasicType', IssueInv', Live' = Live, TagCq' = TagCq,
           UNCHANGED <<node, nnode, owed, lent>>
    PROVE  NodeInv'
  <1>1. TagCq' = TagCq \cup TagCqes(Live \ Live')
    BY DEF TagCqes
  <1>2. NodesKnown' /\ LentInv' /\ OwedInv'
    BY <1>1, NodesGo
  <1>3. TypeOK'
    BY <1>2, CountsAreBounded, PTL
  <1> QED
    BY <1>2, <1>3 DEF NodeInv

LEMMA SubmitNodes ==
    ASSUME NodeInv, NEW o \in Ops, NEW t \in Targets \cup {None}, NEW b \in Bufs \cup {None},
           NEW i \in {-1} \cup Slots, Submit(o, t, b, i)
    PROVE  NodeInv'
  <1>1. TypeOK /\ BasicType
    BY TypeIsBasic DEF NodeInv
  <1>2. PICK m \in Members, q \in Request : SubmitsAs(o, t, b, m, q)
    BY <1>1, SubmitStep
  <1>3. IssueInv'
    BY <1>2 DEF SubmitsAs, NodeInv, IssueInv
  <1>4. Live' = Live /\ TagCq' = TagCq
    BY <1>2 DEF SubmitsAs, Live, InTable, Using, TagCq
  <1>5. nsub' \in 0..MaxSubmits /\ busy' \subseteq Ops /\ reqs' \subseteq Request
    BY <1>1, <1>2, BufferTableAssumption DEF SubmitsAs, BasicType
  <1>6. member' \in [Ops -> Members]
    BY <1>1, <1>2 DEF SubmitsAs, BasicType
  <1>7. asked' \in [Ops -> [buf : Bufs \cup {None}, target : Targets]]
    BY <1>2 DEF SubmitsAs
  <1>8. BasicType'
    BY <1>1, <1>2, <1>5, <1>6, <1>7 DEF SubmitsAs, BasicType, ownerVars
  <1> QED
    BY <1>2, <1>3, <1>4, <1>8, QuietStep DEF SubmitsAs, ownerVars

\* The node of a request that is issued is in the table.
LEMMA IssueNodes ==
    ASSUME NodeInv, NEW r \in reqs, Issue(r)
    PROVE  NodeInv'
  <1> DEFINE n == IF r.fixed THEN NodeAt(r.index) ELSE 0
             bad == r.fixed /\ (n = 0 \/ node[n].buf # r.buf)
             q == [r EXCEPT !.node = n, !.issued = TRUE]
  <1>1. TypeOK /\ BasicType
    BY TypeIsBasic DEF NodeInv
  <1>2. /\ ~r.issued
        /\ reqs' = (reqs \ {r}) \cup IF bad THEN {} ELSE {q}
        /\ cq' = cq \cup IF bad THEN {IoCqe(r, -EINVAL)} ELSE {}
        /\ UNCHANGED <<registered, table, node, nnode, opVars, ownerVars>>
    BY DEF Issue
  <1>3. n \in 0..MaxNodes /\ (n = 0 \/ n \in InTable(table))
    BY <1>1, BufferTableAssumption DEF NodeAt, InTable, TypeOK
  <1>4. r \in Request
    BY <1>1 DEF BasicType
  <1> HIDE DEF n, bad
  <1>5. q \in Request /\ q.node = n /\ q.issued = TRUE
    BY <1>3, <1>4 DEF Request
  <1>6. r.node = 0
    BY <1>2 DEF NodeInv, IssueInv
  <1> HIDE DEF q
  <1>7. IssueInv' /\ reqs' \subseteq Request
    BY <1>1, <1>2, <1>5 DEF BasicType, NodeInv, IssueInv
  <1>8. Live' = Live
    <2>1. Using(reqs') \subseteq Using(reqs) \cup InTable(table)
      BY <1>2, <1>3, <1>5 DEF Using
    <2>2. Using(reqs) \subseteq Using(reqs')
      BY <1>2, <1>6 DEF Using
    <2>3. Live' = InTable(table) \cup Using(reqs')
      BY <1>2 DEF Live, InTable, Using
    <2> QED
      BY <2>1, <2>2, <2>3 DEF Live
  <1>9. TagCq' = TagCq
    BY <1>2, IoCqeFields DEF TagCq
  <1>10. \A c \in cq' : c.op \in IF c.n = 0 THEN Ops ELSE Unregs
    BY <1>1, <1>2, <1>4, IoCqeFields DEF BasicType, Request
  <1>11. BasicType'
    BY <1>1, <1>2, <1>7, <1>10 DEF BasicType, opVars, ownerVars
  <1> QED
    BY <1>2, <1>7, <1>8, <1>9, <1>11, QuietStep DEF ownerVars

LEMMA ReapIoNodes ==
    ASSUME NodeInv, NEW c \in cq, ReapIo(c)
    PROVE  NodeInv'
  <1>1. BasicType
    BY TypeIsBasic DEF NodeInv
  <1>2. /\ c.n = 0
        /\ cq' = cq \ {c}
        /\ busy' = busy \ {c.op}
        /\ UNCHANGED <<registered, table, node, nnode, reqs, kind, member, asked, nsub,
                       ownerVars>>
    BY DEF ReapIo
  <1>3. BasicType'
    BY <1>1, <1>2 DEF BasicType, ownerVars
  <1>4. Live' = Live /\ TagCq' = TagCq /\ IssueInv'
    BY <1>2 DEF Live, InTable, Using, TagCq, NodeInv, IssueInv
  <1> QED
    BY <1>2, <1>3, <1>4, QuietStep DEF ownerVars

LEMMA RegisterTableNodes ==
    ASSUME NodeInv, RegisterBufferTable \/ UNCHANGED vars
    PROVE  NodeInv'
  <1>1. BasicType
    BY TypeIsBasic DEF NodeInv
  <1>2. /\ registered' \in BOOLEAN
        /\ UNCHANGED <<table, node, nnode, reqs, cq, opVars, ownerVars>>
    BY <1>1 DEF RegisterBufferTable, vars, kernelVars, BasicType
  <1>3. BasicType'
    BY <1>1, <1>2 DEF BasicType, opVars, ownerVars
  <1>4. Live' = Live /\ TagCq' = TagCq /\ IssueInv'
    BY <1>2 DEF Live, InTable, Using, TagCq, NodeInv, IssueInv
  <1> QED
    BY <1>2, <1>3, <1>4, QuietStep DEF ownerVars

\* A registration: the new nodes are what the owner of unreg counts, and the
\* buffers, which were not lent, are lent.
LEMMA EnterNodes ==
    ASSUME NodeInv, NEW off \in Slots, NEW bufs \in Batches, NEW unreg \in Unregs \cup {None},
           NEW k \in 0..Len(bufs), NEW ev, RegisteredCount(ErrorCode(ev), Len(bufs)) = k,
           off + k <= NSlots, Enter(off, bufs, unreg, k, ev),
           Registrable(bufs), registered' \in BOOLEAN
    PROVE  NodeInv'
  <1> USE BufferTableAssumption
  <1>1. TypeOK /\ BasicType
    BY TypeIsBasic DEF NodeInv
  <1>2. Entered(bufs, unreg, k)
    BY <1>1, EnterStep
  <1>3. nnode \in Nat /\ k \in Nat /\ k <= Len(bufs) /\ Len(bufs) \in Nat
    BY <1>1, BatchType DEF BasicType
  <1>4. Live \subseteq NodeIds /\ Live \cap Made(k) = {}
    <2>1. Live \subseteq 1..nnode
      BY DEF NodeInv, NodesKnown
    <2> QED
      BY <1>1, <1>3, <2>1, LiveNodes DEF Made, NodeIds
  <1>5. \A n \in Live : n \in Live' => node'[n] = node[n]
    BY <1>2, <1>4 DEF Entered
  <1>6. \A c \in TagCqes(Live \ Live') : c.n # 0 /\ c.op \in Unregs
    <2>1. Live \ Live' \in SUBSET NodeIds
      BY <1>4
    <2> QED
      BY <1>1, <2>1, TagCqesType
  <1>7. TagCq' = TagCq \cup TagCqes(Live \ Live')
    BY <1>2, <1>6 DEF Entered, TagCq
  <1>8. /\ NodesKnown'
        /\ \A u \in Unregs :
             /\ Waiting(u) \subseteq 1..nnode
             /\ Waiting(u)' = Waiting(u) \cup {n \in Made(k) : node'[n].tag = u}
    BY <1>1, <1>2, <1>3, <1>5, <1>7, NodesMove DEF Entered, NodeInv
  <1>9. LentInv'
    <2> SUFFICES ASSUME NEW n \in Live'
                 PROVE  /\ node'[n].buf \in Bufs
                        /\ lent'[node'[n].buf] =
                             IF node'[n].tag = None THEN "untagged" ELSE node'[n].tag
      BY DEF LentInv
    <2>1. CASE n \in Made(k)
      <3>1. n - nnode \in 1..k /\ n - nnode \in 1..Len(bufs)
        BY <1>3, <2>1 DEF Made, NodeIds
      <3>2. bufs[n - nnode] \in Bufs
        BY <3>1, BatchType
      <3>3. node'[n].buf = bufs[n - nnode] /\ node'[n].tag = unreg
        BY <1>2, <2>1 DEF Entered
      <3>4. lent'[bufs[n - nnode]] = IF unreg = None THEN "untagged" ELSE unreg
        BY <1>2, <3>1, <3>2 DEF Entered
      <3> QED
        BY <3>2, <3>3, <3>4
    <2>2. CASE n \in Live
      <3>1. node'[n] = node[n]
        BY <1>5, <2>2
      <3>2. /\ node[n].buf \in Bufs
            /\ lent[node[n].buf] = IF node[n].tag = None THEN "untagged" ELSE node[n].tag
        BY <2>2 DEF NodeInv, LentInv
      <3>3. lent[node[n].buf] # None
        BY <1>1, <1>4, <2>2, <3>2 DEF BasicType
      <3>4. \A i \in 1..k : bufs[i] # node[n].buf
        BY <1>3, <3>3, BatchType DEF Registrable
      <3>5. lent'[node[n].buf] = lent[node[n].buf]
        BY <1>2, <3>2, <3>4 DEF Entered
      <3> QED
        BY <3>1, <3>2, <3>5
    <2> QED
      BY <1>2, <2>1, <2>2 DEF Entered
  <1>10. OwedInv'
    <2> SUFFICES ASSUME NEW u \in Unregs PROVE owed'[u] = Cardinality(Waiting(u)')
      BY DEF OwedInv
    <2>1. owed[u] = Cardinality(Waiting(u))
      BY DEF NodeInv, OwedInv
    <2>2. \A n \in Made(k) : node'[n].tag = unreg
      BY <1>2 DEF Entered
    <2>3. CASE u # unreg
      <3>1. {n \in Made(k) : node'[n].tag = u} = {}
        BY <2>2, <2>3
      <3>2. Waiting(u)' = Waiting(u)
        BY <1>8, <3>1
      <3> QED
        BY <1>2, <2>1, <2>3, <3>2 DEF Entered
    <2>4. CASE u = unreg
      <3>1. {n \in Made(k) : node'[n].tag = u} = Made(k)
        BY <2>2, <2>4
      <3>2. Waiting(u)' = Waiting(u) \cup Made(k)
        BY <1>8, <3>1
      <3>3. Made(k) = (nnode + 1)..(nnode + k)
        BY <1>2, <1>3 DEF Entered, Made, NodeIds
      <3>4. IsFiniteSet(Made(k)) /\ Cardinality(Made(k)) = k
        <4>1. nnode + 1 \in Int /\ nnode + k \in Int
          BY <1>3
        <4>2. /\ IsFiniteSet((nnode + 1)..(nnode + k))
              /\ Cardinality((nnode + 1)..(nnode + k)) =
                   IF nnode + 1 > nnode + k THEN 0 ELSE (nnode + k) - (nnode + 1) + 1
          BY ONLY <4>1, FS_Interval
        <4> QED
          BY <1>3, <3>3, <4>2
      <3>5. IsFiniteSet(Waiting(u)) /\ Cardinality(Waiting(u)) \in Nat
        BY <1>1, CountsAreBounded, FS_CardinalityType DEF NodeInv
      <3>6. Waiting(u) \cap Made(k) = {}
        BY <1>3, <1>8 DEF Made, NodeIds
      <3>7. Cardinality(Waiting(u)') = Cardinality(Waiting(u)) + Cardinality(Made(k))
                                       - Cardinality(Waiting(u) \cap Made(k))
        BY <3>2, <3>4, <3>5, FS_Union
      <3>8. Cardinality(Waiting(u) \cap Made(k)) = 0
        BY <3>6, FS_EmptySet
      <3>9. owed'[u] = owed[u] + k
        BY <1>2, <2>4 DEF Entered
      <3> QED
        BY <1>3, <2>1, <3>4, <3>5, <3>7, <3>8, <3>9
    <2> QED
      BY <2>3, <2>4
  <1>11. IssueInv'
    BY <1>2 DEF Entered, NodeInv, IssueInv
  <1>12. lent' \in [Bufs -> Unregs \cup {None, "untagged"}]
    BY <1>1, <1>2 DEF Entered, BasicType
  <1>13. \A c \in cq' : c.op \in IF c.n = 0 THEN Ops ELSE Unregs
    BY <1>1, <1>2, <1>6 DEF Entered, BasicType
  <1>14. nnode' \in 0..MaxNodes /\ owed' = [u \in Unregs |-> owed'[u]] /\ DOMAIN owed' = Unregs
    BY <1>2, <1>3 DEF Entered
  <1>15. BasicType'
    BY <1>1, <1>2, <1>12, <1>13, <1>14 DEF Entered, BasicType, opVars
  <1>16. TypeOK'
    BY <1>8, <1>10, <1>15, CountsAreBounded, PTL
  <1> QED
    BY <1>8, <1>9, <1>10, <1>11, <1>16 DEF NodeInv

\* Owners read the code of a registration as the number of buffers it entered.
LEMMA RegisterNodes ==
    ASSUME NodeInv, NEW bufs \in Batches, NEW unreg \in Unregs \cup {None},
           RegisterBuffers(bufs, unreg)
    PROVE  NodeInv'
  <1>1. Len(bufs) \in Nat /\ Len(bufs) <= NSlots
    BY BatchType DEF RegisterBuffers
  <1>2. 0 \in Slots /\ 0 + Len(bufs) <= NSlots /\ Len(bufs) \in 0..Len(bufs)
    BY <1>1, BufferTableAssumption DEF Slots
  <1>3. RegisteredCount(ErrorCode(0), Len(bufs)) = Len(bufs)
    <2>1. ErrorCode(0) \in Int /\ ErrorCode(0) <= 0 /\ ErrorCode(0) >= 0
      BY DEF ErrorCode
    <2>2. ErrorCode(0) = 0
      BY <2>1
    <2> QED
      BY <2>2 DEF RegisteredCount
  <1> QED
    BY <1>2, <1>3, EnterNodes DEF RegisterBuffers

LEMMA UpdateNodes ==
    ASSUME NodeInv, NEW off \in Slots, NEW bufs \in Batches, NEW unreg \in Unregs \cup {None},
           UpdateBufferTable(off, bufs, unreg)
    PROVE  NodeInv'
  <1>1. Len(bufs) \in Nat
    BY BatchType
  <1>2. registered' \in BOOLEAN /\ Registrable(bufs)
    BY DEF UpdateBufferTable, NodeInv, TypeOK
  <1>3. ASSUME NEW k \in 1..Len(bufs), off + k <= NSlots, Enter(off, bufs, unreg, k, k)
        PROVE  NodeInv'
    <2>1. k \in 0..Len(bufs) /\ RegisteredCount(ErrorCode(k), Len(bufs)) = k
      BY <1>1 DEF RegisteredCount, ErrorCode
    <2> QED
      BY <1>2, <1>3, <2>1, EnterNodes
  <1>4. ASSUME Enter(off, bufs, unreg, 0, -EINVAL) PROVE NodeInv'
    <2>1. 0 \in 0..Len(bufs) /\ off + 0 <= NSlots
      BY <1>1, BufferTableAssumption DEF Slots
    <2>2. RegisteredCount(ErrorCode(-EINVAL), Len(bufs)) = 0
      BY DEF RegisteredCount, ErrorCode, EINVAL
    <2> QED
      BY <1>2, <1>4, <2>1, <2>2, EnterNodes
  <1> QED
    BY <1>3, <1>4 DEF UpdateBufferTable

\* An unregistration operation is called: the owner counts one node less, and
\* takes its buffers back when that was the last one.
LEMMA ReapTagNodes ==
    ASSUME NodeInv, NEW c \in cq, ReapTag(c)
    PROVE  NodeInv'
  <1> USE BufferTableAssumption
  <1> DEFINE u == c.op
  <1>1. TypeOK /\ BasicType
    BY TypeIsBasic DEF NodeInv
  <1>2. /\ c.n # 0
        /\ cq' = cq \ {c}
        /\ owed' = [owed EXCEPT ![u] = @ - 1]
        /\ lent' = [b \in Bufs |-> IF lent[b] = u /\ owed[u] = 1 THEN None ELSE lent[b]]
        /\ UNCHANGED <<registered, table, node, nnode, reqs, opVars, codesOk>>
    BY DEF ReapTag
  <1>3. u \in Unregs
    BY <1>1, <1>2 DEF BasicType
  <1> HIDE DEF u
  <1>4. c \in TagCq /\ TagCq' = TagCq \ {c} /\ Live' = Live
    BY <1>2 DEF TagCq, Live, InTable, Using
  <1>5. /\ c.n \notin Live
        /\ \A d \in TagCq : d.n = c.n => d = c
    BY <1>4 DEF NodeInv, NodesKnown
  <1>6. NodesKnown'
    BY <1>2, <1>4 DEF NodeInv, NodesKnown
  <1>7. c.n \in Waiting(u)
    BY <1>4 DEF Waiting, u
  <1>8. ASSUME NEW v \in Unregs
        PROVE  Waiting(v)' = {n \in Live : node[n].tag = v}
                             \cup {d.n : d \in {e \in TagCq \ {c} : e.op = v}}
    BY <1>2, <1>4 DEF Waiting
  <1>9. Waiting(u)' = Waiting(u) \ {c.n}
    BY <1>3, <1>5, <1>8 DEF Waiting
  <1>10. ASSUME NEW v \in Unregs, v # u PROVE Waiting(v)' = Waiting(v)
    BY <1>8, <1>10 DEF Waiting, u
  <1>11. /\ IsFiniteSet(Waiting(u))
         /\ Cardinality(Waiting(u)) \in Nat
         /\ owed[u] = Cardinality(Waiting(u))
    BY <1>1, <1>3, CountsAreBounded, FS_CardinalityType DEF NodeInv, OwedInv
  <1>12. /\ IsFiniteSet(Waiting(u) \ {c.n})
         /\ Cardinality(Waiting(u) \ {c.n}) = Cardinality(Waiting(u)) - 1
    BY <1>7, <1>11, FS_RemoveElement
  <1>13. OwedInv'
    <2> SUFFICES ASSUME NEW v \in Unregs PROVE owed'[v] = Cardinality(Waiting(v)')
      BY DEF OwedInv
    <2>1. CASE v = u
      <3>1. owed'[u] = owed[u] - 1
        BY <1>1, <1>2, <1>3 DEF BasicType
      <3> QED
        BY <1>9, <1>11, <1>12, <2>1, <3>1
    <2>2. CASE v # u
      <3>1. owed'[v] = owed[v]
        BY <1>1, <1>2, <2>2 DEF BasicType
      <3> QED
        BY <1>10, <2>2, <3>1 DEF NodeInv, OwedInv
    <2> QED
      BY <2>1, <2>2
  <1>14. LentInv'
    <2> SUFFICES ASSUME NEW n \in Live
                 PROVE  /\ node[n].buf \in Bufs
                        /\ lent'[node[n].buf] =
                             IF node[n].tag = None THEN "untagged" ELSE node[n].tag
      BY <1>2, <1>4 DEF LentInv
    <2>1. /\ node[n].buf \in Bufs
          /\ lent[node[n].buf] = IF node[n].tag = None THEN "untagged" ELSE node[n].tag
      BY DEF NodeInv, LentInv
    <2>2. CASE lent[node[n].buf] = u /\ owed[u] = 1
      <3>1. node[n].tag = u
        BY <1>3, <2>1, <2>2
      <3>2. n \in Waiting(u) \ {c.n}
        BY <1>5, <3>1 DEF Waiting
      <3>3. Cardinality(Waiting(u) \ {c.n}) = 0
        BY <1>11, <1>12, <2>2
      <3>4. Waiting(u) \ {c.n} = {}
        BY <1>12, <3>3, FS_EmptySet
      <3> QED
        BY <3>2, <3>4
    <2>3. CASE ~(lent[node[n].buf] = u /\ owed[u] = 1)
      BY <1>2, <2>1, <2>3
    <2> QED
      BY <2>2, <2>3
  <1>15. IssueInv'
    BY <1>2 DEF NodeInv, IssueInv
  <1>16. BasicType'
    <2>1. lent' \in [Bufs -> Unregs \cup {None, "untagged"}]
      BY <1>1, <1>2 DEF BasicType
    <2>2. DOMAIN owed' = Unregs /\ owed' = [v \in Unregs |-> owed'[v]]
      BY <1>1, <1>2 DEF BasicType
    <2>3. \A d \in cq' : d.op \in IF d.n = 0 THEN Ops ELSE Unregs
      BY <1>1, <1>2 DEF BasicType
    <2> QED
      BY <1>1, <1>2, <2>1, <2>2, <2>3 DEF BasicType, opVars
  <1>17. TypeOK'
    BY <1>6, <1>13, <1>16, CountsAreBounded, PTL
  <1> QED
    BY <1>6, <1>13, <1>14, <1>15, <1>17 DEF NodeInv

\* A ring without nodes and completions, whose owners wait for nothing.
Idle ==
    /\ \A i \in Slots : table[i] = 0
    /\ reqs = {}
    /\ cq = {}
    /\ \A u \in Unregs : owed[u] = 0

LEMMA IdleNodes == BasicType /\ Idle => NodeInv
  <1> SUFFICES ASSUME BasicType, Idle PROVE NodeInv
    OBVIOUS
  <1>1. Live = {} /\ TagCq = {}
    BY DEF Idle, Live, InTable, Using, TagCq
  <1>2. \A u \in Unregs : Waiting(u) = {}
    BY <1>1 DEF Waiting
  <1>3. NodesKnown /\ LentInv /\ IssueInv
    BY <1>1 DEF Idle, NodesKnown, LentInv, IssueInv
  <1>4. OwedInv
    BY <1>2, FS_EmptySet DEF Idle, OwedInv
  <1> QED
    BY <1>3, <1>4, CountsAreBounded DEF NodeInv

LEMMA InitNodes == Init => NodeInv
  <1> SUFFICES ASSUME Init PROVE NodeInv
    OBVIOUS
  <1> USE BufferTableAssumption
  <1>1. Idle
    BY DEF Init, Idle
  <1>2. registered \in BOOLEAN /\ codesOk \in BOOLEAN /\ kind \in Programs
    BY DEF Init
  <1>a. nnode \in 0..MaxNodes /\ nsub \in 0..MaxSubmits
    BY DEF Init
  <1>b. reqs = {} /\ cq = {} /\ busy = {}
    BY DEF Init
  <1>c. table \in [Slots -> 0..MaxNodes]
    BY DEF Init
  <1>3. node \in [NodeIds -> [buf : Bufs \cup {None}, tag : Unregs \cup {None}]]
    BY DEF Init, NoNode
  <1>4. DOMAIN owed = Unregs /\ owed = [u \in Unregs |-> owed[u]]
    BY DEF Init
  <1>5. lent \in [Bufs -> Unregs \cup {None, "untagged"}]
    BY DEF Init
  <1> DEFINE t0 == [fd |-> 0, is_fixed |-> FALSE]
             m0 == [buf |-> None, buf_index |-> -1, target |-> t0]
             a0 == [buf |-> None, target |-> t0]
  <1>6. t0 \in Targets
    BY DEF Targets
  <1>7. member = [o \in Ops |-> m0] /\ asked = [o \in Ops |-> a0]
    BY DEF Init
  <1> HIDE DEF t0
  <1>8. m0 \in Members /\ a0 \in [buf : Bufs \cup {None}, target : Targets]
    BY ONLY <1>6 DEF Members
  <1> HIDE DEF m0, a0
  <1>9. member \in [Ops -> Members]
    BY <1>7, <1>8
  <1>10. asked \in [Ops -> [buf : Bufs \cup {None}, target : Targets]]
    BY <1>7, <1>8
  <1>11. BasicType
    BY <1>2, <1>3, <1>4, <1>5, <1>9, <1>10, <1>a, <1>b, <1>c DEF BasicType
  <1> QED
    BY <1>1, <1>11, IdleNodes

LEMMA ExitNodes ==
    ASSUME NodeInv, Exit
    PROVE  NodeInv'
  <1> USE BufferTableAssumption
  <1>1. BasicType
    BY TypeIsBasic DEF NodeInv
  <1>2. Idle'
    BY DEF Exit, Idle
  <1>3. registered' \in BOOLEAN /\ reqs' = {} /\ cq' = {} /\ busy' = {}
    BY DEF Exit
  <1>a. table' \in [Slots -> 0..MaxNodes]
    BY DEF Exit
  <1>b. DOMAIN owed' = Unregs /\ owed' = [u \in Unregs |-> owed'[u]]
    BY DEF Exit
  <1>c. lent' \in [Bufs -> Unregs \cup {None, "untagged"}]
    BY DEF Exit
  <1>4. node' \in [NodeIds -> [buf : Bufs \cup {None}, tag : Unregs \cup {None}]]
    <2>1. NoNode \in [buf : Bufs \cup {None}, tag : Unregs \cup {None}]
      BY DEF NoNode
    <2>2. node' = [n \in NodeIds |-> NoNode]
      BY DEF Exit, Without
    <2> QED
      BY ONLY <2>1, <2>2
  <1>5. BasicType'
    BY <1>1, <1>3, <1>4, <1>a, <1>b, <1>c DEF Exit, BasicType
  <1> QED
    BY <1>2, <1>5, IdleNodes, PTL

LEMMA NextNodes == NodeInv /\ [Next]_vars => NodeInv'
  <1> SUFFICES ASSUME NodeInv, [Next]_vars PROVE NodeInv'
    OBVIOUS
  <1>1. CASE Registering
    BY <1>1, RegisterTableNodes, RegisterNodes, UpdateNodes, ClearEntriesNodes
       DEF Registering
  <1>2. ASSUME NEW o \in Ops, NEW t \in Targets \cup {None}, NEW b \in Bufs \cup {None},
               NEW i \in {-1} \cup Slots, Submit(o, t, b, i)
        PROVE  NodeInv'
    BY <1>2, SubmitNodes
  <1>3. CASE Kernel
    BY <1>3, IssueNodes, CompleteNodes DEF Kernel
  <1>4. CASE Reap
    BY <1>4, ReapIoNodes, ReapTagNodes DEF Reap
  <1>5. CASE Exit
    BY <1>5, ExitNodes
  <1>6. CASE UNCHANGED vars
    BY <1>6, RegisterTableNodes
  <1> QED
    BY <1>1, <1>2, <1>3, <1>4, <1>5, <1>6 DEF Next

\* The table, the requests and the objects keep their types, and no owner is
\* called for more buffers than it registered.
THEOREM TypeCorrect == Spec => []TypeOK
  <1>1. NodeInv => TypeOK
    BY DEF NodeInv
  <1> QED
    BY <1>1, InitNodes, NextNodes, PTL DEF Spec

-----------------------------------------------------------------------------
(* Operations *)

\* An object has the buffer and the file that the caller named last.
MembersAsAsked ==
    \A o \in Ops : member[o].buf = asked[o].buf /\ member[o].target = asked[o].target

\* Requests and completions are of what was named when they were submitted, and
\* an operation has one request or one completion while it is busy.
RequestsAsAsked ==
    /\ \A r \in reqs : /\ r.op \in busy
                       /\ r.buf = asked[r.op].buf
                       /\ r.target = asked[r.op].target
    /\ \A q, r \in reqs : q.op = r.op => q = r
CqesAsAsked ==
    /\ \A c \in cq : c.n = 0 => /\ c.op \in busy
                                /\ c.buf = asked[c.op].buf
                                /\ c.target = asked[c.op].target
    /\ \A c, d \in cq : c.n = 0 /\ d.n = 0 /\ c.op = d.op => c = d
    /\ \A c \in cq, r \in reqs : c.n = 0 => c.op # r.op

\* The inductive invariant for both safety theorems.
TransferInv == NodeInv /\ MembersAsAsked /\ RequestsAsAsked /\ CqesAsAsked

OpsInv == MembersAsAsked /\ RequestsAsAsked /\ CqesAsAsked

\* A step of the table or of an unregistration operation.
LEMMA TableOps ==
    ASSUME TransferInv, UNCHANGED <<opVars, reqs>>, \A c \in cq' : c.n = 0 => c \in cq
    PROVE  OpsInv'
  <1>1. MembersAsAsked'
    BY DEF TransferInv, MembersAsAsked, opVars
  <1>2. RequestsAsAsked'
    BY DEF TransferInv, RequestsAsAsked, opVars
  <1>3. CqesAsAsked'
    BY DEF TransferInv, CqesAsAsked, opVars
  <1> QED
    BY <1>1, <1>2, <1>3 DEF OpsInv

LEMMA RegisteringOps ==
    ASSUME TransferInv, Registering
    PROVE  OpsInv'
  <1>0. TypeOK
    BY DEF TransferInv, NodeInv
  <1>1. \A t : Released(t, reqs) \in SUBSET NodeIds
    BY <1>0, LiveNodes DEF Released, Live
  <1>2. \A t : \A c \in TagCqes(Released(t, reqs)) : c.n # 0
    BY <1>0, <1>1, TagCqesType
  <1>3. ASSUME NEW off, NEW bufs, NEW unreg, NEW k, NEW ev, Enter(off, bufs, unreg, k, ev)
        PROVE  OpsInv'
    <2> DEFINE t == [i \in Slots |-> IF off <= i /\ i < off + k THEN nnode + 1 + i - off
                                     ELSE table[i]]
    <2>1. cq' = cq \cup TagCqes(Released(t, reqs)) /\ UNCHANGED <<opVars, reqs>>
      BY <1>3 DEF Enter
    <2> HIDE DEF t
    <2> QED
      BY <1>2, <2>1, TableOps
  <1>4. ASSUME NEW off, NEW k, ClearEntries(off, k) PROVE OpsInv'
    <2> DEFINE t == [i \in Slots |-> IF off <= i /\ i < off + k THEN 0 ELSE table[i]]
    <2>1. cq' = cq \cup TagCqes(Released(t, reqs)) /\ UNCHANGED <<opVars, reqs>>
      BY <1>4 DEF ClearEntries
    <2> HIDE DEF t
    <2> QED
      BY <1>2, <2>1, TableOps
  <1>5. CASE RegisterBufferTable
    BY <1>5, TableOps DEF RegisterBufferTable
  <1>6. ASSUME NEW bufs, NEW u, RegisterBuffers(bufs, u) PROVE OpsInv'
    BY <1>3, <1>6 DEF RegisterBuffers
  <1>7. ASSUME NEW off, NEW bufs, NEW u, UpdateBufferTable(off, bufs, u) PROVE OpsInv'
    BY <1>3, <1>7 DEF UpdateBufferTable
  <1> QED
    BY <1>4, <1>5, <1>6, <1>7 DEF Registering

LEMMA SubmitOps ==
    ASSUME TransferInv, NEW o \in Ops, NEW t \in Targets \cup {None},
           NEW b \in Bufs \cup {None}, NEW i \in {-1} \cup Slots, Submit(o, t, b, i)
    PROVE  OpsInv'
  <1>1. TypeOK
    BY DEF TransferInv, NodeInv
  <1>2. PICK m \in Members, q \in Request : SubmitsAs(o, t, b, m, q)
    BY <1>1, SubmitStep
  <1>3. /\ o \notin busy
        /\ busy' = busy \cup {o}
        /\ reqs' = reqs \cup {q}
        /\ cq' = cq
        /\ q.op = o /\ q.buf = m.buf /\ q.target = m.target
        /\ member'[o] = m
        /\ \A p \in Ops \ {o} : member'[p] = member[p] /\ asked'[p] = asked[p]
    BY <1>1, <1>2 DEF SubmitsAs, TypeOK
  <1>4. member[o].buf = asked[o].buf /\ member[o].target = asked[o].target
    BY DEF TransferInv, MembersAsAsked
  <1>5. asked'[o].buf = m.buf /\ asked'[o].target = m.target
    BY <1>2, <1>4 DEF SubmitsAs
  <1>6. \A r \in reqs : r.op \in Ops /\ r.op # o
    BY <1>1, <1>3 DEF TransferInv, RequestsAsAsked, TypeOK
  <1>7. \A c \in cq : c.n = 0 => c.op \in Ops /\ c.op # o
    BY <1>1, <1>3 DEF TransferInv, CqesAsAsked, TypeOK
  <1>8. MembersAsAsked'
    BY <1>3, <1>5 DEF TransferInv, MembersAsAsked
  <1>9. RequestsAsAsked'
    BY <1>3, <1>5, <1>6 DEF TransferInv, RequestsAsAsked
  <1>10. CqesAsAsked'
    BY <1>3, <1>6, <1>7 DEF TransferInv, CqesAsAsked
  <1> QED
    BY <1>8, <1>9, <1>10 DEF OpsInv

\* Request r goes on as the requests rs, or as the completions cs.
LEMMA RequestMoves ==
    ASSUME TransferInv, NEW r \in reqs, NEW rs, NEW cs,
           reqs' = (reqs \ {r}) \cup rs, UNCHANGED opVars,
           \A q \in rs : q.op = r.op /\ q.buf = r.buf /\ q.target = r.target,
           \A q1, q2 \in rs : q1 = q2,
           \A c \in cs : c.n = 0 /\ c.op = r.op /\ c.buf = r.buf /\ c.target = r.target,
           \A c1, c2 \in cs : c1 = c2,
           rs = {} \/ cs = {},
           \A c \in cq' : c.n = 0 => c \in cq \cup cs
    PROVE  OpsInv'
  <1>1. MembersAsAsked'
    BY DEF TransferInv, MembersAsAsked, opVars
  <1>2. /\ \A q \in reqs : /\ q.op \in busy
                           /\ q.buf = asked[q.op].buf
                           /\ q.target = asked[q.op].target
        /\ \A p, q \in reqs : p.op = q.op => p = q
    BY DEF TransferInv, RequestsAsAsked
  <1>3. /\ \A c \in cq : c.n = 0 => /\ c.op \in busy
                                    /\ c.buf = asked[c.op].buf
                                    /\ c.target = asked[c.op].target
        /\ \A c, d \in cq : c.n = 0 /\ d.n = 0 /\ c.op = d.op => c = d
        /\ \A c \in cq, q \in reqs : c.n = 0 => c.op # q.op
    BY DEF TransferInv, CqesAsAsked
  <1>4. busy' = busy /\ asked' = asked
    BY DEF opVars
  <1>5. RequestsAsAsked'
    <2>1. \A q \in reqs' : /\ q.op \in busy'
                           /\ q.buf = asked'[q.op].buf
                           /\ q.target = asked'[q.op].target
      BY <1>2, <1>4
    <2>2. \A p, q \in reqs' : p.op = q.op => p = q
      BY <1>2
    <2> QED
      BY <2>1, <2>2 DEF RequestsAsAsked
  <1>6. CqesAsAsked'
    <2>1. \A c \in cq' : c.n = 0 => /\ c.op \in busy'
                                    /\ c.buf = asked'[c.op].buf
                                    /\ c.target = asked'[c.op].target
      BY <1>2, <1>3, <1>4
    <2>2. \A c, d \in cq' : c.n = 0 /\ d.n = 0 /\ c.op = d.op => c = d
      BY <1>3
    <2>3. \A c \in cq', q \in reqs' : c.n = 0 => c.op # q.op
      BY <1>2, <1>3
    <2> QED
      BY <2>1, <2>2, <2>3 DEF CqesAsAsked
  <1> QED
    BY <1>1, <1>5, <1>6 DEF OpsInv

LEMMA IssueOps ==
    ASSUME TransferInv, NEW r \in reqs, Issue(r)
    PROVE  OpsInv'
  <1> DEFINE n == IF r.fixed THEN NodeAt(r.index) ELSE 0
             bad == r.fixed /\ (n = 0 \/ node[n].buf # r.buf)
             q == [r EXCEPT !.node = n, !.issued = TRUE]
             rs == IF bad THEN {} ELSE {q}
             cs == IF bad THEN {IoCqe(r, -EINVAL)} ELSE {}
  <1>1. reqs' = (reqs \ {r}) \cup rs /\ cq' = cq \cup cs /\ UNCHANGED opVars
    BY DEF Issue
  <1>2. r \in Request
    BY DEF TransferInv, NodeInv, TypeOK
  <1> HIDE DEF n, bad
  <1>3. q.op = r.op /\ q.buf = r.buf /\ q.target = r.target
    BY <1>2 DEF Request
  <1> HIDE DEF q
  <1>4. /\ \A p \in rs : p.op = r.op /\ p.buf = r.buf /\ p.target = r.target
        /\ \A q1, q2 \in rs : q1 = q2
        /\ \A c \in cs : c.n = 0 /\ c.op = r.op /\ c.buf = r.buf /\ c.target = r.target
        /\ \A c1, c2 \in cs : c1 = c2
        /\ rs = {} \/ cs = {}
    BY <1>3, IoCqeFields
  <1> HIDE DEF rs, cs
  <1>5. \A c \in cq' : c.n = 0 => c \in cq \cup cs
    BY <1>1
  <1> QED
    BY <1>1, <1>4, <1>5, RequestMoves

LEMMA CompleteOps ==
    ASSUME TransferInv, NEW r \in reqs, NEW ev, Complete(r, ev)
    PROVE  OpsInv'
  <1> DEFINE rs == {}
             cs == {IoCqe(r, ev)}
             ns == Released(table, reqs \ {r})
  <1>1. /\ reqs' = (reqs \ {r}) \cup rs
        /\ cq' = cq \cup cs \cup TagCqes(ns)
        /\ UNCHANGED opVars
    BY DEF Complete
  <1>2. TypeOK
    BY DEF TransferInv, NodeInv
  <1>3. ns \in SUBSET NodeIds
    BY <1>2, LiveNodes DEF Released, Live
  <1>4. \A c \in TagCqes(ns) : c.n # 0
    BY <1>2, <1>3, TagCqesType
  <1>5. /\ \A p \in rs : p.op = r.op /\ p.buf = r.buf /\ p.target = r.target
        /\ \A q1, q2 \in rs : q1 = q2
        /\ \A c \in cs : c.n = 0 /\ c.op = r.op /\ c.buf = r.buf /\ c.target = r.target
        /\ \A c1, c2 \in cs : c1 = c2
        /\ rs = {} \/ cs = {}
    BY IoCqeFields
  <1> HIDE DEF rs, cs, ns
  <1>6. \A c \in cq' : c.n = 0 => c \in cq \cup cs
    BY <1>1, <1>4
  <1> QED
    BY <1>1, <1>5, <1>6, RequestMoves

LEMMA ReapIoOps ==
    ASSUME TransferInv, NEW c \in cq, ReapIo(c)
    PROVE  OpsInv'
  <1>1. /\ c.n = 0
        /\ cq' = cq \ {c}
        /\ busy' = busy \ {c.op}
        /\ UNCHANGED <<reqs, member, asked>>
    BY DEF ReapIo
  <1>2. MembersAsAsked'
    BY <1>1 DEF TransferInv, MembersAsAsked
  <1>3. \A r \in reqs : r.op # c.op
    BY <1>1 DEF TransferInv, CqesAsAsked
  <1>4. RequestsAsAsked'
    BY <1>1, <1>3 DEF TransferInv, RequestsAsAsked
  <1>5. \A d \in cq' : d.n = 0 => d.op # c.op
    BY <1>1 DEF TransferInv, CqesAsAsked
  <1>6. CqesAsAsked'
    BY <1>1, <1>5 DEF TransferInv, CqesAsAsked
  <1> QED
    BY <1>2, <1>4, <1>6 DEF OpsInv

LEMMA NextTransfer == TransferInv /\ [Next]_vars => TransferInv'
  <1> SUFFICES ASSUME TransferInv, [Next]_vars PROVE TransferInv'
    OBVIOUS
  <1>1. NodeInv'
    BY NextNodes DEF TransferInv
  <1>2. ASSUME NEW o \in Ops, NEW t \in Targets \cup {None}, NEW b \in Bufs \cup {None},
               NEW i \in {-1} \cup Slots, Submit(o, t, b, i)
        PROVE  OpsInv'
    BY <1>2, SubmitOps
  <1>3. CASE Kernel
    <2>1. OpsInv'
      BY <1>3, IssueOps, CompleteOps DEF Kernel
    <2> QED
      BY <1>1, <2>1 DEF OpsInv, TransferInv
  <1>4. ASSUME NEW c \in cq, ReapTag(c) PROVE OpsInv'
    BY <1>4, TableOps DEF ReapTag
  <1>5. ASSUME Exit PROVE OpsInv'
    BY <1>5 DEF Exit, TransferInv, OpsInv, MembersAsAsked, RequestsAsAsked, CqesAsAsked
  <1>6. ASSUME UNCHANGED vars PROVE OpsInv'
    BY <1>6, TableOps DEF vars, kernelVars
  <1>7. OpsInv' => TransferInv'
    BY <1>1 DEF OpsInv, TransferInv
  <1> QED
    BY <1>2, <1>3, <1>4, <1>5, <1>6, <1>7, RegisteringOps, ReapIoOps DEF Next, Reap

LEMMA InitTransfer == Init => TransferInv
  <1> SUFFICES ASSUME Init PROVE TransferInv
    OBVIOUS
  <1>1. NodeInv
    BY InitNodes
  <1>2. reqs = {} /\ cq = {}
    BY DEF Init
  <1>3. MembersAsAsked
    BY DEF Init, MembersAsAsked
  <1>4. RequestsAsAsked /\ CqesAsAsked
    BY <1>2 DEF RequestsAsAsked, CqesAsAsked
  <1> QED
    BY <1>1, <1>3, <1>4 DEF TransferInv

\* An owner that counts the calls of its unregistration operations never takes
\* memory for free that the kernel still uses, through any registrations, partial
\* updates, transfers in flight and late completions.
THEOREM FreeMemoryStaysFree == Spec => []FreeMemoryIsFree
  <1>1. TransferInv => FreeMemoryIsFree
    <2> SUFFICES ASSUME TransferInv, NEW b \in Bufs, lent[b] = None,
                        \A o \in busy : asked[o].buf # b, KernelUses(b)
                 PROVE  FALSE
      BY DEF FreeMemoryIsFree
    <2>1. \A r \in reqs : r.buf # b
      BY DEF TransferInv, RequestsAsAsked
    <2>2. PICK n \in Live : node[n].buf = b
      BY <2>1 DEF KernelUses, Live
    <2>3. None # "untagged"
      BY BufferTableAssumption
    <2> QED
      BY <2>2, <2>3 DEF TransferInv, NodeInv, LentInv
  <1> QED
    BY <1>1, InitTransfer, NextTransfer, PTL DEF Spec

\* Every callback that reports success reports the transfer of the buffer and the
\* file that were named last before the submission.
THEOREM TransfersAreAsAsked == Spec => TransferAsAsked
  <1> DEFINE Step == \A c \in cq : ReapIo(c) /\ c.ev >= 0 => /\ c.buf = asked[c.op].buf
                                                             /\ c.target = asked[c.op].target
                                                             /\ Span(c) = c.buf
  <1>1. TransferInv => Step
    <2> SUFFICES ASSUME TransferInv, NEW c \in cq, c.n = 0
                 PROVE  /\ c.buf = asked[c.op].buf
                        /\ c.target = asked[c.op].target
                        /\ Span(c) = c.buf
      BY DEF ReapIo
    <2>1. c.buf = asked[c.op].buf /\ c.target = asked[c.op].target
      BY DEF TransferInv, CqesAsAsked
    <2>2. c.op \in Ops
      BY DEF TransferInv, NodeInv, TypeOK
    <2>3. member[c.op].buf = asked[c.op].buf
      BY <2>2 DEF TransferInv, MembersAsAsked
    <2> QED
      BY <2>1, <2>3 DEF Span
  <1> HIDE DEF Step
  <1>2. Spec => [][Step]_vars
    BY <1>1, InitTransfer, NextTransfer, PTL DEF Spec
  <1> QED
    BY <1>2 DEF TransferAsAsked, Step
=============================================================================
