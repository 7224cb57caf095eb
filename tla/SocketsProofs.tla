---------------------------- MODULE SocketsProofs ----------------------------
(***************************************************************************)
(* Theorems about Sockets: every open descriptor has one owner, which is    *)
(* what closing a handle relies on, and what an operation object keeps from *)
(* one submission to the next does not make its reports wrong as long as    *)
(* the length it kept has room for the answer.                              *)
(***************************************************************************)
EXTENDS Sockets, FiniteSetTheorems, WellFoundedInduction, TLAPS

\* The kernel gives the lowest descriptor that is free, if one is.
LEMMA LowestFreeIsFree ==
    ASSUME Free # {}
    PROVE  LowestFree \in Free /\ LowestFree \in Fds /\ sock[LowestFree].state = "closed"
  <1>1. Free \subseteq Nat
    BY SocketsAssumption DEF Free, Fds
  <1>2. \E fd \in Free : \A other \in Free : ~(<<other, fd>> \in OpToRel(<, Nat))
    BY <1>1, NatLessThanWellFounded, WFMin
  <1>3. \A m, n \in Nat : m < n => <<m, n>> \in OpToRel(<, Nat)
    BY DEF OpToRel
  <1>4. \E fd \in Free : \A other \in Free : fd <= other
    <2>1. PICK fd \in Free : \A other \in Free : ~(<<other, fd>> \in OpToRel(<, Nat))
      BY <1>2
    <2>2. \A other \in Free : ~(other < fd)
      BY <1>1, <1>3, <2>1
    <2> QED
      BY <1>1, <2>2
  <1>5. LowestFree \in Free
    BY <1>4 DEF LowestFree
  <1> QED
    BY <1>5 DEF Free

-----------------------------------------------------------------------------
(* Socket addresses *)

Known == Names \cup {<< >>}
Memory == [1 .. SockLen -> Cells]

LEMMA SockLenIs ==
    /\ SockLen \in 2 .. 5
    /\ Domain = "ipv4" => SockLen = 2
    /\ Domain # "ipv4" => SockLen = 5
  BY DEF SockLen

LEMMA KnownFits ==
    ASSUME NEW name \in Known
    PROVE  /\ name \in Seq(Characters)
           /\ Len(name) \in Nat
           /\ DOMAIN name = 1 .. Len(name)
           /\ Len(name) + 1 <= SockLen
           /\ Domain # "ipv4" => Len(name) + 2 <= SockLen
           /\ \A i \in 1 .. Len(name) : name[i] \in Characters /\ name[i] # NUL
  <1>1. name \in Seq(Characters)
    <2>1. << >> \in Seq(Characters)
      OBVIOUS
    <2>2. Names \subseteq Seq(Characters)
      BY NamesAssumption
    <2> QED
      BY <2>1, <2>2 DEF Known
  <1>2. Len(name) \in 0 .. (IF Domain = "ipv4" THEN 1 ELSE 3)
    <2>1. CASE name = << >>
      BY <2>1
    <2>2. CASE name \in Names
      BY <2>2, NamesAssumption
    <2> QED
      BY <2>1, <2>2 DEF Known
  <1>3. \A i \in 1 .. Len(name) : name[i] \in Characters
    BY <1>1
  <1> QED
    BY <1>1, <1>2, <1>3, SockLenIs, NamesAssumption

LEMMA StructureOf ==
    ASSUME NEW name \in Known
    PROVE  /\ to_system_sockaddr(name) \in Memory
           /\ to_system_sockaddr(name) \in Seq(Cells)
           /\ Len(to_system_sockaddr(name)) = SockLen
           /\ \A i \in 1 .. Len(name) : to_system_sockaddr(name)[i + 1] = name[i]
           /\ \A i \in 2 .. SockLen : to_system_sockaddr(name)[i] = NUL <=> i > Len(name) + 1
  <1> DEFINE m == to_system_sockaddr(name)
  <1>1. SockLen \in Nat
    BY SockLenIs
  <1>0. m = [i \in 1 .. SockLen |-> IF i = 1 THEN Domain
                                    ELSE IF i - 1 <= Len(name) THEN name[i - 1] ELSE NUL]
    <2>1. CASE Domain = "ipv4"
      <3>1. SockLen = 2 /\ Len(name) \in {0, 1} /\ m = sockaddr_in(name)
        <4>1. m = sockaddr_in(name)
          BY <2>1 DEF to_system_sockaddr
        <4>2. SockLen = 2 /\ Len(name) \in Nat /\ Len(name) + 1 <= SockLen
          BY <2>1, SockLenIs, KnownFits
        <4>3. \A k \in Nat : k + 1 <= 2 => k = 0 \/ k = 1
          OBVIOUS
        <4>4. Len(name) = 0 \/ Len(name) = 1
          BY <4>2, <4>3
        <4>5. Len(name) \in {0, 1}
          BY <4>4, Zenon
        <4> QED
          BY <4>1, <4>2, <4>5, Zenon
      <3>2. Len(name) = 0 <=> name = << >>
        BY KnownFits
      <3>3. m[1] = Domain /\ m[2] = IF Len(name) = 0 THEN NUL ELSE name[1]
        BY <2>1, <3>1, <3>2 DEF sockaddr_in
      <3>4. m = [i \in 1 .. 2 |-> m[i]]
        BY <3>1 DEF sockaddr_in
      <3>5. \A i \in 1 .. 2 : m[i] = IF i = 1 THEN Domain
                                      ELSE IF i - 1 <= Len(name) THEN name[i - 1] ELSE NUL
        <4> HIDE DEF m
        <4> TAKE i \in 1 .. 2
        <4>1. CASE i = 1
          BY <3>3, <4>1
        <4>2. CASE i = 2
          BY <3>1, <3>3, <4>2
        <4> QED
          BY <4>1, <4>2
      <3> HIDE DEF m
      <3> QED
        BY <3>1, <3>4, <3>5
    <2>2. CASE Domain # "ipv4"
      BY <2>2, SockLenIs, SocketsAssumption DEF to_system_sockaddr, sockaddr_un
    <2> QED
      BY <2>1, <2>2
  <1>2. \A i \in 1 .. SockLen : m[i] = IF i = 1 THEN Domain
                                       ELSE IF i - 1 <= Len(name) THEN name[i - 1] ELSE NUL
    BY <1>0
  <1>3. \A i \in 1 .. SockLen : m[i] \in Cells
    <2> TAKE i \in 1 .. SockLen
    <2>1. i # 1 /\ i - 1 <= Len(name) => name[i - 1] \in Characters
      BY <1>1, KnownFits
    <2> QED
      BY <1>2, <2>1 DEF Cells
  <1>4. m \in Memory
    BY <1>0, <1>3 DEF Memory
  <1>5. m \in Seq(Cells) /\ Len(m) = SockLen
    BY <1>1, <1>4 DEF Memory
  <1>6. \A i \in 1 .. Len(name) : m[i + 1] = name[i]
    <2> TAKE i \in 1 .. Len(name)
    <2>1. i + 1 \in 1 .. SockLen /\ i + 1 # 1 /\ (i + 1) - 1 = i /\ i <= Len(name)
      BY <1>1, KnownFits
    <2> QED
      BY <1>2, <2>1
  <1>7. \A i \in 2 .. SockLen : m[i] = NUL <=> i > Len(name) + 1
    <2> TAKE i \in 2 .. SockLen
    <2>1. i \in 1 .. SockLen /\ i # 1 /\ i \in Nat /\ Len(name) \in Nat
      BY <1>1, KnownFits
    <2>2. CASE i - 1 <= Len(name)
      <3>1. m[i] = name[i - 1] /\ i - 1 \in 1 .. Len(name)
        BY <1>2, <2>1, <2>2
      <3>2. m[i] # NUL
        BY <3>1, KnownFits
      <3> QED
        BY <2>1, <2>2, <3>2
    <2>3. CASE ~(i - 1 <= Len(name))
      BY <1>2, <2>1, <2>3
    <2> QED
      BY <2>2, <2>3
  <1> QED
    BY <1>4, <1>5, <1>6, <1>7

\* path() reads a name out of any structure that holds it with its terminator,
\* whatever is behind that.
LEMMA PathReads ==
    ASSUME NEW m \in Memory, NEW name \in Known,
           \A i \in 1 .. Len(name) : m[i + 1] = name[i],
           Len(name) + 2 <= SockLen => m[Len(name) + 2] = NUL
    PROVE  path(m) = name
  <1> DEFINE ends == {i \in 2 .. SockLen : m[i] = NUL} \cup {SockLen + 1}
             stop == CHOOSE i \in ends : \A j \in ends : i <= j
             n == Len(name)
  <1>1. /\ n \in Nat /\ n + 1 <= SockLen /\ SockLen \in Nat
        /\ name \in Seq(Characters) /\ DOMAIN name = 1 .. n
        /\ \A i \in 1 .. n : name[i] # NUL
    BY KnownFits, SockLenIs
  <1>2. m \in Seq(Cells) /\ Len(m) = SockLen
    BY <1>1 DEF Memory
  <1>3. path(m) = SubSeq(m, 2, stop - 1)
    BY DEF path
  <1> HIDE DEF n
  <1>4. \A i \in 1 .. n : m[i + 1] = name[i] /\ m[i + 1] # NUL
    BY <1>1 DEF n
  <1>5. \A j \in ends : n + 2 <= j
    <2> TAKE j \in ends
    <2>1. CASE j = SockLen + 1
      BY <1>1, <2>1
    <2>2. CASE j \in 2 .. SockLen /\ m[j] = NUL
      <3>1. j - 1 \notin 1 .. n
        <4>1. j - 1 \in 1 .. n => m[(j - 1) + 1] # NUL
          BY <1>4
        <4>2. (j - 1) + 1 = j
          BY <2>2
        <4> QED
          BY <2>2, <4>1, <4>2
      <3> QED
        BY <1>1, <2>2, <3>1
    <2> QED
      BY <2>1, <2>2
  <1>6. n + 2 \in ends /\ \A i \in ends : i \in Nat
    <2>1. n + 2 <= SockLen => m[n + 2] = NUL
      BY DEF n
    <2> QED
      BY <1>1, <2>1
  <1>7. stop = n + 2
    <2> HIDE DEF ends
    <2>1. stop \in ends /\ \A j \in ends : stop <= j
      BY <1>5, <1>6
    <2> HIDE DEF stop
    <2>2. stop <= n + 2 /\ n + 2 <= stop /\ stop \in Nat
      BY <1>5, <1>6, <2>1
    <2> QED
      BY <1>1, <2>2
  <1> HIDE DEF stop
  <1> DEFINE u == SubSeq(m, 2, n + 1)
  <1>8. u \in Seq(Cells) /\ Len(u) = n /\ \A i \in 1 .. n : u[i] = m[i + 1]
    BY <1>1, <1>2
  <1>9. u = name
    <2>1. DOMAIN u = 1 .. n /\ u = [i \in 1 .. n |-> u[i]]
      BY <1>8
    <2>2. name = [i \in 1 .. n |-> name[i]]
      BY <1>1
    <2>3. \A i \in 1 .. n : u[i] = name[i]
      BY <1>4, <1>8
    <2> QED
      BY <2>1, <2>2, <2>3
  <1>10. (n + 2) - 1 = n + 1
    BY <1>1
  <1> QED
    BY <1>3, <1>7, <1>9, <1>10

\* from_system_sockaddr reads the name that to_system_sockaddr wrote.
LEMMA RoundTrip ==
    ASSUME NEW name \in Known
    PROVE  from_system_sockaddr(to_system_sockaddr(name)) = name
  <1> DEFINE m == to_system_sockaddr(name)
  <1>1. /\ m \in Memory
        /\ \A i \in 1 .. Len(name) : m[i + 1] = name[i]
        /\ \A i \in 2 .. SockLen : m[i] = NUL <=> i > Len(name) + 1
    BY StructureOf
  <1>2. Len(name) \in Nat /\ SockLen \in Nat
    BY KnownFits, SockLenIs
  <1>3. CASE Domain = "ipv4"
    <2>1. m = sockaddr_in(name) /\ from_system_sockaddr(m) = v4_info(m)
      BY <1>3 DEF to_system_sockaddr, from_system_sockaddr
    <2>2. CASE name = << >>
      BY <2>1, <2>2 DEF sockaddr_in, v4_info
    <2>3. CASE name # << >>
      <3>1. name \in Seq(Characters) /\ Len(name) = 1 /\ name[1] # NUL
        <4>1. name \in Names
          BY <2>3 DEF Known
        <4> QED
          BY <1>3, <4>1, NamesAssumption, KnownFits
      <3>2. name = <<name[1]>>
        BY <3>1
      <3> QED
        BY <2>1, <2>3, <3>1, <3>2 DEF sockaddr_in, v4_info
    <2> QED
      BY <2>2, <2>3
  <1>4. CASE Domain # "ipv4"
    <2> HIDE DEF m
    <2>1. path(m) = name
      BY <1>1, <1>2, PathReads
    <2> QED
      BY <1>4, <2>1 DEF from_system_sockaddr, m
  <1> QED
    BY <1>3, <1>4

\* The kernel never says more than the structure holds.
LEMMA KernelAddressFits ==
    ASSUME NEW name \in Known
    PROVE  /\ KernelAddress(name) \in Seq(Cells)
           /\ Len(KernelAddress(name)) \in 1 .. SockLen
           /\ Domain = "ipv4" => KernelAddress(name) = to_system_sockaddr(name)
           /\ Domain # "ipv4" =>
                /\ Len(KernelAddress(name)) = IF name = << >> THEN 1 ELSE Len(name) + 2
                /\ \A i \in 1 .. Len(KernelAddress(name)) :
                     KernelAddress(name)[i] = to_system_sockaddr(name)[i]
  <1> DEFINE m == to_system_sockaddr(name)
             n == Len(name)
             l == IF name = << >> THEN 1 ELSE n + 2
  <1>1. m \in Seq(Cells) /\ Len(m) = SockLen
    BY StructureOf
  <1>2. CASE Domain = "ipv4"
    <2>1. KernelAddress(name) = m
      BY <1>2 DEF KernelAddress
    <2>2. m \in Seq(Cells) /\ Len(m) \in 1 .. SockLen
      BY <1>1, SockLenIs
    <2> QED
      BY <1>2, <2>1, <2>2
  <1>3. CASE Domain # "ipv4"
    <2>1. KernelAddress(name) = SubSeq(m, 1, l)
      BY <1>3 DEF KernelAddress
    <2>2. l \in 1 .. SockLen
      BY <1>3, KnownFits, SockLenIs
    <2> HIDE DEF m, l
    <2>3. /\ SubSeq(m, 1, l) \in Seq(Cells) /\ Len(SubSeq(m, 1, l)) = l
          /\ \A i \in 1 .. l : SubSeq(m, 1, l)[i] = m[i]
      BY <1>1, <2>2, SockLenIs
    <2>4. /\ KernelAddress(name) \in Seq(Cells) /\ Len(KernelAddress(name)) = l
          /\ l \in 1 .. SockLen
          /\ \A i \in 1 .. l : KernelAddress(name)[i] = m[i]
      BY <2>1, <2>2, <2>3
    <2> QED
      BY <1>3, <2>4 DEF m, l
  <1> QED
    BY <1>2, <1>3

LEMMA CopiedType ==
    ASSUME NEW mem \in Memory, NEW len, NEW address \in Seq(Cells)
    PROVE  Copied(mem, len, address) \in Memory
  <1>1. SockLen \in Nat
    BY SockLenIs
  <1>2. \A i \in 1 .. SockLen : i <= Len(address) => address[i] \in Cells
    BY <1>1
  <1> QED
    BY <1>2 DEF Copied, Memory

\* An address of the structure's length, into a structure of that length, leaves
\* nothing of what was there.
LEMMA CopiedWhole ==
    ASSUME NEW mem \in Memory, NEW address \in Memory, Len(address) = SockLen
    PROVE  Copied(mem, SockLen, address) = address
  BY SockLenIs DEF Copied, Memory

-----------------------------------------------------------------------------
(* Types *)

Options == {OptVal(v) : v \in OptionValues}

SockType ==
    [state : {"closed", "open", "listening", "connected"}, name : Known, peer : Known,
     queue : Seq(Known), backlog : {0, SOMAXCONN},
     option : Options, asked : OptionValues]

\* A queue is within its backlog, and an option is what was stored for its value.
Socks == {k \in SockType : Len(k.queue) <= k.backlog /\ k.option = OptVal(k.asked)}

ObjectType ==
    [state : {"idle", "waiting", "done"}, fd : Fds \cup {None}, mem : Memory,
     len : 1 .. SockLen, ev : Fds \cup {None, Error}, peer : BOOLEAN, truth : Known,
     prior : SUBSET Known]

Objects == {o \in ObjectType : o.state = "waiting" => o.fd \in Fds}

CqeType == [ev : Fds \cup {Error}, flags : SUBSET {"more"}]
MultishotType ==
    [armed : BOOLEAN, live : BOOLEAN, fd : Fds \cup {None}, cqes : Seq(CqeType)]
Multishots == {m \in MultishotType : m.live => m.fd \in Fds}

StateInv ==
    /\ uses \in Programs
    /\ held \subseteq Fds
    /\ sock \in [Fds -> Socks]
    /\ acc \in Objects
    /\ nam \in Objects
    /\ mul \in Multishots
    /\ opt \in BOOLEAN
    /\ opens \in 0 .. MaxOpens /\ connects \in 0 .. MaxConnects /\ calls \in 0 .. MaxCalls

OpenOf(s) == {fd \in Fds : s[fd].state # "closed"}

LEMMA StateTypes == StateInv => TypeOK
  <1> SUFFICES ASSUME StateInv PROVE TypeOK
    OBVIOUS
  <1>1. \A fd \in Fds : /\ sock[fd].state \in {"closed", "open", "listening", "connected"}
                        /\ sock[fd].name \in Names \cup {<< >>}
                        /\ Len(sock[fd].queue) <= sock[fd].backlog
                        /\ sock[fd].backlog \in {0, SOMAXCONN}
    <2> TAKE fd \in Fds
    <2>1. sock[fd] \in Socks
      BY DEF StateInv
    <2> QED
      BY <2>1 DEF Socks, SockType, Known
  <1>2. \A o \in {acc, nam} : /\ o.state \in {"idle", "waiting", "done"}
                              /\ o.mem \in [1 .. SockLen -> Cells]
                              /\ o.len \in 1 .. SockLen
    <2>1. acc \in Objects /\ nam \in Objects
      BY DEF StateInv
    <2> QED
      BY <2>1 DEF Objects, ObjectType, Memory
  <1>3. mul.armed \in BOOLEAN /\ mul.live \in BOOLEAN
    BY DEF StateInv, Multishots, MultishotType
  <1> QED
    BY <1>1, <1>2, <1>3 DEF StateInv, TypeOK

LEMMA KnownEmpty == << >> \in Known /\ << >> \in Seq(Known) /\ Len(<< >>) = 0
  BY DEF Known

LEMMA ClosedIsSock ==
    /\ Closed \in Socks /\ Closed.state = "closed"
    /\ Fresh \in Socks /\ Fresh.state = "open"
  <1>1. DefaultOption \in OptionValues /\ OptVal(DefaultOption) \in Options
    BY SocketsAssumption DEF Options
  <1>2. Closed \in SockType /\ Closed.state = "closed"
    BY <1>1, KnownEmpty DEF Closed, SockType
  <1>3. Fresh \in SockType /\ Fresh.state = "open"
    BY <1>2 DEF Fresh, SockType
  <1>4. /\ Len(Closed.queue) <= Closed.backlog /\ Closed.option = OptVal(Closed.asked)
        /\ Fresh.queue = Closed.queue /\ Fresh.backlog = Closed.backlog
        /\ Fresh.option = Closed.option /\ Fresh.asked = Closed.asked
    BY KnownEmpty DEF Closed, Fresh
  <1> QED
    BY <1>2, <1>3, <1>4 DEF Socks

\* Socket fd becomes k.
Becomes(s, fd, k) == [s EXCEPT ![fd] = k]

LEMMA ChangedSock ==
    ASSUME NEW s \in [Fds -> Socks], NEW fd \in Fds, NEW k \in Socks
    PROVE  /\ Becomes(s, fd, k) \in [Fds -> Socks]
           /\ Becomes(s, fd, k)[fd] = k
           /\ \A g \in Fds : g # fd => Becomes(s, fd, k)[g] = s[g]
           /\ k.state = "closed" => OpenOf(Becomes(s, fd, k)) = OpenOf(s) \ {fd}
           /\ k.state # "closed" => OpenOf(Becomes(s, fd, k)) = OpenOf(s) \cup {fd}
  <1> DEFINE t == Becomes(s, fd, k)
  <1>1. t \in [Fds -> Socks] /\ t[fd] = k /\ \A g \in Fds : g # fd => t[g] = s[g]
    BY DEF Becomes
  <1> HIDE DEF t
  <1>2. /\ k.state = "closed" => OpenOf(t) = OpenOf(s) \ {fd}
        /\ k.state # "closed" => OpenOf(t) = OpenOf(s) \cup {fd}
    BY <1>1 DEF OpenOf
  <1> QED
    BY <1>1, <1>2 DEF t

LEMMA InitState == Init => StateInv
  <1> SUFFICES ASSUME Init PROVE StateInv
    OBVIOUS
  <1>1. Idle \in Objects
    <2>1. Blank \in Memory
      BY DEF Blank, Memory, Cells
    <2> QED
      BY <2>1, KnownEmpty, SockLenIs DEF Idle, Objects, ObjectType
  <1>2. [armed |-> FALSE, live |-> FALSE, fd |-> None, cqes |-> << >>] \in Multishots
    BY DEF Multishots, MultishotType
  <1>3. sock \in [Fds -> Socks]
    BY ClosedIsSock DEF Init
  <1> QED
    BY <1>1, <1>2, <1>3, SocketsAssumption DEF Init, StateInv

-----------------------------------------------------------------------------
(* Steps *)

\* A step that changes what sockets are, and neither which are open nor whose.
ChangesSockets ==
    /\ sock' \in [Fds -> Socks]
    /\ OpenOf(sock') = OpenOf(sock)
    /\ opens' = opens /\ connects' \in 0 .. MaxConnects /\ calls' \in 0 .. MaxCalls
    /\ UNCHANGED <<uses, held, acc, mul, nam, opt>>

LEMMA BindChanges ==
    ASSUME StateInv, NEW fd \in Fds, NEW name \in Bound, Bind(fd, name)
    PROVE  ChangesSockets
  <1> DEFINE k == [sock[fd] EXCEPT !.name = name]
  <1>1. name \in Known /\ sock \in [Fds -> Socks] /\ sock[fd] \in Socks
    BY SocketsAssumption DEF Known, StateInv
  <1>2. sock' = Becomes(sock, fd, k)
    BY <1>1, RoundTrip DEF Bind, Becomes
  <1>3. k \in Socks /\ k.state # "closed"
    <2>1. sock[fd] \in SockType
      BY <1>1 DEF Socks
    <2>2. k \in SockType /\ k.state = sock[fd].state
      BY <1>1, <2>1 DEF SockType
    <2>3. /\ k.queue = sock[fd].queue /\ k.backlog = sock[fd].backlog
          /\ k.option = sock[fd].option /\ k.asked = sock[fd].asked
      BY <2>1 DEF SockType
    <2> HIDE DEF k
    <2> QED
      BY <1>1, <2>2, <2>3 DEF Socks, Bind
  <1>4. fd \in OpenOf(sock)
    BY <1>3 DEF OpenOf
  <1> HIDE DEF k
  <1>5. sock' \in [Fds -> Socks] /\ OpenOf(sock') = OpenOf(sock) \cup {fd}
    BY <1>1, <1>2, <1>3, ChangedSock
  <1> QED
    BY <1>4, <1>5 DEF ChangesSockets, Bind, StateInv

LEMMA ListenChanges ==
    ASSUME StateInv, NEW fd \in Fds, NEW asked \in Backlogs, Listen(fd, asked)
    PROVE  ChangesSockets
  <1> DEFINE k == [sock[fd] EXCEPT !.state = "listening", !.backlog = SOMAXCONN]
  <1>1. sock \in [Fds -> Socks] /\ sock[fd] \in Socks
    BY DEF StateInv
  <1>2. (IF backlog(asked) > SOMAXCONN THEN SOMAXCONN ELSE backlog(asked)) = SOMAXCONN
    BY SocketsAssumption DEF backlog
  <1>3. sock' = Becomes(sock, fd, k)
    BY <1>1, <1>2 DEF Listen, Becomes
  <1>4. k \in Socks /\ k.state # "closed"
    <2>1. Len(sock[fd].queue) \in Nat /\ Len(sock[fd].queue) <= SOMAXCONN
      BY <1>1, SocketsAssumption DEF Socks, SockType
    <2> QED
      BY <1>1, <2>1 DEF Socks, SockType
  <1>5. fd \in OpenOf(sock)
    BY DEF OpenOf, Listen
  <1> HIDE DEF k
  <1>6. sock' \in [Fds -> Socks] /\ OpenOf(sock') = OpenOf(sock) \cup {fd}
    BY <1>1, <1>3, <1>4, ChangedSock
  <1> QED
    BY <1>5, <1>6 DEF ChangesSockets, Listen, StateInv

LEMMA ConnectChanges ==
    ASSUME StateInv, NEW fd \in Fds, NEW name \in Bound, NEW own \in Known,
           Connect(fd, name, own)
    PROVE  ChangesSockets
  <1> DEFINE local == IF sock[fd].name # << >> \/ Domain = "unix" THEN sock[fd].name ELSE own
  <1>1. /\ name \in Known /\ sock \in [Fds -> Socks] /\ sock[fd] \in Socks
        /\ sock[fd] \in SockType
    BY SocketsAssumption DEF Known, StateInv, Socks
  <1>2. PICK l \in Fds :
          /\ sock[l].state = "listening"
          /\ Len(sock[l].queue) < sock[l].backlog
          /\ sock' = [sock EXCEPT ![l].queue = Append(@, local),
                                  ![fd].state = "connected",
                                  ![fd].name = local, ![fd].peer = name]
    BY <1>1, RoundTrip DEF Connect
  <1>3. local \in Known
    BY <1>1 DEF SockType
  <1> HIDE DEF local
  <1> DEFINE kl == [sock[l] EXCEPT !.queue = Append(sock[l].queue, local)]
             kf == [sock[fd] EXCEPT !.state = "connected", !.name = local, !.peer = name]
             s == Becomes(sock, l, kl)
  <1>4. sock[fd].state = "open" /\ l # fd
    BY <1>2 DEF Connect
  <1>5. sock[l] \in Socks /\ sock[l] \in SockType
    BY <1>1 DEF Socks
  <1>6. kl \in Socks /\ kl.state # "closed"
    <2>1. kl \in SockType /\ kl.state = sock[l].state
      <3> DEFINE q == Append(sock[l].queue, local)
      <3>1. q \in Seq(Known)
        BY <1>3, <1>5 DEF SockType
      <3>2. kl = [sock[l] EXCEPT !.queue = q]
        OBVIOUS
      <3> HIDE DEF q, kl
      <3> QED
        BY <1>5, <3>1, <3>2 DEF SockType
    <2>2. /\ kl.queue = Append(sock[l].queue, local) /\ kl.backlog = sock[l].backlog
          /\ kl.option = sock[l].option /\ kl.asked = sock[l].asked
      BY <1>5 DEF SockType
    <2>3. sock[l].queue \in Seq(Known) /\ sock[l].backlog \in Nat
      BY <1>5, SocketsAssumption DEF SockType
    <2>4. Len(kl.queue) <= kl.backlog
      BY <1>2, <1>3, <2>2, <2>3
    <2> HIDE DEF kl
    <2> QED
      BY <1>2, <1>5, <2>1, <2>2, <2>4 DEF Socks
  <1>7. kf \in Socks /\ kf.state # "closed"
    <2>1. kf \in SockType /\ kf.state = "connected"
      BY <1>1, <1>3 DEF SockType
    <2>2. /\ kf.queue = sock[fd].queue /\ kf.backlog = sock[fd].backlog
          /\ kf.option = sock[fd].option /\ kf.asked = sock[fd].asked
      BY <1>1 DEF SockType
    <2> HIDE DEF kf
    <2> QED
      BY <1>1, <2>1, <2>2 DEF Socks
  <1>8. sock' = Becomes(s, fd, kf)
    BY <1>1, <1>2, <1>4 DEF Becomes
  <1>9. l \in OpenOf(sock) /\ fd \in OpenOf(sock)
    BY <1>2, <1>4 DEF OpenOf
  <1> HIDE DEF kl, kf
  <1>10. s \in [Fds -> Socks] /\ OpenOf(s) = OpenOf(sock)
    <2>1. s \in [Fds -> Socks] /\ OpenOf(s) = OpenOf(sock) \cup {l}
      BY <1>1, <1>6, ChangedSock
    <2> QED
      BY <1>9, <2>1
  <1> HIDE DEF s
  <1>11. sock' \in [Fds -> Socks] /\ OpenOf(sock') = OpenOf(sock)
    <2>1. sock' \in [Fds -> Socks] /\ OpenOf(sock') = OpenOf(s) \cup {fd}
      BY <1>7, <1>8, <1>10, ChangedSock
    <2> QED
      BY <1>9, <1>10, <2>1
  <1>12. connects' \in 0 .. MaxConnects
    BY SocketsAssumption DEF Connect, StateInv
  <1> QED
    BY <1>11, <1>12 DEF ChangesSockets, Connect, StateInv

LEMMA SetOptionChanges ==
    ASSUME StateInv, NEW fd \in Fds, NEW v \in OptionValues, SetOption(fd, v),
           fd \in OpenOf(sock)
    PROVE  ChangesSockets
  <1> DEFINE k == [sock[fd] EXCEPT !.option = OptVal(v), !.asked = v]
  <1>1. sock \in [Fds -> Socks] /\ sock[fd] \in Socks /\ sock[fd] \in SockType
    BY DEF StateInv, Socks
  <1>2. sock' = Becomes(sock, fd, k)
    BY <1>1 DEF SetOption, Becomes
  <1>3. k \in Socks /\ k.state # "closed"
    <2>1. OptVal(v) \in Options
      BY DEF Options
    <2>2. k \in SockType /\ k.state = sock[fd].state
      BY <1>1, <2>1 DEF SockType
    <2>3. /\ k.queue = sock[fd].queue /\ k.backlog = sock[fd].backlog
          /\ k.option = OptVal(v) /\ k.asked = v
      BY <1>1 DEF SockType
    <2> HIDE DEF k
    <2> QED
      BY <1>1, <2>2, <2>3 DEF Socks, OpenOf
  <1> HIDE DEF k
  <1>4. sock' \in [Fds -> Socks] /\ OpenOf(sock') = OpenOf(sock) \cup {fd}
    BY <1>1, <1>2, <1>3, ChangedSock
  <1>5. calls' \in 0 .. MaxCalls
    BY SocketsAssumption DEF SetOption, StateInv
  <1> QED
    BY <1>4, <1>5 DEF ChangesSockets, SetOption, StateInv

LEMMA ShutdownChanges ==
    ASSUME StateInv, NEW fd \in Fds, Shutdown(fd)
    PROVE  ChangesSockets
  <1> DEFINE k == [sock[fd] EXCEPT !.state = "open", !.queue = << >>, !.backlog = 0]
  <1>1. sock \in [Fds -> Socks] /\ sock[fd] \in Socks /\ sock[fd] \in SockType
    BY DEF StateInv, Socks
  <1>2. sock' = Becomes(sock, fd, k)
    BY <1>1 DEF Shutdown, Becomes
  <1>3. k \in Socks /\ k.state # "closed"
    <2>1. k \in SockType /\ k.state = "open"
      BY <1>1, KnownEmpty DEF SockType
    <2>2. /\ k.queue = << >> /\ k.backlog = 0
          /\ k.option = sock[fd].option /\ k.asked = sock[fd].asked
      BY <1>1 DEF SockType
    <2>3. Len(k.queue) <= k.backlog
      BY <2>2, KnownEmpty
    <2> HIDE DEF k
    <2> QED
      BY <1>1, <2>1, <2>2, <2>3 DEF Socks
  <1>4. fd \in OpenOf(sock)
    BY DEF OpenOf, Shutdown
  <1> HIDE DEF k
  <1>5. sock' \in [Fds -> Socks] /\ OpenOf(sock') = OpenOf(sock) \cup {fd}
    BY <1>1, <1>2, <1>3, ChangedSock
  <1> QED
    BY <1>4, <1>5 DEF ChangesSockets, Shutdown, StateInv

\* The kernel takes a connection from the queue of listener l.
Accepts(l) ==
    /\ l \in Fds /\ sock[l].state = "listening" /\ sock[l].queue # << >> /\ Free # {}
    /\ sock' = [sock EXCEPT ![LowestFree] = Accepted(l), ![l].queue = Tail(@)]

LEMMA AcceptsOne ==
    ASSUME StateInv, NEW l, Accepts(l)
    PROVE  /\ sock' \in [Fds -> Socks]
           /\ LowestFree \in Fds
           /\ LowestFree \notin OpenOf(sock)
           /\ OpenOf(sock') = OpenOf(sock) \cup {LowestFree}
           /\ Head(sock[l].queue) \in Known
  <1> DEFINE f == LowestFree
             ka == Accepted(l)
             kl == [sock[l] EXCEPT !.queue = Tail(sock[l].queue)]
             s == Becomes(sock, f, ka)
  <1>1. /\ l \in Fds /\ sock \in [Fds -> Socks] /\ sock[l] \in Socks
        /\ sock[l] \in SockType /\ sock[l].state = "listening" /\ sock[l].queue # << >>
    BY DEF StateInv, Socks, Accepts
  <1>2. f \in Fds /\ sock[f].state = "closed" /\ f # l
    BY <1>1, LowestFreeIsFree DEF Accepts
  <1>3. f \notin OpenOf(sock) /\ l \in OpenOf(sock)
    BY <1>1, <1>2 DEF OpenOf
  <1>4. /\ sock[l].queue \in Seq(Known) /\ Head(sock[l].queue) \in Known
        /\ Tail(sock[l].queue) \in Seq(Known)
        /\ Len(Tail(sock[l].queue)) <= sock[l].backlog
    <2>1. sock[l].queue \in Seq(Known) /\ sock[l].backlog \in Nat
      BY <1>1, SocketsAssumption DEF SockType
    <2>2. Len(sock[l].queue) <= sock[l].backlog
      BY <1>1 DEF Socks
    <2> QED
      BY <1>1, <2>1, <2>2
  <1>5. ka \in Socks /\ ka.state # "closed"
    <2>1. ka \in SockType /\ ka.state = "connected"
      BY <1>1, <1>4, KnownEmpty DEF SockType, Accepted
    <2>2. /\ ka.queue = << >> /\ ka.backlog = 0
          /\ ka.option = sock[l].option /\ ka.asked = sock[l].asked
      BY <1>1 DEF SockType, Accepted
    <2>3. Len(ka.queue) <= ka.backlog
      BY <2>2, KnownEmpty
    <2> HIDE DEF ka
    <2> QED
      BY <1>1, <2>1, <2>2, <2>3 DEF Socks
  <1>6. kl \in Socks /\ kl.state # "closed"
    <2>1. kl \in SockType /\ kl.state = sock[l].state
      BY <1>1, <1>4 DEF SockType
    <2>2. /\ kl.queue = Tail(sock[l].queue) /\ kl.backlog = sock[l].backlog
          /\ kl.option = sock[l].option /\ kl.asked = sock[l].asked
      BY <1>1 DEF SockType
    <2> HIDE DEF kl
    <2> QED
      BY <1>1, <1>4, <2>1, <2>2 DEF Socks
  <1>7. sock' = Becomes(s, l, kl)
    <2> HIDE DEF f, ka
    <2>1. sock' = [sock EXCEPT ![f] = ka, ![l].queue = Tail(@)]
      BY DEF Accepts, f, ka
    <2> QED
      BY <1>1, <1>2, <2>1 DEF Becomes
  <1> HIDE DEF f, ka, kl
  <1>8. s \in [Fds -> Socks] /\ OpenOf(s) = OpenOf(sock) \cup {f}
    BY <1>1, <1>2, <1>5, ChangedSock
  <1> HIDE DEF s
  <1>9. sock' \in [Fds -> Socks] /\ OpenOf(sock') = OpenOf(s) \cup {l}
    BY <1>1, <1>6, <1>7, <1>8, ChangedSock
  <1> QED
    BY <1>2, <1>3, <1>4, <1>8, <1>9 DEF f

-----------------------------------------------------------------------------
(* The operation objects *)

Submitted(o, fd) == [o EXCEPT !.state = "waiting", !.fd = fd]
Failed(o) == [o EXCEPT !.state = "done", !.ev = Error]
Answered(o, ev, name) ==
    [o EXCEPT !.state = "done", !.ev = ev, !.mem = Copied(o.mem, o.len, KernelAddress(name)),
              !.len = Len(KernelAddress(name)), !.truth = name]
Dropped(o) == [o EXCEPT !.state = "idle", !.ev = None]

LEMMA ObjectSteps ==
    ASSUME NEW o \in Objects
    PROVE  /\ \A fd \in Fds : /\ Submitted(o, fd) \in Objects
                              /\ Submitted(o, fd).state = "waiting"
           /\ Failed(o) \in Objects /\ Failed(o).state = "done" /\ Failed(o).ev = Error
           /\ \A ev \in Fds, name \in Known : /\ Answered(o, ev, name) \in Objects
                                              /\ Answered(o, ev, name).state = "done"
                                              /\ Answered(o, ev, name).ev = ev
           /\ Reported(o) \in Objects /\ Reported(o).state = "idle"
           /\ Dropped(o) \in Objects /\ Dropped(o).state = "idle"
  <1>1. o \in ObjectType
    BY DEF Objects
  <1>2. ASSUME NEW fd \in Fds
        PROVE  Submitted(o, fd) \in Objects /\ Submitted(o, fd).state = "waiting"
    BY <1>1 DEF Submitted, Objects, ObjectType
  <1>3. Failed(o) \in Objects /\ Failed(o).state = "done" /\ Failed(o).ev = Error
    BY <1>1 DEF Failed, Objects, ObjectType
  <1>4. ASSUME NEW ev \in Fds, NEW name \in Known
        PROVE  /\ Answered(o, ev, name) \in Objects
               /\ Answered(o, ev, name).state = "done"
               /\ Answered(o, ev, name).ev = ev
    <2> DEFINE m == Copied(o.mem, o.len, KernelAddress(name))
               n == Len(KernelAddress(name))
    <2>1. m \in Memory /\ n \in 1 .. SockLen
      <3>1. o.mem \in Memory
        BY <1>1 DEF ObjectType
      <3> QED
        BY <3>1, CopiedType, KernelAddressFits
    <2>2. Answered(o, ev, name) = [o EXCEPT !.state = "done", !.ev = ev, !.mem = m,
                                            !.len = n, !.truth = name]
      BY DEF Answered
    <2> DEFINE a == Answered(o, ev, name)
    <2> HIDE DEF m, n
    <2>3. a.state = "done" /\ a.ev = ev
      BY <1>1, <2>2 DEF ObjectType
    <2>4. a \in ObjectType
      BY <1>1, <2>1, <2>2 DEF ObjectType
    <2> QED
      BY <2>3, <2>4 DEF Objects
  <1>5. Reported(o) \in Objects /\ Reported(o).state = "idle"
    <2>1. {o.truth} \in SUBSET Known
      BY <1>1 DEF ObjectType
    <2> QED
      BY <1>1, <2>1, KnownEmpty DEF Reported, Objects, ObjectType
  <1>6. Dropped(o) \in Objects /\ Dropped(o).state = "idle"
    BY <1>1 DEF Dropped, Objects, ObjectType
  <1> QED
    BY <1>2, <1>3, <1>4, <1>5, <1>6

LEMMA KernelAcceptStep ==
    ASSUME StateInv, KernelAccept
    PROVE  \/ /\ Accepts(acc.fd)
              /\ acc' = Answered(acc, LowestFree, Head(sock[acc.fd].queue))
           \/ acc' = Failed(acc) /\ sock' = sock
  <1>1. acc.fd \in Fds
    BY DEF StateInv, Objects, KernelAccept
  <1> QED
    BY <1>1 DEF KernelAccept, Accepts, Answered, Failed

LEMMA KernelGetsocknameStep ==
    ASSUME StateInv, KernelGetsockname
    PROVE  \/ nam' = Failed(nam)
           \/ \E name \in Known : nam' = Answered(nam, 0, name)
  <1> DEFINE name == IF nam.peer THEN sock[nam.fd].peer ELSE sock[nam.fd].name
  <1>1. nam.fd \in Fds
    BY DEF StateInv, Objects, KernelGetsockname
  <1>2. sock[nam.fd] \in SockType
    BY <1>1 DEF StateInv, Socks
  <1>3. name \in Known
    BY <1>2 DEF SockType
  <1>4. nam' = IF nam.peer /\ sock[nam.fd].state # "connected" THEN Failed(nam)
               ELSE Answered(nam, 0, name)
    BY DEF KernelGetsockname, Failed, Answered
  <1> HIDE DEF name
  <1> QED
    BY <1>3, <1>4

-----------------------------------------------------------------------------
(* One owner of each open descriptor *)

\* The descriptors that an accept has got and its callback was not told of.
Result == IF acc.state = "done" /\ acc.ev >= 0 THEN {acc.ev} ELSE {}
Results == {fd \in Fds : \E k \in DOMAIN mul.cqes : mul.cqes[k].ev = fd}

OwnInv ==
    /\ StateInv
    /\ OpenOf(sock) = held \cup Result \cup Results
    /\ held \cap Result = {} /\ held \cap Results = {} /\ Result \cap Results = {}
    /\ \A j, k \in DOMAIN mul.cqes :
         mul.cqes[j].ev \in Fds /\ mul.cqes[j].ev = mul.cqes[k].ev => j = k

LEMMA OwnNoLeak == OwnInv => NoLeak
  <1> SUFFICES ASSUME OwnInv PROVE NoLeak
    OBVIOUS
  <1> DEFINE C == {mul.cqes[i] : i \in {j \in DOMAIN mul.cqes : mul.cqes[j].ev >= 0}}
             E == {cqe.ev : cqe \in C}
  <1>1. mul.cqes \in Seq(CqeType)
    BY DEF OwnInv, StateInv, Multishots, MultishotType
  <1>2. \A k \in DOMAIN mul.cqes : mul.cqes[k].ev \in Fds \cup {Error}
    <2>1. \A k \in DOMAIN mul.cqes : mul.cqes[k] \in CqeType
      BY <1>1
    <2> QED
      BY <2>1 DEF CqeType
  <1>3. \A k \in DOMAIN mul.cqes : mul.cqes[k].ev \in Fds <=> mul.cqes[k].ev >= 0
    BY <1>2, SocketsAssumption DEF Fds, Error
  <1>4. E = Results
    <2>1. \A fd \in E : \E k \in DOMAIN mul.cqes : mul.cqes[k].ev >= 0 /\ mul.cqes[k].ev = fd
      OBVIOUS
    <2>2. \A k \in DOMAIN mul.cqes : mul.cqes[k].ev >= 0 => mul.cqes[k].ev \in E
      OBVIOUS
    <2> HIDE DEF E
    <2>3. \A fd : fd \in E <=> fd \in Results
      BY <1>3, <2>1, <2>2 DEF Results
    <2> QED
      BY <2>3
  <1>5. NoLeak <=> OpenOf(sock) = held \cup Result \cup E
    BY DEF NoLeak, OpenOf, Result
  <1> QED
    BY <1>4, <1>5 DEF OwnInv

LEMMA InitOwn == Init => OwnInv
  <1> SUFFICES ASSUME Init PROVE OwnInv
    OBVIOUS
  <1>1. OpenOf(sock) = {}
    BY ClosedIsSock DEF Init, OpenOf
  <1>2. Result = {} /\ held = {}
    BY DEF Init, Result, Idle
  <1>3. DOMAIN mul.cqes = {}
    BY DEF Init
  <1> QED
    BY <1>1, <1>2, <1>3, InitState DEF OwnInv, Results

\* A step that leaves the descriptors where they are.
Keeps ==
    /\ StateInv'
    /\ OpenOf(sock') = OpenOf(sock)
    /\ Result' = Result
    /\ UNCHANGED <<held, mul>>

LEMMA KeepsOwn == OwnInv /\ Keeps => OwnInv'
  <1> SUFFICES ASSUME OwnInv, Keeps PROVE OwnInv'
    OBVIOUS
  <1>1. Results' = Results /\ held' = held /\ mul' = mul /\ Result' = Result
    BY DEF Keeps, Results
  <1>2. OpenOf(sock') = held \cup Result \cup Results
    BY DEF Keeps, OwnInv
  <1> QED
    BY <1>1, <1>2 DEF Keeps, OwnInv

LEMMA ChangesKeep == StateInv /\ ChangesSockets => Keeps
  BY DEF ChangesSockets, Keeps, StateInv, Result

LEMMA OpenOwn == OwnInv /\ Open => OwnInv'
  <1> SUFFICES ASSUME OwnInv, Open PROVE OwnInv'
    OBVIOUS
  <1> DEFINE f == LowestFree
  <1>1. StateInv /\ sock \in [Fds -> Socks]
    BY DEF OwnInv, StateInv
  <1>2. f \in Fds /\ sock[f].state = "closed" /\ f >= 0
    BY LowestFreeIsFree, SocketsAssumption DEF Open, Fds
  <1>3. f \notin OpenOf(sock)
    BY <1>2 DEF OpenOf
  <1>4. sock' = Becomes(sock, f, Fresh) /\ held' = held \cup {f}
    BY <1>2 DEF Open, Becomes, IsDescriptor
  <1> HIDE DEF f
  <1>5. sock' \in [Fds -> Socks] /\ OpenOf(sock') = OpenOf(sock) \cup {f}
    <2>1. Fresh \in Socks /\ Fresh.state # "closed"
      BY ClosedIsSock
    <2> QED
      BY <1>1, <1>2, <1>4, <2>1, ChangedSock
  <1>6. UNCHANGED <<uses, acc, mul, nam, opt, connects, calls>> /\ opens' \in 0 .. MaxOpens
    BY <1>1, SocketsAssumption DEF Open, StateInv
  <1>7. StateInv'
    BY <1>1, <1>2, <1>4, <1>5, <1>6 DEF StateInv
  <1>8. Result' = Result /\ Results' = Results
    BY <1>6 DEF Result, Results
  <1> QED
    BY <1>3, <1>4, <1>5, <1>6, <1>7, <1>8 DEF OwnInv

LEMMA SubmitAcceptKeeps ==
    ASSUME StateInv, NEW fd \in Fds, SubmitAccept(fd)
    PROVE  Keeps
  <1>1. acc \in Objects /\ acc.state = "idle" /\ acc' = Submitted(acc, fd)
    BY DEF StateInv, SubmitAccept, Submitted
  <1>2. acc' \in Objects /\ acc'.state = "waiting"
    BY <1>1, ObjectSteps
  <1>3. calls' \in 0 .. MaxCalls
    BY SocketsAssumption DEF SubmitAccept, StateInv
  <1>4. Result = {} /\ Result' = {}
    BY <1>1, <1>2 DEF Result
  <1> QED
    BY <1>2, <1>3, <1>4 DEF SubmitAccept, StateInv, Keeps

LEMMA GetsocknameKeeps ==
    ASSUME StateInv, NEW fd \in Fds, NEW peer \in BOOLEAN,
           SubmitGetsockname(fd, peer) \/ KernelGetsockname \/ GetsocknameCallback
    PROVE  Keeps
  <1>1. nam \in Objects
    BY DEF StateInv
  <1>2. CASE SubmitGetsockname(fd, peer)
    <2>1. nam' = [Submitted(nam, fd) EXCEPT !.peer = peer]
      BY <1>1, <1>2 DEF SubmitGetsockname, Submitted, Objects, ObjectType
    <2>2. Submitted(nam, fd) \in Objects
      BY <1>1, ObjectSteps
    <2>3. nam' \in Objects
      BY <2>1, <2>2 DEF Objects, ObjectType
    <2>4. calls' \in 0 .. MaxCalls
      BY <1>2, SocketsAssumption DEF SubmitGetsockname, StateInv
    <2> QED
      BY <1>2, <2>3, <2>4 DEF SubmitGetsockname, StateInv, Keeps, Result
  <1>3. CASE KernelGetsockname
    <2>1. 0 \in Fds
      BY SocketsAssumption DEF Fds
    <2>2. nam' \in Objects
      BY <1>1, <1>3, <2>1, KernelGetsocknameStep, ObjectSteps
    <2> QED
      BY <1>3, <2>2 DEF KernelGetsockname, StateInv, Keeps, Result
  <1>4. CASE GetsocknameCallback
    <2>1. nam' = IF nam.ev >= 0 THEN Reported(nam) ELSE Dropped(nam)
      BY <1>4 DEF GetsocknameCallback, Dropped
    <2>2. nam' \in Objects
      BY <1>1, <2>1, ObjectSteps
    <2> QED
      BY <1>4, <2>2 DEF GetsocknameCallback, StateInv, Keeps, Result
  <1> QED
    BY <1>2, <1>3, <1>4

LEMMA GetOptionKeeps ==
    ASSUME StateInv, NEW fd \in Fds, GetOption(fd)
    PROVE  Keeps
  <1>1. opt' \in BOOLEAN
    BY DEF GetOption
  <1>2. calls' \in 0 .. MaxCalls
    BY SocketsAssumption DEF GetOption, StateInv
  <1> QED
    BY <1>1, <1>2 DEF GetOption, StateInv, Keeps, Result

LEMMA KernelAcceptOwn == OwnInv /\ KernelAccept => OwnInv'
  <1> SUFFICES ASSUME OwnInv, KernelAccept PROVE OwnInv'
    OBVIOUS
  <1>1. /\ StateInv /\ acc \in Objects
        /\ acc.state = "waiting"
        /\ UNCHANGED <<uses, held, mul, nam, opt, opens, connects, calls>>
    BY DEF OwnInv, StateInv, KernelAccept
  <1>2. Results' = Results /\ Result = {}
    BY <1>1 DEF Results, Result
  <1>3. CASE Accepts(acc.fd) /\ acc' = Answered(acc, LowestFree, Head(sock[acc.fd].queue))
    <2> DEFINE f == LowestFree
               name == Head(sock[acc.fd].queue)
    <2>1. /\ sock' \in [Fds -> Socks]
          /\ f \in Fds
          /\ f \notin OpenOf(sock)
          /\ OpenOf(sock') = OpenOf(sock) \cup {f}
          /\ name \in Known
      BY <1>1, <1>3, AcceptsOne
    <2>2. acc' = Answered(acc, f, name)
      BY <1>3
    <2> HIDE DEF f, name
    <2>3. acc' \in Objects /\ acc'.state = "done" /\ acc'.ev = f
      BY <1>1, <2>1, <2>2, ObjectSteps, ZenonT(40)
    <2>4. Result' = {f}
      BY <2>1, <2>3, SocketsAssumption DEF Result, Fds
    <2>5. StateInv'
      BY <1>1, <2>1, <2>3 DEF StateInv
    <2> QED
      BY <1>1, <1>2, <2>1, <2>4, <2>5 DEF OwnInv
  <1>4. CASE acc' = Failed(acc) /\ sock' = sock
    <2>1. acc' \in Objects /\ acc'.state = "done" /\ acc'.ev = Error
      BY <1>1, <1>4, ObjectSteps
    <2>2. Result' = {}
      BY <2>1 DEF Result, Error
    <2>3. Keeps
      BY <1>1, <1>2, <1>4, <2>1, <2>2 DEF Keeps, StateInv
    <2> QED
      BY <2>3, KeepsOwn
  <1> QED
    BY <1>1, <1>3, <1>4, KernelAcceptStep

LEMMA AcceptCallbackOwn == OwnInv /\ AcceptCallback => OwnInv'
  <1> SUFFICES ASSUME OwnInv, AcceptCallback PROVE OwnInv'
    OBVIOUS
  <1>1. /\ StateInv /\ acc \in Objects
        /\ acc.state = "done"
        /\ UNCHANGED <<uses, sock, mul, nam, opt, opens, connects, calls>>
    BY DEF OwnInv, StateInv, AcceptCallback
  <1>2. Results' = Results
    BY <1>1 DEF Results
  <1>3. CASE acc.ev >= 0
    <2>1. acc' = Reported(acc) /\ held' = held \cup {acc.ev}
      BY <1>3 DEF AcceptCallback, IsDescriptor
    <2>2. acc' \in Objects /\ acc'.state = "idle"
      BY <1>1, <2>1, ObjectSteps
    <2>3. acc.ev \in Fds
      BY <1>1, <1>3 DEF Objects, ObjectType, None, Error
    <2>4. Result = {acc.ev} /\ Result' = {}
      BY <1>1, <1>3, <2>2 DEF Result
    <2>5. StateInv'
      BY <1>1, <2>1, <2>2, <2>3 DEF StateInv
    <2> QED
      BY <1>1, <1>2, <2>1, <2>4, <2>5 DEF OwnInv
  <1>4. CASE ~(acc.ev >= 0)
    <2>1. acc' = Dropped(acc) /\ held' = held
      BY <1>4 DEF AcceptCallback, IsDescriptor, Dropped
    <2>2. acc' \in Objects /\ acc'.state = "idle"
      BY <1>1, <2>1, ObjectSteps
    <2>3. Result = {} /\ Result' = {}
      BY <1>4, <2>2 DEF Result
    <2>4. Keeps
      BY <1>1, <2>1, <2>2, <2>3 DEF Keeps, StateInv
    <2> QED
      BY <2>4, KeepsOwn
  <1> QED
    BY <1>3, <1>4

\* The results of a sequence of completions.
ResultsIn(q) == {fd \in Fds : \E k \in DOMAIN q : q[k].ev = fd}
Distinct(q) == \A j, k \in DOMAIN q : q[j].ev \in Fds /\ q[j].ev = q[k].ev => j = k

LEMMA AppendResult ==
    ASSUME NEW q \in Seq(CqeType), NEW c \in CqeType, NEW u, u = Append(q, c)
    PROVE  /\ u \in Seq(CqeType)
           /\ c.ev \in Fds => ResultsIn(u) = ResultsIn(q) \cup {c.ev}
           /\ c.ev = Error => ResultsIn(u) = ResultsIn(q)
           /\ Distinct(q) /\ c.ev \notin ResultsIn(q) => Distinct(u)
  <1> DEFINE n == Len(q) + 1
  <1>1. /\ u \in Seq(CqeType) /\ n \in DOMAIN u /\ u[n] = c
        /\ \A i \in DOMAIN q : i \in DOMAIN u /\ u[i] = q[i]
        /\ \A i \in DOMAIN u : i \in DOMAIN q \/ i = n
    OBVIOUS
  <1> HIDE DEF n
  <1>2. Error \notin Fds
    BY SocketsAssumption DEF Error, Fds
  <1>3. c.ev \in Fds => ResultsIn(u) = ResultsIn(q) \cup {c.ev}
    BY <1>1 DEF ResultsIn
  <1>4. c.ev = Error => ResultsIn(u) = ResultsIn(q)
    BY <1>1, <1>2 DEF ResultsIn
  <1>5. Distinct(q) /\ c.ev \notin ResultsIn(q) => Distinct(u)
    BY <1>1 DEF ResultsIn, Distinct
  <1> QED
    BY <1>1, <1>3, <1>4, <1>5

LEMMA TailResult ==
    ASSUME NEW q \in Seq(CqeType), q # << >>, NEW u, u = Tail(q), Distinct(q)
    PROVE  /\ u \in Seq(CqeType)
           /\ Head(q) \in CqeType
           /\ Head(q).ev \in Fds => /\ ResultsIn(u) = ResultsIn(q) \ {Head(q).ev}
                                    /\ Head(q).ev \in ResultsIn(q)
           /\ Head(q).ev = Error => ResultsIn(u) = ResultsIn(q)
           /\ Distinct(u)
  <1> DEFINE x == Head(q)
  <1>1. /\ u \in Seq(CqeType) /\ x \in CqeType /\ 1 \in DOMAIN q /\ q[1] = x
        /\ \A i \in DOMAIN u : i \in Nat /\ i + 1 \in DOMAIN q /\ i + 1 # 1 /\ u[i] = q[i + 1]
        /\ \A i \in DOMAIN q : i # 1 => i - 1 \in DOMAIN u /\ u[i - 1] = q[i]
    OBVIOUS
  <1> HIDE DEF x
  <1>2. Error \notin Fds
    BY SocketsAssumption DEF Error, Fds
  <1>3. x.ev \in Fds => \A i \in DOMAIN u : u[i].ev # x.ev
    <2> HAVE x.ev \in Fds
    <2> TAKE i \in DOMAIN u
    <2>1. \A k \in DOMAIN q : q[k].ev = x.ev => k = 1
      BY <1>1 DEF Distinct
    <2> QED
      BY <1>1, <2>1
  <1>4. \A fd \in Fds : fd # x.ev => (fd \in ResultsIn(u) <=> fd \in ResultsIn(q))
    <2> TAKE fd \in Fds
    <2> HAVE fd # x.ev
    <2>1. ASSUME NEW i \in DOMAIN u, u[i].ev = fd PROVE \E k \in DOMAIN q : q[k].ev = fd
      BY <1>1, <2>1
    <2>2. ASSUME NEW k \in DOMAIN q, q[k].ev = fd PROVE \E i \in DOMAIN u : u[i].ev = fd
      <3>1. k # 1
        BY <1>1, <2>2
      <3> QED
        BY <1>1, <2>2, <3>1
    <2> QED
      BY <2>1, <2>2 DEF ResultsIn
  <1>5. /\ ResultsIn(u) \subseteq Fds /\ ResultsIn(q) \subseteq Fds
        /\ x.ev \in Fds => x.ev \in ResultsIn(q) /\ x.ev \notin ResultsIn(u)
    BY <1>1, <1>3 DEF ResultsIn
  <1>6. x.ev \in Fds => ResultsIn(u) = ResultsIn(q) \ {x.ev}
    BY <1>4, <1>5
  <1>7. x.ev = Error => ResultsIn(u) = ResultsIn(q)
    BY <1>2, <1>4, <1>5
  <1>8. Distinct(u)
    <2> SUFFICES ASSUME NEW j \in DOMAIN u, NEW k \in DOMAIN u, u[j].ev \in Fds, u[j].ev = u[k].ev
                 PROVE  j = k
      BY DEF Distinct
    <2>1. j + 1 = k + 1
      BY <1>1 DEF Distinct
    <2> QED
      BY <1>1, <2>1
  <1> QED
    BY <1>1, <1>5, <1>6, <1>7, <1>8 DEF x

LEMMA OwnResults ==
    ASSUME OwnInv
    PROVE  /\ mul \in Multishots /\ mul \in MultishotType /\ mul.cqes \in Seq(CqeType)
           /\ Results = ResultsIn(mul.cqes) /\ Distinct(mul.cqes)
  BY DEF OwnInv, StateInv, Multishots, MultishotType, Results, ResultsIn, Distinct

LEMMA SubmitMultishotOwn ==
    ASSUME OwnInv, NEW fd \in Fds, SubmitMultishot(fd)
    PROVE  OwnInv'
  <1>1. /\ mul' = [mul EXCEPT !.armed = TRUE, !.live = TRUE, !.fd = fd]
        /\ UNCHANGED <<uses, sock, held, acc, nam, opt, opens, connects, calls>>
    BY DEF SubmitMultishot
  <1>2. mul' \in Multishots /\ mul'.cqes = mul.cqes
    BY <1>1, OwnResults DEF Multishots, MultishotType
  <1>3. StateInv'
    BY <1>1, <1>2 DEF OwnInv, StateInv
  <1>4. Results' = Results /\ Result' = Result
    BY <1>1, <1>2 DEF Results, Result
  <1> QED
    BY <1>1, <1>2, <1>3, <1>4 DEF OwnInv

LEMMA KernelMultishotOwn == OwnInv /\ KernelMultishot => OwnInv'
  <1> SUFFICES ASSUME OwnInv, KernelMultishot PROVE OwnInv'
    OBVIOUS
  <1>1. /\ StateInv
        /\ mul.live /\ mul.fd \in Fds
        /\ UNCHANGED <<uses, held, acc, nam, opt, opens, connects, calls>>
    BY DEF OwnInv, StateInv, Multishots, KernelMultishot
  <1>2. Result' = Result
    BY <1>1 DEF Result
  <1>3. ASSUME NEW c \in CqeType, NEW more \in BOOLEAN,
               mul' = [mul EXCEPT !.live = more, !.cqes = Append(@, c)]
        PROVE  /\ mul' \in Multishots
               /\ mul'.cqes = Append(mul.cqes, c)
    <2> DEFINE q == Append(mul.cqes, c)
    <2>1. q \in Seq(CqeType)
      BY OwnResults
    <2>2. mul' = [mul EXCEPT !.live = more, !.cqes = q]
      BY <1>3
    <2> HIDE DEF q
    <2>3. mul' \in MultishotType /\ mul'.fd = mul.fd /\ mul'.cqes = q
      BY <2>1, <2>2, OwnResults DEF MultishotType
    <2> QED
      BY <1>1, <2>3 DEF Multishots, q
  <1>4. ASSUME Accepts(mul.fd), NEW flags \in SUBSET {"more"},
               mul' = [mul EXCEPT !.live = (flags # {}),
                                  !.cqes = Append(@, [ev |-> LowestFree, flags |-> flags])]
        PROVE  OwnInv'
    <2> DEFINE f == LowestFree
               c == [ev |-> f, flags |-> flags]
    <2>1. /\ sock' \in [Fds -> Socks]
          /\ f \in Fds
          /\ f \notin OpenOf(sock)
          /\ OpenOf(sock') = OpenOf(sock) \cup {f}
      BY <1>1, <1>4, AcceptsOne
    <2>2. c \in CqeType /\ c.ev = f
      BY <2>1 DEF CqeType
    <2>3. mul' \in Multishots /\ mul'.cqes = Append(mul.cqes, c)
      BY <1>3, <1>4, <2>2
    <2> HIDE DEF f, c
    <2>4. f \notin Results
      BY <2>1 DEF OwnInv
    <2>5. ResultsIn(mul'.cqes) = Results \cup {f} /\ Distinct(mul'.cqes)
      <3>1. c.ev \in Fds /\ c.ev \notin ResultsIn(mul.cqes) /\ Distinct(mul.cqes)
        BY <2>1, <2>2, <2>4, OwnResults
      <3>2. ResultsIn(mul'.cqes) = ResultsIn(mul.cqes) \cup {c.ev} /\ Distinct(mul'.cqes)
        BY <2>2, <2>3, <3>1, OwnResults, AppendResult
      <3> QED
        BY <2>2, <3>2, OwnResults
    <2>6. Results' = Results \cup {f}
      BY <2>5 DEF Results, ResultsIn
    <2>7. StateInv'
      BY <1>1, <2>1, <2>3 DEF StateInv
    <2>8. held' = held
      BY <1>1
    <2> QED
      BY <1>2, <2>1, <2>5, <2>6, <2>7, <2>8 DEF OwnInv, Distinct
  <1>5. ASSUME sock' = sock,
               mul' = [mul EXCEPT !.live = FALSE, !.cqes = Append(@, [ev |-> Error, flags |-> {}])]
        PROVE  OwnInv'
    <2> DEFINE c == [ev |-> Error, flags |-> {}]
    <2>1. c \in CqeType /\ c.ev = Error
      BY DEF CqeType
    <2>2. mul' \in Multishots /\ mul'.cqes = Append(mul.cqes, c)
      BY <1>3, <1>5, <2>1
    <2> HIDE DEF c
    <2>3. Error \notin ResultsIn(mul.cqes)
      BY SocketsAssumption DEF ResultsIn, Error, Fds
    <2>4. ResultsIn(mul'.cqes) = Results /\ Distinct(mul'.cqes)
      BY <2>1, <2>2, <2>3, OwnResults, AppendResult
    <2>5. Results' = Results
      BY <2>4 DEF Results, ResultsIn
    <2>6. StateInv'
      BY <1>1, <1>5, <2>2 DEF StateInv
    <2>7. held' = held
      BY <1>1
    <2> QED
      BY <1>2, <1>5, <2>4, <2>5, <2>6, <2>7 DEF OwnInv, Distinct
  <1> QED
    <2>1. CASE /\ sock[mul.fd].state = "listening" /\ sock[mul.fd].queue # << >> /\ Free # {}
               /\ \E flags \in SUBSET {"more"} :
                    mul' = [mul EXCEPT !.live = (flags # {}),
                                       !.cqes = Append(@, [ev |-> LowestFree, flags |-> flags])]
               /\ sock' = [sock EXCEPT ![LowestFree] = Accepted(mul.fd),
                                       ![mul.fd].queue = Tail(@)]
      <3>1. Accepts(mul.fd)
        BY <1>1, <2>1 DEF Accepts
      <3> QED
        BY <1>4, <2>1, <3>1
    <2> QED
      BY <1>5, <2>1 DEF KernelMultishot

LEMMA MultishotCallbackOwn == OwnInv /\ MultishotCallback => OwnInv'
  <1> SUFFICES ASSUME OwnInv, MultishotCallback PROVE OwnInv'
    OBVIOUS
  <1> DEFINE q == mul.cqes
             u == Tail(q)
             x == Head(q)
  <1>1. /\ StateInv /\ q # << >>
        /\ UNCHANGED <<uses, sock, acc, nam, opt, opens, connects, calls>>
    BY DEF OwnInv, MultishotCallback
  <1>2. q \in Seq(CqeType) /\ Distinct(q) /\ Results = ResultsIn(q)
    BY OwnResults
  <1>3. /\ u \in Seq(CqeType) /\ x \in CqeType /\ Distinct(u)
        /\ x.ev \in Fds => ResultsIn(u) = Results \ {x.ev} /\ x.ev \in Results
        /\ x.ev = Error => ResultsIn(u) = Results
    BY <1>1, <1>2, TailResult
  <1>4. ASSUME NEW a \in BOOLEAN, mul' = [mul EXCEPT !.cqes = u, !.armed = a]
        PROVE  /\ mul' \in Multishots
               /\ mul'.cqes = u
    <2> HIDE DEF u
    <2>1. mul' \in MultishotType /\ mul'.cqes = u /\ mul'.fd = mul.fd /\ mul'.live = mul.live
      BY <1>3, <1>4, OwnResults DEF MultishotType
    <2> QED
      BY <2>1, OwnResults DEF Multishots
  <1>5. Result' = Result
    BY <1>1 DEF Result
  <1>6. x.ev \in Fds \/ x.ev = Error
    BY <1>3 DEF CqeType
  <1>7. CASE x.ev \in Fds
    <2>1. IsDescriptor(x.ev)
      BY <1>7, SocketsAssumption DEF IsDescriptor, Fds
    <2>2. /\ held' = held \cup {x.ev}
          /\ mul' = [mul EXCEPT !.cqes = u, !.armed = MoreFollows(x.flags)]
      BY <2>1 DEF MultishotCallback
    <2>3. MoreFollows(x.flags) \in BOOLEAN
      BY DEF MoreFollows
    <2>4. mul' \in Multishots /\ mul'.cqes = u
      BY <1>4, <2>2, <2>3
    <2> HIDE DEF x, u, q
    <2>5. Results' = Results \ {x.ev}
      BY <1>3, <1>7, <2>4 DEF Results, ResultsIn
    <2>6. StateInv'
      BY <1>1, <1>7, <2>2, <2>4 DEF StateInv
    <2>7. sock' = sock /\ x.ev \in Results /\ Distinct(mul'.cqes)
      BY <1>1, <1>3, <1>7, <2>4
    <2> QED
      BY <1>5, <2>2, <2>5, <2>6, <2>7 DEF OwnInv, Distinct
  <1>8. CASE x.ev = Error
    <2>1. ~IsDescriptor(x.ev)
      BY <1>8 DEF IsDescriptor, Error
    <2>2. held' = held /\ mul' = [mul EXCEPT !.cqes = u, !.armed = FALSE]
      BY <2>1 DEF MultishotCallback
    <2>3. mul' \in Multishots /\ mul'.cqes = u
      BY <1>4, <2>2
    <2> HIDE DEF x, u, q
    <2>4. Results' = Results
      BY <1>3, <1>8, <2>3 DEF Results, ResultsIn
    <2>5. StateInv'
      BY <1>1, <2>2, <2>3 DEF StateInv
    <2>6. sock' = sock /\ Distinct(mul'.cqes)
      BY <1>1, <1>3, <2>3
    <2> QED
      BY <1>5, <2>2, <2>4, <2>5, <2>6 DEF OwnInv, Distinct
  <1> QED
    BY <1>6, <1>7, <1>8

\* The descriptor that is closed is nobody else's.
LEMMA CloseOwn ==
    ASSUME OwnInv, NEW fd \in Fds, Close(fd)
    PROVE  OwnInv'
  <1>1. /\ StateInv /\ sock \in [Fds -> Socks]
        /\ fd \in held /\ held' = held \ {fd}
        /\ sock' = Becomes(sock, fd, Closed)
        /\ UNCHANGED <<uses, acc, mul, nam, opt, opens, connects, calls>>
    BY DEF OwnInv, StateInv, Close, Becomes
  <1>2. sock' \in [Fds -> Socks] /\ OpenOf(sock') = OpenOf(sock) \ {fd}
    BY <1>1, ClosedIsSock, ChangedSock
  <1>3. StateInv'
    BY <1>1, <1>2 DEF StateInv
  <1>4. Result' = Result /\ Results' = Results /\ mul' = mul
    BY <1>1 DEF Result, Results
  <1> QED
    BY <1>1, <1>2, <1>3, <1>4 DEF OwnInv

LEMMA NextOwn == OwnInv /\ [Next]_vars => OwnInv'
  <1> SUFFICES ASSUME OwnInv, [Next]_vars PROVE OwnInv'
    OBVIOUS
  <1>1. StateInv /\ held \subseteq OpenOf(sock)
    BY DEF OwnInv
  <1>2. ChangesSockets => OwnInv'
    BY <1>1, ChangesKeep, KeepsOwn
  <1>3. CASE Open
    BY <1>3, OpenOwn
  <1>4. ASSUME NEW fd \in Fds, NEW name \in Bound, Bind(fd, name) PROVE OwnInv'
    BY <1>1, <1>2, <1>4, BindChanges
  <1>5. ASSUME NEW fd \in Fds, NEW asked \in Backlogs, Listen(fd, asked) PROVE OwnInv'
    BY <1>1, <1>2, <1>5, ListenChanges
  <1>6. ASSUME NEW fd \in Fds, NEW name \in Bound, NEW own \in Names \cup {<< >>},
               Connect(fd, name, own)
        PROVE  OwnInv'
    <2>1. own \in Known
      BY DEF Known
    <2> QED
      BY <1>1, <1>2, <1>6, <2>1, ConnectChanges
  <1>7. ASSUME NEW fd \in Fds, SubmitAccept(fd) PROVE OwnInv'
    BY <1>1, <1>7, SubmitAcceptKeeps, KeepsOwn
  <1>8. CASE KernelAccept
    BY <1>8, KernelAcceptOwn
  <1>9. CASE AcceptCallback
    BY <1>9, AcceptCallbackOwn
  <1>10. ASSUME NEW fd \in Fds, SubmitMultishot(fd) PROVE OwnInv'
    BY <1>10, SubmitMultishotOwn
  <1>11. CASE KernelMultishot
    BY <1>11, KernelMultishotOwn
  <1>12. CASE MultishotCallback
    BY <1>12, MultishotCallbackOwn
  <1>13. ASSUME NEW fd \in Fds, NEW peer \in BOOLEAN,
                SubmitGetsockname(fd, peer) \/ KernelGetsockname \/ GetsocknameCallback
         PROVE  OwnInv'
    BY <1>1, <1>13, GetsocknameKeeps, KeepsOwn
  <1>14. 0 \in Fds
    BY SocketsAssumption DEF Fds
  <1>15. ASSUME NEW fd \in Fds, NEW v \in OptionValues, SetOption(fd, v) PROVE OwnInv'
    <2>1. fd \in OpenOf(sock)
      BY <1>1, <1>15 DEF SetOption
    <2> QED
      BY <1>1, <1>2, <1>15, <2>1, SetOptionChanges
  <1>16. ASSUME NEW fd \in Fds, GetOption(fd) PROVE OwnInv'
    BY <1>1, <1>16, GetOptionKeeps, KeepsOwn
  <1>17. ASSUME NEW fd \in Fds, Shutdown(fd) PROVE OwnInv'
    BY <1>1, <1>2, <1>17, ShutdownChanges
  <1>18. ASSUME NEW fd \in Fds, Close(fd) PROVE OwnInv'
    BY <1>18, CloseOwn
  <1>19. CASE UNCHANGED vars
    <2>1. Keeps
      BY <1>1, <1>19 DEF vars, Keeps, StateInv, Result
    <2> QED
      BY <2>1, KeepsOwn
  <1>20. CASE KernelGetsockname \/ GetsocknameCallback
    BY <1>13, <1>14, <1>20
  <1> QED
    BY <1>3, <1>4, <1>5, <1>6, <1>7, <1>8, <1>9, <1>10, <1>11, <1>12, <1>13, <1>15,
       <1>16, <1>17, <1>18, <1>19, <1>20 DEF Next

\* Sockets, handles and operation objects have their types in every state; in
\* particular the length that an accept or getsockname object passes to the
\* kernel (addrlen_out, socklen_out) never exceeds its structure, in either domain.
THEOREM TypeCorrect == Spec => []TypeOK
  <1>1. OwnInv => TypeOK
    BY StateTypes DEF OwnInv
  <1> QED
    BY <1>1, InitOwn, NextOwn, PTL DEF Spec

\* No accepted descriptor is dropped (do_callback of socket_accept and
\* socket_multishot_accept_operation), whatever is closed, opened again and
\* accepted in between: OwnInv gives each one owner.
THEOREM SocketsNeverLeak == Spec => []NoLeak
  BY OwnNoLeak, InitOwn, NextOwn, PTL DEF Spec

-----------------------------------------------------------------------------
(* What the objects report *)

\* Before the kernel answers, an object has the length that the answer before
\* left, or, when there was none, a whole structure of zeros.
Kept(o) ==
    /\ o.prior = {} => o.mem = Blank /\ o.len = SockLen
    /\ \A name \in o.prior : o.len = Len(KernelAddress(name))

\* Afterwards it has the answer's length, and the answer's name if there was room.
Told(o) ==
    /\ o.len = Len(KernelAddress(o.truth))
    /\ Roomy(o) => from_system_sockaddr(o.mem) = o.truth

Honest(o) == IF o.state = "done" /\ o.ev >= 0 THEN Told(o) ELSE Kept(o)

HonestInv == OwnInv /\ Honest(acc) /\ Honest(nam)

\* An answer copied into a structure that has room for it is read as it was meant.
LEMMA AnswerReads ==
    ASSUME NEW o \in Objects, Kept(o), NEW name \in Known,
           Roomy([o EXCEPT !.truth = name])
    PROVE  from_system_sockaddr(Copied(o.mem, o.len, KernelAddress(name))) = name
  <1> DEFINE m == to_system_sockaddr(name)
             k == KernelAddress(name)
             c == Copied(o.mem, o.len, k)
  <1>1. o.mem \in Memory /\ o.len \in 1 .. SockLen /\ o.prior \in SUBSET Known
    BY DEF Objects, ObjectType
  <1>2. m \in Memory /\ Len(m) = SockLen
    BY StructureOf
  <1>3. CASE Domain = "ipv4"
    <2>1. o.len = SockLen
      <3>1. \A p \in o.prior : Len(KernelAddress(p)) = SockLen
        BY <1>1, <1>3, KernelAddressFits, StructureOf
      <3> QED
        BY <3>1 DEF Kept
    <2>2. k = m
      BY <1>3 DEF KernelAddress
    <2>3. c = m
      <3> HIDE DEF m, k
      <3> QED
        BY <1>1, <1>2, <2>1, <2>2, CopiedWhole
    <2> QED
      BY <2>3, RoundTrip
  <1>4. CASE Domain # "ipv4"
    <2> DEFINE n == Len(name)
               l == Len(k)
    <2>1. /\ n \in Nat /\ n + 2 <= SockLen /\ SockLen = 5
      BY <1>4, KnownFits, SockLenIs
    <2>2. /\ l = IF name = << >> THEN 1 ELSE n + 2
          /\ l \in 1 .. SockLen
          /\ k \in Seq(Cells)
          /\ \A i \in 1 .. l : k[i] = m[i]
      BY <1>4, KernelAddressFits
    <2>3. /\ \A i \in 1 .. n : m[i + 1] = name[i]
          /\ \A i \in 2 .. SockLen : m[i] = NUL <=> i > n + 1
      BY StructureOf
    <2>4. name = << >> => n = 0
      OBVIOUS
    <2>5. c \in Memory
      BY <1>1, <2>2, CopiedType
    <2>6. \A i \in 1 .. SockLen : c[i] = IF i <= o.len /\ i <= l THEN k[i] ELSE o.mem[i]
      BY DEF Copied
    <2>7. \A i \in 2 .. n + 2 : c[i] = m[i]
      <3>1. CASE o.prior = {}
        <4>1. o.len = SockLen /\ o.mem = Blank
          BY <3>1 DEF Kept
        <4>2. \A i \in 1 .. SockLen : o.mem[i] = NUL
          BY <4>1 DEF Blank
        <4> HIDE DEF m, k, c, n, l
        <4>3. ASSUME NEW i \in 2 .. n + 2 PROVE c[i] = m[i]
          <5>1. i \in 1 .. SockLen /\ i <= SockLen /\ i \in 2 .. SockLen
            BY <2>1
          <5>2. CASE i <= l
            <6>1. i \in 1 .. l
              BY <2>2, <5>1, <5>2
            <6> QED
              BY <2>2, <2>6, <4>1, <5>1, <5>2, <6>1
          <5>3. CASE ~(i <= l)
            <6>1. name = << >>
              BY <2>1, <2>2, <5>3
            <6>2. m[i] = NUL
              BY <2>1, <2>3, <2>4, <5>1, <6>1
            <6>3. c[i] = o.mem[i]
              BY <2>6, <5>1, <5>3
            <6> QED
              BY <4>2, <5>1, <6>2, <6>3
          <5> QED
            BY <5>2, <5>3
        <4> QED
          BY <4>3
      <3>2. CASE o.prior # {}
        <4>1. PICK p \in o.prior : TRUE
          BY <3>2
        <4>2. p \in Known
          BY <1>1, <4>1
        <4>3. name # << >> /\ n <= Len(p)
          <5>1. [o EXCEPT !.truth = name].truth = name /\ [o EXCEPT !.truth = name].prior = o.prior
            BY DEF Objects, ObjectType
          <5> QED
            BY <1>4, <4>1, <5>1 DEF Roomy
        <4>4. p # << >>
          <5>1. n # 0
            BY <4>3, KnownFits
          <5> QED
            BY <2>1, <4>3, <5>1
        <4>5. o.len = Len(p) + 2
          BY <1>4, <4>1, <4>2, <4>4, KernelAddressFits DEF Kept
        <4>6. l = n + 2 /\ l <= o.len
          BY <2>1, <2>2, <4>2, <4>3, <4>5, KnownFits
        <4> HIDE DEF m, k, c, n, l
        <4> QED
          BY <1>1, <2>1, <2>2, <2>6, <4>6
      <3> QED
        BY <3>1, <3>2
    <2>8. \A i \in 1 .. n : c[i + 1] = name[i]
      <3> HIDE DEF m, k, c, n
      <3> TAKE i \in 1 .. n
      <3>1. i + 1 \in 2 .. n + 2
        BY <2>1
      <3> QED
        BY <2>3, <2>7, <3>1
    <2>9. c[n + 2] = NUL
      <3> HIDE DEF m, k, c, n
      <3>1. n + 2 \in 2 .. n + 2 /\ n + 2 \in 2 .. SockLen /\ n + 2 > n + 1
        BY <2>1
      <3> QED
        BY <2>3, <2>7, <3>1
    <2> HIDE DEF c
    <2>10. path(c) = name
      BY <2>5, <2>8, <2>9, PathReads
    <2> QED
      BY <1>4, <2>10 DEF from_system_sockaddr, c
  <1> QED
    BY <1>3, <1>4

LEMMA HonestSteps ==
    ASSUME NEW o \in Objects, Honest(o)
    PROVE  /\ ~(o.state = "done") =>
                /\ \A fd \in Fds : Honest(Submitted(o, fd))
                /\ \A fd \in Fds, peer \in BOOLEAN :
                     Honest([Submitted(o, fd) EXCEPT !.peer = peer])
                /\ Honest(Failed(o))
                /\ \A ev \in Fds, name \in Known : Honest(Answered(o, ev, name))
           /\ o.state = "done" =>
                Honest(IF o.ev >= 0 THEN Reported(o) ELSE Dropped(o))
  <1>1. o \in ObjectType
    BY DEF Objects
  <1>2. ASSUME o.state # "done", NEW fd \in Fds PROVE Honest(Submitted(o, fd))
    BY <1>1, <1>2 DEF Honest, Kept, Submitted, ObjectType
  <1>3. ASSUME o.state # "done", NEW fd \in Fds, NEW peer \in BOOLEAN
        PROVE  Honest([Submitted(o, fd) EXCEPT !.peer = peer])
    BY <1>1, <1>3 DEF Honest, Kept, Submitted, ObjectType
  <1>4. ASSUME o.state # "done" PROVE Honest(Failed(o))
    BY <1>1, <1>4 DEF Honest, Kept, Failed, ObjectType, Error
  <1>5. ASSUME o.state # "done", NEW ev \in Fds, NEW name \in Known
        PROVE  Honest(Answered(o, ev, name))
    <2> DEFINE m == Copied(o.mem, o.len, KernelAddress(name))
               n == Len(KernelAddress(name))
               a == Answered(o, ev, name)
               b == [o EXCEPT !.truth = name]
    <2>1. Kept(o)
      BY <1>5 DEF Honest
    <2>2. a = [o EXCEPT !.state = "done", !.ev = ev, !.mem = m, !.len = n, !.truth = name]
      BY DEF Answered
    <2>3. Roomy(b) => from_system_sockaddr(m) = name
      BY <2>1, AnswerReads
    <2> HIDE DEF m, n, a
    <2>4. /\ a.state = "done" /\ a.ev = ev /\ a.mem = m /\ a.len = n
          /\ a.truth = name /\ a.prior = o.prior
          /\ b.truth = name /\ b.prior = o.prior
      BY <1>1, <2>2 DEF ObjectType
    <2> HIDE DEF b
    <2>5. Roomy(a) => Roomy(b)
      BY <2>4 DEF Roomy
    <2>6. Told(a)
      BY <2>3, <2>4, <2>5 DEF Told, n
    <2>7. ev >= 0
      BY SocketsAssumption DEF Fds
    <2>8. Honest(a)
      BY <2>4, <2>6, <2>7 DEF Honest
    <2> QED
      BY <2>8 DEF a
  <1>6. ASSUME o.state = "done", o.ev >= 0 PROVE Honest(Reported(o))
    <2> DEFINE a == Reported(o)
    <2>1. Told(o)
      BY <1>6 DEF Honest
    <2>2. a.state = "idle" /\ a.len = o.len /\ a.prior = {o.truth}
      BY <1>1 DEF Reported, ObjectType
    <2> HIDE DEF a
    <2>3. Kept(a)
      BY <2>1, <2>2 DEF Told, Kept
    <2>4. Honest(a)
      BY <2>2, <2>3 DEF Honest
    <2> QED
      BY <2>4 DEF a
  <1>7. ASSUME o.state = "done", ~(o.ev >= 0) PROVE Honest(Dropped(o))
    BY <1>1, <1>7 DEF Honest, Kept, Dropped, ObjectType
  <1> QED
    BY <1>2, <1>3, <1>4, <1>5, <1>6, <1>7

LEMMA InitHonest == Init => HonestInv
  BY InitOwn DEF Init, HonestInv, Honest, Kept, Idle

LEMMA NextHonest == HonestInv /\ [Next]_vars => HonestInv'
  <1> SUFFICES ASSUME HonestInv, [Next]_vars PROVE HonestInv'
    OBVIOUS
  <1>1. /\ OwnInv' /\ StateInv
        /\ acc \in Objects /\ Honest(acc)
        /\ nam \in Objects /\ Honest(nam)
    BY NextOwn DEF HonestInv, OwnInv, StateInv
  <1>2. ASSUME NEW fd \in Fds, SubmitAccept(fd) PROVE HonestInv'
    <2>1. acc.state # "done" /\ acc' = Submitted(acc, fd) /\ nam' = nam
      BY <1>2 DEF SubmitAccept, Submitted
    <2> QED
      BY <1>1, <2>1, HonestSteps DEF HonestInv
  <1>3. CASE KernelAccept
    <2>1. nam' = nam /\ acc.state # "done"
      BY <1>3 DEF KernelAccept
    <2>2. CASE Accepts(acc.fd) /\ acc' = Answered(acc, LowestFree, Head(sock[acc.fd].queue))
      <3>1. LowestFree \in Fds /\ Head(sock[acc.fd].queue) \in Known
        BY <1>1, <2>2, AcceptsOne
      <3>2. Honest(acc')
        BY <1>1, <2>1, <2>2, <3>1, HonestSteps
      <3> QED
        BY <1>1, <2>1, <3>2 DEF HonestInv
    <2>3. CASE acc' = Failed(acc)
      BY <1>1, <2>1, <2>3, HonestSteps DEF HonestInv
    <2> QED
      BY <1>1, <1>3, <2>2, <2>3, KernelAcceptStep
  <1>4. CASE AcceptCallback
    <2>1. /\ nam' = nam /\ acc.state = "done"
          /\ acc' = IF acc.ev >= 0 THEN Reported(acc) ELSE Dropped(acc)
      BY <1>4 DEF AcceptCallback, IsDescriptor, Dropped
    <2>2. Honest(acc')
      BY <1>1, <2>1, HonestSteps
    <2> QED
      BY <1>1, <2>1, <2>2 DEF HonestInv
  <1>5. ASSUME NEW fd \in Fds, NEW peer \in BOOLEAN, SubmitGetsockname(fd, peer)
        PROVE  HonestInv'
    <2>1. /\ nam.state # "done" /\ acc' = acc
          /\ nam' = [Submitted(nam, fd) EXCEPT !.peer = peer]
      BY <1>1, <1>5 DEF SubmitGetsockname, Submitted, Objects, ObjectType
    <2>2. Honest(nam')
      BY <1>1, <2>1, HonestSteps
    <2> QED
      BY <1>1, <2>1, <2>2 DEF HonestInv
  <1>6. CASE KernelGetsockname
    <2>1. 0 \in Fds
      BY SocketsAssumption DEF Fds
    <2>3. acc' = acc /\ nam.state # "done"
      BY <1>6 DEF KernelGetsockname
    <2>2. Honest(nam')
      BY <1>1, <1>6, <2>1, <2>3, KernelGetsocknameStep, HonestSteps
    <2> QED
      BY <1>1, <2>2, <2>3 DEF HonestInv
  <1>7. CASE GetsocknameCallback
    <2>1. /\ acc' = acc /\ nam.state = "done"
          /\ nam' = IF nam.ev >= 0 THEN Reported(nam) ELSE Dropped(nam)
      BY <1>7 DEF GetsocknameCallback, Dropped
    <2>2. Honest(nam')
      BY <1>1, <2>1, HonestSteps
    <2> QED
      BY <1>1, <2>1, <2>2 DEF HonestInv
  <1>8. ASSUME UNCHANGED <<acc, nam>> PROVE HonestInv'
    BY <1>1, <1>8 DEF HonestInv
  <1>9. ASSUME NEW fd \in Fds,
               \/ Open
               \/ \E name \in Bound : Bind(fd, name)
               \/ \E asked \in Backlogs : Listen(fd, asked)
               \/ \E name \in Bound, own \in Names \cup {<< >>} : Connect(fd, name, own)
               \/ SubmitMultishot(fd) \/ KernelMultishot \/ MultishotCallback
               \/ \E v \in OptionValues : SetOption(fd, v)
               \/ GetOption(fd) \/ Shutdown(fd) \/ Close(fd)
               \/ UNCHANGED vars
        PROVE  HonestInv'
    BY <1>8, <1>9 DEF Open, Bind, Listen, Connect, SubmitMultishot, KernelMultishot,
                      MultishotCallback, SetOption, GetOption, Shutdown, Close, vars
  <1>10. 0 \in Fds
    BY SocketsAssumption DEF Fds
  <1>11. CASE Open \/ KernelMultishot \/ MultishotCallback \/ UNCHANGED vars
    BY <1>9, <1>10, <1>11
  <1> QED
    BY <1>2, <1>3, <1>4, <1>5, <1>6, <1>7, <1>9, <1>11 DEF Next

\* However often its object is submitted again, an accept reports the peer that
\* connected and getsockname the socket's name, in either domain, as long as the
\* length that the object kept has room for the answer (the do_callbacks of
\* socket_accept and socket_getsockname, and path()).
THEOREM ReportsAreTrue == Spec => []ReportsTruth
  <1>1. HonestInv => ReportsTruth
    BY DEF HonestInv, Honest, Told, ReportsTruth
  <1> QED
    BY <1>1, InitHonest, NextHonest, PTL DEF Spec
=============================================================================
