------------------------------- MODULE Sockets -------------------------------
(***************************************************************************)
(* Stream sockets: opening, binding, listening, connecting, accepting (one   *)
(* shot with the peer's address, and multishot), getsockname, socket         *)
(* options, shutdown and closing                                             *)
(* (src/include/iouxx/iouops/network/{sockprep,connection,sockcmd,uds}.hpp). *)
(*                                                                           *)
(* accept and getsockname give the kernel a sockaddr inside the operation    *)
(* object together with its length, an in/out argument the object sets once, *)
(* when it is constructed.  The object may be submitted again, so both are    *)
(* state here: a sockaddr is a sequence of SockLen cells, and the kernel      *)
(* writes as many of them as the length it reads allows.                      *)
(*                                                                           *)
(* The other operations are submitted and awaited (make_sync), one step each. *)
(***************************************************************************)
EXTENDS Integers, Sequences, FiniteSets

CONSTANTS
    Domain,         \* "ipv4" or "unix": the domain of every socket
    Characters,     \* what names are made of
    Names,          \* the names sockets can have: sequences of characters
    Bound,          \* those of them the program binds sockets to
    MaxFd,          \* file descriptors are 0 .. MaxFd
    SOMAXCONN,      \* scaled down
    INT_MAX,
    Backlogs,       \* the arguments of backlog()
    OptionKind,     \* "bool", "int" or "string": the base class of the option
    OptionValues,   \* the values option() is called with
    DefaultOption,  \* the value a new socket has
    Programs,       \* the programs: each a set of the operations it uses
    MaxOpens,       \* bounds on the number of socket_open operations,
    MaxConnects,    \* of connections
    MaxCalls        \* and of accept, getsockname and option operations

ASSUME SocketsAssumption ==
    /\ Domain \in {"ipv4", "unix"} /\ Bound \subseteq Names
    /\ OptionKind \in {"bool", "int", "string"}
    /\ DefaultOption \in OptionValues
    /\ OptionKind = "bool" => OptionValues \subseteq BOOLEAN
    /\ INT_MAX \in Nat /\ SOMAXCONN \in 1 .. INT_MAX
    /\ MaxFd \in Nat /\ Backlogs \subseteq Nat
    /\ MaxOpens \in Nat /\ MaxConnects \in Nat /\ MaxCalls \in Nat

Fds == 0 .. MaxFd
None == -1
Error == -2         \* the negated errno of a failed operation

VARIABLES
    uses,       \* which of "accept", "multishot", "names" and "options"
    sock,       \* the kernel's sockets
    held,       \* the descriptors of the handles the program has
    acc,        \* a socket_accept<Info>::operation object
    mul,        \* a socket_multishot_accept_operation object
    nam,        \* a socket_getsockname<Info>::operation object
    opt,        \* every socket_getoption the kernel carried out reported
                \* the value last set
    opens, connects, calls

vars == <<uses, sock, held, acc, mul, nam, opt, opens, connects, calls>>

-----------------------------------------------------------------------------
(* Socket addresses. *)

NUL == "nul"

\* sizeof(sockaddr_in): the family and the address.  sizeof(sockaddr_un): the
\* family and a path of at most three characters and its terminator.
SockLen == IF Domain = "ipv4" THEN 2 ELSE 5

\* A name fits into its structure, a path with its terminator.
ASSUME NamesAssumption ==
    /\ NUL \notin Characters
    /\ Names \subseteq Seq(Characters)
    /\ \A name \in Names : Len(name) \in 1 .. (IF Domain = "ipv4" THEN 1 ELSE 3)

Blank == [i \in 1 .. SockLen |-> NUL]

\* socket_v4_info::to_system_sockaddr; no name is the address of zeros.
sockaddr_in(name) == <<"ipv4", IF name = << >> THEN NUL ELSE name[1]>>

\* uds_info: the path and its terminator in a structure of zeros.
sockaddr_un(name) ==
    [i \in 1 .. 5 |-> IF i = 1 THEN "unix"
                      ELSE IF i - 1 <= Len(name) THEN name[i - 1] ELSE NUL]

to_system_sockaddr(name) == IF Domain = "ipv4" THEN sockaddr_in(name) ELSE sockaddr_un(name)

\* socket_v4_info::from_system_sockaddr.
v4_info(mem) == IF mem[2] = NUL THEN << >> ELSE <<mem[2]>>

\* Mutant of path: the array without the zeros it ends with.
pathOfArray(mem) ==
    LET used == {i \in 2 .. SockLen : mem[i] # NUL} \cup {1}
        last == CHOOSE i \in used : \A j \in used : j <= i
    IN  SubSeq(mem, 2, last)

\* uds_info::path of a copied structure: it stops at the first terminator.
path(mem) ==
    LET ends == {i \in 2 .. SockLen : mem[i] = NUL} \cup {SockLen + 1}
        stop == CHOOSE i \in ends : \A j \in ends : i <= j
    IN  SubSeq(mem, 2, stop - 1)

from_system_sockaddr(mem) == IF Domain = "ipv4" THEN v4_info(mem) ELSE path(mem)

\* What the kernel answers with: a whole sockaddr_in; in the unix domain no
\* more of a path than its terminator, and the family only without a name.
KernelAddress(name) ==
    IF Domain = "ipv4" THEN to_system_sockaddr(name)
    ELSE SubSeq(to_system_sockaddr(name), 1, IF name = << >> THEN 1 ELSE Len(name) + 2)

\* move_addr_to_user: the cells the given length has room for.
Copied(mem, len, address) ==
    [i \in 1 .. SockLen |-> IF i <= len /\ i <= Len(address) THEN address[i] ELSE mem[i]]

-----------------------------------------------------------------------------
(* The kernel's side. *)

\* The optval bases: what option() stores, and what result() makes of it.
OptVal(v) == IF OptionKind = "bool" THEN (IF v THEN 1 ELSE 0) ELSE v
OptResult(val) == IF OptionKind = "bool" THEN val # 0 ELSE val

Closed == [state |-> "closed", name |-> << >>, peer |-> << >>, queue |-> << >>,
           backlog |-> 0, option |-> OptVal(DefaultOption), asked |-> DefaultOption]
Fresh == [Closed EXCEPT !.state = "open"]

Free == {fd \in Fds : sock[fd].state = "closed"}
LowestFree == CHOOSE fd \in Free : \A other \in Free : fd <= other

NamesInUse == {sock[fd].name : fd \in Fds}

\* Operations in flight hold on to the socket they were given.
Busy == {o.fd : o \in {x \in {acc, nam} : x.state = "waiting"}}
        \cup (IF mul.live THEN {mul.fd} ELSE {})

\* An accepted socket is a copy of the listener with a peer.
Accepted(l) == [sock[l] EXCEPT !.state = "connected", !.queue = << >>,
                               !.backlog = 0, !.peer = Head(sock[l].queue)]

-----------------------------------------------------------------------------
(* What the callbacks make of a completion. *)

\* Mutant of IsDescriptor: descriptor 0 is taken for a failure.
IsPositive(ev) == ev > 0

\* if (ev > 0): the length of the value, and not a failure.
GotOption(ev) == ev > 0

\* if (ev >= 0): a descriptor, and not a failure.
IsDescriptor(ev) == ev >= 0

\* Mutant of MoreFollows: a result always announces another one.
AlwaysMore(flags) == TRUE

\* (cqe_flags & IORING_CQE_F_MORE) != 0.
MoreFollows(flags) == "more" \in flags

-----------------------------------------------------------------------------

\* A new operation object: its structure and length, and the result it waits
\* for.  truth is the name that the kernel answered with, and prior, a set of
\* at most one name, the one it answered with before.
Idle == [state |-> "idle", fd |-> None, mem |-> Blank, len |-> SockLen, ev |-> None,
         peer |-> FALSE, truth |-> << >>, prior |-> {}]

Init ==
    /\ uses \in Programs
    /\ sock = [fd \in Fds |-> Closed]
    /\ held = {}
    /\ acc = Idle
    /\ nam = Idle
    /\ mul = [armed |-> FALSE, live |-> FALSE, fd |-> None, cqes |-> << >>]
    /\ opt = TRUE
    /\ opens = 0 /\ connects = 0 /\ calls = 0

\* socket_open_operation.
Open ==
    /\ Free # {} /\ opens < MaxOpens
    /\ sock' = [sock EXCEPT ![LowestFree] = Fresh]
    /\ held' = IF IsDescriptor(LowestFree) THEN held \cup {LowestFree} ELSE held
    /\ opens' = opens + 1
    /\ UNCHANGED <<uses, acc, mul, nam, opt, connects, calls>>

\* socket_bind: the kernel reads the structure the operation holds.
Bind(fd, name) ==
    /\ fd \in held /\ sock[fd].state = "open" /\ sock[fd].name = << >>
    /\ name \notin NamesInUse
    /\ sock' = [sock EXCEPT ![fd].name = from_system_sockaddr(to_system_sockaddr(name))]
    /\ UNCHANGED <<uses, held, acc, mul, nam, opt, opens, connects, calls>>

\* Mutant of backlog: what is asked, whatever the kernel allows.
backlogAsked(asked) == asked

\* std::clamp: never less than SOMAXCONN, whatever is asked.
backlog(asked) == IF asked < SOMAXCONN THEN SOMAXCONN
                  ELSE IF asked > INT_MAX THEN INT_MAX ELSE asked

\* socket_listen_operation; the kernel caps the backlog.
Listen(fd, asked) ==
    /\ fd \in held /\ sock[fd].state = "open" /\ sock[fd].name # << >>
    /\ sock' = [sock EXCEPT ![fd].state = "listening",
                            ![fd].backlog = IF backlog(asked) > SOMAXCONN THEN SOMAXCONN
                                            ELSE backlog(asked)]
    /\ UNCHANGED <<uses, held, acc, mul, nam, opt, opens, connects, calls>>

\* socket_connect: the client's socket gets a name if it has none (not in the
\* unix domain) and waits in the listener's queue.
Connect(fd, name, own) ==
    LET address == from_system_sockaddr(to_system_sockaddr(name))
        local == IF sock[fd].name # << >> \/ Domain = "unix" THEN sock[fd].name ELSE own
    IN  /\ fd \in held /\ sock[fd].state = "open" /\ connects < MaxConnects
        /\ own = local \/ (sock[fd].name = << >> /\ own \notin NamesInUse)
        /\ \E l \in Fds :
             /\ sock[l].state = "listening" /\ sock[l].name = address
             /\ Len(sock[l].queue) < sock[l].backlog
             /\ sock' = [sock EXCEPT ![l].queue = Append(@, local),
                                     ![fd].state = "connected",
                                     ![fd].name = local, ![fd].peer = address]
        /\ connects' = connects + 1
        /\ UNCHANGED <<uses, held, acc, mul, nam, opt, opens, calls>>

\* A do_callback has read the structure: the object is idle, and keeps the
\* structure and the length as they are.
Reported(o) ==
    [o EXCEPT !.state = "idle", !.ev = None, !.truth = << >>, !.prior = {o.truth}]

-----------------------------------------------------------------------------
(* socket_accept<Info>::operation. *)

\* submit: build passes sockaddr and addrlen_out as the last run left them.
SubmitAccept(fd) ==
    /\ "accept" \in uses
    /\ acc.state = "idle" /\ fd \in held /\ calls < MaxCalls
    /\ sock[fd].state = "listening"
    /\ acc' = [acc EXCEPT !.state = "waiting", !.fd = fd]
    /\ calls' = calls + 1
    /\ UNCHANGED <<uses, sock, held, mul, nam, opt, opens, connects>>

\* The kernel takes the first of the queue, or fails: no descriptor is left,
\* or the socket does not listen any more.
KernelAccept ==
    LET l == acc.fd
    IN  /\ acc.state = "waiting"
        /\ \/ /\ sock[l].state = "listening" /\ sock[l].queue # << >> /\ Free # {}
              /\ LET address == KernelAddress(Head(sock[l].queue))
                 IN  acc' = [acc EXCEPT !.state = "done", !.ev = LowestFree,
                                        !.mem = Copied(acc.mem, acc.len, address),
                                        !.len = Len(address),
                                        !.truth = Head(sock[l].queue)]
              /\ sock' = [sock EXCEPT ![LowestFree] = Accepted(l), ![l].queue = Tail(@)]
           \/ /\ sock[l].state # "listening" \/ (sock[l].queue # << >> /\ Free = {})
              /\ acc' = [acc EXCEPT !.state = "done", !.ev = Error]
              /\ sock' = sock
        /\ UNCHANGED <<uses, held, mul, nam, opt, opens, connects, calls>>

\* do_callback: the handle, and the peer read from the structure.
AcceptCallback ==
    /\ acc.state = "done"
    /\ IF IsDescriptor(acc.ev)
       THEN /\ acc' = Reported(acc)
            /\ held' = held \cup {acc.ev}
       ELSE /\ acc' = [acc EXCEPT !.state = "idle", !.ev = None]
            /\ held' = held
    /\ UNCHANGED <<uses, sock, mul, nam, opt, opens, connects, calls>>

-----------------------------------------------------------------------------
(* socket_multishot_accept_operation: armed is what the program knows, live   *)
(* what the kernel does.                                                      *)

SubmitMultishot(fd) ==
    /\ "multishot" \in uses
    /\ ~mul.armed /\ fd \in held
    /\ sock[fd].state = "listening"
    /\ mul' = [mul EXCEPT !.armed = TRUE, !.live = TRUE, !.fd = fd]
    /\ UNCHANGED <<uses, sock, held, acc, nam, opt, opens, connects, calls>>

\* The kernel may end the request with any result (a full completion queue),
\* and always ends it with an error.
KernelMultishot ==
    LET l == mul.fd
    IN  /\ mul.live
        /\ \/ /\ sock[l].state = "listening" /\ sock[l].queue # << >> /\ Free # {}
              /\ \E flags \in SUBSET {"more"} :
                   mul' = [mul EXCEPT !.live = (flags # {}),
                                      !.cqes = Append(@, [ev |-> LowestFree, flags |-> flags])]
              /\ sock' = [sock EXCEPT ![LowestFree] = Accepted(l), ![l].queue = Tail(@)]
           \/ /\ sock[l].state # "listening" \/ (sock[l].queue # << >> /\ Free = {})
              /\ mul' = [mul EXCEPT !.live = FALSE,
                                    !.cqes = Append(@, [ev |-> Error, flags |-> {}])]
              /\ sock' = sock
        /\ UNCHANGED <<uses, held, acc, nam, opt, opens, connects, calls>>

\* do_callback; a result without more, or a failure, lets the program submit
\* the object again.
MultishotCallback ==
    /\ mul.cqes # << >>
    /\ LET cqe == Head(mul.cqes)
       IN  IF IsDescriptor(cqe.ev)
           THEN /\ held' = held \cup {cqe.ev}
                /\ mul' = [mul EXCEPT !.cqes = Tail(@), !.armed = MoreFollows(cqe.flags)]
           ELSE /\ held' = held
                /\ mul' = [mul EXCEPT !.cqes = Tail(@), !.armed = FALSE]
    /\ UNCHANGED <<uses, sock, acc, nam, opt, opens, connects, calls>>

-----------------------------------------------------------------------------
(* socket_getsockname<Info>::operation *)

SubmitGetsockname(fd, peer) ==
    /\ "names" \in uses
    /\ nam.state = "idle" /\ fd \in held /\ calls < MaxCalls
    /\ nam' = [nam EXCEPT !.state = "waiting", !.fd = fd, !.peer = peer]
    /\ calls' = calls + 1
    /\ UNCHANGED <<uses, sock, held, acc, mul, opt, opens, connects>>

\* The peer of a socket that has none is an error.
KernelGetsockname ==
    LET name == IF nam.peer THEN sock[nam.fd].peer ELSE sock[nam.fd].name
    IN  /\ nam.state = "waiting"
        /\ nam' = IF nam.peer /\ sock[nam.fd].state # "connected"
                  THEN [nam EXCEPT !.state = "done", !.ev = Error]
                  ELSE [nam EXCEPT !.state = "done", !.ev = 0,
                                   !.mem = Copied(nam.mem, nam.len, KernelAddress(name)),
                                   !.len = Len(KernelAddress(name)), !.truth = name]
        /\ UNCHANGED <<uses, sock, held, acc, mul, opt, opens, connects, calls>>

GetsocknameCallback ==
    /\ nam.state = "done"
    /\ nam' = IF nam.ev >= 0
              THEN Reported(nam)
              ELSE [nam EXCEPT !.state = "idle", !.ev = None]
    /\ UNCHANGED <<uses, sock, held, acc, mul, opt, opens, connects, calls>>

-----------------------------------------------------------------------------
(* Options, shutdown and close. *)

\* socket_setoption.
SetOption(fd, v) ==
    /\ "options" \in uses
    /\ fd \in held /\ calls < MaxCalls
    /\ sock' = [sock EXCEPT ![fd].option = OptVal(v), ![fd].asked = v]
    /\ calls' = calls + 1
    /\ UNCHANGED <<uses, held, acc, mul, nam, opt, opens, connects>>

\* The room getoption has for the value: an empty string has none.
OptLen == IF OptionKind = "string" THEN 0 ELSE 1

\* The kernel answers with the length it copied, 0 for an option that is not
\* set, and refuses a value there is no room for.
KernelOption(val) == IF OptLen = 0 /\ val # OptVal(DefaultOption) THEN Error ELSE OptLen

\* socket_getoption: what do_callback makes of an answer without an error.
GetOption(fd) ==
    /\ "options" \in uses
    /\ fd \in held /\ calls < MaxCalls
    /\ LET ev == KernelOption(sock[fd].option)
       IN  opt' = (opt /\ (ev = Error \/ (GotOption(ev) /\ OptResult(sock[fd].option) = sock[fd].asked)))
    /\ calls' = calls + 1
    /\ UNCHANGED <<uses, sock, held, acc, mul, nam, opens, connects>>

\* socket_shutdown_operation on a listener, with SHUT_RD among the options: it
\* stops listening and its queue goes.  On a connection it is the transfer of
\* data that changes, which is not in this module.
Shutdown(fd) ==
    /\ fd \in held /\ sock[fd].state = "listening"
    /\ sock' = [sock EXCEPT ![fd].state = "open", ![fd].queue = << >>, ![fd].backlog = 0]
    /\ UNCHANGED <<uses, held, acc, mul, nam, opt, opens, connects, calls>>

\* socket_close_operation, which the program does not start while another
\* operation uses the socket; the handle is not used again.
Close(fd) ==
    /\ fd \in held \ Busy
    /\ sock' = [sock EXCEPT ![fd] = Closed]
    /\ held' = held \ {fd}
    /\ UNCHANGED <<uses, acc, mul, nam, opt, opens, connects, calls>>

-----------------------------------------------------------------------------

Next ==
    \/ Open
    \/ \E fd \in Fds, name \in Bound : Bind(fd, name)
    \/ \E fd \in Fds, asked \in Backlogs : Listen(fd, asked)
    \/ \E fd \in Fds, name \in Bound, own \in Names \cup {<< >>} : Connect(fd, name, own)
    \/ \E fd \in Fds : SubmitAccept(fd)
    \/ KernelAccept
    \/ AcceptCallback
    \/ \E fd \in Fds : SubmitMultishot(fd)
    \/ KernelMultishot
    \/ MultishotCallback
    \/ \E fd \in Fds, peer \in BOOLEAN : SubmitGetsockname(fd, peer)
    \/ KernelGetsockname
    \/ GetsocknameCallback
    \/ \E fd \in Fds, v \in OptionValues : SetOption(fd, v)
    \/ \E fd \in Fds : GetOption(fd)
    \/ \E fd \in Fds : Shutdown(fd)
    \/ \E fd \in Fds : Close(fd)

\* The kernel and the event loop go on; the program keeps a listener's
\* multishot accept submitted and closes the connections it is done with.
Fairness ==
    /\ WF_vars(KernelMultishot)
    /\ WF_vars(MultishotCallback)
    /\ WF_vars(\E fd \in Fds : SubmitMultishot(fd))
    /\ WF_vars(\E fd \in Fds : sock[fd].state = "connected" /\ Close(fd))

Spec == Init /\ [][Next]_vars /\ Fairness

-----------------------------------------------------------------------------
(* Properties *)

Cells == {NUL, Domain} \cup Characters

\* Sockets, handles and operation objects have their types; the length an
\* object passes to the kernel is never more than the structure it describes
\* (addrlen_out, socklen_out).
TypeOK ==
    /\ held \subseteq Fds
    /\ \A fd \in Fds :
         /\ sock[fd].state \in {"closed", "open", "listening", "connected"}
         /\ sock[fd].name \in Names \cup {<< >>}
         /\ Len(sock[fd].queue) <= sock[fd].backlog
         /\ sock[fd].backlog \in {0, SOMAXCONN}
    /\ \A o \in {acc, nam} :
         /\ o.state \in {"idle", "waiting", "done"}
         /\ o.mem \in [1 .. SockLen -> Cells]
         /\ o.len \in 1 .. SockLen
    /\ uses \in Programs
    /\ mul.armed \in BOOLEAN /\ mul.live \in BOOLEAN
    /\ opens \in 0 .. MaxOpens /\ connects \in 0 .. MaxConnects /\ calls \in 0 .. MaxCalls

\* The kernel's answer fits into what the answer before it left of the length:
\* always the first time, and for structures of one length; a path that is no
\* longer than the last one.
Roomy(o) ==
    \/ Domain = "ipv4"
    \/ \A name \in o.prior : o.truth # << >> /\ Len(o.truth) <= Len(name)

\* However often an object is submitted again, the name that the callback of an
\* accept or a getsockname reads from the structure is the one that the kernel
\* answered with, as long as the length that the object kept has room for it:
\* nothing of a longer name before it is left (addrlen_out and socklen_out,
\* which are set once, and path()).
ReportsTruth ==
    \A o \in {acc, nam} :
        o.state = "done" /\ o.ev >= 0 /\ Roomy(o) => from_system_sockaddr(o.mem) = o.truth

\* An option whose value the kernel has returned reads as it was set (do_callback
\* of socket_getoption, which discards the length that the kernel answers with).
OptionReadsBack == opt

\* Every open descriptor is one the program has a handle of, or the result of
\* an accept whose callback is still to come: none is dropped on the way
\* (do_callback of the accepts, one result or many).
NoLeak ==
    {fd \in Fds : sock[fd].state # "closed"} =
        held \cup (IF acc.state = "done" /\ acc.ev >= 0 THEN {acc.ev} ELSE {})
             \cup {cqe.ev : cqe \in {mul.cqes[i] : i \in {j \in DOMAIN mul.cqes : mul.cqes[j].ev >= 0}}}

\* A connection that waits at the listener of the multishot accept is taken,
\* or the listener goes: the result that ends the request says so, and the
\* program submits it again (multishot_accept_result::more).
EveryoneAccepted ==
    \A l \in Fds :
        (mul.fd = l /\ sock[l].queue # << >>) ~>
            (mul.fd # l \/ sock[l].queue = << >> \/ sock[l].state # "listening")

\* from_system_sockaddr asserts that the length the kernel reports is that of
\* the whole structure (IOUXX_ASSERT in ip.hpp and uds.hpp).
LengthAsserted ==
    \A o \in {acc, nam} : o.state = "done" /\ o.ev >= 0 => o.len = SockLen

=============================================================================
