----------------------------- MODULE FixedFiles -----------------------------
(***************************************************************************)
(* The direct descriptor table of a ring and the operations that put files *)
(* into it and take them out: fixed_file_open, fixed_file_register,        *)
(* fixed_file_register_batch, fixed_file_install and file_close of         *)
(* iouops/file/openclose.hpp, with fixed_socket_open of sockprep.hpp and   *)
(* fixed_socket_accept of connection.hpp, which decode the same way.       *)
(*                                                                         *)
(* A fixed_file is a plain index, "NOT a RAII wrapper": what it stands for *)
(* is whatever the table holds at that index.  A fixed_connection is a     *)
(* fixed_socket (a copy of the listener's) with an index of its own, and   *)
(* operations that take a fixed_file see the listener's.  Next to each     *)
(* handle that a callback delivered the model keeps the file that the      *)
(* caller had asked for.  The table and the descriptor table of the        *)
(* process belong to the kernel.                                           *)
(***************************************************************************)
EXTENDS Integers, Sequences, FiniteSets

CONSTANTS
    Files,       \* open file descriptions (files, sockets, connections)
    NSlots,      \* size of the direct descriptor table
    Fds,         \* descriptors the process may use, a finite set of naturals
    Indexes,     \* explicit indexes that the caller passes to index()
    Offsets,     \* explicit offsets that the caller passes to offset()
    FileOpsOnConnections, \* does the caller pass a fixed_connection to the
                 \* operations of fileops, which take a fixed_file?
    ReusesAllocated, \* does the caller submit a register object again, without
                 \* file(), after a registration with an allocated slot?
    MaxHandles,  \* bound: handles held at a time
    None

ASSUME FixedFilesAssumption ==
    /\ NSlots \in Nat \ {0}
    /\ Fds \subseteq Nat
    /\ IsFiniteSet(Fds)
    /\ Indexes \subseteq 0..(NSlots - 1)
    /\ Offsets \subseteq 0..(NSlots - 1)
    /\ FileOpsOnConnections \in BOOLEAN
    /\ ReusesAllocated \in BOOLEAN
    /\ MaxHandles \in Nat
    /\ None \notin Files

Slots == 0..(NSlots - 1)
alloc_index == -1            \* IORING_FILE_INDEX_ALLOC, distinct from any slot

VARIABLES
    registered, \* was the table registered?
    range,    \* slots that the kernel may allocate from
    table,    \* table[i]: the file in slot i, or None
    fdtab,    \* fdtab[d]: the file behind descriptor d of the process, or None
    handles,  \* fixed_file, fixed_socket and fixed_connection values held by
              \* the program, each with the file that it was delivered for
    reg       \* a fixed_file_register_operation: its fd member, and the
              \* descriptor that the caller passed to file() last

tableVars == <<registered, range, table, fdtab, handles>>
vars == <<tableVars, reg>>

\* index is what index() of the most derived class returns, base what index()
\* of its fixed_file subobject returns; file is None if the caller asked for a
\* descriptor that is not open.
Handle == [kind : {"file", "socket", "connection"}, index : Slots, base : Slots,
           file : Files \cup {None}]

FixedFile(i, f)     == [kind |-> "file", index |-> i, base |-> i, file |-> f]
FixedSocket(i, f)   == [kind |-> "socket", index |-> i, base |-> i, file |-> f]
FixedConnection(s, i, f) ==
    [kind |-> "connection", index |-> i, base |-> s.base, file |-> f]

Init ==
    /\ registered = FALSE
    /\ range = {}
    /\ table = [i \in Slots |-> None]
    /\ fdtab \in [Fds -> Files \cup {None}]
    /\ \A d, e \in Fds : fdtab[d] = fdtab[e] /\ d # e => fdtab[d] = None
    /\ handles = {}
    /\ reg = [fd |-> -1, asked |-> -1]

\* register_direct_descriptor_table(size, all_alloc): a sparse table.  The
\* kernel allocates from all of it, which all_alloc says once more.
RegisterTable ==
    /\ ~registered
    /\ registered' = TRUE
    /\ range' = Slots
    /\ UNCHANGED <<table, fdtab, handles, reg>>

\* Mutant: the length is passed as the last slot of the range.
AllocRangeInclusive(offset, length) ==
    /\ registered
    /\ range' = offset..(offset + length)
    /\ UNCHANGED <<registered, table, fdtab, handles, reg>>

\* register_direct_descriptor_table_alloc_range: an error unless the range is
\* a part of the table.  Files outside of the new range stay where they are.
AllocRange(offset, length) ==
    /\ registered
    /\ offset + length <= NSlots
    /\ range' = {i \in Slots : offset <= i /\ i < offset + length}
    /\ UNCHANGED <<registered, table, fdtab, handles, reg>>

\* An open, a socket or an accept makes a file that is nowhere yet.
Fresh(f) == f \notin {table[i] : i \in Slots} \cup {fdtab[d] : d \in Fds}

Room == Cardinality(handles) < MaxHandles

\* Where the kernel puts a file: any free slot of the range, or the slot that
\* was asked for (the caller asks for a free one).
Placements(want) ==
    {i \in IF want = alloc_index THEN range ELSE {want} :
       registered /\ table[i] = None}

\* cqe->res of openat2, socket and accept with a direct descriptor: the slot
\* that was allocated, or 0 when the slot was given.
DirectResult(want, slot) == IF want = alloc_index THEN slot ELSE 0

\* A new file comes into the table and the callback receives made[ev].
PlaceDirect(f, want, made) ==
    /\ Room
    /\ Fresh(f)
    /\ \E slot \in Placements(want) :
         /\ table' = [table EXCEPT ![slot] = f]
         /\ handles' = handles \cup {made[DirectResult(want, slot)]}
    /\ UNCHANGED <<registered, range, fdtab, reg>>

\* Mutant: the handle is made from a constant instead of ev.
OpenDirectAtZero(f, want) ==
    PlaceDirect(f, want, [ev \in Slots |-> FixedFile(0, f)])

\* fixed_file_open_operation with index(want).
OpenDirect(f, want) ==
    PlaceDirect(f, want, [ev \in Slots |-> FixedFile(ev, f)])

\* fixed_socket_open_operation with index(want).
SocketDirect(f, want) ==
    PlaceDirect(f, want, [ev \in Slots |-> FixedSocket(ev, f)])

\* fixed_socket_accept with index(want), on a listening socket of the table.
AcceptDirect(listener, f, want) ==
    /\ listener \in handles
    /\ listener.kind = "socket"
    /\ table[listener.index] # None
    /\ PlaceDirect(f, want, [ev \in Slots |-> FixedConnection(listener, ev, f)])

\* One completion of fixed_socket_multishot_accept_operation: always a new slot.
MultishotAcceptDirect(listener, f) == AcceptDirect(listener, f, alloc_index)

\* The object before build(): file(d) sets fd, and a caller that leaves it out
\* (None) means the descriptor it passed last.
RegisterMembers(d) == IF d = None THEN reg ELSE [fd |-> d, asked |-> d]

\* Is fd still what the caller passed, or does the caller not care?
MaySubmitAgain == reg.fd # -1 /\ (ReusesAllocated \/ reg.fd = reg.asked)

\* fixed_file_register_operation: with alloc_index the kernel stores the slot in
\* the fd member of the object, where it stays; do_callback makes the handle
\* from fd or off.  A descriptor that is not open is an error, and so is a range
\* without a free slot.
RegisterFile(d, off) ==
    LET m == RegisterMembers(d)
        works == registered /\ m.fd \in Fds /\ fdtab[m.fd] # None
                 /\ (off = alloc_index => Placements(off) # {})
    IN
    /\ Room
    /\ d = None => MaySubmitAgain
    /\ IF works
       THEN \E slot \in Placements(off) :
              LET fd == IF off = alloc_index THEN slot ELSE m.fd
              IN /\ table' = [table EXCEPT ![slot] = fdtab[m.fd]]
                 /\ handles' = handles \cup
                      {FixedFile(IF off = alloc_index THEN fd ELSE off, fdtab[m.asked])}
                 /\ reg' = [m EXCEPT !.fd = fd]
       ELSE /\ reg' = m
            /\ UNCHANGED <<table, handles>>
    /\ UNCHANGED <<registered, range, fdtab>>

\* The slots for a batch, in order: free ones of the range, or off, off + 1...
BatchSlots(n, off) ==
    {s \in [1..n -> Slots] :
       /\ registered
       /\ \A i, j \in 1..n : i # j => s[i] # s[j]
       /\ \A i \in 1..n : table[s[i]] = None
       /\ IF off = alloc_index THEN \A i \in 1..n : s[i] \in range
          ELSE \A i \in 1..n : s[i] = off + i - 1}

\* The file_index span after do_callback: with alloc_index the kernel has stored
\* the slots of the first n entries in their place; if an offset was given
\* do_callback writes off + i over ALL entries.
FileIndex(ds, n, s, off) ==
    IF off = alloc_index THEN [i \in 1..Len(ds) |-> IF i <= n THEN s[i] ELSE ds[i]]
    ELSE [i \in 1..Len(ds) |-> off + i - 1]

\* fixed_file_register_batch_operation: the kernel registers a first part of
\* the descriptors, up to one that is not open or until the range is full.  The
\* caller makes handles from the first `allocated' entries of file_index.
RegisterBatch(ds, off) ==
    \E n \in 1..Len(ds) :
      /\ Cardinality(handles) + n <= MaxHandles
      /\ \A i \in 1..n : fdtab[ds[i]] # None
      /\ n < Len(ds) => \/ fdtab[ds[n + 1]] = None
                        \/ off = alloc_index /\ BatchSlots(n + 1, off) = {}
      /\ \E s \in BatchSlots(n, off) :
           /\ table' = [i \in Slots |->
                          IF \E k \in 1..n : s[k] = i
                          THEN fdtab[ds[CHOOSE k \in 1..n : s[k] = i]]
                          ELSE table[i]]
           /\ handles' = handles \cup
                {FixedFile(FileIndex(ds, n, s, off)[i], fdtab[ds[i]]) : i \in 1..n}
      /\ UNCHANGED <<registered, range, fdtab, reg>>

\* The operations of fileops take any of the handles as a fixed_file.
AsFixedFile(h) ==
    /\ h \in handles
    /\ h.kind = "connection" => FileOpsOnConnections

\* The kernel empties slot i; an error if it is empty.
CloseSlot(h, i) ==
    /\ table[i] # None
    /\ table' = [table EXCEPT ![i] = None]
    /\ handles' = handles \ {h}
    /\ UNCHANGED <<registered, range, fdtab, reg>>

\* Mutant: is_fixed is not set, the descriptor of that number is closed.
CloseFixedAsFd(h) ==
    /\ AsFixedFile(h)
    /\ handles' = handles \ {h}
    /\ fdtab' = [d \in Fds |-> IF d = h.index THEN None ELSE fdtab[d]]
    /\ UNCHANGED <<registered, range, table, reg>>

\* file_close_operation: file(const fixed_file&) reads index() of fixed_file.
CloseFixed(h) == AsFixedFile(h) /\ CloseSlot(h, h.base)

\* socket_close_operation: an overload for sockets and one for connections.
SocketCloseFixed(h) ==
    /\ h \in handles
    /\ h.kind # "file"
    /\ CloseSlot(h, h.index)

\* fixed_file_install_operation: a new descriptor for the file in the slot.
Install(h, d) ==
    /\ AsFixedFile(h)
    /\ table[h.base] # None
    /\ fdtab[d] = None
    /\ fdtab' = [fdtab EXCEPT ![d] = table[h.base]]
    /\ UNCHANGED <<registered, range, table, handles, reg>>

\* file_close_operation on a file.
CloseFd(d) ==
    /\ fdtab[d] # None
    /\ fdtab' = [fdtab EXCEPT ![d] = None]
    /\ UNCHANGED <<registered, range, table, handles, reg>>

Next ==
    \/ RegisterTable
    \/ \E offset, length \in 0..NSlots : AllocRange(offset, length)
    \/ \E f \in Files, want \in {alloc_index} \cup Indexes :
         \/ OpenDirect(f, want)
         \/ SocketDirect(f, want)
         \/ \E h \in handles : AcceptDirect(h, f, want)
    \/ \E h \in handles, f \in Files : MultishotAcceptDirect(h, f)
    \/ \E d \in Fds \cup {None}, off \in {alloc_index} \cup Offsets : RegisterFile(d, off)
    \/ \E d, e \in Fds, off \in {alloc_index} \cup Offsets :
         d # e /\ RegisterBatch(<<d, e>>, off)
    \/ \E h \in handles : CloseFixed(h)
    \/ \E h \in handles : SocketCloseFixed(h)
    \/ \E h \in handles, d \in Fds : Install(h, d)
    \/ \E d \in Fds : CloseFd(d)

Spec == Init /\ [][Next]_vars

-----------------------------------------------------------------------------
(* Properties *)

\* The two tables and the handles have their types: a slot or a descriptor holds
\* at most one file, the allocation range lies within the table, and a register
\* object that was given no file has no descriptor either.
TypeOK ==
    /\ registered \in BOOLEAN
    /\ range \subseteq Slots
    /\ table \in [Slots -> Files \cup {None}]
    /\ fdtab \in [Fds -> Files \cup {None}]
    /\ handles \subseteq Handle
    /\ reg \in [fd : Int, asked : {-1} \cup Fds]
    /\ reg.asked = -1 => reg.fd = -1

\* Every handle that a callback delivered stands for the file that the caller
\* asked for, through any sequence of opens, registrations, installs and
\* closes by index (so that no read, write or close hits another file).
HandlesMeanFiles ==
    \A h \in handles : h.index \in Slots /\ table[h.index] = h.file

\* No file stays in the table without a handle that can close it.
NoLeak == \A i \in Slots : table[i] # None => \E h \in handles : h.index = i
=============================================================================
