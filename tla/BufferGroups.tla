---------------------------- MODULE BufferGroups ----------------------------
(***************************************************************************)
(* The provided-buffer groups of class ring (include/iouxx/iouringxx.hpp): *)
(* the registry buffer_rings, one buffer_ring per group id, the            *)
(* buffer_group handles that point into it, and the part of the life of a  *)
(* ring that they depend on: do_init, exit and swap.                       *)
(*                                                                         *)
(* A buffer_ring frees its memory on the io_uring whose ADDRESS it stores, *)
(* the raw_ring member of the ring object that holds the registry, so what *)
(* is freed where depends on what that member contains at that time.  The  *)
(* kernel's side (which group of which io_uring instance uses which memory)*)
(* and liburing are external.                                              *)
(***************************************************************************)
EXTENDS Naturals, Sequences, FiniteSets

CONSTANTS
    Rings,      \* ring objects
    Bgids,      \* group ids, 0..65535 in the code
    Capacity,   \* entries of a group, a power of two and a std::uint16_t
    Bids,       \* buffer ids
    MaxInits,   \* bound: io_uring instances created in a behaviour
    MaxGroups,  \* bound: buffer rings set up in a behaviour
    SwapsAnything, \* does the caller swap rings that have groups, or a ring
                \* that was never initialised?
    Refinds     \* does the caller look a group up again before each insert?

\* The values of a std::uint16_t: of the tail, and of the number of entries.
TailSize == 2^16

ASSUME BufferGroupsAssumption ==
    /\ Capacity \in 1..(TailSize - 1)
    /\ MaxInits \in Nat
    /\ MaxGroups \in Nat
    /\ SwapsAnything \in BOOLEAN
    /\ Refinds \in BOOLEAN

VARIABLES
    raw,      \* raw[r]: the io_uring instance in r.raw_ring, 0 if invalid
    probe,    \* probe[r]: r.probe # nullptr
    entry,    \* entry[r][g]: the memory of r.buffer_rings[g], 0 if not valid()
    held,     \* <<r, g>> of the buffer_group handles that the caller keeps
    groups,   \* groups[u][g]: the memory that the kernel uses for group g of
              \* instance u, 0 if there is no such group
    mapped,   \* memory of buffer rings that is mapped
    slots,    \* slots[m][i]: the buffer id in slot i of the buffer ring m
    tail,     \* tail[m]: the tail of m, which the kernel reads
    given,    \* given[m]: the buffers that the caller has handed to m
    pc,       \* "run" or "crashed"
    ninit, ngroup

ringVars   == <<raw, probe>>
bufferVars == <<slots, tail, given>>
vars == <<ringVars, entry, held, groups, mapped, bufferVars, pc, ninit, ngroup>>

Mems  == 1..MaxGroups
Instances == 1..MaxInits
NoBid == 0

Init ==
    /\ raw = [r \in Rings |-> 0]
    /\ probe = [r \in Rings |-> FALSE]
    /\ entry = [r \in Rings |-> [g \in Bgids |-> 0]]
    /\ held = {}
    /\ groups = [u \in Instances |-> [g \in Bgids |-> 0]]
    /\ mapped = {}
    /\ slots = [m \in Mems |-> [i \in 0..(Capacity - 1) |-> NoBid]]
    /\ tail = [m \in Mems |-> 0]
    /\ given = [m \in Mems |-> <<>>]
    /\ pc = "run"
    /\ ninit = 0
    /\ ngroup = 0

-----------------------------------------------------------------------------
(* ~buffer_ring *)

\* io_uring_free_buf_ring for the entries gs of r, on what r.raw_ring is now:
\* unregister the group, and unmap the memory only if that succeeded.
Freed(r, gs)  == {g \in gs : entry[r][g] # 0 /\ raw[r] # 0 /\ groups[raw[r]][g] # 0}
Unmapped(r, gs) == mapped \ {entry[r][g] : g \in Freed(r, gs)}
Dropped(r, gs)  ==
    IF raw[r] = 0 THEN groups
    ELSE [groups EXCEPT ![raw[r]] =
            [g \in Bgids |-> IF g \in Freed(r, gs) THEN 0 ELSE @[g]]]

\* The entries gs of r after their destruction or assignment from buffer_ring{}.
Emptied(r, gs) ==
    [entry EXCEPT ![r] = [g \in Bgids |-> IF g \in gs THEN 0 ELSE @[g]]]

-----------------------------------------------------------------------------
(* The ring *)

\* do_init: io_uring_queue_init_params and the probe.
DoInit(r) ==
    /\ raw[r] = 0
    /\ ninit < MaxInits
    /\ ninit' = ninit + 1
    /\ raw' = [raw EXCEPT ![r] = ninit + 1]
    /\ probe' = [probe EXCEPT ![r] = TRUE]
    /\ UNCHANGED <<entry, held, groups, mapped, bufferVars, pc, ngroup>>

\* Mutant: io_uring_queue_exit before the registry is cleared.
ExitBeforeClear(r) ==
    /\ raw[r] # 0
    /\ raw' = [raw EXCEPT ![r] = 0]
    /\ probe' = [probe EXCEPT ![r] = FALSE]
    /\ entry' = Emptied(r, Bgids)
    /\ groups' = [groups EXCEPT ![raw[r]] = [g \in Bgids |-> 0]]
    /\ UNCHANGED <<held, mapped, bufferVars, pc, ninit, ngroup>>

\* Mutant: the registry is cleared and not resized.
ExitWithoutResize(r) ==
    /\ raw[r] # 0
    /\ raw' = [raw EXCEPT ![r] = 0]
    /\ probe' = [probe EXCEPT ![r] = FALSE]
    /\ entry' = [entry EXCEPT ![r] = <<>>]
    /\ mapped' = Unmapped(r, Bgids)
    /\ groups' = [groups EXCEPT ![raw[r]] = [g \in Bgids |-> 0]]
    /\ UNCHANGED <<held, bufferVars, pc, ninit, ngroup>>

\* exit(), from ~ring, reinit or do_init without a probe: the probe is freed,
\* buffer_rings is cleared and resized, then the instance goes away.
Exit(r) ==
    /\ raw[r] # 0
    /\ raw' = [raw EXCEPT ![r] = 0]
    /\ probe' = [probe EXCEPT ![r] = FALSE]
    /\ entry' = Emptied(r, Bgids)
    /\ mapped' = Unmapped(r, Bgids)
    /\ groups' = [groups EXCEPT ![raw[r]] = [g \in Bgids |-> 0]]
    /\ UNCHANGED <<held, bufferVars, pc, ninit, ngroup>>

Plain(r) == raw[r] # 0 /\ \A g \in Bgids : entry[r][g] = 0

\* swap: raw_ring only; probe and buffer_rings stay where they are.
Swap(r, s) ==
    /\ r # s
    /\ SwapsAnything \/ (Plain(r) /\ Plain(s))
    /\ raw' = [raw EXCEPT ![r] = raw[s], ![s] = raw[r]]
    /\ UNCHANGED <<probe, entry, held, groups, mapped, bufferVars, pc, ninit, ngroup>>

-----------------------------------------------------------------------------
(* Registration *)

\* What a successful io_uring_setup_buf_ring leaves: fresh memory m.
SetUp(r, g, m) ==
    /\ ngroup' = m
    /\ slots' = [slots EXCEPT ![m] = [i \in DOMAIN @ |-> NoBid]]
    /\ tail' = [tail EXCEPT ![m] = 0]
    /\ given' = [given EXCEPT ![m] = <<>>]
    /\ held' = held \cup {<<r, g>>}

\* Mutant: the move constructor copies buf_ring, and the moved-from object
\* frees the group that was just registered.
RegisterThenFree(r, g) ==
    /\ raw[r] # 0
    /\ entry[r][g] = 0
    /\ groups[raw[r]][g] = 0
    /\ ngroup < MaxGroups
    /\ SetUp(r, g, ngroup + 1)
    /\ entry' = [entry EXCEPT ![r][g] = ngroup + 1]
    /\ UNCHANGED <<ringVars, groups, mapped, pc, ninit>>

\* register_buffer_group: refused if the entry is valid; buffer_ring::make fails
\* (the kernel has the group already, or no memory) and changes nothing, or the
\* new buffer_ring is moved into the entry.
RegisterBufferGroup(r, g) ==
    /\ raw[r] # 0
    /\ entry[r][g] = 0
    /\ groups[raw[r]][g] = 0
    /\ ngroup < MaxGroups
    /\ SetUp(r, g, ngroup + 1)
    /\ entry' = [entry EXCEPT ![r][g] = ngroup + 1]
    /\ groups' = [groups EXCEPT ![raw[r]][g] = ngroup + 1]
    /\ mapped' = mapped \cup {ngroup + 1}
    /\ UNCHANGED <<ringVars, pc, ninit>>

\* unregister_buffer_group: a valid entry is assigned buffer_ring{}, which
\* swaps it into a temporary that is destroyed.
UnregisterBufferGroup(r, g) ==
    /\ entry[r][g] # 0
    /\ entry' = Emptied(r, {g})
    /\ mapped' = Unmapped(r, {g})
    /\ groups' = Dropped(r, {g})
    /\ UNCHANGED <<ringVars, held, bufferVars, pc, ninit, ngroup>>

\* find_buffer_group: the handles it returns that convert to true.
FindBufferGroup(r, g) == IF entry[r][g] # 0 THEN {<<r, g>>} ELSE {}

-----------------------------------------------------------------------------
(* Insertion *)

\* The handles that the caller may insert through.  operator bool only says
\* that the handle points to an entry.
Usable == IF Refinds THEN UNION {FindBufferGroup(r, g) : r \in Rings, g \in Bgids}
          ELSE held

\* Mutant: io_uring_buf_ring_add is given the same offset for every buffer.
AddAtTail(s, t, bids) == [s EXCEPT ![t % Capacity] = bids[Len(bids)]]

\* io_uring_buf_ring_add of bids at tail + 0, tail + 1...
AddAll(s, t, bids) ==
    [i \in 0..(Capacity - 1) |->
       LET ks == {k \in 1..Len(bids) : (t + k - 1) % Capacity = i}
       IN IF ks = {} THEN s[i] ELSE bids[CHOOSE k \in ks : \A j \in ks : j <= k]]

\* buffer_ring::insert_range, and insert for one buffer: all the buffers, then
\* one advance of the tail.  An entry without memory is a null pointer.  "User has
\* to ensure total amount of added buffers does not exceed the ring capacity".
InsertRange(h, bids) ==
    LET m == entry[h[1]][h[2]] IN
    /\ h \in Usable
    /\ m # 0 => Len(given[m]) + Len(bids) <= Capacity
    /\ pc' = IF m = 0 THEN "crashed" ELSE "run"
    /\ IF m = 0 THEN UNCHANGED bufferVars
       ELSE /\ slots' = [slots EXCEPT ![m] = AddAll(@, tail[m], bids)]
            /\ tail' = [tail EXCEPT ![m] = (@ + Len(bids)) % TailSize]
            /\ given' = [given EXCEPT ![m] = @ \o bids]
    /\ UNCHANGED <<ringVars, entry, held, groups, mapped, ninit, ngroup>>

Insert(h, bid) == InsertRange(h, <<bid>>)

Next ==
    /\ pc = "run"
    /\ \/ \E r \in Rings : DoInit(r) \/ Exit(r)
       \/ \E r, s \in Rings : Swap(r, s)
       \/ \E r \in Rings, g \in Bgids : RegisterBufferGroup(r, g)
       \/ \E r \in Rings, g \in Bgids : UnregisterBufferGroup(r, g)
       \/ \E h \in Rings \X Bgids, b \in Bids : Insert(h, b)
       \/ \E h \in Rings \X Bgids, a, b \in Bids : InsertRange(h, <<a, b>>)

Spec == Init /\ [][Next]_vars

-----------------------------------------------------------------------------
(* Properties *)

\* The registry of a ring has an entry for every group id at all times (clear
\* and resize in exit), and the kernel's side, the memory and the handles have
\* their types.
TypeOK ==
    /\ raw \in [Rings -> 0..MaxInits]
    /\ probe \in [Rings -> BOOLEAN]
    /\ entry \in [Rings -> [Bgids -> 0..MaxGroups]]
    /\ held \subseteq Rings \X Bgids
    /\ groups \in [Instances -> [Bgids -> 0..MaxGroups]]
    /\ mapped \subseteq Mems
    /\ slots \in [Mems -> [0..(Capacity - 1) -> Bids \cup {NoBid}]]
    /\ tail \in [Mems -> 0..(TailSize - 1)]
    /\ given \in [Mems -> Seq(Bids)]
    /\ pc \in {"run", "crashed"}
    /\ ninit \in 0..MaxInits
    /\ ngroup \in 0..MaxGroups

\* What a ring object believes about its groups is what the kernel has for the
\* io_uring instance in it: an insert reaches a group that the kernel serves, a
\* registration is refused exactly when the kernel would refuse it, and a ring
\* that is not valid has no groups and no probe.
RegistryIsKernels ==
    \A r \in Rings :
      /\ \A g \in Bgids : entry[r][g] = IF raw[r] = 0 THEN 0 ELSE groups[raw[r]][g]
      /\ probe[r] = (raw[r] # 0)

\* The mapped buffer rings are those of the registries, each in one entry: none
\* leaks, none is used after it was unmapped, none is unmapped twice, through
\* unregistration, exit, reinit and the moves of buffer_ring.
NoLeak ==
    /\ mapped = {entry[r][g] : r \in Rings, g \in Bgids} \ {0}
    /\ \A r, s \in Rings, g, h \in Bgids :
         entry[r][g] = entry[s][h] /\ entry[r][g] # 0 => r = s /\ g = h

\* Every buffer that the caller handed to a live group is in it, in order, and
\* the kernel can see it; no insert went to an entry without a group.
GivenBuffersStay ==
    /\ pc = "run"
    /\ \A m \in mapped :
         /\ tail[m] = Len(given[m])
         /\ \A k \in 1..Len(given[m]) : slots[m][k - 1] = given[m][k]
=============================================================================
