------------------------- MODULE BufferGroupsProofs -------------------------
(***************************************************************************)
(* Theorems about BufferGroups, for any number of rings, group ids, io_uring*)
(* instances and buffer rings, and any capacity that the code can ask for. *)
(***************************************************************************)
EXTENDS BufferGroups, TLAPS

-----------------------------------------------------------------------------
(* Inserting *)

LEMMA TailSizeType == TailSize \in Nat
  BY DEF TailSize

SlotIndexes == 0..(Capacity - 1)

\* The position of a buffer is a slot of the ring.
LEMMA SlotOf ==
    ASSUME NEW n \in Nat
    PROVE  n % Capacity \in SlotIndexes /\ (n < Capacity => n % Capacity = n)
  BY BufferGroupsAssumption, TailSizeType DEF SlotIndexes

\* Of one or two buffers, the last one for a slot is well defined.
LEMMA LastOne ==
    ASSUME NEW n \in 1..2, NEW ks \in SUBSET (1..n), ks # {}
    PROVE  (CHOOSE k \in ks : \A j \in ks : j <= k) \in ks
  <1>1. \E k \in ks : \A j \in ks : j <= k
    <2>1. CASE 2 \in ks
      BY <2>1
    <2>2. CASE 2 \notin ks
      <3>1. \A j \in ks : j = 1
        BY <2>2
      <3>2. 1 \in ks
        BY <3>1
      <3> QED
        BY <3>1, <3>2
    <2> QED
      BY <2>1, <2>2
  <1> QED
    BY <1>1

\* The slots hold buffers or nothing after an insert as before.
LEMMA AddAllType ==
    ASSUME NEW s \in [SlotIndexes -> Bids \cup {NoBid}], NEW t \in Nat,
           NEW bids \in Seq(Bids), Len(bids) \in 1..2
    PROVE  AddAll(s, t, bids) \in [SlotIndexes -> Bids \cup {NoBid}]
  <1> SUFFICES ASSUME NEW i \in SlotIndexes
               PROVE  AddAll(s, t, bids)[i] \in Bids \cup {NoBid}
    BY DEF AddAll, SlotIndexes
  <1> DEFINE ks == {k \in 1..Len(bids) : (t + k - 1) % Capacity = i}
  <1>1. ASSUME ks # {} PROVE bids[CHOOSE k \in ks : \A j \in ks : j <= k] \in Bids
    <2>1. (CHOOSE k \in ks : \A j \in ks : j <= k) \in ks
      BY <1>1, LastOne
    <2> QED
      BY <2>1
  <1>2. AddAll(s, t, bids)[i] =
          IF ks = {} THEN s[i] ELSE bids[CHOOSE k \in ks : \A j \in ks : j <= k]
    BY DEF AddAll, SlotIndexes
  <1> HIDE DEF ks
  <1> QED
    BY <1>1, <1>2

\* As long as there is room, buffer k goes to slot t + k - 1 and the other slots
\* keep what they have.
LEMMA AddAllInPlace ==
    ASSUME NEW s, NEW t \in Nat, NEW bids \in Seq(Bids), t + Len(bids) <= Capacity
    PROVE  /\ \A k \in 1..Len(bids) : AddAll(s, t, bids)[t + k - 1] = bids[k]
           /\ \A i \in SlotIndexes : i < t => AddAll(s, t, bids)[i] = s[i]
  <1> USE BufferGroupsAssumption, TailSizeType
  <1> DEFINE ks(i) == {k \in 1..Len(bids) : (t + k - 1) % Capacity = i}
  <1>1. \A i \in SlotIndexes :
          AddAll(s, t, bids)[i] =
            IF ks(i) = {} THEN s[i]
            ELSE bids[CHOOSE k \in ks(i) : \A j \in ks(i) : j <= k]
    BY DEF AddAll, SlotIndexes
  <1>2. \A k \in 1..Len(bids) : (t + k - 1) % Capacity = t + k - 1
    <2> SUFFICES ASSUME NEW k \in 1..Len(bids)
                 PROVE  (t + k - 1) % Capacity = t + k - 1
      OBVIOUS
    <2>1. Len(bids) \in Nat /\ t + k - 1 \in Nat /\ t + k - 1 < Capacity
      OBVIOUS
    <2> QED
      BY <2>1, SlotOf
  <1>3. ASSUME NEW k \in 1..Len(bids) PROVE AddAll(s, t, bids)[t + k - 1] = bids[k]
    <2>1. t + k - 1 \in SlotIndexes
      BY DEF SlotIndexes
    <2>2. ks(t + k - 1) = {k}
      <3>1. \A j \in 1..Len(bids) : (t + j - 1) % Capacity = t + k - 1 <=> j = k
        <4> SUFFICES ASSUME NEW j \in 1..Len(bids)
                     PROVE  (t + j - 1) % Capacity = t + k - 1 <=> j = k
          OBVIOUS
        <4>1. (t + j - 1) % Capacity = t + j - 1
          BY <1>2
        <4>2. t + j - 1 = t + k - 1 <=> j = k
          OBVIOUS
        <4> QED
          BY <4>1, <4>2
      <3> QED
        BY <3>1
    <2>3. (CHOOSE l \in {k} : \A j \in {k} : j <= l) = k
      OBVIOUS
    <2>4. AddAll(s, t, bids)[t + k - 1] =
            IF ks(t + k - 1) = {} THEN s[t + k - 1]
            ELSE bids[CHOOSE l \in ks(t + k - 1) : \A j \in ks(t + k - 1) : j <= l]
      BY <1>1, <2>1
    <2> HIDE DEF ks
    <2> QED
      BY <2>2, <2>3, <2>4
  <1>4. ASSUME NEW i \in SlotIndexes, i < t PROVE AddAll(s, t, bids)[i] = s[i]
    <2>1. ks(i) = {}
      BY <1>2, <1>4 DEF SlotIndexes
    <2> QED
      BY <1>1, <2>1
  <1> QED
    BY <1>3, <1>4

-----------------------------------------------------------------------------
(* Type correctness *)

LEMMA InitType == Init => TypeOK
  <1> SUFFICES ASSUME Init PROVE TypeOK
    OBVIOUS
  <1> USE BufferGroupsAssumption, TailSizeType
  <1>1. raw \in [Rings -> 0..MaxInits] /\ probe \in [Rings -> BOOLEAN]
    BY DEF Init
  <1>2. entry \in [Rings -> [Bgids -> 0..MaxGroups]] /\ held \subseteq Rings \X Bgids
    BY DEF Init
  <1>3. groups \in [Instances -> [Bgids -> 0..MaxGroups]] /\ mapped \subseteq Mems
    BY DEF Init
  <1>4. slots \in [Mems -> [0..(Capacity - 1) -> Bids \cup {NoBid}]]
    BY DEF Init
  <1>5. tail \in [Mems -> 0..(TailSize - 1)]
    BY DEF Init
  <1>6. given \in [Mems -> Seq(Bids)]
    BY DEF Init
  <1>7. pc \in {"run", "crashed"} /\ ninit \in 0..MaxInits /\ ngroup \in 0..MaxGroups
    BY DEF Init
  <1> QED
    BY <1>1, <1>2, <1>3, <1>4, <1>5, <1>6, <1>7 DEF TypeOK

LEMMA EmptiedType ==
    ASSUME TypeOK, NEW r \in Rings, NEW gs
    PROVE  Emptied(r, gs) \in [Rings -> [Bgids -> 0..MaxGroups]]
  BY BufferGroupsAssumption DEF Emptied, TypeOK

LEMMA DroppedType ==
    ASSUME TypeOK, NEW r \in Rings, NEW gs
    PROVE  Dropped(r, gs) \in [Instances -> [Bgids -> 0..MaxGroups]]
  <1> DEFINE new == [g \in Bgids |-> IF g \in Freed(r, gs) THEN 0 ELSE groups[raw[r]][g]]
  <1>1. CASE raw[r] = 0
    BY <1>1 DEF Dropped, TypeOK
  <1>2. CASE raw[r] # 0
    <2>1. raw[r] \in Instances
      BY <1>2, BufferGroupsAssumption DEF Instances, TypeOK
    <2>2. new \in [Bgids -> 0..MaxGroups]
      BY <2>1, BufferGroupsAssumption DEF TypeOK
    <2>3. Dropped(r, gs) = [groups EXCEPT ![raw[r]] = new]
      BY <1>2, <2>1 DEF Dropped, TypeOK
    <2> HIDE DEF new
    <2> QED
      BY <2>1, <2>2, <2>3 DEF TypeOK
  <1> QED
    BY <1>1, <1>2

\* One or two buffers inserted through a handle.
LEMMA InsertType ==
    ASSUME TypeOK, NEW h \in Rings \X Bgids, NEW bids \in Seq(Bids),
           Len(bids) \in 1..2, InsertRange(h, bids)
    PROVE  TypeOK'
  <1> DEFINE m == entry[h[1]][h[2]]
  <1>1. m \in 0..MaxGroups
    BY DEF TypeOK
  <1>2. /\ pc' \in {"run", "crashed"}
        /\ UNCHANGED <<raw, probe, entry, held, groups, mapped, ninit, ngroup>>
        /\ m = 0 => UNCHANGED <<slots, tail, given>>
        /\ m # 0 => /\ slots' = [slots EXCEPT ![m] = AddAll(@, tail[m], bids)]
                    /\ tail' = [tail EXCEPT ![m] = (@ + Len(bids)) % TailSize]
                    /\ given' = [given EXCEPT ![m] = @ \o bids]
    BY DEF InsertRange, ringVars, bufferVars
  <1> HIDE DEF m
  <1>3. CASE m = 0
    BY <1>2, <1>3 DEF TypeOK
  <1>4. CASE m # 0
    <2>1. m \in Mems
      BY <1>1, <1>4, BufferGroupsAssumption DEF Mems
    <2>2. tail[m] \in Nat /\ slots[m] \in [SlotIndexes -> Bids \cup {NoBid}]
      BY <2>1, TailSizeType DEF TypeOK, SlotIndexes
    <2>3. AddAll(slots[m], tail[m], bids) \in [SlotIndexes -> Bids \cup {NoBid}]
      BY <2>2, AddAllType
    <2>4. slots' \in [Mems -> [0..(Capacity - 1) -> Bids \cup {NoBid}]]
      BY <1>2, <1>4, <2>1, <2>3 DEF TypeOK, SlotIndexes
    <2>5. (tail[m] + Len(bids)) % TailSize \in 0..(TailSize - 1)
      BY <2>2, BufferGroupsAssumption, TailSizeType
    <2>6. tail' \in [Mems -> 0..(TailSize - 1)]
      BY <1>2, <1>4, <2>1, <2>5 DEF TypeOK
    <2>7. given[m] \o bids \in Seq(Bids)
      BY <2>1 DEF TypeOK
    <2>8. given' \in [Mems -> Seq(Bids)]
      BY <1>2, <1>4, <2>1, <2>7 DEF TypeOK
    <2> QED
      BY <1>2, <2>4, <2>6, <2>8 DEF TypeOK
  <1> QED
    BY <1>3, <1>4

LEMMA NextType == TypeOK /\ [Next]_vars => TypeOK'
  <1> SUFFICES ASSUME TypeOK, [Next]_vars PROVE TypeOK'
    OBVIOUS
  <1> USE BufferGroupsAssumption, TailSizeType
  <1>1. ASSUME NEW r \in Rings, DoInit(r) PROVE TypeOK'
    BY <1>1 DEF DoInit, bufferVars, TypeOK
  <1>2. ASSUME NEW r \in Rings, Exit(r) PROVE TypeOK'
    <2>1. entry' \in [Rings -> [Bgids -> 0..MaxGroups]]
      BY <1>2, EmptiedType DEF Exit
    <2>2. groups' \in [Instances -> [Bgids -> 0..MaxGroups]]
      <3>1. /\ groups' = [groups EXCEPT ![raw[r]] = [g \in Bgids |-> 0]]
            /\ [g \in Bgids |-> 0] \in [Bgids -> 0..MaxGroups]
        BY <1>2 DEF Exit
      <3>2. groups \in [Instances -> [Bgids -> 0..MaxGroups]]
        BY DEF TypeOK
      <3> QED
        BY <3>1, <3>2
    <2>3. mapped' \subseteq Mems
      BY <1>2 DEF Exit, Unmapped, TypeOK
    <2>4. raw' \in [Rings -> 0..MaxInits] /\ probe' \in [Rings -> BOOLEAN]
      BY <1>2 DEF Exit, TypeOK
    <2> QED
      BY <1>2, <2>1, <2>2, <2>3, <2>4 DEF Exit, bufferVars, TypeOK
  <1>3. ASSUME NEW r \in Rings, NEW s \in Rings, Swap(r, s) PROVE TypeOK'
    BY <1>3 DEF Swap, bufferVars, TypeOK
  <1>4. ASSUME NEW r \in Rings, NEW g \in Bgids, RegisterBufferGroup(r, g) PROVE TypeOK'
    <2> DEFINE m == ngroup + 1
    <2>1. m \in Mems /\ m \in 0..MaxGroups /\ raw[r] \in Instances
      BY <1>4 DEF RegisterBufferGroup, Mems, Instances, TypeOK
    <2>2. /\ ngroup' = m
          /\ slots' = [slots EXCEPT ![m] = [i \in DOMAIN @ |-> NoBid]]
          /\ tail' = [tail EXCEPT ![m] = 0]
          /\ given' = [given EXCEPT ![m] = <<>>]
          /\ held' = held \cup {<<r, g>>}
          /\ entry' = [entry EXCEPT ![r][g] = m]
          /\ groups' = [groups EXCEPT ![raw[r]][g] = m]
          /\ mapped' = mapped \cup {m}
          /\ UNCHANGED <<raw, probe, pc, ninit>>
      BY <1>4 DEF RegisterBufferGroup, SetUp, ringVars
    <2> HIDE DEF m
    <2>3. slots' \in [Mems -> [0..(Capacity - 1) -> Bids \cup {NoBid}]]
      BY <2>1, <2>2 DEF TypeOK
    <2>4. tail' \in [Mems -> 0..(TailSize - 1)]
      BY <2>1, <2>2 DEF TypeOK
    <2>5. given' \in [Mems -> Seq(Bids)]
      BY <2>1, <2>2 DEF TypeOK
    <2>6. entry' \in [Rings -> [Bgids -> 0..MaxGroups]]
      BY <2>1, <2>2 DEF TypeOK
    <2>7. groups' \in [Instances -> [Bgids -> 0..MaxGroups]]
      BY <2>1, <2>2 DEF TypeOK
    <2>8. held' \subseteq Rings \X Bgids /\ mapped' \subseteq Mems
      BY <2>1, <2>2 DEF TypeOK
    <2> QED
      BY <2>1, <2>2, <2>3, <2>4, <2>5, <2>6, <2>7, <2>8 DEF TypeOK
  <1>5. ASSUME NEW r \in Rings, NEW g \in Bgids, UnregisterBufferGroup(r, g) PROVE TypeOK'
    <2>1. entry' \in [Rings -> [Bgids -> 0..MaxGroups]]
      BY <1>5, EmptiedType DEF UnregisterBufferGroup
    <2>2. groups' \in [Instances -> [Bgids -> 0..MaxGroups]]
      BY <1>5, DroppedType DEF UnregisterBufferGroup
    <2>3. mapped' \subseteq Mems
      BY <1>5 DEF UnregisterBufferGroup, Unmapped, TypeOK
    <2> QED
      BY <1>5, <2>1, <2>2, <2>3 DEF UnregisterBufferGroup, ringVars, bufferVars, TypeOK
  <1>6. ASSUME NEW h \in Rings \X Bgids, NEW b \in Bids, Insert(h, b) PROVE TypeOK'
    <2>1. <<b>> \in Seq(Bids) /\ Len(<<b>>) \in 1..2
      OBVIOUS
    <2> QED
      BY <1>6, <2>1, InsertType DEF Insert
  <1>7. ASSUME NEW h \in Rings \X Bgids, NEW a \in Bids, NEW b \in Bids,
               InsertRange(h, <<a, b>>)
        PROVE  TypeOK'
    <2>1. <<a, b>> \in Seq(Bids) /\ Len(<<a, b>>) \in 1..2
      OBVIOUS
    <2> QED
      BY <1>7, <2>1, InsertType
  <1>8. CASE UNCHANGED vars
    BY <1>8 DEF vars, ringVars, bufferVars, TypeOK
  <1> QED
    BY <1>1, <1>2, <1>3, <1>4, <1>5, <1>6, <1>7, <1>8 DEF Next

\* The registry has an entry for every group id in every reachable state, and
\* the kernel's groups, the memory and the handles have their types.
THEOREM TypeCorrect == Spec => []TypeOK
  BY InitType, NextType, PTL DEF Spec

-----------------------------------------------------------------------------
(* The registry and the kernel *)

\* No two rings have the same io_uring instance, and all the instances were
\* created by do_init.
OwnInstances ==
    /\ \A r, s \in Rings : raw[r] = raw[s] /\ raw[r] # 0 => r = s
    /\ \A r \in Rings : raw[r] <= ninit

\* What is still to be created has no groups, and no entry has its memory.
FutureIsEmpty ==
    /\ \A u \in Instances, g \in Bgids : u > ninit => groups[u][g] = 0
    /\ \A r \in Rings, g \in Bgids : entry[r][g] <= ngroup

\* The inductive invariant: RegistryIsKernels needs that the groups of one
\* ring's instance are changed through that ring only.
RegistryInv ==
    /\ TypeOK
    /\ RegistryIsKernels
    /\ NoLeak
    /\ OwnInstances
    /\ FutureIsEmpty

LEMMA InitRegistry == Init => RegistryInv
  <1> SUFFICES ASSUME Init PROVE RegistryInv
    OBVIOUS
  <1>1. TypeOK
    BY InitType
  <1>2. /\ \A r \in Rings : raw[r] = 0 /\ probe[r] = FALSE
        /\ \A r \in Rings, g \in Bgids : entry[r][g] = 0
        /\ \A u \in Instances, g \in Bgids : groups[u][g] = 0
        /\ mapped = {}
        /\ ninit = 0
        /\ ngroup = 0
    BY DEF Init
  <1>3. RegistryIsKernels
    BY <1>2 DEF RegistryIsKernels
  <1>4. NoLeak
    <2>1. {entry[r][g] : r \in Rings, g \in Bgids} \ {0} = {}
      BY <1>2
    <2> QED
      BY <1>2, <2>1 DEF NoLeak
  <1>5. OwnInstances /\ FutureIsEmpty
    BY <1>2 DEF OwnInstances, FutureIsEmpty
  <1> QED
    BY <1>1, <1>3, <1>4, <1>5 DEF RegistryInv

\* Of the entries gs of a ring, all that are valid are freed by the kernel.
LEMMA FreedAreValid ==
    ASSUME RegistryInv, NEW r \in Rings, NEW gs \in SUBSET Bgids
    PROVE  Freed(r, gs) = {g \in gs : entry[r][g] # 0}
  BY DEF Freed, RegistryInv, RegistryIsKernels

\* Emptying entries of a ring unmaps their memory and no other.
LEMMA EmptiedNoLeak ==
    ASSUME RegistryInv, NEW r \in Rings, NEW gs \in SUBSET Bgids,
           entry' = Emptied(r, gs), mapped' = Unmapped(r, gs)
    PROVE  NoLeak'
  <1>1. /\ \A g \in Bgids : entry'[r][g] = IF g \in gs THEN 0 ELSE entry[r][g]
        /\ \A s \in Rings, g \in Bgids : s # r => entry'[s][g] = entry[s][g]
    BY DEF Emptied, RegistryInv, TypeOK
  <1>2. mapped' = mapped \ {entry[r][g] : g \in {h \in gs : entry[r][h] # 0}}
    BY FreedAreValid DEF Unmapped
  <1>3. \A s, t \in Rings, g, h \in Bgids :
          entry[s][g] = entry[t][h] /\ entry[s][g] # 0 => s = t /\ g = h
    BY DEF RegistryInv, NoLeak
  <1>4. \A s, t \in Rings, g, h \in Bgids :
          entry'[s][g] = entry'[t][h] /\ entry'[s][g] # 0 => s = t /\ g = h
    BY <1>1, <1>3
  <1>5. mapped = {entry[s][g] : s \in Rings, g \in Bgids} \ {0}
    BY DEF RegistryInv, NoLeak
  <1>6. ASSUME NEW m \in mapped'
        PROVE  m \in {entry'[s][g] : s \in Rings, g \in Bgids} \ {0}
    <2>1. PICK s \in Rings, g \in Bgids : m = entry[s][g] /\ m # 0
      BY <1>2, <1>5
    <2>2. ~(s = r /\ g \in gs)
      BY <1>2, <2>1
    <2>3. entry'[s][g] = m
      BY <1>1, <2>1, <2>2
    <2> QED
      BY <2>1, <2>3
  <1>7. ASSUME NEW s \in Rings, NEW g \in Bgids, entry'[s][g] # 0
        PROVE  entry'[s][g] \in mapped'
    <2>1. entry'[s][g] = entry[s][g] /\ ~(s = r /\ g \in gs)
      BY <1>1, <1>7
    <2>2. entry[s][g] \in mapped
      BY <1>5, <1>7, <2>1
    <2>3. \A h \in gs : entry[r][h] # 0 => entry[r][h] # entry[s][g]
      BY <1>3, <2>1
    <2> QED
      BY <1>2, <2>1, <2>2, <2>3
  <1>8. mapped' = {entry'[s][g] : s \in Rings, g \in Bgids} \ {0}
    BY <1>6, <1>7
  <1> QED
    BY <1>4, <1>8 DEF NoLeak

\* A step that changes the entries gs of ring r, and nothing of other rings.
LEMMA OtherRings ==
    ASSUME RegistryInv, NEW r \in Rings, NEW gs,
           \A s \in Rings, g \in Bgids : s # r => entry'[s][g] = entry[s][g],
           \A u \in Instances, g \in Bgids : u # raw[r] => groups'[u][g] = groups[u][g],
           \A s \in Rings : s # r => raw'[s] = raw[s] /\ probe'[s] = probe[s],
           \A g \in Bgids : entry'[r][g] = IF raw'[r] = 0 THEN 0 ELSE groups'[raw'[r]][g],
           probe'[r] = (raw'[r] # 0)
    PROVE  RegistryIsKernels'
  <1> SUFFICES ASSUME NEW s \in Rings
               PROVE  /\ \A g \in Bgids :
                           entry'[s][g] = IF raw'[s] = 0 THEN 0 ELSE groups'[raw'[s]][g]
                      /\ probe'[s] = (raw'[s] # 0)
    BY DEF RegistryIsKernels
  <1>1. CASE s = r
    BY <1>1
  <1>2. CASE s # r
    <2>1. raw'[s] = raw[s] /\ probe'[s] = probe[s]
      BY <1>2
    <2>2. probe[s] = (raw[s] # 0)
      BY DEF RegistryInv, RegistryIsKernels
    <2>3. probe'[s] = (raw'[s] # 0)
      BY <2>1, <2>2
    <2>4. raw[s] # 0 => raw[s] # raw[r] /\ raw[s] \in Instances
      BY <1>2, BufferGroupsAssumption
         DEF RegistryInv, OwnInstances, TypeOK, Instances
    <2>5. \A g \in Bgids : entry[s][g] = IF raw[s] = 0 THEN 0 ELSE groups[raw[s]][g]
      BY DEF RegistryInv, RegistryIsKernels
    <2>6. \A g \in Bgids : entry'[s][g] = IF raw'[s] = 0 THEN 0 ELSE groups'[raw'[s]][g]
      BY <1>2, <2>1, <2>4, <2>5
    <2> QED
      BY <2>3, <2>6
  <1> QED
    BY <1>1, <1>2

\* A ring that is not valid has no groups, and then one with an instance of its
\* own, for which the kernel has no groups yet.
LEMMA DoInitRegistry ==
    ASSUME RegistryInv, TypeOK', NEW r \in Rings, DoInit(r)
    PROVE  RegistryInv'
  <1> USE BufferGroupsAssumption
  <1> DEFINE u == ninit + 1
  <1>1. /\ raw[r] = 0
        /\ ninit \in Nat
        /\ ninit' = u
        /\ u \in Instances
        /\ raw' = [raw EXCEPT ![r] = u]
        /\ probe' = [probe EXCEPT ![r] = TRUE]
        /\ UNCHANGED <<entry, groups, mapped, ngroup>>
    BY DEF DoInit, RegistryInv, TypeOK, Instances
  <1>2. /\ raw'[r] = u
        /\ probe'[r] = TRUE
        /\ \A s \in Rings : s # r => raw'[s] = raw[s] /\ probe'[s] = probe[s]
    BY <1>1 DEF RegistryInv, TypeOK
  <1>3. u # 0 /\ u > ninit
    BY <1>1
  <1>4. \A g \in Bgids : groups[u][g] = 0 /\ entry[r][g] = 0
    BY <1>1, <1>3 DEF RegistryInv, RegistryIsKernels, FutureIsEmpty
  <1> HIDE DEF u
  <1>5. RegistryIsKernels'
    <2>1. \A g \in Bgids : entry'[r][g] = IF raw'[r] = 0 THEN 0 ELSE groups'[raw'[r]][g]
      BY <1>1, <1>2, <1>3, <1>4
    <2>2. probe'[r] = (raw'[r] # 0)
      BY <1>2, <1>3
    <2>3. /\ \A s \in Rings, g \in Bgids : s # r => entry'[s][g] = entry[s][g]
          /\ \A v \in Instances, g \in Bgids : v # raw[r] => groups'[v][g] = groups[v][g]
      BY <1>1
    <2> QED
      BY <1>2, <2>1, <2>2, <2>3, OtherRings
  <1>6. NoLeak'
    BY <1>1 DEF RegistryInv, NoLeak
  <1>7. OwnInstances'
    <2>1. \A s \in Rings : raw[s] \in Nat /\ raw[s] <= ninit
      BY DEF RegistryInv, OwnInstances, TypeOK
    <2>2. \A s \in Rings : raw'[s] <= u
      BY <1>1, <1>2, <1>3, <2>1 DEF u
    <2>3. \A s \in Rings : s # r => raw'[s] # u
      BY <1>1, <1>2, <2>1 DEF u
    <2> QED
      BY <1>1, <1>2, <2>2, <2>3 DEF RegistryInv, OwnInstances
  <1>8. FutureIsEmpty'
    <2>1. \A v \in Instances : v > u => v > ninit
      BY <1>1 DEF u, Instances
    <2> QED
      BY <1>1, <2>1 DEF RegistryInv, FutureIsEmpty
  <1> QED
    BY <1>5, <1>6, <1>7, <1>8 DEF RegistryInv

\* Emptying the registry while the instance is still there.
LEMMA ExitRegistry ==
    ASSUME RegistryInv, TypeOK', NEW r \in Rings, Exit(r)
    PROVE  RegistryInv'
  <1> USE BufferGroupsAssumption
  <1>1. /\ raw[r] \in Instances
        /\ raw' = [raw EXCEPT ![r] = 0]
        /\ probe' = [probe EXCEPT ![r] = FALSE]
        /\ entry' = Emptied(r, Bgids)
        /\ mapped' = Unmapped(r, Bgids)
        /\ groups' = [groups EXCEPT ![raw[r]] = [g \in Bgids |-> 0]]
        /\ UNCHANGED <<ninit, ngroup>>
    BY DEF Exit, RegistryInv, TypeOK, Instances
  <1>2. /\ \A g \in Bgids : entry'[r][g] = 0
        /\ \A s \in Rings, g \in Bgids : s # r => entry'[s][g] = entry[s][g]
    BY <1>1 DEF Emptied, RegistryInv, TypeOK
  <1>3. /\ raw'[r] = 0
        /\ probe'[r] = FALSE
        /\ \A s \in Rings : s # r => raw'[s] = raw[s] /\ probe'[s] = probe[s]
    BY <1>1 DEF RegistryInv, TypeOK
  <1>4. /\ \A g \in Bgids : groups'[raw[r]][g] = 0
        /\ \A u \in Instances, g \in Bgids : u # raw[r] => groups'[u][g] = groups[u][g]
    BY <1>1 DEF RegistryInv, TypeOK
  <1>5. RegistryIsKernels'
    BY <1>2, <1>3, <1>4, OtherRings
  <1>6. NoLeak'
    BY <1>1, EmptiedNoLeak
  <1>7. OwnInstances'
    <2>1. ninit \in Nat
      BY DEF RegistryInv, TypeOK
    <2> QED
      BY <1>1, <1>3, <2>1 DEF RegistryInv, OwnInstances
  <1>8. FutureIsEmpty'
    <2>1. ngroup \in Nat
      BY DEF RegistryInv, TypeOK
    <2>2. \A s \in Rings, g \in Bgids : entry'[s][g] <= ngroup'
      BY <1>1, <1>2, <2>1 DEF RegistryInv, FutureIsEmpty
    <2>3. \A u \in Instances, g \in Bgids : u > ninit' => groups'[u][g] = 0
      BY <1>1, <1>4 DEF RegistryInv, FutureIsEmpty
    <2> QED
      BY <2>2, <2>3 DEF FutureIsEmpty
  <1> QED
    BY <1>5, <1>6, <1>7, <1>8 DEF RegistryInv

\* The instances of two valid rings without groups change places.
LEMMA SwapRegistry ==
    ASSUME RegistryInv, TypeOK', SwapsAnything = FALSE,
           NEW r \in Rings, NEW s \in Rings, Swap(r, s)
    PROVE  RegistryInv'
  <1>1. /\ r # s
        /\ raw[r] # 0 /\ raw[s] # 0
        /\ \A g \in Bgids : entry[r][g] = 0 /\ entry[s][g] = 0
        /\ raw' = [raw EXCEPT ![r] = raw[s], ![s] = raw[r]]
        /\ UNCHANGED <<probe, entry, groups, mapped, ninit, ngroup>>
    BY DEF Swap, Plain
  <1>2. /\ raw'[r] = raw[s]
        /\ raw'[s] = raw[r]
        /\ \A t \in Rings : t # r /\ t # s => raw'[t] = raw[t]
    BY <1>1 DEF RegistryInv, TypeOK
  <1>3. \A t \in Rings : (raw'[t] # 0) = (raw[t] # 0)
    BY <1>1, <1>2
  <1>4. ASSUME NEW t \in Rings PROVE probe'[t] = (raw'[t] # 0)
    <2>1. probe[t] = (raw[t] # 0)
      BY DEF RegistryInv, RegistryIsKernels
    <2> QED
      BY <1>1, <1>3, <2>1
  <1>5. ASSUME NEW t \in Rings, NEW g \in Bgids
        PROVE  entry'[t][g] = IF raw'[t] = 0 THEN 0 ELSE groups'[raw'[t]][g]
    <2>1. \A v \in Rings : entry[v][g] = IF raw[v] = 0 THEN 0 ELSE groups[raw[v]][g]
      BY DEF RegistryInv, RegistryIsKernels
    <2>2. CASE t = r
      BY <1>1, <1>2, <2>1, <2>2
    <2>3. CASE t = s
      BY <1>1, <1>2, <2>1, <2>3
    <2>4. CASE t # r /\ t # s
      BY <1>1, <1>2, <2>1, <2>4
    <2> QED
      BY <2>2, <2>3, <2>4
  <1>6. RegistryIsKernels'
    BY <1>4, <1>5 DEF RegistryIsKernels
  <1>7. NoLeak' /\ FutureIsEmpty'
    BY <1>1 DEF RegistryInv, NoLeak, FutureIsEmpty
  <1>8. OwnInstances'
    <2>1. \A t, v \in Rings : raw[t] = raw[v] /\ raw[t] # 0 => t = v
      BY DEF RegistryInv, OwnInstances
    <2>2. ASSUME NEW t \in Rings, NEW v \in Rings, raw'[t] = raw'[v], raw'[t] # 0
          PROVE  t = v
      <3> DEFINE other(q) == IF q = r THEN s ELSE IF q = s THEN r ELSE q
      <3>1. /\ other(t) \in Rings /\ raw'[t] = raw[other(t)]
            /\ other(v) \in Rings /\ raw'[v] = raw[other(v)]
        BY <1>1, <1>2
      <3>2. other(t) = other(v) => t = v
        BY <1>1
      <3> HIDE DEF other
      <3> QED
        BY <2>1, <2>2, <3>1, <3>2
    <2>3. \A t \in Rings : raw'[t] <= ninit'
      BY <1>1, <1>2 DEF RegistryInv, OwnInstances
    <2> QED
      BY <2>2, <2>3 DEF OwnInstances
  <1> QED
    BY <1>6, <1>7, <1>8 DEF RegistryInv

\* A new group: the same memory for the registry and for the kernel.
LEMMA RegisterRegistry ==
    ASSUME RegistryInv, TypeOK', NEW r \in Rings, NEW g \in Bgids,
           RegisterBufferGroup(r, g)
    PROVE  RegistryInv'
  <1> USE BufferGroupsAssumption
  <1> DEFINE m == ngroup + 1
  <1>1. /\ raw[r] # 0
        /\ raw[r] \in Instances
        /\ ngroup \in Nat
        /\ ngroup' = m
        /\ entry' = [entry EXCEPT ![r][g] = m]
        /\ groups' = [groups EXCEPT ![raw[r]][g] = m]
        /\ mapped' = mapped \cup {m}
        /\ UNCHANGED <<raw, probe, ninit>>
    BY DEF RegisterBufferGroup, SetUp, ringVars, RegistryInv, TypeOK, Instances
  <1>2. m \in Nat /\ m > ngroup /\ m # 0
    BY <1>1
  <1>3. /\ entry'[r][g] = m
        /\ \A h \in Bgids : h # g => entry'[r][h] = entry[r][h]
        /\ \A s \in Rings, h \in Bgids : s # r => entry'[s][h] = entry[s][h]
    BY <1>1 DEF RegistryInv, TypeOK
  <1>4. /\ groups'[raw[r]][g] = m
        /\ \A h \in Bgids : h # g => groups'[raw[r]][h] = groups[raw[r]][h]
        /\ \A u \in Instances, h \in Bgids : u # raw[r] => groups'[u][h] = groups[u][h]
    BY <1>1 DEF RegistryInv, TypeOK
  <1>5. \A s \in Rings, h \in Bgids : entry[s][h] \in Nat /\ entry[s][h] <= ngroup
    BY DEF RegistryInv, TypeOK, FutureIsEmpty
  <1>6. \A s \in Rings, h \in Bgids : entry[s][h] # m
    BY <1>1, <1>5
  <1>7. RegistryIsKernels'
    <2>1. \A h \in Bgids : entry[r][h] = groups[raw[r]][h]
      BY <1>1 DEF RegistryInv, RegistryIsKernels
    <2>2. \A h \in Bgids : entry'[r][h] = IF raw'[r] = 0 THEN 0 ELSE groups'[raw'[r]][h]
      BY <1>1, <1>3, <1>4, <2>1
    <2>3. probe[r] = (raw[r] # 0)
      BY DEF RegistryInv, RegistryIsKernels
    <2>4. probe'[r] = (raw'[r] # 0)
      BY <1>1, <2>3
    <2>5. \A s \in Rings : s # r => raw'[s] = raw[s] /\ probe'[s] = probe[s]
      BY <1>1
    <2> QED
      BY <1>3, <1>4, <2>2, <2>4, <2>5, OtherRings
  <1> HIDE DEF m
  <1>8. NoLeak'
    <2>1. mapped = {entry[s][h] : s \in Rings, h \in Bgids} \ {0}
      BY DEF RegistryInv, NoLeak
    <2>2. \A s, t \in Rings, h, k \in Bgids :
            entry[s][h] = entry[t][k] /\ entry[s][h] # 0 => s = t /\ h = k
      BY DEF RegistryInv, NoLeak
    <2>3. entry[r][g] = 0
      BY DEF RegisterBufferGroup
    <2>4. ASSUME NEW n \in mapped'
          PROVE  n \in {entry'[s][h] : s \in Rings, h \in Bgids} \ {0}
      <3>1. CASE n = m
        BY <1>2, <1>3, <3>1
      <3>2. CASE n \in mapped
        <4>1. PICK s \in Rings, h \in Bgids : n = entry[s][h] /\ n # 0
          BY <2>1, <3>2
        <4>2. ~(s = r /\ h = g)
          BY <2>3, <4>1
        <4>3. entry'[s][h] = n
          BY <1>3, <4>1, <4>2
        <4> QED
          BY <4>1, <4>3
      <3> QED
        BY <1>1, <2>4, <3>1, <3>2
    <2>5. ASSUME NEW s \in Rings, NEW h \in Bgids, entry'[s][h] # 0
          PROVE  entry'[s][h] \in mapped'
      <3>1. CASE s = r /\ h = g
        BY <1>1, <1>3, <3>1
      <3>2. CASE ~(s = r /\ h = g)
        BY <1>1, <1>3, <2>1, <2>5, <3>2
      <3> QED
        BY <3>1, <3>2
    <2>6. mapped' = {entry'[s][h] : s \in Rings, h \in Bgids} \ {0}
      BY <2>4, <2>5
    <2>7. ASSUME NEW s \in Rings, NEW t \in Rings, NEW h \in Bgids, NEW k \in Bgids,
                 entry'[s][h] = entry'[t][k], entry'[s][h] # 0
          PROVE  s = t /\ h = k
      <3>1. \A v \in Rings, i \in Bgids : ~(v = r /\ i = g) => entry'[v][i] = entry[v][i]
        BY <1>3
      <3>2. \A v \in Rings, i \in Bgids : ~(v = r /\ i = g) => entry'[v][i] # m
        BY <1>6, <3>1
      <3>3. CASE s = r /\ h = g
        BY <1>3, <2>7, <3>2, <3>3
      <3>4. CASE ~(s = r /\ h = g)
        BY <1>3, <2>2, <2>7, <3>1, <3>2, <3>4
      <3> QED
        BY <3>3, <3>4
    <2> QED
      BY <2>6, <2>7 DEF NoLeak
  <1>9. OwnInstances'
    BY <1>1 DEF RegistryInv, OwnInstances
  <1>10. FutureIsEmpty'
    <2>1. raw[r] <= ninit /\ raw[r] \in Nat /\ ninit \in Nat
      BY DEF RegistryInv, OwnInstances, TypeOK
    <2>2. \A u \in Instances : u > ninit => u # raw[r]
      BY <2>1 DEF Instances
    <2>3. \A u \in Instances, h \in Bgids : u > ninit' => groups'[u][h] = 0
      BY <1>1, <1>4, <2>2 DEF RegistryInv, FutureIsEmpty
    <2>4. \A s \in Rings, h \in Bgids : entry'[s][h] <= ngroup'
      BY <1>1, <1>2, <1>3, <1>5
    <2> QED
      BY <2>3, <2>4 DEF FutureIsEmpty
  <1> QED
    BY <1>7, <1>8, <1>9, <1>10 DEF RegistryInv

\* The registry and the kernel lose the same group.
LEMMA UnregisterRegistry ==
    ASSUME RegistryInv, TypeOK', NEW r \in Rings, NEW g \in Bgids,
           UnregisterBufferGroup(r, g)
    PROVE  RegistryInv'
  <1> USE BufferGroupsAssumption
  <1>1. /\ entry[r][g] # 0
        /\ entry' = Emptied(r, {g})
        /\ mapped' = Unmapped(r, {g})
        /\ groups' = Dropped(r, {g})
        /\ UNCHANGED <<raw, probe, ninit, ngroup>>
    BY DEF UnregisterBufferGroup, ringVars
  <1>2. \A h \in Bgids : entry[r][h] = IF raw[r] = 0 THEN 0 ELSE groups[raw[r]][h]
    BY DEF RegistryInv, RegistryIsKernels
  <1>3. raw[r] # 0 /\ raw[r] \in Instances
    BY <1>1, <1>2 DEF RegistryInv, TypeOK, Instances
  <1>4. /\ entry'[r][g] = 0
        /\ \A h \in Bgids : h # g => entry'[r][h] = entry[r][h]
        /\ \A s \in Rings, h \in Bgids : s # r => entry'[s][h] = entry[s][h]
    BY <1>1 DEF Emptied, RegistryInv, TypeOK
  <1>5. Freed(r, {g}) = {g}
    BY <1>1, FreedAreValid
  <1>6. /\ groups'[raw[r]][g] = 0
        /\ \A h \in Bgids : h # g => groups'[raw[r]][h] = groups[raw[r]][h]
        /\ \A u \in Instances, h \in Bgids : u # raw[r] => groups'[u][h] = groups[u][h]
    BY <1>1, <1>3, <1>5 DEF Dropped, RegistryInv, TypeOK
  <1>7. RegistryIsKernels'
    <2>1. \A h \in Bgids : entry'[r][h] = IF raw'[r] = 0 THEN 0 ELSE groups'[raw'[r]][h]
      BY <1>1, <1>2, <1>3, <1>4, <1>6
    <2>2. probe[r] = (raw[r] # 0)
      BY DEF RegistryInv, RegistryIsKernels
    <2>3. probe'[r] = (raw'[r] # 0)
      BY <1>1, <2>2
    <2>4. \A s \in Rings : s # r => raw'[s] = raw[s] /\ probe'[s] = probe[s]
      BY <1>1
    <2> QED
      BY <1>4, <1>6, <2>1, <2>3, <2>4, OtherRings
  <1>8. NoLeak'
    BY <1>1, EmptiedNoLeak
  <1>9. OwnInstances'
    BY <1>1 DEF RegistryInv, OwnInstances
  <1>10. FutureIsEmpty'
    <2>1. ngroup \in Nat
      BY DEF RegistryInv, TypeOK
    <2>2. \A s \in Rings, h \in Bgids : entry'[s][h] <= ngroup'
      <3>1. \A s \in Rings, h \in Bgids : entry'[s][h] = entry[s][h] \/ entry'[s][h] = 0
        BY <1>4
      <3>2. \A s \in Rings, h \in Bgids : entry[s][h] <= ngroup
        BY DEF RegistryInv, FutureIsEmpty
      <3> QED
        BY <1>1, <2>1, <3>1, <3>2
    <2>3. \A u \in Instances, h \in Bgids : groups'[u][h] = groups[u][h] \/ groups'[u][h] = 0
      BY <1>6
    <2>4. \A u \in Instances, h \in Bgids : u > ninit' => groups'[u][h] = 0
      BY <1>1, <2>3 DEF RegistryInv, FutureIsEmpty
    <2> QED
      BY <2>2, <2>4 DEF FutureIsEmpty
  <1> QED
    BY <1>7, <1>8, <1>9, <1>10 DEF RegistryInv

LEMMA NextRegistry ==
    ASSUME SwapsAnything = FALSE
    PROVE  RegistryInv /\ [Next]_vars => RegistryInv'
  <1> SUFFICES ASSUME RegistryInv, [Next]_vars PROVE RegistryInv'
    OBVIOUS
  <1>1. TypeOK'
    BY NextType DEF RegistryInv
  <1>2. ASSUME UNCHANGED <<raw, probe, entry, groups, mapped, ninit, ngroup>>
        PROVE  RegistryInv'
    BY <1>1, <1>2
       DEF RegistryInv, RegistryIsKernels, NoLeak, OwnInstances, FutureIsEmpty
  <1>3. ASSUME NEW h, NEW bids, InsertRange(h, bids) PROVE RegistryInv'
    BY <1>2, <1>3 DEF InsertRange, ringVars
  <1>4. CASE UNCHANGED vars
    BY <1>2, <1>4 DEF vars, ringVars
  <1> QED
    BY <1>1, <1>3, <1>4, DoInitRegistry, ExitRegistry, SwapRegistry, RegisterRegistry,
       UnregisterRegistry
       DEF Next, Insert

\* The registry of every ring agrees with the kernel after any sequence of
\* registrations, unregistrations, exits, new initialisations and swaps, as long
\* as only valid rings without groups are swapped.
THEOREM RegistryAgrees ==
    ASSUME SwapsAnything = FALSE
    PROVE  Spec => []RegistryIsKernels
  <1>1. RegistryInv => RegistryIsKernels
    BY DEF RegistryInv
  <1> QED
    BY <1>1, InitRegistry, NextRegistry, PTL DEF Spec

\* From the same assumption: no buffer ring leaks, is freed twice or is used after
\* it was unmapped.
THEOREM BufferRingsNeverLeak ==
    ASSUME SwapsAnything = FALSE
    PROVE  Spec => []NoLeak
  <1>1. RegistryInv => NoLeak
    BY DEF RegistryInv
  <1> QED
    BY <1>1, InitRegistry, NextRegistry, PTL DEF Spec

-----------------------------------------------------------------------------
(* The buffers of a live group *)

\* The inductive invariant for GivenBuffersStay: no group is overfull, so that
\* the tail does not wrap and no slot is written twice.
GivenInv ==
    /\ RegistryInv
    /\ GivenBuffersStay
    /\ \A m \in mapped : Len(given[m]) <= Capacity

\* Sequences of buffers and their lengths.
LEMMA GivenType ==
    ASSUME TypeOK, NEW m \in mapped
    PROVE  m \in Mems /\ given[m] \in Seq(Bids) /\ Len(given[m]) \in Nat
  BY DEF TypeOK

LEMMA InsertGiven ==
    ASSUME GivenInv, RegistryInv', Refinds = TRUE, NEW h \in Rings \X Bgids,
           NEW bids \in Seq(Bids), InsertRange(h, bids)
    PROVE  GivenInv'
  <1> USE BufferGroupsAssumption, TailSizeType
  <1> DEFINE m == entry[h[1]][h[2]]
  <1>1. m # 0 /\ h[1] \in Rings /\ h[2] \in Bgids
    BY DEF InsertRange, Usable, FindBufferGroup
  <1>2. /\ Len(given[m]) + Len(bids) <= Capacity
        /\ pc' = "run"
        /\ slots' = [slots EXCEPT ![m] = AddAll(@, tail[m], bids)]
        /\ tail' = [tail EXCEPT ![m] = (@ + Len(bids)) % TailSize]
        /\ given' = [given EXCEPT ![m] = @ \o bids]
        /\ mapped' = mapped
    BY <1>1 DEF InsertRange
  <1>3. m \in mapped
    BY <1>1 DEF GivenInv, RegistryInv, NoLeak
  <1> HIDE DEF m
  <1>4. TypeOK
    BY DEF GivenInv, RegistryInv
  <1>5. /\ m \in Mems
        /\ given[m] \in Seq(Bids)
        /\ Len(given[m]) \in Nat
        /\ Len(bids) \in Nat
    BY <1>3, <1>4, GivenType
  <1>6. /\ tail[m] = Len(given[m])
        /\ \A k \in 1..Len(given[m]) : slots[m][k - 1] = given[m][k]
    BY <1>3 DEF GivenInv, GivenBuffersStay
  <1>7. /\ given'[m] = given[m] \o bids
        /\ tail'[m] = (tail[m] + Len(bids)) % TailSize
        /\ slots'[m] = AddAll(slots[m], tail[m], bids)
        /\ \A n \in mapped : n # m => /\ given'[n] = given[n]
                                      /\ tail'[n] = tail[n]
                                      /\ slots'[n] = slots[n]
    BY <1>2, <1>4, <1>5 DEF TypeOK
  <1> DEFINE t == Len(given[m])
             both == given[m] \o bids
  <1>8. /\ Len(both) = t + Len(bids)
        /\ \A k \in 1..t : both[k] = given[m][k]
        /\ \A k \in 1..Len(bids) : both[t + k] = bids[k]
    BY <1>5
  <1>9. t + Len(bids) < TailSize
    BY <1>2, <1>5
  <1>10. tail'[m] = Len(both)
    <2>1. \A n \in Nat : n < TailSize => n % TailSize = n
      OBVIOUS
    <2>2. t + Len(bids) \in Nat
      BY <1>5
    <2>3. (t + Len(bids)) % TailSize = t + Len(bids)
      BY ONLY <1>9, <2>1, <2>2
    <2> QED
      BY ONLY <1>6, <1>7, <1>8, <2>3
  <1>a. /\ \A k \in 1..Len(bids) : AddAll(slots[m], tail[m], bids)[t + k - 1] = bids[k]
        /\ \A i \in SlotIndexes :
             i < t => AddAll(slots[m], tail[m], bids)[i] = slots[m][i]
    <2>1. tail[m] = t /\ t \in Nat /\ t + Len(bids) <= Capacity
      BY <1>2, <1>5, <1>6
    <2>2. \A s : /\ \A k \in 1..Len(bids) : AddAll(s, t, bids)[t + k - 1] = bids[k]
                /\ \A i \in SlotIndexes : i < t => AddAll(s, t, bids)[i] = s[i]
      <3> HIDE DEF t
      <3> QED
        BY ONLY <2>1, bids \in Seq(Bids), AddAllInPlace
    <2> QED
      BY ONLY <2>1, <2>2
  <1>11. ASSUME NEW k \in 1..Len(both) PROVE slots'[m][k - 1] = both[k]
    <2>1. CASE k <= t
      <3>1. k \in 1..t /\ k - 1 \in SlotIndexes /\ k - 1 < t
        BY <1>2, <1>5, <1>8, <2>1 DEF SlotIndexes
      <3>2. slots'[m][k - 1] = slots[m][k - 1]
        BY <1>a, <1>7, <3>1
      <3> QED
        BY <1>6, <1>8, <3>1, <3>2
    <2>2. CASE k > t
      <3> DEFINE j == k - t
      <3>1. j \in 1..Len(bids) /\ t + j = k /\ t + j - 1 = k - 1
        BY <1>5, <1>8, <2>2
      <3> HIDE DEF j
      <3>2. slots'[m][t + j - 1] = bids[j]
        BY <1>a, <1>7, <3>1
      <3> QED
        BY <1>8, <3>1, <3>2
    <2> QED
      BY <1>5, <1>8, <2>1, <2>2
  <1> HIDE DEF t, both
  <1>12. given'[m] = both
    BY <1>7 DEF both
  <1>13. ASSUME NEW n \in mapped'
         PROVE  /\ tail'[n] = Len(given'[n])
                /\ \A k \in 1..Len(given'[n]) : slots'[n][k - 1] = given'[n][k]
                /\ Len(given'[n]) <= Capacity
    <2>1. CASE n = m
      BY <1>2, <1>8, <1>10, <1>11, <1>12, <2>1 DEF t
    <2>2. CASE n # m
      BY <1>2, <1>7, <2>2 DEF GivenInv, GivenBuffersStay
    <2> QED
      BY <2>1, <2>2
  <1> QED
    BY <1>2, <1>13 DEF GivenInv, GivenBuffersStay

LEMMA NextGiven ==
    ASSUME SwapsAnything = FALSE, Refinds = TRUE
    PROVE  GivenInv /\ [Next]_vars => GivenInv'
  <1> SUFFICES ASSUME GivenInv, [Next]_vars PROVE GivenInv'
    OBVIOUS
  <1>1. RegistryInv'
    BY NextRegistry DEF GivenInv
  <1>2. TypeOK
    BY DEF GivenInv, RegistryInv
  <1>3. ASSUME UNCHANGED <<slots, tail, given, pc>>, mapped' \subseteq mapped
        PROVE  GivenInv'
    BY <1>1, <1>3 DEF GivenInv, GivenBuffersStay
  <1>4. ASSUME NEW r \in Rings, NEW g \in Bgids, RegisterBufferGroup(r, g)
        PROVE  GivenInv'
    <2> DEFINE m == ngroup + 1
    <2>1. m \in Mems
      BY <1>2, <1>4, BufferGroupsAssumption DEF RegisterBufferGroup, Mems, TypeOK
    <2>2. /\ slots' = [slots EXCEPT ![m] = [i \in DOMAIN @ |-> NoBid]]
          /\ tail' = [tail EXCEPT ![m] = 0]
          /\ given' = [given EXCEPT ![m] = <<>>]
          /\ mapped' = mapped \cup {m}
          /\ pc' = pc
      BY <1>4 DEF RegisterBufferGroup, SetUp
    <2> HIDE DEF m
    <2>3. mapped \subseteq Mems
      BY <1>2 DEF TypeOK
    <2>4. /\ tail'[m] = 0
          /\ given'[m] = <<>>
          /\ \A n \in mapped : n # m => /\ given'[n] = given[n]
                                        /\ tail'[n] = tail[n]
                                        /\ slots'[n] = slots[n]
      BY <1>2, <2>1, <2>2, <2>3 DEF TypeOK
    <2>5. Len(<<>>) = 0 /\ 0 <= Capacity /\ 1..0 = {}
      BY BufferGroupsAssumption, TailSizeType
    <2>6. ASSUME NEW n \in mapped'
          PROVE  /\ tail'[n] = Len(given'[n])
                 /\ \A k \in 1..Len(given'[n]) : slots'[n][k - 1] = given'[n][k]
                 /\ Len(given'[n]) <= Capacity
      <3>1. CASE n = m
        BY <2>4, <2>5, <3>1
      <3>2. CASE n # m
        BY <2>2, <2>4, <3>2 DEF GivenInv, GivenBuffersStay
      <3> QED
        BY <3>1, <3>2
    <2> QED
      BY <1>1, <2>2, <2>6 DEF GivenInv, GivenBuffersStay
  <1>5. ASSUME NEW r \in Rings, NEW g \in Bgids, UnregisterBufferGroup(r, g)
        PROVE  GivenInv'
    BY <1>3, <1>5 DEF UnregisterBufferGroup, Unmapped, bufferVars
  <1>6. ASSUME NEW r \in Rings, DoInit(r) PROVE GivenInv'
    BY <1>3, <1>6 DEF DoInit, bufferVars
  <1>7. ASSUME NEW r \in Rings, Exit(r) PROVE GivenInv'
    BY <1>3, <1>7 DEF Exit, Unmapped, bufferVars
  <1>8. ASSUME NEW r \in Rings, NEW s \in Rings, Swap(r, s) PROVE GivenInv'
    BY <1>3, <1>8 DEF Swap, bufferVars
  <1>9. ASSUME NEW h \in Rings \X Bgids, NEW b \in Bids, Insert(h, b) PROVE GivenInv'
    <2>1. <<b>> \in Seq(Bids)
      OBVIOUS
    <2> QED
      BY <1>1, <1>9, <2>1, InsertGiven DEF Insert
  <1>10. ASSUME NEW h \in Rings \X Bgids, NEW a \in Bids, NEW b \in Bids,
                InsertRange(h, <<a, b>>)
         PROVE  GivenInv'
    <2>1. <<a, b>> \in Seq(Bids)
      OBVIOUS
    <2> QED
      BY <1>1, <1>10, <2>1, InsertGiven
  <1>11. CASE UNCHANGED vars
    BY <1>3, <1>11 DEF vars, bufferVars
  <1> QED
    BY <1>4, <1>5, <1>6, <1>7, <1>8, <1>9, <1>10, <1>11 DEF Next

\* A caller that looks its group up before each insert, and swaps only valid rings
\* without groups, never inserts into an entry without a group, and every buffer
\* that it gave to a live group is where the kernel reads it, in order.
THEOREM BuffersStayGiven ==
    ASSUME SwapsAnything = FALSE, Refinds = TRUE
    PROVE  Spec => []GivenBuffersStay
  <1>1. Init => GivenInv
    <2>1. Init => pc = "run" /\ mapped = {}
      BY DEF Init
    <2> QED
      BY <2>1, InitRegistry DEF GivenInv, GivenBuffersStay
  <1>2. GivenInv => GivenBuffersStay
    BY DEF GivenInv
  <1> QED
    BY <1>1, <1>2, NextGiven, PTL DEF Spec
=============================================================================
