-------------------------- MODULE FixedFilesProofs --------------------------
(***************************************************************************)
(* Theorems about FixedFiles, for any table, any descriptors and any       *)
(* number of files and handles.                                            *)
(***************************************************************************)
EXTENDS FixedFiles, TLAPS

-----------------------------------------------------------------------------
(* Where files and handles go *)

\* A placement is a free slot of the table, and the one that was asked for.
LEMMA PlacementsAreFree ==
    ASSUME TypeOK, NEW want \in {alloc_index} \cup Slots, NEW slot \in Placements(want)
    PROVE  /\ slot \in Slots
           /\ table[slot] = None
           /\ want # alloc_index => slot = want
  BY DEF Placements, TypeOK

LEMMA SlotsAreNumbers ==
    /\ \A i \in Slots : i \in Int /\ i >= 0
    /\ alloc_index \notin Slots
    /\ 0 \in Slots
  BY FixedFilesAssumption DEF Slots, alloc_index

LEMMA HandleType ==
    ASSUME NEW i \in Slots, NEW f \in Files
    PROVE  /\ FixedFile(i, f) \in Handle
           /\ FixedSocket(i, f) \in Handle
           /\ \A s \in Handle : FixedConnection(s, i, f) \in Handle
  BY DEF FixedFile, FixedSocket, FixedConnection, Handle

\* The result of a direct open, socket or accept is a slot number.
LEMMA DirectResultType ==
    ASSUME NEW want, NEW slot \in Slots
    PROVE  DirectResult(want, slot) \in Slots
  BY SlotsAreNumbers DEF DirectResult

-----------------------------------------------------------------------------
(* Type correctness *)

LEMMA InitType == Init => TypeOK
  <1> SUFFICES ASSUME Init PROVE TypeOK
    OBVIOUS
  <1>1. /\ registered \in BOOLEAN
        /\ range \subseteq Slots
        /\ table \in [Slots -> Files \cup {None}]
        /\ handles \subseteq Handle
    BY DEF Init
  <1>2. fdtab \in [Fds -> Files \cup {None}]
    BY DEF Init
  <1>3. reg \in [fd : Int, asked : {-1} \cup Fds] /\ (reg.asked = -1 => reg.fd = -1)
    BY DEF Init
  <1> QED
    BY <1>1, <1>2, <1>3 DEF TypeOK

\* A callback that makes a handle of a new file keeps the types.
LEMMA PlaceDirectType ==
    ASSUME TypeOK, NEW f \in Files, NEW want \in {alloc_index} \cup Slots, NEW made,
           \A ev \in Slots : made[ev] \in Handle,
           PlaceDirect(f, want, made)
    PROVE  TypeOK'
  <1>1. PICK slot \in Placements(want) :
          /\ table' = [table EXCEPT ![slot] = f]
          /\ handles' = handles \cup {made[DirectResult(want, slot)]}
    BY DEF PlaceDirect
  <1>2. slot \in Slots
    BY PlacementsAreFree
  <1>3. made[DirectResult(want, slot)] \in Handle
    BY <1>2, DirectResultType
  <1> QED
    BY <1>1, <1>2, <1>3 DEF PlaceDirect, TypeOK

LEMMA RegisterMembersType ==
    ASSUME TypeOK, NEW d \in Fds \cup {None}
    PROVE  /\ RegisterMembers(d) \in [fd : Int, asked : {-1} \cup Fds]
           /\ RegisterMembers(d).asked = -1 => RegisterMembers(d).fd = -1
  BY FixedFilesAssumption DEF RegisterMembers, TypeOK

\* The two outcomes of a registration, m being the object when it is submitted.
LEMMA RegisterFileCases ==
    ASSUME NEW d, NEW off, RegisterFile(d, off), NEW m, m = RegisterMembers(d)
    PROVE  /\ d = None => MaySubmitAgain
           /\ UNCHANGED <<registered, range, fdtab>>
           /\ \/ reg' = m /\ UNCHANGED <<table, handles>>
              \/ /\ m.fd \in Fds
                 /\ fdtab[m.fd] # None
                 /\ \E slot \in Placements(off) :
                      /\ table' = [table EXCEPT ![slot] = fdtab[m.fd]]
                      /\ handles' = handles \cup
                           {FixedFile(IF off = alloc_index THEN slot ELSE off, fdtab[m.asked])}
                      /\ reg' = [m EXCEPT !.fd = IF off = alloc_index THEN slot ELSE m.fd]
  BY DEF RegisterFile

\* What a batch leaves: n new files in n free slots s, and a handle for each.
LEMMA RegisterBatchStep ==
    ASSUME TypeOK, NEW d \in Fds, NEW e \in Fds, NEW off \in {alloc_index} \cup Slots,
           RegisterBatch(<<d, e>>, off)
    PROVE  \E n \in 1..2 : \E s \in [1..n -> Slots], g \in [1..n -> Files] :
             /\ \A i, j \in 1..n : i # j => s[i] # s[j]
             /\ \A i \in 1..n : table[s[i]] = None
             /\ table' \in [Slots -> Files \cup {None}]
             /\ \A k \in 1..n : table'[s[k]] = g[k]
             /\ \A i \in Slots : (\A k \in 1..n : s[k] # i) => table'[i] = table[i]
             /\ handles' = handles \cup {FixedFile(s[i], g[i]) : i \in 1..n}
             /\ UNCHANGED <<registered, range, fdtab, reg>>
  <1> DEFINE ds == <<d, e>>
  <1>1. Len(ds) = 2 /\ \A i \in 1..2 : ds[i] \in Fds
    OBVIOUS
  <1>2. PICK n \in 1..2 :
          /\ \A i \in 1..n : fdtab[ds[i]] # None
          /\ \E s \in BatchSlots(n, off) :
               /\ table' = [i \in Slots |->
                             IF \E k \in 1..n : s[k] = i
                             THEN fdtab[ds[CHOOSE k \in 1..n : s[k] = i]]
                             ELSE table[i]]
               /\ handles' = handles \cup
                    {FixedFile(FileIndex(ds, n, s, off)[i], fdtab[ds[i]]) : i \in 1..n}
          /\ UNCHANGED <<registered, range, fdtab, reg>>
    BY <1>1 DEF RegisterBatch
  <1> HIDE DEF ds
  <1>3. PICK s \in BatchSlots(n, off) :
          /\ table' = [i \in Slots |->
                        IF \E k \in 1..n : s[k] = i
                        THEN fdtab[ds[CHOOSE k \in 1..n : s[k] = i]]
                        ELSE table[i]]
          /\ handles' = handles \cup
               {FixedFile(FileIndex(ds, n, s, off)[i], fdtab[ds[i]]) : i \in 1..n}
    BY <1>2
  <1>4. /\ s \in [1..n -> Slots]
        /\ \A i, j \in 1..n : i # j => s[i] # s[j]
        /\ \A i \in 1..n : table[s[i]] = None
        /\ off # alloc_index => \A i \in 1..n : s[i] = off + i - 1
    BY DEF BatchSlots
  <1>5. \A i \in 1..n : i \in 1..2 /\ i <= n
    BY <1>2
  <1>6. \A i \in 1..n : FileIndex(ds, n, s, off)[i] = s[i]
    BY <1>1, <1>4, <1>5 DEF FileIndex
  <1> DEFINE g == [i \in 1..n |-> fdtab[ds[i]]]
  <1>7. g \in [1..n -> Files]
    BY <1>1, <1>2, <1>5 DEF TypeOK
  <1>8. {FixedFile(FileIndex(ds, n, s, off)[i], fdtab[ds[i]]) : i \in 1..n}
        = {FixedFile(s[i], g[i]) : i \in 1..n}
    BY <1>6
  <1>9. ASSUME NEW k \in 1..n PROVE table'[s[k]] = g[k]
    <2> DEFINE c == CHOOSE j \in 1..n : s[j] = s[k]
    <2>1. c \in 1..n /\ s[c] = s[k]
      OBVIOUS
    <2>2. c = k
      BY <1>4, <2>1
    <2>3. s[k] \in Slots /\ \E j \in 1..n : s[j] = s[k]
      BY <1>4
    <2>4. table'[s[k]] = fdtab[ds[c]]
      BY <1>3, <2>3
    <2> QED
      BY <2>2, <2>4
  <1>10. ASSUME NEW i \in Slots, \A k \in 1..n : s[k] # i PROVE table'[i] = table[i]
    BY <1>3, <1>10
  <1>11. table' \in [Slots -> Files \cup {None}]
    <2>1. ASSUME NEW i \in Slots PROVE table'[i] \in Files \cup {None}
      <3>1. CASE \E k \in 1..n : s[k] = i
        BY <1>7, <1>9, <3>1
      <3>2. CASE ~\E k \in 1..n : s[k] = i
        BY <1>10, <3>2 DEF TypeOK
      <3> QED
        BY <3>1, <3>2
    <2> QED
      BY <1>3, <2>1
  <1> HIDE DEF g
  <1>12. handles' = handles \cup {FixedFile(s[i], g[i]) : i \in 1..n}
    BY <1>3, <1>8
  <1>13. s \in [1..n -> Slots]
    BY <1>4
  <1> USE <1>7, <1>13
  <1> WITNESS n \in 1..2
  <1> WITNESS s \in [1..n -> Slots], g \in [1..n -> Files]
  <1> QED
    BY <1>2, <1>4, <1>9, <1>10, <1>11, <1>12

LEMMA NextType == TypeOK /\ [Next]_vars => TypeOK'
  <1> SUFFICES ASSUME TypeOK, [Next]_vars PROVE TypeOK'
    OBVIOUS
  <1> USE FixedFilesAssumption
  <1>0. Indexes \subseteq Slots /\ Offsets \subseteq Slots
    BY DEF Slots
  <1>1. CASE RegisterTable
    BY <1>1 DEF RegisterTable, TypeOK
  <1>2. ASSUME NEW offset \in 0..NSlots, NEW length \in 0..NSlots,
               AllocRange(offset, length)
        PROVE  TypeOK'
    BY <1>2 DEF AllocRange, TypeOK
  <1>3. ASSUME NEW f \in Files, NEW want \in {alloc_index} \cup Indexes,
               OpenDirect(f, want)
        PROVE  TypeOK'
    <2> DEFINE made == [ev \in Slots |-> FixedFile(ev, f)]
    <2>1. \A ev \in Slots : made[ev] \in Handle
      BY HandleType
    <2>2. PlaceDirect(f, want, made)
      BY <1>3 DEF OpenDirect
    <2> HIDE DEF made
    <2> QED
      BY <1>0, <2>1, <2>2, PlaceDirectType
  <1>4. ASSUME NEW f \in Files, NEW want \in {alloc_index} \cup Indexes,
               SocketDirect(f, want)
        PROVE  TypeOK'
    <2> DEFINE made == [ev \in Slots |-> FixedSocket(ev, f)]
    <2>1. \A ev \in Slots : made[ev] \in Handle
      BY HandleType
    <2>2. PlaceDirect(f, want, made)
      BY <1>4 DEF SocketDirect
    <2> HIDE DEF made
    <2> QED
      BY <1>0, <2>1, <2>2, PlaceDirectType
  <1>5. ASSUME NEW f \in Files, NEW want \in {alloc_index} \cup Indexes,
               NEW h \in handles, AcceptDirect(h, f, want)
        PROVE  TypeOK'
    <2> DEFINE made == [ev \in Slots |-> FixedConnection(h, ev, f)]
    <2>1. h \in Handle
      BY DEF TypeOK
    <2>2. \A ev \in Slots : made[ev] \in Handle
      BY <2>1, HandleType
    <2>3. PlaceDirect(f, want, made)
      BY <1>5 DEF AcceptDirect
    <2> HIDE DEF made
    <2> QED
      BY <1>0, <2>2, <2>3, PlaceDirectType
  <1>6. ASSUME NEW d \in Fds \cup {None}, NEW off \in {alloc_index} \cup Offsets,
               RegisterFile(d, off)
        PROVE  TypeOK'
    <2> DEFINE m == RegisterMembers(d)
    <2>1. m \in [fd : Int, asked : {-1} \cup Fds] /\ (m.asked = -1 => m.fd = -1)
      BY RegisterMembersType
    <2>2. /\ UNCHANGED <<registered, range, fdtab>>
          /\ \/ reg' = m /\ UNCHANGED <<table, handles>>
             \/ /\ m.fd \in Fds
                /\ fdtab[m.fd] # None
                /\ \E slot \in Placements(off) :
                     /\ table' = [table EXCEPT ![slot] = fdtab[m.fd]]
                     /\ handles' = handles \cup
                          {FixedFile(IF off = alloc_index THEN slot ELSE off, fdtab[m.asked])}
                     /\ reg' = [m EXCEPT !.fd = IF off = alloc_index THEN slot ELSE m.fd]
      BY <1>6, RegisterFileCases
    <2> HIDE DEF m
    <2>3. CASE reg' = m /\ UNCHANGED <<table, handles>>
      BY <2>1, <2>2, <2>3 DEF TypeOK
    <2>4. ASSUME NEW slot \in Placements(off),
                 m.fd \in Fds, fdtab[m.fd] # None,
                 table' = [table EXCEPT ![slot] = fdtab[m.fd]],
                 handles' = handles \cup
                   {FixedFile(IF off = alloc_index THEN slot ELSE off, fdtab[m.asked])},
                 reg' = [m EXCEPT !.fd = IF off = alloc_index THEN slot ELSE m.fd]
          PROVE  TypeOK'
      <3>1. /\ slot \in Slots
            /\ slot \in Int
            /\ off # alloc_index => off \in Slots
        BY <1>0, PlacementsAreFree, SlotsAreNumbers
      <3>2. m.fd # -1 /\ m.asked \in Fds
        BY <2>1, <2>4
      <3>3. fdtab[m.fd] \in Files \cup {None} /\ fdtab[m.asked] \in Files \cup {None}
        BY <2>4, <3>2 DEF TypeOK
      <3>4. table' \in [Slots -> Files \cup {None}]
        BY <2>4, <3>1, <3>3 DEF TypeOK
      <3>5. handles' \subseteq Handle
        BY <2>4, <3>1, <3>3 DEF TypeOK, FixedFile, Handle
      <3>6. reg' \in [fd : Int, asked : {-1} \cup Fds] /\ reg'.asked # -1
        BY <2>1, <2>4, <3>1, <3>2
      <3> QED
        BY <2>2, <3>4, <3>5, <3>6 DEF TypeOK
    <2> QED
      BY <2>2, <2>3, <2>4
  <1>7. ASSUME NEW d \in Fds, NEW e \in Fds, NEW off \in {alloc_index} \cup Offsets,
               RegisterBatch(<<d, e>>, off)
        PROVE  TypeOK'
    <2>0. PICK n \in 1..2 : \E s \in [1..n -> Slots], g \in [1..n -> Files] :
            /\ table' \in [Slots -> Files \cup {None}]
            /\ handles' = handles \cup {FixedFile(s[i], g[i]) : i \in 1..n}
            /\ UNCHANGED <<registered, range, fdtab, reg>>
      BY <1>0, <1>7, RegisterBatchStep
    <2>1. PICK s \in [1..n -> Slots], g \in [1..n -> Files] :
            /\ table' \in [Slots -> Files \cup {None}]
            /\ handles' = handles \cup {FixedFile(s[i], g[i]) : i \in 1..n}
            /\ UNCHANGED <<registered, range, fdtab, reg>>
      BY <2>0
    <2>2. \A i \in 1..n : FixedFile(s[i], g[i]) \in Handle
      BY HandleType
    <2> QED
      BY <2>1, <2>2 DEF TypeOK
  <1>8. ASSUME NEW h \in handles, CloseFixed(h) \/ SocketCloseFixed(h)
        PROVE  TypeOK'
    <2>1. ASSUME NEW i, CloseSlot(h, i) PROVE TypeOK'
      BY <2>1 DEF CloseSlot, TypeOK
    <2> QED
      BY <1>8, <2>1 DEF CloseFixed, SocketCloseFixed
  <1>9. ASSUME NEW h \in handles, NEW d \in Fds, Install(h, d)
        PROVE  TypeOK'
    <2>1. h.base \in Slots
      BY DEF TypeOK, Handle
    <2> QED
      BY <1>9, <2>1 DEF Install, TypeOK
  <1>10. ASSUME NEW d \in Fds, CloseFd(d) PROVE TypeOK'
    BY <1>10 DEF CloseFd, TypeOK
  <1>11. CASE UNCHANGED vars
    BY <1>11 DEF vars, tableVars, TypeOK
  <1> QED
    BY <1>1, <1>2, <1>3, <1>4, <1>5, <1>6, <1>7, <1>8, <1>9, <1>10, <1>11
       DEF Next, MultishotAcceptDirect

\* The tables, the allocation range and every handle keep their types.
THEOREM TypeCorrect == Spec => []TypeOK
  BY InitType, NextType, PTL DEF Spec

-----------------------------------------------------------------------------
(* Handles and their files *)

\* No two handles have the same slot.
SlotsAreOwned == \A g, h \in handles : g.index = h.index => g = h

\* Every handle is of a file, and reads the same as a fixed_file unless it is a
\* connection.
HandlesAreOfFiles ==
    \A h \in handles : /\ h.file # None
                       /\ h.kind # "connection" => h.base = h.index

\* The inductive invariant: HandlesMeanFiles needs that closing the slot of one
\* handle takes the file of no other, and that a free slot has no handle.
HandleInv ==
    /\ TypeOK
    /\ HandlesMeanFiles
    /\ SlotsAreOwned
    /\ HandlesAreOfFiles
    /\ NoLeak

\* Any set new of handles, for files that come into as many free slots.
LEMMA AddHandles ==
    ASSUME HandleInv, TypeOK', NEW new, handles' = handles \cup new,
           \A h \in new : /\ h.index \in Slots
                          /\ table[h.index] = None
                          /\ table'[h.index] = h.file
                          /\ h.file # None
                          /\ h.kind # "connection" => h.base = h.index,
           \A g, h \in new : g.index = h.index => g = h,
           \A i \in Slots : (\A h \in new : h.index # i) => table'[i] = table[i]
    PROVE  HandleInv'
  <1>1. \A h \in handles : h.index \in Slots /\ table[h.index] # None
    BY DEF HandleInv, HandlesMeanFiles, HandlesAreOfFiles
  <1>2. \A g \in handles, h \in new : g.index # h.index
    BY <1>1
  <1>3. \A h \in handles : table'[h.index] = table[h.index]
    BY <1>1, <1>2
  <1>4. HandlesMeanFiles'
    BY <1>3 DEF HandleInv, HandlesMeanFiles
  <1>5. SlotsAreOwned'
    BY <1>2 DEF HandleInv, SlotsAreOwned
  <1>6. HandlesAreOfFiles'
    BY DEF HandleInv, HandlesAreOfFiles
  <1>7. NoLeak'
    <2> SUFFICES ASSUME NEW i \in Slots, table'[i] # None
                 PROVE  \E h \in handles' : h.index = i
      BY DEF NoLeak
    <2>1. CASE \E h \in new : h.index = i
      BY <2>1
    <2>2. CASE \A h \in new : h.index # i
      BY <2>2 DEF HandleInv, NoLeak
    <2> QED
      BY <2>1, <2>2
  <1> QED
    BY <1>4, <1>5, <1>6, <1>7 DEF HandleInv

\* One file into one free slot.
LEMMA AddHandle ==
    ASSUME HandleInv, TypeOK', NEW slot \in Slots, table[slot] = None,
           NEW f \in Files, table' = [table EXCEPT ![slot] = f],
           NEW h, handles' = handles \cup {h}, h.index = slot, h.file = f,
           h.kind # "connection" => h.base = h.index
    PROVE  HandleInv'
  <1>1. /\ table'[slot] = f
        /\ \A i \in Slots : i # slot => table'[i] = table[i]
    BY DEF HandleInv, TypeOK
  <1>2. f # None
    BY FixedFilesAssumption
  <1> DEFINE new == {h}
  <1>3. \A g \in new : /\ g.index \in Slots
                       /\ table[g.index] = None
                       /\ table'[g.index] = g.file
                       /\ g.file # None
                       /\ g.kind # "connection" => g.base = g.index
    BY <1>1, <1>2
  <1>4. \A g1, g2 \in new : g1.index = g2.index => g1 = g2
    OBVIOUS
  <1>5. \A i \in Slots : (\A g \in new : g.index # i) => table'[i] = table[i]
    BY <1>1
  <1>6. handles' = handles \cup new
    OBVIOUS
  <1> HIDE DEF new
  <1> QED
    BY <1>3, <1>4, <1>5, <1>6, AddHandles

\* The handle goes with the slot that is closed.
LEMMA CloseHandle ==
    ASSUME HandleInv, TypeOK', NEW h \in handles, CloseSlot(h, h.index)
    PROVE  HandleInv'
  <1>1. /\ h.index \in Slots
        /\ handles' = handles \ {h}
        /\ table' = [table EXCEPT ![h.index] = None]
    BY DEF CloseSlot, HandleInv, HandlesMeanFiles
  <1>2. \A g \in handles' : g \in handles /\ g.index # h.index
    BY <1>1 DEF HandleInv, SlotsAreOwned
  <1>3. \A i \in Slots : i # h.index => table'[i] = table[i]
    BY <1>1 DEF HandleInv, TypeOK
  <1>4. HandlesMeanFiles'
    BY <1>2, <1>3 DEF HandleInv, HandlesMeanFiles
  <1>5. SlotsAreOwned' /\ HandlesAreOfFiles'
    BY <1>2 DEF HandleInv, SlotsAreOwned, HandlesAreOfFiles
  <1>6. NoLeak'
    <2> SUFFICES ASSUME NEW i \in Slots, table'[i] # None
                 PROVE  \E g \in handles' : g.index = i
      BY DEF NoLeak
    <2>1. i # h.index
      BY <1>1 DEF HandleInv, TypeOK
    <2>2. table[i] # None
      BY <1>3, <2>1
    <2>3. PICK g \in handles : g.index = i
      BY <2>2 DEF HandleInv, NoLeak
    <2> QED
      BY <1>1, <2>1, <2>3
  <1> QED
    BY <1>4, <1>5, <1>6 DEF HandleInv

\* A direct open, socket or accept: the result says where the file is, as long
\* as 0 is the only index that the caller asks for.
LEMMA PlaceDirectHandle ==
    ASSUME HandleInv, TypeOK', Indexes \subseteq {0},
           NEW f \in Files, NEW want \in {alloc_index} \cup Indexes, NEW made,
           \A ev \in Slots : /\ made[ev].index = ev
                             /\ made[ev].file = f
                             /\ made[ev].kind # "connection" => made[ev].base = ev,
           PlaceDirect(f, want, made)
    PROVE  HandleInv'
  <1>1. PICK slot \in Placements(want) :
          /\ table' = [table EXCEPT ![slot] = f]
          /\ handles' = handles \cup {made[DirectResult(want, slot)]}
    BY DEF PlaceDirect
  <1>2. want \in {alloc_index} \cup Slots /\ (want # alloc_index => want = 0)
    BY SlotsAreNumbers
  <1>3. /\ slot \in Slots
        /\ table[slot] = None
        /\ want # alloc_index => slot = want
    BY <1>2, PlacementsAreFree DEF HandleInv
  <1>4. DirectResult(want, slot) = slot
    BY <1>2, <1>3 DEF DirectResult
  <1> DEFINE h == made[slot]
  <1>5. /\ h.index = slot
        /\ h.file = f
        /\ h.kind # "connection" => h.base = h.index
        /\ handles' = handles \cup {h}
    BY <1>1, <1>3, <1>4
  <1> HIDE DEF h
  <1> QED
    BY <1>1, <1>3, <1>5, AddHandle

LEMMA InitHandles == Init => HandleInv
  <1> SUFFICES ASSUME Init PROVE HandleInv
    OBVIOUS
  <1>1. TypeOK
    BY InitType
  <1>2. handles = {} /\ \A i \in Slots : table[i] = None
    BY DEF Init
  <1> QED
    BY <1>1, <1>2
       DEF HandleInv, HandlesMeanFiles, SlotsAreOwned, HandlesAreOfFiles, NoLeak

LEMMA NextHandles ==
    ASSUME Indexes \subseteq {0}, FileOpsOnConnections = FALSE, ReusesAllocated = FALSE
    PROVE  HandleInv /\ [Next]_vars => HandleInv'
  <1> SUFFICES ASSUME HandleInv, [Next]_vars PROVE HandleInv'
    OBVIOUS
  <1> USE FixedFilesAssumption
  <1>0. Indexes \subseteq Slots /\ Offsets \subseteq Slots
    BY DEF Slots
  <1>a. TypeOK
    BY DEF HandleInv
  <1>b. TypeOK'
    BY <1>a, NextType
  <1>c. ASSUME UNCHANGED <<table, handles>> PROVE HandleInv'
    BY <1>b, <1>c
       DEF HandleInv, HandlesMeanFiles, SlotsAreOwned, HandlesAreOfFiles, NoLeak
  <1>1. CASE RegisterTable
    BY <1>1, <1>c DEF RegisterTable
  <1>2. ASSUME NEW offset \in 0..NSlots, NEW length \in 0..NSlots,
               AllocRange(offset, length)
        PROVE  HandleInv'
    BY <1>2, <1>c DEF AllocRange
  <1>3. ASSUME NEW f \in Files, NEW want \in {alloc_index} \cup Indexes,
               OpenDirect(f, want)
        PROVE  HandleInv'
    <2> DEFINE made == [ev \in Slots |-> FixedFile(ev, f)]
    <2>1. \A ev \in Slots : /\ made[ev].index = ev
                            /\ made[ev].file = f
                            /\ made[ev].kind # "connection" => made[ev].base = ev
      BY DEF FixedFile
    <2>2. PlaceDirect(f, want, made)
      BY <1>3 DEF OpenDirect
    <2> HIDE DEF made
    <2> QED
      BY <1>b, <2>1, <2>2, PlaceDirectHandle
  <1>4. ASSUME NEW f \in Files, NEW want \in {alloc_index} \cup Indexes,
               SocketDirect(f, want)
        PROVE  HandleInv'
    <2> DEFINE made == [ev \in Slots |-> FixedSocket(ev, f)]
    <2>1. \A ev \in Slots : /\ made[ev].index = ev
                            /\ made[ev].file = f
                            /\ made[ev].kind # "connection" => made[ev].base = ev
      BY DEF FixedSocket
    <2>2. PlaceDirect(f, want, made)
      BY <1>4 DEF SocketDirect
    <2> HIDE DEF made
    <2> QED
      BY <1>b, <2>1, <2>2, PlaceDirectHandle
  <1>5. ASSUME NEW f \in Files, NEW want \in {alloc_index} \cup Indexes,
               NEW h \in handles, AcceptDirect(h, f, want)
        PROVE  HandleInv'
    <2> DEFINE made == [ev \in Slots |-> FixedConnection(h, ev, f)]
    <2>1. \A ev \in Slots : /\ made[ev].index = ev
                            /\ made[ev].file = f
                            /\ made[ev].kind # "connection" => made[ev].base = ev
      BY DEF FixedConnection
    <2>2. PlaceDirect(f, want, made)
      BY <1>5 DEF AcceptDirect
    <2> HIDE DEF made
    <2> QED
      BY <1>b, <2>1, <2>2, PlaceDirectHandle
  <1>6. ASSUME NEW d \in Fds \cup {None}, NEW off \in {alloc_index} \cup Offsets,
               RegisterFile(d, off)
        PROVE  HandleInv'
    <2> DEFINE m == RegisterMembers(d)
    <2>1. /\ d = None => MaySubmitAgain
          /\ \/ UNCHANGED <<table, handles>>
             \/ /\ m.fd \in Fds
                /\ fdtab[m.fd] # None
                /\ \E slot \in Placements(off) :
                     /\ table' = [table EXCEPT ![slot] = fdtab[m.fd]]
                     /\ handles' = handles \cup
                          {FixedFile(IF off = alloc_index THEN slot ELSE off, fdtab[m.asked])}
      BY <1>6, RegisterFileCases
    <2>2. m.fd = m.asked
      BY <2>1 DEF RegisterMembers, MaySubmitAgain
    <2> HIDE DEF m
    <2>3. ASSUME NEW slot \in Placements(off),
                 m.fd \in Fds, fdtab[m.fd] # None,
                 table' = [table EXCEPT ![slot] = fdtab[m.fd]],
                 handles' = handles \cup
                   {FixedFile(IF off = alloc_index THEN slot ELSE off, fdtab[m.asked])}
          PROVE  HandleInv'
      <3>1. /\ slot \in Slots
            /\ table[slot] = None
            /\ (IF off = alloc_index THEN slot ELSE off) = slot
        BY <1>0, <1>a, PlacementsAreFree
      <3> DEFINE f == fdtab[m.fd]
                 h == FixedFile(slot, f)
      <3>2. f \in Files
        BY <1>a, <2>3 DEF TypeOK
      <3>3. /\ h.index = slot
            /\ h.file = f
            /\ h.base = h.index
        BY DEF FixedFile
      <3>4. /\ table' = [table EXCEPT ![slot] = f]
            /\ handles' = handles \cup {h}
        BY <2>2, <2>3, <3>1
      <3> HIDE DEF f, h
      <3> QED
        BY <1>b, <3>1, <3>2, <3>3, <3>4, AddHandle
    <2> QED
      BY <1>c, <2>1, <2>3
  <1>7. ASSUME NEW d \in Fds, NEW e \in Fds, NEW off \in {alloc_index} \cup Offsets,
               RegisterBatch(<<d, e>>, off)
        PROVE  HandleInv'
    <2>0. off \in {alloc_index} \cup Slots
      BY <1>0
    <2>1. PICK n \in 1..2 : \E s \in [1..n -> Slots], g \in [1..n -> Files] :
            /\ \A i, j \in 1..n : i # j => s[i] # s[j]
            /\ \A i \in 1..n : table[s[i]] = None
            /\ table' \in [Slots -> Files \cup {None}]
            /\ \A k \in 1..n : table'[s[k]] = g[k]
            /\ \A i \in Slots : (\A k \in 1..n : s[k] # i) => table'[i] = table[i]
            /\ handles' = handles \cup {FixedFile(s[i], g[i]) : i \in 1..n}
            /\ UNCHANGED <<registered, range, fdtab, reg>>
      BY <1>7, <1>a, <2>0, RegisterBatchStep
    <2>2. PICK s \in [1..n -> Slots], g \in [1..n -> Files] :
            /\ \A i, j \in 1..n : i # j => s[i] # s[j]
            /\ \A i \in 1..n : table[s[i]] = None
            /\ \A k \in 1..n : table'[s[k]] = g[k]
            /\ \A i \in Slots : (\A k \in 1..n : s[k] # i) => table'[i] = table[i]
            /\ handles' = handles \cup {FixedFile(s[i], g[i]) : i \in 1..n}
      BY <2>1
    <2> DEFINE new == {FixedFile(s[i], g[i]) : i \in 1..n}
    <2>3. \A i \in 1..n : /\ FixedFile(s[i], g[i]).index = s[i]
                          /\ FixedFile(s[i], g[i]).file = g[i]
                          /\ FixedFile(s[i], g[i]).base = s[i]
      BY DEF FixedFile
    <2>4. \A h \in new : /\ h.index \in Slots
                         /\ table[h.index] = None
                         /\ table'[h.index] = h.file
                         /\ h.file # None
                         /\ h.base = h.index
      BY <2>2, <2>3
    <2>5. \A h1, h2 \in new : h1.index = h2.index => h1 = h2
      BY <2>2, <2>3
    <2>6. \A i \in Slots : (\A h \in new : h.index # i) => table'[i] = table[i]
      BY <2>2, <2>3
    <2>7. handles' = handles \cup new
      BY <2>2
    <2> HIDE DEF new
    <2> QED
      BY <1>b, <2>4, <2>5, <2>6, <2>7, AddHandles
  <1>8. ASSUME NEW h \in handles, CloseFixed(h) PROVE HandleInv'
    <2>1. h.base = h.index
      BY <1>8 DEF CloseFixed, AsFixedFile, HandleInv, HandlesAreOfFiles
    <2>2. CloseSlot(h, h.index)
      BY <1>8, <2>1 DEF CloseFixed
    <2> QED
      BY <1>b, <2>2, CloseHandle
  <1>9. ASSUME NEW h \in handles, SocketCloseFixed(h) PROVE HandleInv'
    BY <1>9, <1>b, CloseHandle DEF SocketCloseFixed
  <1>10. ASSUME NEW h \in handles, NEW d \in Fds, Install(h, d) PROVE HandleInv'
    BY <1>10, <1>c DEF Install
  <1>11. ASSUME NEW d \in Fds, CloseFd(d) PROVE HandleInv'
    BY <1>11, <1>c DEF CloseFd
  <1>12. CASE UNCHANGED vars
    BY <1>12, <1>c DEF vars, tableVars
  <1> QED
    BY <1>1, <1>2, <1>3, <1>4, <1>5, <1>6, <1>7, <1>8, <1>9, <1>10, <1>11, <1>12
       DEF Next, MultishotAcceptDirect

\* Whatever is opened, registered, accepted, installed and closed in whatever
\* order, each handle stands for the file it was delivered for, if the caller
\* asks for no index but 0, passes no connection to the operations of fileops
\* and does not submit a register object again after an allocation.
THEOREM HandlesStandForFiles ==
    ASSUME Indexes \subseteq {0}, FileOpsOnConnections = FALSE, ReusesAllocated = FALSE
    PROVE  Spec => []HandlesMeanFiles
  <1>1. Init => HandleInv
    BY InitHandles
  <1>2. HandleInv /\ [Next]_vars => HandleInv'
    BY NextHandles
  <1>3. HandleInv => HandlesMeanFiles
    BY DEF HandleInv
  <1> QED
    BY <1>1, <1>2, <1>3, PTL DEF Spec

\* From the same assumptions: a file of the table always has a handle.
THEOREM TableNeverLeaks ==
    ASSUME Indexes \subseteq {0}, FileOpsOnConnections = FALSE, ReusesAllocated = FALSE
    PROVE  Spec => []NoLeak
  <1>1. Init => HandleInv
    BY InitHandles
  <1>2. HandleInv /\ [Next]_vars => HandleInv'
    BY NextHandles
  <1>3. HandleInv => NoLeak
    BY DEF HandleInv
  <1> QED
    BY <1>1, <1>2, <1>3, PTL DEF Spec
=============================================================================
