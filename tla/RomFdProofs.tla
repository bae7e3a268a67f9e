---------------------------- MODULE RomFdProofs ----------------------------
(***************************************************************************)
(* Theorems about the descriptors of the ROM file system (RomFd.tla), for   *)
(* tables of any size, any files and any width of long.                     *)
(***************************************************************************)
EXTENDS RomFd, FiniteSetTheorems, WellFoundedInduction, TLAPS

\* The first of a set of numbers is one of them.
LEMMA FirstIn ==
  ASSUME NEW S \in SUBSET Nat, S # {}
  PROVE  First(S) \in S
<1>1. PICK m \in S : \A c \in S : ~ (<<c, m>> \in OpToRel(<, Nat))
  BY NatLessThanWellFounded, WFMin, Zenon
<1>2. \A c, d \in Nat : c < d => <<c, d>> \in OpToRel(<, Nat)
  BY Zenon DEF OpToRel
<1>3. \A c \in S : ~ (c < m)
  BY <1>1, <1>2, Zenon
<1>4. \A c \in S : m <= c
  BY <1>3
<1> QED
  BY <1>4 DEF First

LEMMA NamingFinite ==
  \A i : IsFiniteSet(Naming(i)) /\ Cardinality(Naming(i)) \in Nat
<1>1. IsFiniteSet(0 .. NFD - 1)
  BY RomFdAssumption, FS_Interval
<1>2. ASSUME NEW i PROVE IsFiniteSet(Naming(i)) /\ Cardinality(Naming(i)) \in Nat
  <2>1. Naming(i) \in SUBSET (0 .. NFD - 1)
    BY DEF Naming
  <2>2. IsFiniteSet(Naming(i))
    BY <1>1, <2>1, FS_Subset
  <2> QED
    BY <2>2, FS_CardinalityType
<1> QED
  BY <1>2

\* A free descriptor that is made to name i adds one to what i is named by.
LEMMA NamingAdd ==
  ASSUME TypeOK, NEW d \in FreeSlots, NEW i \in 0 .. NFD - 1, fds' = [fds EXCEPT ![d] = i]
  PROVE  \A j \in 0 .. NFD - 1 :
           Cardinality(Naming(j))' = Cardinality(Naming(j)) + IF j = i THEN 1 ELSE 0
<1>0. d \in 0 .. NFD - 1 /\ fds[d] = Null /\ Null \notin 0 .. NFD - 1
  BY RomFdAssumption DEF FreeSlots, Null
<1>1. Naming(i)' = Naming(i) \cup {d} /\ d \notin Naming(i)
  BY <1>0 DEF Naming, TypeOK
<1>2. \A j \in 0 .. NFD - 1 : j # i => Naming(j)' = Naming(j)
  BY <1>0 DEF Naming, TypeOK
<1>3. Cardinality(Naming(i) \cup {d}) = Cardinality(Naming(i)) + 1
  BY <1>1, NamingFinite, FS_AddElement
<1> QED
  BY <1>1, <1>2, <1>3, NamingFinite

\* A descriptor of i that is closed takes one away.
LEMMA NamingDrop ==
  ASSUME TypeOK, NEW d \in 0 .. NFD - 1, NEW i \in 0 .. NFD - 1, fds[d] = i,
         fds' = [fds EXCEPT ![d] = Null]
  PROVE  /\ \A j \in 0 .. NFD - 1 :
              Cardinality(Naming(j))' = Cardinality(Naming(j)) - IF j = i THEN 1 ELSE 0
         /\ Cardinality(Naming(i)) > 0
<1>0. Null \notin 0 .. NFD - 1
  BY RomFdAssumption DEF Null
<1>1. Naming(i)' = Naming(i) \ {d} /\ d \in Naming(i)
  BY <1>0 DEF Naming, TypeOK
<1>2. \A j \in 0 .. NFD - 1 : j # i => Naming(j)' = Naming(j)
  BY <1>0 DEF Naming, TypeOK
<1>3. Cardinality(Naming(i) \ {d}) = Cardinality(Naming(i)) - 1
  BY <1>1, NamingFinite, FS_RemoveElement
<1>4. Cardinality(Naming(i)) # 0
  BY <1>1, NamingFinite, FS_EmptySet
<1> QED
  BY <1>1, <1>2, <1>3, <1>4, NamingFinite

-----------------------------------------------------------------------------

LEMMA InitInv == Init => FdInv
<1>. SUFFICES ASSUME Init PROVE FdInv
  OBVIOUS
<1>. USE RomFdAssumption
<1>1. \A i \in 0 .. NFD - 1 : fds[i] = IF i < 3 THEN i ELSE Null
  BY DEF Init
<1>2. \A i \in 3 .. NFD - 1 : obj[i] = Unused
  <2>1. \A i \in 3 .. NFD - 1 : i \in 0 .. NFD - 1 /\ ~ (i < 3)
    OBVIOUS
  <2> QED
    BY <2>1 DEF Init
<1>3. \A i \in 0 .. 2 : obj[i] = [Unused EXCEPT !.kind = ConsoleKind[i], !.refs = 1]
  <2>1. \A i \in 0 .. 2 : i \in 0 .. NFD - 1 /\ i < 3
    OBVIOUS
  <2> QED
    BY <2>1 DEF Init
<1>4. \A i \in 0 .. 2 : ConsoleKind[i] \in Kinds
  BY DEF ConsoleKind, Kinds
<1>5. \A i \in 3 .. NFD - 1 : /\ obj[i] \in Object /\ obj[i].kind = "FREE"
                             /\ obj[i].pos = 0 /\ obj[i].refs = 0
  BY <1>2 DEF Unused, Object, Kinds
<1>6. \A i \in 0 .. 2 : /\ obj[i] \in Object /\ obj[i].kind = ConsoleKind[i]
                       /\ obj[i].pos = 0 /\ obj[i].refs = 1
  <2>1. ASSUME NEW i \in 0 .. 2
        PROVE  obj[i] = [kind |-> ConsoleKind[i], file |-> NoFile, pos |-> 0, refs |-> 1]
    BY <1>3, ZenonT(40) DEF Unused
  <2> QED
    BY <1>4, <2>1 DEF Object
<1>7. \A i \in 0 .. NFD - 1 : i \in 0 .. 2 \/ i \in 3 .. NFD - 1
  OBVIOUS
<1>8. TypeOK
  <2>1. obj = [i \in 0 .. NFD - 1 |-> obj[i]] /\ fds = [i \in 0 .. NFD - 1 |-> fds[i]]
    BY DEF Init
  <2>2. \A i \in 0 .. NFD - 1 : obj[i] \in Object
    BY <1>5, <1>6, <1>7
  <2>3. \A i \in 0 .. NFD - 1 : fds[i] \in (0 .. NFD - 1) \cup {Null}
    BY <1>1
  <2> QED
    BY <2>1, <2>2, <2>3 DEF TypeOK
<1>9. PosFits
  BY <1>5, <1>6, <1>7 DEF PosFits
<1>10. ConsoleStays
  BY <1>1, <1>6 DEF ConsoleStays
<1>11. OthersAreFiles
  BY <1>5 DEF OthersAreFiles
<1>12. ASSUME NEW i \in 0 .. NFD - 1
       PROVE  obj[i].refs = Cardinality(Naming(i))
  <2>1. CASE i \in 0 .. 2
    <3>1. Naming(i) = {i}
      BY <1>1, <2>1 DEF Naming, Null
    <3> QED
      BY <1>6, <2>1, <3>1, FS_Singleton
  <2>2. CASE i \in 3 .. NFD - 1
    <3>1. Naming(i) = {}
      BY <1>1, <2>2 DEF Naming, Null
    <3> QED
      BY <1>5, <2>2, <3>1, FS_EmptySet
  <2> QED
    BY <1>7, <2>1, <2>2
<1> QED
  BY <1>8, <1>9, <1>10, <1>11, <1>12 DEF FdInv, RefsExact

\* Calls that leave the tables alone.
LEMMA SameInv == FdInv /\ UNCHANGED <<obj, fds>> => FdInv'
BY DEF FdInv, TypeOK, RefsExact, Naming, PosFits, ConsoleStays, OthersAreFiles

\* Calls that only move a position of a file.
LEMMA MovedInv ==
  ASSUME FdInv, NEW i \in 0 .. NFD - 1, obj[i].kind = "FD_ROM", NEW p \in 0 .. LongMax,
         obj' = [obj EXCEPT ![i].pos = p], fds' = fds
  PROVE  FdInv'
<1>1. \A j \in 0 .. NFD - 1 : /\ obj'[j] = [obj[j] EXCEPT !.pos = IF j = i THEN p ELSE @]
                             /\ obj'[j].kind = obj[j].kind /\ obj'[j].refs = obj[j].refs
                             /\ obj'[j].file = obj[j].file
                             /\ obj'[j].pos = IF j = i THEN p ELSE obj[j].pos
  BY DEF FdInv, TypeOK, Object
<1>2. TypeOK'
  <2>1. p \in Nat
    BY RomFdAssumption
  <2>2. obj \in [0 .. NFD - 1 -> Object]
    BY DEF FdInv, TypeOK
  <2>3. [obj[i] EXCEPT !.pos = p] \in Object
    BY <2>1, <2>2 DEF Object
  <2>4. obj' \in [0 .. NFD - 1 -> Object]
    BY <2>2, <2>3
  <2> QED
    BY <2>4 DEF FdInv, TypeOK
<1>3. RefsExact'
  BY <1>1 DEF FdInv, RefsExact, Naming
<1>4. PosFits'
  BY <1>1, RomFdAssumption DEF FdInv, PosFits
<1>5. ConsoleStays' /\ OthersAreFiles'
  BY <1>1, RomFdAssumption DEF FdInv, ConsoleStays, OthersAreFiles
<1> QED
  BY <1>2, <1>3, <1>4, <1>5 DEF FdInv

\* open() of a file, when both tables have room.
LEMMA OpenInv ==
  ASSUME FdInv, NEW f \in File, Size[f] <= LongMax,
         NEW d \in FreeSlots, NEW i \in FreeObjects,
         obj' = [obj EXCEPT ![i] = [kind |-> "FD_ROM", file |-> f, pos |-> 0, refs |-> 1]],
         fds' = [fds EXCEPT ![d] = i]
  PROVE  FdInv'
<1>. USE RomFdAssumption
<1>0. /\ i \in 3 .. NFD - 1 /\ i \in 0 .. NFD - 1 /\ obj[i].refs = 0
      /\ d \in 3 .. NFD - 1 /\ TypeOK
  BY DEF FreeSlots, FreeObjects, FdInv
<1>1. \A j \in 0 .. NFD - 1 :
        obj'[j] = IF j = i THEN [kind |-> "FD_ROM", file |-> f, pos |-> 0, refs |-> 1] ELSE obj[j]
  BY DEF FdInv, TypeOK
<1>2. TypeOK'
  BY <1>0 DEF FdInv, TypeOK, Object, Kinds
<1>3. RefsExact'
  <2>1. \A j \in 0 .. NFD - 1 :
          Cardinality(Naming(j))' = Cardinality(Naming(j)) + IF j = i THEN 1 ELSE 0
    BY <1>0, NamingAdd, ZenonT(40)
  <2> QED
    BY <1>0, <1>1, <2>1, NamingFinite DEF FdInv, RefsExact
<1>4. PosFits'
  BY <1>1 DEF FdInv, PosFits
<1>5. ConsoleStays'
  BY <1>0, <1>1 DEF FdInv, TypeOK, ConsoleStays
<1>6. OthersAreFiles'
  BY <1>1 DEF FdInv, OthersAreFiles
<1> QED
  BY <1>2, <1>3, <1>4, <1>5, <1>6 DEF FdInv

\* dup() when there is room.
LEMMA DupInv ==
  ASSUME FdInv, NEW d \in FreeSlots, NEW i \in 0 .. NFD - 1,
         i < 3 \/ obj[i].refs # 0,
         fds' = [fds EXCEPT ![d] = i],
         obj' = [obj EXCEPT ![i].refs = @ + 1]
  PROVE  FdInv'
<1>. USE RomFdAssumption
<1>0. d \in 3 .. NFD - 1 /\ TypeOK
  BY DEF FreeSlots, FdInv
<1>1. ASSUME NEW j \in 0 .. NFD - 1
      PROVE  /\ obj'[j] \in Object /\ obj[j].refs \in Nat
             /\ obj'[j].refs = obj[j].refs + IF j = i THEN 1 ELSE 0
             /\ obj'[j].kind = obj[j].kind /\ obj'[j].file = obj[j].file
             /\ obj'[j].pos = obj[j].pos
  <2>1. obj[j] \in Object /\ obj[i] \in Object
    BY <1>0 DEF TypeOK
  <2>2. CASE j = i
    <3>1. obj'[j] = [obj[j] EXCEPT !.refs = @ + 1]
      BY <1>0, <2>2 DEF TypeOK
    <3> QED
      BY <2>1, <2>2, <3>1 DEF Object
  <2>3. CASE j # i
    <3>1. obj'[j] = obj[j]
      BY <1>0, <2>3 DEF TypeOK
    <3> QED
      BY <2>1, <2>3, <3>1 DEF Object
  <2> QED
    BY <2>2, <2>3
<1>2. TypeOK'
  BY <1>0, <1>1 DEF TypeOK
<1>3. RefsExact'
  <2>1. \A j \in 0 .. NFD - 1 :
          Cardinality(Naming(j))' = Cardinality(Naming(j)) + IF j = i THEN 1 ELSE 0
    BY <1>0, NamingAdd, Zenon
  <2> QED
    BY <1>1, <2>1, NamingFinite DEF FdInv, RefsExact
<1>4. PosFits'
  BY <1>1 DEF FdInv, PosFits
<1>5. ConsoleStays'
  BY <1>0, <1>1 DEF FdInv, TypeOK, ConsoleStays
<1>6. OthersAreFiles'
  BY <1>1 DEF FdInv, OthersAreFiles
<1> QED
  BY <1>2, <1>3, <1>4, <1>5, <1>6 DEF FdInv

\* close() of a descriptor above the console's.
LEMMA CloseInv ==
  ASSUME FdInv, NEW d \in 3 .. NFD - 1, NEW i \in 0 .. NFD - 1, fds[d] = i,
         obj' = [obj EXCEPT ![i] = Dropped(@)],
         fds' = [fds EXCEPT ![d] = Null]
  PROVE  FdInv'
<1>. USE RomFdAssumption
<1>1. \A j \in 0 .. NFD - 1 : /\ obj'[j] = IF j = i THEN Dropped(obj[j]) ELSE obj[j]
                             /\ obj[j] \in Object
  BY DEF FdInv, TypeOK
<1>2. /\ \A j \in 0 .. NFD - 1 :
           Cardinality(Naming(j))' = Cardinality(Naming(j)) - IF j = i THEN 1 ELSE 0
      /\ Cardinality(Naming(i)) > 0
  <2>1. TypeOK /\ d \in 0 .. NFD - 1
    BY DEF FdInv
  <2> QED
    BY <2>1, NamingDrop, Zenon
<1>3. obj[i].refs \in Nat \ {0}
  BY <1>1, <1>2 DEF FdInv, RefsExact, Object
<1>4. /\ Dropped(obj[i]) \in Object
      /\ Dropped(obj[i]).refs = obj[i].refs - 1
      /\ Dropped(obj[i]).pos <= obj[i].pos
      /\ obj[i].refs # 1 => /\ Dropped(obj[i]).kind = obj[i].kind
                            /\ Dropped(obj[i]).file = obj[i].file
      /\ obj[i].refs = 1 => Dropped(obj[i]).kind = "FREE"
  <2>1. CASE obj[i].refs = 1
    <3>1. Dropped(obj[i]) = Unused
      BY <2>1 DEF Dropped
    <3> QED
      BY <1>1, <2>1, <3>1 DEF Unused, Object, Kinds
  <2>2. CASE obj[i].refs # 1
    <3>1. Dropped(obj[i]) = [obj[i] EXCEPT !.refs = @ - 1]
      BY <2>2 DEF Dropped
    <3> QED
      BY <1>1, <1>3, <2>2, <3>1 DEF Object
  <2> QED
    BY <2>1, <2>2
<1>5. TypeOK'
  BY <1>1, <1>4 DEF FdInv, TypeOK
<1>6. RefsExact'
  BY <1>1, <1>2, <1>4, NamingFinite DEF FdInv, RefsExact
<1>7. PosFits'
  BY <1>1, <1>4 DEF FdInv, PosFits, Object
<1>8. i < 3 => obj[i].refs > 1
  <2>1. ASSUME i < 3 PROVE obj[i].refs # 1
    <3>1. i \in Naming(i) /\ d \in Naming(i) /\ i # d
      BY <2>1 DEF FdInv, ConsoleStays, Naming
    <3> QED
      BY <3>1, NamingFinite, FS_Singleton DEF FdInv, RefsExact
  <2> QED
    BY <1>3, <2>1
<1>9. ConsoleStays'
  BY <1>1, <1>4, <1>8 DEF FdInv, TypeOK, ConsoleStays
<1>10. OthersAreFiles'
  BY <1>1, <1>3, <1>4 DEF FdInv, OthersAreFiles
<1> QED
  BY <1>5, <1>6, <1>7, <1>9, <1>10 DEF FdInv

-----------------------------------------------------------------------------

\* A call keeps the invariant.
LEMMA NextInv == FdInv /\ [Next]_vars => FdInv'
<1>. SUFFICES ASSUME FdInv, [Next]_vars PROVE FdInv'
  OBVIOUS
<1>. USE RomFdAssumption
<1>0. TypeOK
  BY DEF FdInv
<1>1. \A fd : Valid(fd) => fd \in 0 .. NFD - 1 /\ fds[fd] \in 0 .. NFD - 1
  BY <1>0 DEF Valid, TypeOK
<1>2. FreeSlots # {} => First(FreeSlots) \in FreeSlots
  <2>1. FreeSlots \in SUBSET Nat
    BY DEF FreeSlots
  <2> QED
    BY <2>1, FirstIn
<1>3. FreeObjects # {} => First(FreeObjects) \in FreeObjects
  <2>1. FreeObjects \in SUBSET Nat
    BY DEF FreeObjects
  <2> QED
    BY <2>1, FirstIn
<1>4. ASSUME UNCHANGED <<obj, fds>> PROVE FdInv'
  BY <1>4, SameInv
<1>5. ASSUME NEW call, NEW fd, NEW e, Fails(call, fd, e) PROVE FdInv'
  BY <1>4, <1>5 DEF Fails
<1>6. CASE OpenFails
  BY <1>5, <1>6 DEF OpenFails
<1>7. ASSUME NEW f \in File, Open(f) PROVE FdInv'
  <2>1. CASE \E e : Fails("open", -1, e)
    BY <1>5, <2>1
  <2>2. CASE /\ Size[f] <= LongMax /\ FreeSlots # {} /\ FreeObjects # {}
             /\ obj' = [obj EXCEPT ![First(FreeObjects)] =
                          [kind |-> "FD_ROM", file |-> f, pos |-> 0, refs |-> 1]]
             /\ fds' = [fds EXCEPT ![First(FreeSlots)] = First(FreeObjects)]
    BY <1>2, <1>3, <2>2, OpenInv
  <2> QED
    BY <1>7, <2>1, <2>2 DEF Open
<1>8. ASSUME NEW fd \in Fds, Close(fd) PROVE FdInv'
  <2>1. CASE \E e : Fails("close", fd, e)
    BY <1>5, <2>1
  <2>2. CASE UNCHANGED <<obj, fds>>
    BY <1>4, <2>2
  <2>3. CASE /\ Valid(fd) /\ fd >= 3
             /\ obj' = [obj EXCEPT ![fds[fd]] = Dropped(@)]
             /\ fds' = [fds EXCEPT ![fd] = Null]
    <3>1. fd \in 3 .. NFD - 1 /\ fds[fd] \in 0 .. NFD - 1
      BY <1>1, <2>3
    <3> QED
      BY <2>3, <3>1, CloseInv
  <2> QED
    BY <1>8, <2>1, <2>2, <2>3 DEF Close
<1>9. ASSUME NEW fd \in Fds, Dup(fd) PROVE FdInv'
  <2>1. CASE \E e : Fails("dup", fd, e)
    BY <1>5, <2>1
  <2>2. CASE /\ Valid(fd) /\ FreeSlots # {}
             /\ fds' = [fds EXCEPT ![First(FreeSlots)] = fds[fd]]
             /\ obj' = [obj EXCEPT ![fds[fd]].refs = @ + 1]
    <3>1. PICK i \in 0 .. NFD - 1 : i = fds[fd]
      BY <1>1, <2>2
    <3>2. PICK d \in FreeSlots : d = First(FreeSlots)
      BY <1>2, <2>2
    <3>3. obj[i].refs # 0
      <4>1. fd \in Naming(i)
        BY <1>1, <2>2, <3>1 DEF Naming
      <4>2. Cardinality(Naming(i)) # 0
        BY <4>1, NamingFinite, FS_EmptySet
      <4> QED
        BY <4>2 DEF FdInv, RefsExact
    <3>4. fds' = [fds EXCEPT ![d] = i] /\ obj' = [obj EXCEPT ![i].refs = @ + 1]
      BY <2>2, <3>1, <3>2
    <3> QED
      BY <3>3, <3>4, DupInv
  <2> QED
    BY <1>9, <2>1, <2>2 DEF Dup
<1>10. ASSUME NEW fd \in Fds, NEW n \in Counts, Read(fd, n) PROVE FdInv'
  <2>1. CASE \E e : Fails("read", fd, e)
    BY <1>5, <2>1
  <2>2. CASE UNCHANGED <<obj, fds>>
    BY <1>4, <2>2
  <2>3. CASE /\ Valid(fd) /\ n \in 1 .. LongMax /\ obj[fds[fd]].kind = "FD_ROM"
             /\ obj' = [obj EXCEPT ![fds[fd]].pos = @ + Rest(obj[fds[fd]], n)]
             /\ UNCHANGED fds
    <3>1. PICK i \in 0 .. NFD - 1 : i = fds[fd]
      BY <1>1, <2>3
    <3>2. /\ obj[i] \in Object /\ obj[i].pos \in 0 .. LongMax
          /\ obj[i].file \in File /\ Size[obj[i].file] \in 0 .. LongMax
      <4>1. i \in 3 .. NFD - 1
        BY <2>3, <3>1 DEF FdInv, ConsoleStays, ConsoleKind
      <4>2. obj[i] \in Object /\ obj[i].pos \in 0 .. LongMax
        BY <1>0 DEF FdInv, TypeOK, PosFits, Object
      <4>3. obj[i].file \in File /\ Size[obj[i].file] <= LongMax
        BY <2>3, <3>1, <4>1 DEF FdInv, OthersAreFiles
      <4> QED
        BY <4>2, <4>3 DEF SizeMax
    <3>3. obj[i].pos + Rest(obj[i], n) \in 0 .. LongMax
      BY <2>3, <3>2 DEF Rest
    <3>4. obj' = [obj EXCEPT ![i].pos = obj[i].pos + Rest(obj[i], n)]
      BY <2>3, <3>1
    <3> QED
      BY <2>3, <3>1, <3>3, <3>4, MovedInv
  <2> QED
    BY <1>10, <2>1, <2>2, <2>3 DEF Read
<1>11. ASSUME NEW fd \in Fds, NEW n \in Counts, Write(fd, n) PROVE FdInv'
  BY <1>4, <1>5, <1>11 DEF Write
<1>12. ASSUME NEW fd \in Fds, NEW off \in Offsets, NEW whence \in Whences,
              Lseek(fd, off, whence)
       PROVE  FdInv'
  <2>. DEFINE b == Base(obj[fds[fd]], whence)
  <2>1. CASE \E e : Fails("lseek", fd, e)
    BY <1>5, <2>1
  <2>2. CASE /\ Valid(fd) /\ obj[fds[fd]].kind = "FD_ROM" /\ ~ SeekFails(b, off)
             /\ obj' = [obj EXCEPT ![fds[fd]].pos = b + off]
             /\ UNCHANGED fds
    <3>1. fds[fd] \in 0 .. NFD - 1
      BY <1>1, <2>2
    <3>2. b \in Int /\ b <= LongMax
      <4>1. obj[fds[fd]].pos \in 0 .. LongMax
        BY <1>0, <3>1 DEF FdInv, TypeOK, PosFits, Object
      <4>2. fds[fd] \in 3 .. NFD - 1
        BY <2>2, <3>1 DEF FdInv, ConsoleStays, ConsoleKind
      <4>3. obj[fds[fd]].file \in File /\ Size[obj[fds[fd]].file] <= LongMax
        BY <2>2, <4>2 DEF FdInv, OthersAreFiles
      <4>4. Size[obj[fds[fd]].file] \in 0 .. LongMax
        BY <4>3 DEF SizeMax
      <4>5. \A x \in 0 .. LongMax : AsLong(x) = x
        BY DEF AsLong
      <4> QED
        BY <4>1, <4>4, <4>5 DEF Base, Whences
    <3>3. off \in -LongMax - 1 .. LongMax
      OBVIOUS
    <3>4. b + off \in 0 .. LongMax
      <4>. HIDE DEF b
      <4>1. b >= 0 /\ off >= -b /\ (off > 0 => off <= LongMax - b)
        BY <2>2, <3>2, <3>3 DEF SeekFails
      <4> QED
        BY <3>2, <3>3, <4>1
    <3> QED
      BY <2>2, <3>1, <3>4, MovedInv
  <2> QED
    BY <1>12, <2>1, <2>2 DEF Lseek
<1>13. CASE UNCHANGED vars
  BY <1>4, <1>13 DEF vars
<1> QED
  BY <1>6, <1>7, <1>8, <1>9, <1>10, <1>11, <1>12, <1>13 DEF Next

\* Were there a free descriptor and no free object, every object would be named
\* by a descriptor of its own, and one descriptor fewer than objects is left.
LEMMA InvObject == FdInv => ObjectForSlot
<1>. SUFFICES ASSUME FdInv, NEW d \in FreeSlots, FreeObjects = {} PROVE FALSE
  BY DEF ObjectForSlot
<1>. USE RomFdAssumption
<1>. DEFINE S == 3 .. NFD - 1
            T == S \ {d}
            g == [i \in S |-> CHOOSE e \in Naming(i) : TRUE]
<1>1. ASSUME NEW i \in S PROVE g[i] \in Naming(i) /\ g[i] \in T
  <2>1. obj[i].refs # 0
    BY DEF FreeObjects
  <2>2. Naming(i) # {}
    BY <2>1, FS_EmptySet DEF FdInv, RefsExact
  <2>3. g[i] \in Naming(i)
    BY <2>2
  <2>4. g[i] \in 0 .. NFD - 1 /\ fds[g[i]] = i
    BY <2>3 DEF Naming
  <2>5. g[i] # d
    <3>. HIDE DEF g
    <3> QED
      BY <2>4 DEF FreeSlots, Null
  <2>6. \A e \in 0 .. 2 : fds[e] = e
    BY DEF FdInv, ConsoleStays
  <2> QED
    BY <2>3, <2>4, <2>5, <2>6
<1>2. IsFiniteSet(S) /\ IsFiniteSet(T) /\ Cardinality(T) < Cardinality(S)
  <2>1. IsFiniteSet(S)
    BY FS_Interval
  <2>2. d \in S
    BY DEF FreeSlots
  <2>3. IsFiniteSet(T) /\ Cardinality(T) = Cardinality(S) - 1
    BY <2>1, <2>2, FS_RemoveElement, ZenonT(40)
  <2> QED
    BY <2>1, <2>3, FS_CardinalityType
<1>3. g \in [S -> T]
  BY <1>1
<1>4. PICK x, y \in S : x # y /\ g[x] = g[y]
  <2>. HIDE DEF S, T, g
  <2> QED
    BY <1>2, <1>3, FS_PigeonHole
<1>5. fds[g[x]] = x /\ fds[g[y]] = y
  BY <1>1 DEF Naming
<1> QED
  BY <1>4, <1>5

(***************************************************************************)
(* FdInv is inductive, so that it holds in every state of every run.        *)
(***************************************************************************)
THEOREM RomFdInvariant == Spec => []FdInv
<1>1. Init => FdInv
  BY InitInv
<1>2. FdInv /\ [Next]_vars => FdInv'
  BY NextInv
<1> QED
  BY <1>1, <1>2, PTL DEF Spec

(***************************************************************************)
(* refs of an object is the number of descriptors that name it, whatever    *)
(* open(), dup() and close() have done.                                     *)
(***************************************************************************)
THEOREM RomFdRefsExact == Spec => []RefsExact
<1>1. FdInv => RefsExact
  BY DEF FdInv
<1> QED
  BY <1>1, RomFdInvariant, PTL

(***************************************************************************)
(* open() finds an object whenever it has found a descriptor: ENFILE cannot *)
(* be returned.                                                             *)
(***************************************************************************)
THEOREM RomFdObjectForSlot == Spec => []ObjectForSlot
<1>1. FdInv => ObjectForSlot
  BY InvObject
<1> QED
  BY <1>1, RomFdInvariant, PTL

(***************************************************************************)
(* read() and lseek() leave every position in the range of long.            *)
(***************************************************************************)
THEOREM RomFdPosFits == Spec => []PosFits
<1>1. FdInv => PosFits
  BY DEF FdInv
<1> QED
  BY <1>1, RomFdInvariant, PTL

-----------------------------------------------------------------------------
(***************************************************************************)
(* The refinement.                                                         *)
(***************************************************************************)

\* What a caller can see of the tables.
Names == [d \in OpenFds |-> fds[d]]
Named == {fds[d] : d \in OpenFds}
View(o) == [file |-> IF o.kind = "FD_ROM" THEN o.file ELSE o.kind, pos |-> o.pos]
State == [i \in Named |-> View(obj[i])]

\* How the terms of the specification of the caller read in the tables.
LEMMA CallerSees ==
  ASSUME FdInv
  PROVE  /\ Files!Closed = FreeSlots /\ Files!Lowest = First(FreeSlots)
         /\ \A d : Files!Is(d) <=> Valid(d)
         /\ \A d : Valid(d) => /\ fds[d] \in 0 .. NFD - 1 /\ fds[d] \in Named
                               /\ Files!FileOf(d) = View(obj[fds[d]]).file
                               /\ Files!Pos(d) = obj[fds[d]].pos
<1>. USE RomFdAssumption
<1>1. Files!Closed = FreeSlots
  BY DEF Files!Closed, FreeSlots, OpenFds
<1>2. Files!Lowest = First(FreeSlots)
  BY <1>1 DEF Files!Lowest, First
<1>3. \A d : Files!Is(d) <=> Valid(d)
  BY DEF Files!Is, Valid, OpenFds
<1>4. ASSUME NEW d, Valid(d)
      PROVE  /\ fds[d] \in 0 .. NFD - 1 /\ fds[d] \in Named
             /\ Files!FileOf(d) = View(obj[fds[d]]).file
             /\ Files!Pos(d) = obj[fds[d]].pos
  <2>1. d \in OpenFds
    BY <1>4 DEF Valid, OpenFds
  <2>2. fds[d] \in 0 .. NFD - 1
    BY <1>4 DEF Valid, FdInv, TypeOK
  <2> QED
    BY <2>1, <2>2 DEF Named, View, Files!FileOf, Files!Pos
<1> QED
  BY <1>1, <1>2, <1>3, <1>4

\* A named object has a reference, and is the console's or a file.
LEMMA NamedObject ==
  ASSUME FdInv, NEW d, Valid(d)
  PROVE  /\ obj[fds[d]] \in Object /\ obj[fds[d]].refs # 0 /\ obj[fds[d]].pos \in 0 .. LongMax
         /\ \/ /\ obj[fds[d]].kind = "FD_ROM" /\ obj[fds[d]].file \in File
               /\ Size[obj[fds[d]].file] \in 0 .. LongMax
               /\ View(obj[fds[d]]).file = obj[fds[d]].file
            \/ /\ obj[fds[d]].kind \in {"FD_IN", "FD_OUT", "FD_ERR"}
               /\ View(obj[fds[d]]).file = obj[fds[d]].kind
               /\ View(obj[fds[d]]).file \notin File
<1>. USE RomFdAssumption
<1>1. PICK i \in 0 .. NFD - 1 : i = fds[d] /\ d \in Naming(i)
  BY DEF Valid, FdInv, TypeOK, Naming
<1>2. obj[i].refs # 0
  <2>1. Cardinality(Naming(i)) # 0
    BY <1>1, NamingFinite, FS_EmptySet
  <2> QED
    BY <2>1 DEF FdInv, RefsExact
<1>3. obj[i] \in Object /\ obj[i].pos \in 0 .. LongMax
  BY DEF FdInv, TypeOK, PosFits, Object
<1>4. CASE i < 3
  <2>1. obj[i].kind \in {"FD_IN", "FD_OUT", "FD_ERR"}
    BY <1>4 DEF FdInv, ConsoleStays, ConsoleKind
  <2> QED
    BY <1>1, <1>2, <1>3, <2>1 DEF View, Kinds
<1>5. CASE i >= 3
  <2>1. obj[i].kind = "FD_ROM" /\ obj[i].file \in File /\ Size[obj[i].file] <= LongMax
    BY <1>2, <1>5 DEF FdInv, OthersAreFiles
  <2> QED
    BY <1>1, <1>2, <1>3, <2>1 DEF View, SizeMax
<1> QED
  BY <1>4, <1>5

LEMMA InitFiles == Init => Files!Init
<1>. SUFFICES ASSUME Init PROVE Files!Init
  OBVIOUS
<1>. USE RomFdAssumption
<1>1. OpenFds = 0 .. 2 /\ \A d \in 0 .. 2 : fds[d] = d
  <2>1. \A i \in 0 .. NFD - 1 : fds[i] = IF i < 3 THEN i ELSE Null
    BY DEF Init
  <2>2. 0 .. 2 \subseteq 0 .. NFD - 1
    OBVIOUS
  <2> QED
    BY <2>1, <2>2 DEF OpenFds, Null
<1>2. Named = 0 .. 2
  BY <1>1 DEF Named
<1>3. \A d \in 0 .. 2 : View(obj[d]) = [file |-> ConsoleKind[d], pos |-> 0]
  <2>1. ASSUME NEW d \in 0 .. 2
        PROVE  obj[d] = [kind |-> ConsoleKind[d], file |-> NoFile, pos |-> 0, refs |-> 1]
    <3>1. d \in 0 .. NFD - 1 /\ d < 3
      OBVIOUS
    <3> QED
      BY <3>1 DEF Init, Unused
  <2>2. \A d \in 0 .. 2 : ConsoleKind[d] # "FD_ROM"
    BY DEF ConsoleKind
  <2> QED
    BY <2>1, <2>2 DEF View
<1>4. Names \in [0 .. 2 -> 0 .. NFD - 1] /\ \A d \in 0 .. 2 : Names[d] = d
  BY <1>1 DEF Names
<1>5. \A o \in 0 .. 2 : (CHOOSE d \in 0 .. 2 : Names[d] = o) = o
  BY <1>4
<1>6. {Names[d] : d \in 0 .. 2} = 0 .. 2
  BY <1>4
<1>7. State = [o \in {Names[d] : d \in 0 .. 2} |->
                 [file |-> ConsoleKind[CHOOSE d \in 0 .. 2 : Names[d] = o], pos |-> 0]]
  BY <1>2, <1>3, <1>5, <1>6 DEF State
<1>8. ret = [call |-> "boot", fd |-> 0, n |-> 0, errno |-> "", file |-> "FD_IN", from |-> 0]
  BY DEF Init, Returned
<1>9. \A a, b \in 0 .. 2 : Names[a] = Names[b] => a = b
  BY <1>4
<1> QED
  BY <1>4, <1>7, <1>8, <1>9 DEF Files!Init, Names, State, Named, View

\* Calls that leave the tables alone leave what is seen of them alone.
LEMMA SameView ==
  ASSUME UNCHANGED <<obj, fds>>
  PROVE  Names' = Names /\ State' = State
BY DEF Names, State, Named, OpenFds, View

LEMMA FailsRefuses ==
  ASSUME NEW call, NEW fd, NEW e, Fails(call, fd, e)
  PROVE  Files!Refuses(call, fd, e) /\ ret'.call = call /\ ret'.fd = fd
<1>1. ret' = [call |-> call, fd |-> fd, n |-> -1, errno |-> e, file |-> "FD_IN", from |-> 0]
  BY DEF Fails, Returned
<1>2. Names' = Names /\ State' = State
  BY SameView DEF Fails
<1> QED
  BY <1>1, <1>2 DEF Files!Refuses, Names, State, Named, View

LEMMA ReturnsSees ==
  ASSUME NEW call, NEW fd, NEW n, Returns(call, fd, n)
  PROVE  Files!Returns(call, fd, n) /\ ret'.call = call /\ ret'.fd = fd
BY DEF Returns, Returned, Files!Returns

\* Calls that return and leave the tables alone.
LEMMA OnlyReturns ==
  ASSUME NEW call, NEW fd, NEW n, Returns(call, fd, n), UNCHANGED <<obj, fds>>
  PROVE  /\ Files!Returns(call, fd, n) /\ ret'.call = call /\ ret'.fd = fd
         /\ Names' = Names /\ State' = State
BY ReturnsSees, SameView

-----------------------------------------------------------------------------
\* The calls, one by one.

LEMMA OpenIs ==
  ASSUME FdInv, NEW f \in File, Open(f)
  PROVE  Files!Open(f)
<1>. USE RomFdAssumption
<1>1. CASE Size[f] > LongMax /\ Fails("open", -1, "EOVERFLOW")
  BY <1>1, FailsRefuses DEF Files!Open
<1>2. CASE /\ Size[f] <= LongMax /\ {} \in {FreeSlots, FreeObjects}
           /\ Fails("open", -1, IF FreeSlots = {} THEN "EMFILE" ELSE "ENFILE")
  <2>1. FreeSlots = {}
    BY <1>2, InvObject DEF ObjectForSlot
  <2>2. Fails("open", -1, "EMFILE")
    BY <1>2, <2>1, Zenon
  <2>3. Files!Refuses("open", -1, "EMFILE")
    BY <2>2, FailsRefuses
  <2>4. Files!Closed = {} /\ ~ (Size[f] > LongMax)
    BY <1>2, <2>1, CallerSees DEF SizeMax
  <2> QED
    BY <2>3, <2>4 DEF Files!Open
<1>3. CASE /\ Size[f] <= LongMax /\ FreeSlots # {} /\ FreeObjects # {}
           /\ obj' = [obj EXCEPT ![First(FreeObjects)] =
                        [kind |-> "FD_ROM", file |-> f, pos |-> 0, refs |-> 1]]
           /\ fds' = [fds EXCEPT ![First(FreeSlots)] = First(FreeObjects)]
           /\ Returns("open", -1, First(FreeSlots))
  <2>1. PICK d \in FreeSlots : d = First(FreeSlots)
    <3>1. FreeSlots \in SUBSET Nat
      BY DEF FreeSlots
    <3> QED
      BY <1>3, <3>1, FirstIn
  <2>2. PICK i \in FreeObjects : i = First(FreeObjects)
    <3>1. FreeObjects \in SUBSET Nat
      BY DEF FreeObjects
    <3> QED
      BY <1>3, <3>1, FirstIn
  <2>3. /\ d \in 3 .. NFD - 1 /\ fds[d] = Null /\ i \in 3 .. NFD - 1 /\ obj[i].refs = 0
        /\ Null \notin 0 .. NFD - 1
    BY DEF FreeSlots, FreeObjects, Null
  <2>4. i \notin Named
    <3>1. Naming(i) = {}
      <4>1. Cardinality(Naming(i)) = 0
        BY <2>3 DEF FdInv, RefsExact
      <4> QED
        BY <4>1, NamingFinite, FS_EmptySet
    <3> QED
      BY <3>1 DEF Named, OpenFds, Naming
  <2>5. OpenFds' = OpenFds \cup {d} /\ d \notin OpenFds
    BY <1>3, <2>1, <2>2, <2>3 DEF OpenFds, FdInv, TypeOK
  <2>6. \A e \in OpenFds' : fds'[e] = IF e = d THEN i ELSE fds[e]
    BY <1>3, <2>1, <2>2, <2>3 DEF OpenFds, FdInv, TypeOK
  <2>7. Named' = Named \cup {i}
    BY <2>5, <2>6 DEF Named
  <2>8. Named \subseteq 0 .. NFD - 1
    BY DEF Named, OpenFds, FdInv, TypeOK
  <2>9. \A p \in Named' : View(obj'[p]) = IF p = i THEN [file |-> f, pos |-> 0] ELSE View(obj[p])
    BY <1>3, <2>2, <2>3, <2>7, <2>8 DEF View, FdInv, TypeOK
  <2>10. Names' = [e \in OpenFds \cup {d} |-> IF e = d THEN i ELSE Names[e]]
    BY <2>5, <2>6 DEF Names
  <2>11. State' = [p \in Named \cup {i} |->
                     IF p = i THEN [file |-> f, pos |-> 0] ELSE State[p]]
    BY <2>7, <2>9 DEF State
  <2>12. Files!Returns("open", -1, d)
    BY <1>3, <2>1, ReturnsSees
  <2>13. Files!Closed # {} /\ Files!Lowest = d /\ ~ (Size[f] > LongMax)
    BY <1>3, <2>1, CallerSees DEF SizeMax
  <2>14. Files!Name(Files!Lowest, i)
    BY <2>10, <2>13 DEF Files!Name, Names
  <2>15. /\ DOMAIN State = Named /\ i \in 0 .. NFD - 1
    BY <2>3 DEF State
  <2> QED
    BY <2>4, <2>11, <2>12, <2>13, <2>14, <2>15 DEF Files!Open, State, Named, View
<1> QED
  BY <1>1, <1>2, <1>3 DEF Open

LEMMA DupIs ==
  ASSUME FdInv, NEW fd, Dup(fd)
  PROVE  Files!Dup(fd) /\ ret'.call = "dup" /\ ret'.fd = fd
<1>. USE RomFdAssumption
<1>1. CASE ~ Valid(fd) /\ Fails("dup", fd, "EBADF")
  BY <1>1, CallerSees, FailsRefuses DEF Files!Dup
<1>2. CASE Valid(fd) /\ FreeSlots = {} /\ Fails("dup", fd, "EMFILE")
  BY <1>2, CallerSees, FailsRefuses DEF Files!Dup
<1>3. CASE /\ Valid(fd) /\ FreeSlots # {}
           /\ fds' = [fds EXCEPT ![First(FreeSlots)] = fds[fd]]
           /\ obj' = [obj EXCEPT ![fds[fd]].refs = @ + 1]
           /\ Returns("dup", fd, First(FreeSlots))
  <2>1. PICK d \in FreeSlots : d = First(FreeSlots)
    <3>1. FreeSlots \in SUBSET Nat
      BY DEF FreeSlots
    <3> QED
      BY <1>3, <3>1, FirstIn
  <2>2. /\ fd \in OpenFds /\ fds[fd] \in 0 .. NFD - 1 /\ d \in 3 .. NFD - 1
        /\ fds[d] = Null /\ Null \notin 0 .. NFD - 1
    BY <1>3, CallerSees DEF Valid, OpenFds, FreeSlots, Null
  <2>3. OpenFds' = OpenFds \cup {d} /\ d \notin OpenFds
    BY <1>3, <2>1, <2>2 DEF OpenFds, FdInv, TypeOK
  <2>4. \A e \in OpenFds' : fds'[e] = IF e = d THEN fds[fd] ELSE fds[e]
    BY <1>3, <2>1, <2>2 DEF OpenFds, FdInv, TypeOK
  <2>5. Named' = Named
    BY <2>2, <2>3, <2>4 DEF Named
  <2>6. Named \subseteq 0 .. NFD - 1
    BY DEF Named, OpenFds, FdInv, TypeOK
  <2>7. \A p \in Named : View(obj'[p]) = View(obj[p])
    BY <1>3, <2>6 DEF View, FdInv, TypeOK, Object
  <2>8. State' = State
    BY <2>5, <2>7 DEF State
  <2>9. Names' = [e \in OpenFds \cup {d} |-> IF e = d THEN Names[fd] ELSE Names[e]]
    BY <2>2, <2>3, <2>4 DEF Names
  <2>10. Files!Closed # {} /\ Files!Lowest = d /\ Files!Is(fd)
    BY <1>3, <2>1, CallerSees
  <2>11. Files!Returns("dup", fd, Files!Lowest) /\ ret'.call = "dup" /\ ret'.fd = fd
    BY <1>3, <2>1, <2>10, ReturnsSees
  <2>12. Files!Name(Files!Lowest, Names[fd])
    BY <2>9, <2>10 DEF Files!Name, Names
  <2> QED
    BY <2>8, <2>10, <2>11, <2>12 DEF Files!Dup, State, Named, View, Names
<1> QED
  BY <1>1, <1>2, <1>3 DEF Dup

LEMMA CloseIs ==
  ASSUME FdInv, NEW fd \in Int, Close(fd)
  PROVE  Files!Close(fd) /\ ret'.call = "close" /\ ret'.fd = fd
<1>. USE RomFdAssumption
<1>1. CASE ~ Valid(fd) /\ Fails("close", fd, "EBADF")
  BY <1>1, CallerSees, FailsRefuses DEF Files!Close
<1>2. CASE Valid(fd) /\ fd < 3 /\ Returns("close", fd, 0) /\ UNCHANGED <<obj, fds>>
  <2>1. Files!Returns("close", fd, 0) /\ ret'.call = "close" /\ ret'.fd = fd
    BY <1>2, ReturnsSees
  <2>2. Names' = Names /\ State' = State
    BY <1>2, SameView
  <2> QED
    BY <1>2, <2>1, <2>2, CallerSees DEF Files!Close, Names, State, Named, View
<1>3. CASE /\ Valid(fd) /\ fd >= 3
           /\ obj' = [obj EXCEPT ![fds[fd]] = Dropped(@)]
           /\ fds' = [fds EXCEPT ![fd] = Null]
           /\ Returns("close", fd, 0)
  <2>1. fd \in 3 .. NFD - 1 /\ fd \in OpenFds /\ fds[fd] \in 0 .. NFD - 1
    BY <1>3, CallerSees DEF Valid, OpenFds
  <2>2. OpenFds' = OpenFds \ {fd} /\ \A e \in OpenFds' : fds'[e] = fds[e]
    BY <1>3, <2>1 DEF OpenFds, FdInv, TypeOK
  <2>3. Named' = {Names[e] : e \in OpenFds \ {fd}} /\ Named' \subseteq Named
    BY <2>2 DEF Named, Names
  <2>4. ASSUME NEW p \in Named' PROVE View(obj'[p]) = View(obj[p])
    <3>1. PICK e \in OpenFds \ {fd} : fds[e] = p
      BY <2>2 DEF Named
    <3>2. p \in 0 .. NFD - 1
      BY <3>1 DEF OpenFds, FdInv, TypeOK
    <3>3. CASE p # fds[fd]
      BY <1>3, <2>1, <3>2, <3>3 DEF FdInv, TypeOK
    <3>4. CASE p = fds[fd]
      <4>1. e \in Naming(p) /\ fd \in Naming(p) /\ e # fd
        BY <2>1, <3>1, <3>4 DEF Naming, OpenFds
      <4>2. obj[p].refs # 1
        BY <3>2, <4>1, NamingFinite, FS_Singleton DEF FdInv, RefsExact
      <4>3. obj'[p] = [obj[p] EXCEPT !.refs = @ - 1] /\ obj[p] \in Object
        BY <1>3, <2>1, <3>4, <4>2 DEF Dropped, FdInv, TypeOK
      <4> QED
        BY <4>3 DEF View, Object
    <3> QED
      BY <3>3, <3>4
  <2>5. Names' = [e \in OpenFds \ {fd} |-> Names[e]]
    BY <2>2 DEF Names
  <2>6. State' = [o \in {Names[e] : e \in OpenFds \ {fd}} |-> State[o]]
    BY <2>3, <2>4 DEF State
  <2>7. Files!Is(fd) /\ ~ (fd < 3) /\ Files!Returns("close", fd, 0)
    BY <1>3, <2>1, CallerSees, ReturnsSees
  <2>8. ret'.call = "close" /\ ret'.fd = fd
    BY <1>3, ReturnsSees
  <2>9. DOMAIN Names = OpenFds
    BY DEF Names
  <2> QED
    BY <2>5, <2>6, <2>7, <2>8, <2>9 DEF Files!Close, Names, State, Named, View
<1> QED
  BY <1>1, <1>2, <1>3 DEF Close

\* Moving the position of a named file moves it for all that see it.
LEMMA MovedSees ==
  ASSUME FdInv, NEW fd, Valid(fd), NEW p, obj' = [obj EXCEPT ![fds[fd]].pos = p], fds' = fds
  PROVE  Names' = Names /\ State' = [State EXCEPT ![Names[fd]].pos = p]
<1>1. fd \in OpenFds /\ fds[fd] \in 0 .. NFD - 1 /\ Names[fd] = fds[fd] /\ fds[fd] \in Named
  BY CallerSees DEF Valid, OpenFds, Names
<1>2. OpenFds' = OpenFds /\ Named' = Named /\ Names' = Names
  BY DEF OpenFds, Named, Names
<1>3. Named \subseteq 0 .. NFD - 1
  BY DEF Named, OpenFds, FdInv, TypeOK
<1>4. \A q \in Named : q # fds[fd] => obj'[q] = obj[q]
  BY <1>1, <1>3 DEF FdInv, TypeOK
<1>5. View(obj'[fds[fd]]) = [View(obj[fds[fd]]) EXCEPT !.pos = p]
  <2>1. obj[fds[fd]] \in Object /\ obj'[fds[fd]] = [obj[fds[fd]] EXCEPT !.pos = p]
    BY <1>1 DEF FdInv, TypeOK
  <2> QED
    BY <2>1 DEF View, Object
<1> QED
  BY <1>1, <1>2, <1>4, <1>5 DEF State

LEMMA ReadIs ==
  ASSUME FdInv, NEW fd, NEW n \in Counts, Read(fd, n)
  PROVE  Files!Read(fd, n) /\ ret'.call = "read" /\ ret'.fd = fd
<1>. USE RomFdAssumption
<1>. DEFINE o == obj[fds[fd]]
<1>1. CASE ~ Valid(fd) /\ Fails("read", fd, "EBADF")
  BY <1>1, CallerSees, FailsRefuses DEF Files!Read
<1>2. CASE Valid(fd) /\ n = 0 /\ Returns("read", fd, 0) /\ UNCHANGED <<obj, fds>>
  <2>1. /\ Files!Returns("read", fd, 0) /\ ret'.call = "read" /\ ret'.fd = fd
        /\ Names' = Names /\ State' = State
    BY <1>2, OnlyReturns
  <2> QED
    BY <1>2, <2>1, CallerSees DEF Files!Read, Names, State, Named, View
<1>3. CASE Valid(fd) /\ n > LongMax /\ Fails("read", fd, "EINVAL")
  BY <1>3, CallerSees, FailsRefuses DEF Files!Read
<1>4. ASSUME Valid(fd), n \in 1 .. LongMax, o.kind = "FD_IN", Returns("read", fd, 1),
             UNCHANGED <<obj, fds>>
      PROVE  Files!Read(fd, n) /\ ret'.call = "read" /\ ret'.fd = fd
  <2>1. /\ Files!Returns("read", fd, 1) /\ ret'.call = "read" /\ ret'.fd = fd
        /\ Names' = Names /\ State' = State
    BY <1>4, OnlyReturns
  <2>2. Files!Is(fd) /\ Files!FileOf(fd) = "FD_IN"
    BY <1>4, CallerSees, NamedObject
  <2>3. n # 0 /\ ~ (n > LongMax)
    BY <1>4
  <2> QED
    BY <2>1, <2>2, <2>3 DEF Files!Read, Names, State, Named, View
<1>5. ASSUME Valid(fd), n \in 1 .. LongMax, o.kind \notin {"FD_IN", "FD_ROM"},
             Fails("read", fd, "EBADF")
      PROVE  Files!Read(fd, n) /\ ret'.call = "read" /\ ret'.fd = fd
  <2>1. Files!Is(fd) /\ Files!FileOf(fd) # "FD_IN" /\ Files!FileOf(fd) \notin File
    BY <1>5, CallerSees, NamedObject
  <2>2. n # 0 /\ ~ (n > LongMax)
    BY <1>5, SMTT(30)
  <2> QED
    BY <1>5, <2>1, <2>2, FailsRefuses DEF Files!Read
<1>6. ASSUME Valid(fd), n \in 1 .. LongMax, o.kind = "FD_ROM",
             obj' = [obj EXCEPT ![fds[fd]].pos = @ + Rest(o, n)], UNCHANGED fds,
             ret' = [Returned("read", fd, Rest(o, n)) EXCEPT !.file = o.file, !.from = o.pos]
      PROVE  Files!Read(fd, n) /\ ret'.call = "read" /\ ret'.fd = fd
  <2>. DEFINE k == Rest(o, n)
  <2>1. /\ o.pos \in 0 .. LongMax /\ o.file \in File /\ Size[o.file] \in 0 .. LongMax
        /\ View(o).file = o.file
    BY <1>6, NamedObject
  <2>2. /\ Files!Is(fd) /\ Files!FileOf(fd) = o.file /\ Files!Pos(fd) = o.pos
        /\ o.file # "FD_IN" /\ o.file \in File
    BY <1>6, <2>1, CallerSees DEF Kinds
  <2>3. /\ k \in 0 .. n
        /\ \/ k = n /\ o.pos + n <= Size[o.file]
           \/ k < n /\ k > 0 /\ o.pos + k = Size[o.file]
           \/ k = 0 /\ o.pos >= Size[o.file]
    <3>. HIDE DEF o
    <3> QED
      BY <1>6, <2>1 DEF Rest
  <2>4. Names' = Names /\ State' = [State EXCEPT ![Names[fd]].pos = o.pos + k]
    <3>1. obj' = [obj EXCEPT ![fds[fd]].pos = o.pos + k]
      BY <1>6
    <3> QED
      BY <1>6, <3>1, MovedSees
  <2>5. Names[fd] \in DOMAIN State /\ State[Names[fd]].pos = o.pos
    BY <1>6, CallerSees DEF State, Names, Named, View, OpenFds, Valid
  <2>6. State' = [State EXCEPT ![Names[fd]].pos = @ + k]
    BY <2>4, <2>5
  <2>7. /\ ret' = [call |-> "read", fd |-> fd, n |-> k, errno |-> "",
                   file |-> o.file, from |-> o.pos]
        /\ ret'.call = "read" /\ ret'.fd = fd
    BY <1>6 DEF Returned
  <2>8. n # 0 /\ ~ (n > LongMax)
    BY <1>6
  <2>. HIDE DEF o, k
  <2> QED
    BY <2>2, <2>3, <2>4, <2>6, <2>7, <2>8, ZenonT(40) DEF Files!Read, Names, State, Named, View
<1> QED
  BY <1>1, <1>2, <1>3, <1>4, <1>5, <1>6 DEF Read

LEMMA WriteIs ==
  ASSUME FdInv, NEW fd, NEW n \in Counts, Write(fd, n)
  PROVE  Files!Write(fd, n) /\ ret'.call = "write" /\ ret'.fd = fd
<1>. USE RomFdAssumption
<1>. DEFINE out == Valid(fd) /\ obj[fds[fd]].kind \in {"FD_OUT", "FD_ERR"}
<1>1. out <=> ~ (~ Files!Is(fd) \/ Files!FileOf(fd) \in File \cup {"FD_IN"})
  <2>1. Files!Is(fd) <=> Valid(fd)
    BY CallerSees
  <2>2. ASSUME Valid(fd)
        PROVE  obj[fds[fd]].kind \in {"FD_OUT", "FD_ERR"}
                 <=> Files!FileOf(fd) \notin File \cup {"FD_IN"}
    BY <2>2, CallerSees, NamedObject
  <2> QED
    BY <2>1, <2>2
<1>2. CASE ~ out /\ Fails("write", fd, "EBADF")
  BY <1>1, <1>2, FailsRefuses DEF Files!Write
<1>3. CASE out /\ n > LongMax /\ Fails("write", fd, "EINVAL")
  BY <1>1, <1>3, FailsRefuses DEF Files!Write
<1>4. CASE out /\ n <= LongMax /\ Returns("write", fd, n) /\ UNCHANGED <<obj, fds>>
  <2>1. /\ Files!Returns("write", fd, n) /\ ret'.call = "write" /\ ret'.fd = fd
        /\ Names' = Names /\ State' = State
    BY <1>4, OnlyReturns
  <2>2. ~ (n > LongMax)
    BY <1>4 DEF SizeMax
  <2>. HIDE DEF out
  <2> QED
    BY <1>1, <1>4, <2>1, <2>2 DEF Files!Write, Names, State, Named, View
<1> QED
  BY <1>2, <1>3, <1>4 DEF Write

\* Checked step by step in long, the new position is the sum of the caller.
LEMMA LseekIs ==
  ASSUME FdInv, NEW fd, NEW off \in Offsets, NEW whence \in Whences, Lseek(fd, off, whence)
  PROVE  Files!Lseek(fd, off, whence) /\ ret'.call = "lseek" /\ ret'.fd = fd
<1>. USE RomFdAssumption
<1>. DEFINE o == obj[fds[fd]]
            b == Base(o, whence)
            p == CASE whence = "SEEK_SET" -> off
                   [] whence = "SEEK_CUR" -> o.pos + off
                   [] whence = "SEEK_END" -> Size[o.file] + off
                   [] OTHER -> -1
<1>1. CASE ~ Valid(fd) /\ Fails("lseek", fd, "EBADF")
  BY <1>1, CallerSees, FailsRefuses DEF Files!Lseek
<1>2. CASE Valid(fd) /\ o.kind # "FD_ROM" /\ Fails("lseek", fd, "ESPIPE")
  <2>1. Files!Is(fd) /\ Files!FileOf(fd) \notin File
    BY <1>2, CallerSees, NamedObject
  <2> QED
    BY <1>2, <2>1, FailsRefuses DEF Files!Lseek
<1>3. ASSUME Valid(fd), o.kind = "FD_ROM",
             \/ SeekFails(b, off) /\ Fails("lseek", fd, "EINVAL")
             \/ /\ ~ SeekFails(b, off)
                /\ obj' = [obj EXCEPT ![fds[fd]].pos = b + off]
                /\ Returns("lseek", fd, b + off)
                /\ UNCHANGED fds
      PROVE  Files!Lseek(fd, off, whence) /\ ret'.call = "lseek" /\ ret'.fd = fd
  <2>1. /\ o.pos \in 0 .. LongMax /\ o.file \in File /\ Size[o.file] \in 0 .. LongMax
        /\ View(o).file = o.file
    BY <1>3, NamedObject
  <2>2. Files!Is(fd) /\ Files!FileOf(fd) = o.file /\ Files!Pos(fd) = o.pos /\ o.file \in File
    BY <1>3, <2>1, CallerSees
  <2>3. off \in -LongMax - 1 .. LongMax
    OBVIOUS
  <2>4. \A x \in 0 .. LongMax : AsLong(x) = x
    BY DEF AsLong
  <2>5. (SeekFails(b, off) <=> p \notin 0 .. LongMax) /\ (~ SeekFails(b, off) => b + off = p)
    <3>. HIDE DEF o
    <3>1. CASE whence = "SEEK_SET"
      BY <2>3, <3>1 DEF Base, SeekFails
    <3>2. CASE whence = "SEEK_CUR"
      BY <2>1, <2>3, <2>4, <3>2 DEF Base, SeekFails
    <3>3. CASE whence = "SEEK_END"
      BY <2>1, <2>3, <2>4, <3>3 DEF Base, SeekFails
    <3>4. CASE whence = "other"
      BY <2>3, <3>4 DEF Base, SeekFails
    <3> QED
      BY <3>1, <3>2, <3>3, <3>4 DEF Whences
  <2>6. p = CASE whence = "SEEK_SET" -> off
              [] whence = "SEEK_CUR" -> Files!Pos(fd) + off
              [] whence = "SEEK_END" -> Size[Files!FileOf(fd)] + off
              [] OTHER -> -1
    BY <2>2
  <2>. HIDE DEF p
  <2>7. CASE SeekFails(b, off) /\ Fails("lseek", fd, "EINVAL")
    <3>1. p \notin 0 .. LongMax
      BY <2>5, <2>7
    <3> QED
      BY <2>2, <2>6, <2>7, <3>1, FailsRefuses DEF Files!Lseek
  <2>8. CASE /\ ~ SeekFails(b, off)
             /\ obj' = [obj EXCEPT ![fds[fd]].pos = b + off]
             /\ Returns("lseek", fd, b + off)
             /\ UNCHANGED fds
    <3>1. p \in 0 .. LongMax /\ b + off = p
      BY <2>5, <2>8
    <3>2. Names' = Names /\ State' = [State EXCEPT ![Names[fd]].pos = p]
      BY <1>3, <2>8, <3>1, MovedSees
    <3>3. Files!Returns("lseek", fd, p) /\ ret'.call = "lseek" /\ ret'.fd = fd
      BY <2>8, <3>1, ReturnsSees
    <3>. HIDE DEF b, o
    <3> QED
      BY <2>2, <2>6, <3>1, <3>2, <3>3 DEF Files!Lseek, Names, State, Named, View
  <2> QED
    BY <1>3, <2>7, <2>8
<1> QED
  BY <1>1, <1>2, <1>3 DEF Lseek

LEMMA NextFiles == FdInv /\ [Next]_vars => [Files!Next]_(Files!vars)
<1>. SUFFICES ASSUME FdInv, [Next]_vars PROVE [Files!Next]_(Files!vars)
  OBVIOUS
<1>1. CASE OpenFails
  BY <1>1, FailsRefuses DEF OpenFails, Files!Next, Files!NotFound
<1>2. ASSUME NEW f \in File, Open(f) PROVE Files!Next
  BY <1>2, OpenIs DEF Files!Next
<1>3. ASSUME NEW fd \in Fds, Close(fd) PROVE Files!Next
  <2>1. fd \in Int
    BY RomFdAssumption
  <2> QED
    BY <1>3, <2>1, CloseIs DEF Files!Next, Files!Made
<1>4. ASSUME NEW fd \in Fds, Dup(fd) PROVE Files!Next
  BY <1>4, DupIs DEF Files!Next, Files!Made
<1>5. ASSUME NEW fd \in Fds, NEW n \in Counts, Read(fd, n) PROVE Files!Next
  BY <1>5, ReadIs DEF Files!Next, Files!Made
<1>6. ASSUME NEW fd \in Fds, NEW n \in Counts, Write(fd, n) PROVE Files!Next
  BY <1>6, WriteIs DEF Files!Next, Files!Made
<1>7. ASSUME NEW fd \in Fds, NEW off \in Offsets, NEW whence \in Whences,
             Lseek(fd, off, whence)
      PROVE  Files!Next
  <2>1. whence \in Files!Whences
    BY DEF Whences, Files!Whences
  <2> QED
    BY <1>7, <2>1, LseekIs DEF Files!Next, Files!Made
<1>8. CASE UNCHANGED vars
  <2>1. Names' = Names /\ State' = State /\ ret' = ret
    BY <1>8, SameView DEF vars
  <2> QED
    BY <2>1 DEF Files!vars, Names, State, Named, View
<1> QED
  BY <1>1, <1>2, <1>3, <1>4, <1>5, <1>6, <1>7, <1>8 DEF Next

(***************************************************************************)
(* The two tables implement descriptors that name open files, for tables of *)
(* every size, any files and any width of long: no position or file is seen *)
(* through a descriptor but the one that was opened, and none is lost.      *)
(***************************************************************************)
THEOREM RomFdImplementsDescriptors == Spec => ImplementsDescriptors
<1>1. FdInv /\ [Next]_vars => [Files!Next]_(Files!vars)
  BY NextFiles
<1> QED
  BY <1>1, InitFiles, RomFdInvariant, PTL DEF Spec, ImplementsDescriptors, Files!Spec
=============================================================================
