------------------------------- MODULE RomFd -------------------------------
(***************************************************************************)
(* The descriptors of the ROM file system (os/romfs.c): a table of open     *)
(* files, obj, with a position and a count of references each, and a table  *)
(* of descriptors, fds, that point into it.  Entries 0, 1 and 2 of both are  *)
(* the console.                                                            *)
(*                                                                         *)
(* A path is looked up before the tables are touched: what open() finds is  *)
(* a file or one of the errors of the lookup.  What a call returned is a    *)
(* record, with errno for -1 and for a read of a file the position it read  *)
(* from.  long holds -LongMax-1 .. LongMax, and size_t as many values.      *)
(***************************************************************************)
EXTENDS Integers, FiniteSets

CONSTANTS
  NFD,      \* entries in each table (32)
  File,     \* the files in the image
  Size,     \* file -> its size
  NoFile,   \* no file: the console, and free entries
  LongMax,  \* the largest long
  Fds,      \* the descriptors given to a call
  Counts,   \* the lengths given to read() and write()
  Offsets   \* the offsets given to lseek()

SizeMax == 2 * LongMax + 1

Kinds == {"FREE", "FD_IN", "FD_OUT", "FD_ERR", "FD_ROM"}

ASSUME RomFdAssumption ==
  /\ NFD \in Nat /\ NFD >= 3
  /\ NoFile \notin File /\ Kinds \cap File = {}
  /\ LongMax \in Nat
  /\ Size \in [File -> 0 .. SizeMax]
  /\ Fds \subseteq Int
  /\ Counts \subseteq 0 .. SizeMax
  /\ Offsets \subseteq -LongMax - 1 .. LongMax

VARIABLES obj,  \* [kind, file, pos, refs]
          fds,  \* descriptor -> index in obj, or Null
          ret   \* what the last call returned

vars == <<obj, fds, ret>>

Null == -1

Whences == {"SEEK_SET", "SEEK_CUR", "SEEK_END", "other"}

Unused == [kind |-> "FREE", file |-> NoFile, pos |-> 0, refs |-> 0]

ConsoleKind == [d \in 0 .. 2 |-> IF d = 0 THEN "FD_IN" ELSE IF d = 1 THEN "FD_OUT" ELSE "FD_ERR"]

\* What a call returns: n, or -1 and errno.
Returned(call, fd, n) ==
  [call |-> call, fd |-> fd, n |-> n, errno |-> "", file |-> "FD_IN", from |-> 0]

Init ==
  /\ obj = [i \in 0 .. NFD - 1 |->
              IF i < 3 THEN [Unused EXCEPT !.kind = ConsoleKind[i], !.refs = 1] ELSE Unused]
  /\ fds = [d \in 0 .. NFD - 1 |-> IF d < 3 THEN d ELSE Null]
  /\ ret = Returned("boot", 0, 0)

-----------------------------------------------------------------------------

Returns(call, fd, n) == ret' = Returned(call, fd, n)

Fails(call, fd, e) ==
  /\ ret' = [Returned(call, fd, -1) EXCEPT !.errno = e]
  /\ UNCHANGED <<obj, fds>>

\* get()
Valid(fd) == fd \in 0 .. NFD - 1 /\ fds[fd] # Null

\* slot(), and the search for an object in open(): the first free one.
FreeSlots == {d \in 3 .. NFD - 1 : fds[d] = Null}
FreeObjects == {i \in 3 .. NFD - 1 : obj[i].refs = 0}
First(S) == CHOOSE i \in S : \A j \in S : i <= j

\* open() when the path leads nowhere, or the flags ask for more than reading.
OpenFails ==
  \E e \in {"EROFS", "EFAULT", "ENOENT", "ENAMETOOLONG", "EISDIR"} : Fails("open", -1, e)

Open(f) ==
  \/ Size[f] > LongMax /\ Fails("open", -1, "EOVERFLOW")
  \/ /\ Size[f] <= LongMax /\ {} \in {FreeSlots, FreeObjects}
     /\ Fails("open", -1, IF FreeSlots = {} THEN "EMFILE" ELSE "ENFILE")
  \/ /\ Size[f] <= LongMax /\ FreeSlots # {} /\ FreeObjects # {}
     /\ obj' = [obj EXCEPT ![First(FreeObjects)] =
                  [kind |-> "FD_ROM", file |-> f, pos |-> 0, refs |-> 1]]
     /\ fds' = [fds EXCEPT ![First(FreeSlots)] = First(FreeObjects)]
     /\ Returns("open", -1, First(FreeSlots))

\* Mutant: the last reference leaves the object taken.
DroppedKept(o) == IF o.refs = 1 THEN o ELSE [o EXCEPT !.refs = @ - 1]

\* if(!--d->refs)*d=(struct desc){0};
Dropped(o) == IF o.refs = 1 THEN Unused ELSE [o EXCEPT !.refs = @ - 1]

\* Mutant: the console can be closed.
CloseAny(fd) ==
  \/ ~ Valid(fd) /\ Fails("close", fd, "EBADF")
  \/ /\ Valid(fd)
     /\ obj' = [obj EXCEPT ![fds[fd]] = Dropped(@)]
     /\ fds' = [fds EXCEPT ![fd] = Null]
     /\ Returns("close", fd, 0)

Close(fd) ==
  \/ ~ Valid(fd) /\ Fails("close", fd, "EBADF")
  \/ Valid(fd) /\ fd < 3 /\ Returns("close", fd, 0) /\ UNCHANGED <<obj, fds>>
  \/ /\ Valid(fd) /\ fd >= 3
     /\ obj' = [obj EXCEPT ![fds[fd]] = Dropped(@)]
     /\ fds' = [fds EXCEPT ![fd] = Null]
     /\ Returns("close", fd, 0)

\* Mutant: the copy is not counted.
DupUncounted(fd) ==
  \/ ~ Valid(fd) /\ Fails("dup", fd, "EBADF")
  \/ Valid(fd) /\ FreeSlots = {} /\ Fails("dup", fd, "EMFILE")
  \/ /\ Valid(fd) /\ FreeSlots # {}
     /\ fds' = [fds EXCEPT ![First(FreeSlots)] = fds[fd]]
     /\ Returns("dup", fd, First(FreeSlots))
     /\ UNCHANGED obj

Dup(fd) ==
  \/ ~ Valid(fd) /\ Fails("dup", fd, "EBADF")
  \/ Valid(fd) /\ FreeSlots = {} /\ Fails("dup", fd, "EMFILE")
  \/ /\ Valid(fd) /\ FreeSlots # {}
     /\ fds' = [fds EXCEPT ![First(FreeSlots)] = fds[fd]]
     /\ obj' = [obj EXCEPT ![fds[fd]].refs = @ + 1]
     /\ Returns("dup", fd, First(FreeSlots))

\* The bytes a read of n gets.
Rest(o, n) ==
  IF o.pos >= Size[o.file] THEN 0
  ELSE IF n > Size[o.file] - o.pos THEN Size[o.file] - o.pos ELSE n

\* getchar() returns a byte on both consoles.
Read(fd, n) ==
  \/ ~ Valid(fd) /\ Fails("read", fd, "EBADF")
  \/ Valid(fd) /\ n = 0 /\ Returns("read", fd, 0) /\ UNCHANGED <<obj, fds>>
  \/ Valid(fd) /\ n > LongMax /\ Fails("read", fd, "EINVAL")
  \/ /\ Valid(fd) /\ n \in 1 .. LongMax
     /\ LET o == obj[fds[fd]]
        IN  \/ o.kind = "FD_IN" /\ Returns("read", fd, 1) /\ UNCHANGED <<obj, fds>>
            \/ o.kind \notin {"FD_IN", "FD_ROM"} /\ Fails("read", fd, "EBADF")
            \/ /\ o.kind = "FD_ROM"
               /\ obj' = [obj EXCEPT ![fds[fd]].pos = @ + Rest(o, n)]
               /\ ret' = [Returned("read", fd, Rest(o, n)) EXCEPT !.file = o.file, !.from = o.pos]
               /\ UNCHANGED fds

\* write(), as far as the descriptor goes; INT_MAX is LONG_MAX.
Write(fd, n) ==
  LET out == Valid(fd) /\ obj[fds[fd]].kind \in {"FD_OUT", "FD_ERR"}
  IN  \/ ~ out /\ Fails("write", fd, "EBADF")
      \/ out /\ n > LongMax /\ Fails("write", fd, "EINVAL")
      \/ out /\ n <= LongMax /\ Returns("write", fd, n) /\ UNCHANGED <<obj, fds>>

\* A size_t taken for a long.
AsLong(x) == IF x <= LongMax THEN x ELSE x - 2 * (LongMax + 1)

\* Where lseek() counts from; -1 if whence is none of the three.
Base(o, whence) ==
  CASE whence = "SEEK_SET" -> 0
    [] whence = "SEEK_CUR" -> AsLong(o.pos)
    [] whence = "SEEK_END" -> AsLong(Size[o.file])
    [] OTHER -> -1

SeekFails(b, off) == b < 0 \/ (off > 0 /\ off > LongMax - b) \/ off < -b

Lseek(fd, off, whence) ==
  \/ ~ Valid(fd) /\ Fails("lseek", fd, "EBADF")
  \/ Valid(fd) /\ obj[fds[fd]].kind # "FD_ROM" /\ Fails("lseek", fd, "ESPIPE")
  \/ /\ Valid(fd) /\ obj[fds[fd]].kind = "FD_ROM"
     /\ LET b == Base(obj[fds[fd]], whence)
        IN  \/ SeekFails(b, off) /\ Fails("lseek", fd, "EINVAL")
            \/ /\ ~ SeekFails(b, off)
               /\ obj' = [obj EXCEPT ![fds[fd]].pos = b + off]
               /\ Returns("lseek", fd, b + off)
               /\ UNCHANGED fds

Next ==
  \/ OpenFails
  \/ \E f \in File : Open(f)
  \/ \E fd \in Fds :
       \/ Close(fd) \/ Dup(fd)
       \/ \E n \in Counts : Read(fd, n) \/ Write(fd, n)
       \/ \E off \in Offsets, whence \in Whences :
            Lseek(fd, off, whence)

Spec == Init /\ [][Next]_vars

-----------------------------------------------------------------------------

Object == [kind : Kinds, file : File \cup {NoFile}, pos : Nat, refs : Nat]

TypeOK ==
  /\ obj \in [0 .. NFD - 1 -> Object]
  /\ fds \in [0 .. NFD - 1 -> (0 .. NFD - 1) \cup {Null}]

\* The descriptors that name object i.
Naming(i) == {d \in 0 .. NFD - 1 : fds[d] = i}

(***************************************************************************)
(* The counts are exact after any sequence of open, dup and close, for the  *)
(* console's objects too: close() of a copy of descriptor 0, 1 or 2 drops   *)
(* one, close() of 0, 1 or 2 itself drops none.                             *)
(***************************************************************************)
RefsExact == \A i \in 0 .. NFD - 1 : obj[i].refs = Cardinality(Naming(i))

(***************************************************************************)
(* open() that has found a free descriptor finds a free object: it never    *)
(* fails with ENFILE, and so never between the two searches.                *)
(***************************************************************************)
ObjectForSlot == FreeSlots # {} => FreeObjects # {}

(***************************************************************************)
(* No position ever leaves the range of long, so that the casts in lseek()  *)
(* are exact and read() never starts where it was not told to.              *)
(***************************************************************************)
PosFits == \A i \in 0 .. NFD - 1 : obj[i].pos <= LongMax

(***************************************************************************)
(* What makes RefsExact inductive: the console keeps its entries, the other *)
(* objects are free or files of the image that long can address.            *)
(***************************************************************************)
ConsoleStays == \A d \in 0 .. 2 : fds[d] = d /\ obj[d].kind = ConsoleKind[d]

OthersAreFiles ==
  \A i \in 3 .. NFD - 1 :
    /\ obj[i].kind = IF obj[i].refs = 0 THEN "FREE" ELSE "FD_ROM"
    /\ obj[i].refs # 0 => obj[i].file \in File /\ Size[obj[i].file] <= LongMax

(***************************************************************************)
(* After any sequence of calls the tables agree: the counts are exact, the   *)
(* positions are in range and the console has its three entries.            *)
(***************************************************************************)
FdInv == TypeOK /\ RefsExact /\ PosFits /\ ConsoleStays /\ OthersAreFiles

(***************************************************************************)
(* The two tables implement descriptors that name open files: what a read   *)
(* returns, from which file and position, is what was opened, shared by     *)
(* dup() and by nothing else, and an object is reused only when its last    *)
(* descriptor has been closed.                                             *)
(***************************************************************************)
OpenFds == {d \in 0 .. NFD - 1 : fds[d] # Null}

Files == INSTANCE Descriptors WITH
  Console <- ConsoleKind,
  Input <- "FD_IN",
  OpenFile <- 0 .. NFD - 1,
  names <- [d \in OpenFds |-> fds[d]],
  state <- [i \in {fds[d] : d \in OpenFds} |->
              [file |-> IF obj[i].kind = "FD_ROM" THEN obj[i].file ELSE obj[i].kind,
               pos |-> obj[i].pos]]

ImplementsDescriptors == Files!Spec
=============================================================================
