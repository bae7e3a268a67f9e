---------------------------- MODULE Descriptors ----------------------------
(***************************************************************************)
(* What the file calls of PerlOS promise: a descriptor names an open file,  *)
(* which has a position; dup() makes a second descriptor of the same open   *)
(* file, so that both move the one position; close() takes a descriptor     *)
(* away, and an open file lasts exactly as long as a descriptor names it.   *)
(* The lowest free descriptor is given, and only for want of one are open() *)
(* and dup() refused.  Descriptors 0, 1 and 2 are the console and stay.     *)
(*                                                                         *)
(* There are no reference counts here and no limit on open files: RomFd.tla *)
(* implements this with two tables of a fixed size.                        *)
(***************************************************************************)
EXTENDS Integers

CONSTANTS NFD,       \* descriptors are 0 .. NFD - 1
          File,      \* the files
          Size,      \* their sizes
          Console,   \* what descriptors 0, 1 and 2 name
          Input,     \* the one of them that is read
          LongMax,   \* the largest position and size
          Fds, Counts, Offsets,  \* descriptors, lengths, offsets that callers give
          OpenFile   \* names of open files

VARIABLES names,  \* open descriptor -> open file
          state,  \* open file -> [file, pos]
          ret     \* the last call, its descriptor, and what it returned

Whences == {"SEEK_SET", "SEEK_CUR", "SEEK_END", "other"}

vars == <<names, state, ret>>

Returns(call, d, n) ==
  ret' = [call |-> call, fd |-> d, n |-> n, errno |-> "", file |-> Input, from |-> 0]

Refuses(call, d, e) ==
  /\ ret' = [call |-> call, fd |-> d, n |-> -1, errno |-> e, file |-> Input, from |-> 0]
  /\ UNCHANGED <<names, state>>

Init ==
  /\ names \in [0 .. 2 -> OpenFile]
  /\ \A a, b \in 0 .. 2 : names[a] = names[b] => a = b
  /\ state = [o \in {names[d] : d \in 0 .. 2} |->
                [file |-> Console[CHOOSE d \in 0 .. 2 : names[d] = o], pos |-> 0]]
  /\ ret = [call |-> "boot", fd |-> 0, n |-> 0, errno |-> "", file |-> Input, from |-> 0]

Closed == (3 .. NFD - 1) \ DOMAIN names
Lowest == CHOOSE d \in Closed : \A e \in Closed : d <= e

\* Descriptor d and what it names.
Is(d) == d \in DOMAIN names
FileOf(d) == state[names[d]].file
Pos(d) == state[names[d]].pos

Name(d, o) == names' = [e \in DOMAIN names \cup {d} |-> IF e = d THEN o ELSE names[e]]

Open(f) ==
  IF Size[f] > LongMax THEN Refuses("open", -1, "EOVERFLOW")
  ELSE IF Closed = {} THEN Refuses("open", -1, "EMFILE")
  ELSE \E o \in OpenFile \ DOMAIN state :
         /\ Name(Lowest, o)
         /\ state' = [p \in DOMAIN state \cup {o} |->
                        IF p = o THEN [file |-> f, pos |-> 0] ELSE state[p]]
         /\ Returns("open", -1, Lowest)

NotFound == \E e \in {"EROFS", "EFAULT", "ENOENT", "ENAMETOOLONG", "EISDIR"} : Refuses("open", -1, e)

Dup(d) ==
  IF ~ Is(d) THEN Refuses("dup", d, "EBADF")
  ELSE IF Closed = {} THEN Refuses("dup", d, "EMFILE")
  ELSE Name(Lowest, names[d]) /\ Returns("dup", d, Lowest) /\ UNCHANGED state

Close(d) ==
  IF ~ Is(d) THEN Refuses("close", d, "EBADF")
  ELSE /\ Returns("close", d, 0)
       /\ IF d < 3 THEN UNCHANGED <<names, state>>
          ELSE /\ names' = [e \in DOMAIN names \ {d} |-> names[e]]
               /\ state' = [o \in {names[e] : e \in DOMAIN names \ {d}} |-> state[o]]

\* n bytes from the position on, or as many as there are.
Read(d, n) ==
  IF ~ Is(d) THEN Refuses("read", d, "EBADF")
  ELSE IF n = 0 THEN Returns("read", d, 0) /\ UNCHANGED <<names, state>>
  ELSE IF n > LongMax THEN Refuses("read", d, "EINVAL")
  ELSE IF FileOf(d) = Input THEN Returns("read", d, 1) /\ UNCHANGED <<names, state>>
  ELSE IF FileOf(d) \notin File THEN Refuses("read", d, "EBADF")
  ELSE \E k \in 0 .. n :
         /\ \/ k = n /\ Pos(d) + n <= Size[FileOf(d)]
            \/ k < n /\ k > 0 /\ Pos(d) + k = Size[FileOf(d)]
            \/ k = 0 /\ Pos(d) >= Size[FileOf(d)]
         /\ state' = [state EXCEPT ![names[d]].pos = @ + k]
         /\ ret' = [call |-> "read", fd |-> d, n |-> k, errno |-> "",
                    file |-> FileOf(d), from |-> Pos(d)]
         /\ UNCHANGED names

Write(d, n) ==
  IF ~ Is(d) \/ FileOf(d) \in File \cup {Input} THEN Refuses("write", d, "EBADF")
  ELSE IF n > LongMax THEN Refuses("write", d, "EINVAL")
  ELSE Returns("write", d, n) /\ UNCHANGED <<names, state>>

\* To any position that is not negative and can be represented, also behind
\* the end.
Lseek(d, off, whence) ==
  IF ~ Is(d) THEN Refuses("lseek", d, "EBADF")
  ELSE IF FileOf(d) \notin File THEN Refuses("lseek", d, "ESPIPE")
  ELSE LET p == CASE whence = "SEEK_SET" -> off
                  [] whence = "SEEK_CUR" -> Pos(d) + off
                  [] whence = "SEEK_END" -> Size[FileOf(d)] + off
                  [] OTHER -> -1
       IN  IF p \notin 0 .. LongMax THEN Refuses("lseek", d, "EINVAL")
           ELSE /\ state' = [state EXCEPT ![names[d]].pos = p]
                /\ Returns("lseek", d, p)
                /\ UNCHANGED names

\* The call a step is, by what it leaves in ret.
Made(call, d) == ret'.call = call /\ ret'.fd = d

Next ==
  \/ NotFound
  \/ \E f \in File : Open(f)
  \/ \E d \in Fds :
       \/ Made("close", d) /\ Close(d)
       \/ Made("dup", d) /\ Dup(d)
       \/ Made("read", d) /\ (\E n \in Counts : Read(d, n))
       \/ Made("write", d) /\ (\E n \in Counts : Write(d, n))
       \/ Made("lseek", d) /\ (\E off \in Offsets, whence \in Whences : Lseek(d, off, whence))

Spec == Init /\ [][Next]_vars
=============================================================================
