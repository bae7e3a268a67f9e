------------------------------ MODULE RomTree ------------------------------
(***************************************************************************)
(* The read-only tree of os/romfs.c: what romfs_init() accepts as an image, *)
(* the walk from entry to entry that every lookup makes without a check of  *)
(* its own, and the path that a name and the current directory make.        *)
(*                                                                          *)
(* An image is a sequence of cells: an entry is its name_len, its size, the *)
(* name, a 0, the data, a 0, name and data padded to Align cells. Offsets   *)
(* count from the first entry. A name is a sequence of characters.          *)
(***************************************************************************)
EXTENDS Calls, SequencesExt, FiniteSetsExt

CONSTANTS
  Align, Images,               \* 4; the images tried
  PATH_MAX, Slash, Dot, Letter, MaxName,
  Names                        \* the names of the image that is mounted

A4(n) == ((n + Align - 1) \div Align) * Align
Header == 2                    \* sizeof (struct romfs_entry), in cells
NameLen(img, q) == img[q + 1]
SizeOf(img, q) == img[q + 2]

-----------------------------------------------------------------------------
\* Mutant: the cell after the data may be the one after the image.
DataEndsAfter(img, q, size) == size <= Len(img) - q

DataEnds(img, q, size) == size < Len(img) - q /\ img[q + size + 1] = 0

RECURSIVE Accepts(_, _)
Accepts(img, q) ==
  LET end == Len(img)
      name == q + Header
      data == A4(name + NameLen(img, q) + 1)
      nxt == A4(data + SizeOf(img, q) + 1)
  IN  IF q >= end THEN q = end
      ELSE /\ end - q >= Header
           /\ NameLen(img, q) # 0 /\ NameLen(img, q) < end - name
           /\ img[name + NameLen(img, q) + 1] = 0
           /\ data <= end
           /\ DataEnds(img, data, SizeOf(img, q))
           /\ nxt <= end
           /\ Accepts(img, nxt)

romfs_init(img) == Accepts(img, 0)

data(img, e) == A4(e + Header + NameLen(img, e) + 1)
next(img, e) == A4(data(img, e) + SizeOf(img, e) + 1)

\* The entries that every walk meets, one after another.
RECURSIVE EntriesFrom(_, _)
EntriesFrom(img, e) ==
  IF e >= Len(img) THEN <<>> ELSE <<e>> \o EntriesFrom(img, next(img, e))
romfs_each(img) == EntriesFrom(img, 0)

-----------------------------------------------------------------------------
Fail == <<-1>>                 \* ENAMETOOLONG
NoName == <<-2>>               \* ENOENT

Up(out) ==
  LET slashes == {i \in DOMAIN out : out[i] = Slash}
  IN  IF slashes = {} THEN <<>> ELSE SubSeq(out, 1, Max(slashes) - 1)

\* Mutant: the slash in front of the component is not counted.
TooLongNoSlash(out, p) == Len(out) + Len(p) >= PATH_MAX

TooLong(out, p) == Len(out) + (IF out = <<>> THEN 0 ELSE 1) + Len(p) >= PATH_MAX

\* The loop of path() over the components of what is left of the name.
RECURSIVE Follow(_, _)
Follow(s, out) ==
  LET ends == {i \in DOMAIN s : s[i] = Slash}
      k == IF ends = {} THEN Len(s) ELSE Min(ends) - 1
      p == SubSeq(s, 1, k)
      rest == SubSeq(s, k + 1, Len(s))
  IN  IF s = <<>> THEN out
      ELSE IF k = 0 THEN Follow(Tail(s), out)
      ELSE IF p = <<Dot>> THEN Follow(rest, out)
      ELSE IF p = <<Dot, Dot>> THEN Follow(rest, Up(out))
      ELSE IF TooLong(out, p) THEN Fail
      ELSE Follow(rest, IF out = <<>> THEN p ELSE out \o <<Slash>> \o p)

path(cwd, s) == IF s = <<>> THEN NoName ELSE Follow(s, IF s[1] = Slash THEN <<>> ELSE cwd)

find0(name) == name \in Names
isdir0(name) ==
  \/ name = <<>>
  \/ \E e \in Names : /\ Len(e) > Len(name) /\ e[Len(name) + 1] = Slash
                      /\ SubSeq(e, 1, Len(name)) = name

Failed(p) == p \in {Fail, NoName}
romfs_isdir(cwd, s) == s = <<>> \/ (~Failed(path(cwd, s)) /\ isdir0(path(cwd, s)))

stat(cwd, s) ==
  LET p == path(cwd, s)
  IN  IF p = Fail THEN "ENAMETOOLONG"
      ELSE IF p = NoName THEN "ENOENT"
      ELSE IF isdir0(p) THEN "directory" ELSE IF find0(p) THEN "file" ELSE "ENOENT"

access(cwd, s, mode) ==
  LET r == stat(cwd, s)
  IN  IF ~(mode \subseteq {"R", "W", "X"}) THEN "EINVAL"
      ELSE IF r \notin {"directory", "file"} THEN r
      ELSE IF "W" \in mode THEN "EROFS"
      ELSE IF "X" \in mode /\ r = "file" THEN "EACCES" ELSE "granted"

\* The directory that is current after chdir(s), whether it fails or not.
chdir(cwd, s) ==
  LET p == path(cwd, s) IN IF Failed(p) \/ ~isdir0(p) THEN cwd ELSE p

getcwd(cwd, n) == IF n < Len(cwd) + 2 THEN Fail ELSE <<Slash>> \o cwd

-----------------------------------------------------------------------------
PathTexts == UNION {[1 .. n -> {Slash, Dot, Letter}] : n \in 0 .. MaxName}

\* chdir() has left a directory of the image that fits in cwd.
Directories == {p \in UNION {Prefixes(e) : e \in Names} : isdir0(p) /\ Len(p) < PATH_MAX}
RomTreeCalls ==
  \/ Call("romfs_init", Images)
  \/ Call("path", Directories \X PathTexts)

\* In an accepted image the unchecked walk from entry to entry (of ls and of every
\* lookup) keeps inside, finds each name and each file ended by a 0, and stops at
\* the end, after entries that fill the image without a gap or an overlap.
AcceptedImagesWalk ==
  call.fn = "romfs_init" /\ romfs_init(call.a) =>
    LET img == call.a
        all == romfs_each(img)
        Ended(from, n) == from + n < Len(img) /\ img[from + n + 1] = 0
    IN  /\ \A i \in DOMAIN all :
             LET e == all[i] IN
             /\ Ended(e + Header, NameLen(img, e))
             /\ e + Header + NameLen(img, e) < data(img, e)
             /\ Ended(data(img, e), SizeOf(img, e))
             /\ next(img, e) = IF i = Len(all) THEN Len(img) ELSE all[i + 1]
        /\ (all = <<>>) = (img = <<>>)

\* The components of a path, split at every slash.
RECURSIVE Components(_)
Components(s) ==
  LET ends == {i \in DOMAIN s : s[i] = Slash}
  IN  IF ends = {} THEN <<s>>
      ELSE <<SubSeq(s, 1, Min(ends) - 1)>> \o Components(SubSeq(s, Min(ends) + 1, Len(s)))

Spelled(stack) == FoldLeft(LAMBDA n, c : n + Len(c) + 1, 0, stack)

\* Each component on top of the directories so far, while the path fits.
Enter(stack, c) ==
  IF stack = <<Fail>> \/ c \in {<<>>, <<Dot>>} THEN stack
  ELSE IF c = <<Dot, Dot>> THEN IF stack = <<>> THEN <<>> ELSE Front(stack)
  ELSE IF Spelled(Append(stack, c)) > PATH_MAX THEN <<Fail>> ELSE Append(stack, c)

Dirs(s) == IF s = <<>> THEN <<>> ELSE Components(s)

\* path() gives the place that going from directory to directory leads to, in
\* a form that fits and has one spelling, so that comparing it with the names
\* of the image finds just the files and the directories of the tree.
\* chdir(), stat(), access() and romfs_isdir() agree on what a directory is,
\* and what getcwd() says leads back from everywhere; it needs one more than
\* PATH_MAX characters for the longest directory.
PathIsNormal ==
  call.fn = "path" =>
    LET cwd == call.a[1]  s == call.a[2]
        out == path(cwd, s)
        stack == FoldLeft(Enter, IF s[1] = Slash THEN <<>> ELSE Dirs(cwd), Components(s))
        place == chdir(cwd, s)
        said == getcwd(place, PATH_MAX + 1)
    IN  /\ s # <<>> =>
             IF stack = <<Fail>> THEN out = Fail
             ELSE /\ out # Fail /\ Dirs(out) = stack /\ Len(out) < PATH_MAX
                  /\ find0(out) <=> stack \in {Components(e) : e \in Names}
                  /\ isdir0(out) <=> (stack = <<>> \/ \E e \in Names :
                                        IsStrictPrefix(stack, Components(e)))
        /\ (stat(cwd, s) = "directory") = (~Failed(out) /\ chdir(cwd, s) = out)
        /\ (stat(cwd, s) = "directory") = (s # <<>> /\ romfs_isdir(cwd, s))
        /\ (stat(cwd, s) = "directory") = (access(cwd, s, {"R", "X"}) = "granted")
        /\ (stat(cwd, s) = "file") = (access(cwd, s, {"X"}) = "EACCES")
        /\ access(cwd, s, {"R", "W"}) = IF stat(cwd, s) \in {"directory", "file"}
                                        THEN "EROFS" ELSE stat(cwd, s)
        /\ said # Fail /\ \A from \in Directories : chdir(from, said) = place
        /\ (getcwd(place, PATH_MAX) = Fail) = (Len(place) = PATH_MAX - 1)
=============================================================================
