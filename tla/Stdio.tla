------------------------------- MODULE Stdio -------------------------------
(***************************************************************************)
(* The streams of libc/stdio.c: a table of NFILE slots, each a pointer to   *)
(* the data of a ROM file, a position in it and one character of push back. *)
(* One action is one call of the library, made of the characters that fgetc *)
(* gives one at a time. Reads of the console return whatever is typed.      *)
(*                                                                          *)
(* Bounds: size_t wraps after SizeMax and long after PlaceMax; Counts,      *)
(* Pushes and Offsets are the arguments tried.                             *)
(***************************************************************************)
EXTENDS Integers, Sequences, FiniteSets

CONSTANTS
  NFILE,       \* _NFILE
  Content,     \* file name -> its bytes, what _romfs_find answers
  NoFile,      \* the null pointer
  Key, Eof, NL, SizeMax, Counts, Pushes, Offsets,
  PlaceMax     \* LONG_MAX, the last place that ftell can tell

Byte == 0 .. 255

ASSUME StdioAssumption ==
  /\ NFILE \in Nat /\ SizeMax \in Nat /\ PlaceMax \in 0 .. SizeMax
  /\ Content \in [DOMAIN Content -> Seq(Byte)] /\ NoFile \notin DOMAIN Content
  /\ Key \subseteq Byte /\ Key # {} /\ Pushes \subseteq Byte /\ Eof \notin Byte
  /\ \A n \in DOMAIN Content : Len(Content[n]) <= PlaceMax
  /\ Counts \subseteq 0 .. SizeMax /\ Offsets \subseteq - PlaceMax - 1 .. PlaceMax

VARIABLES
  st,          \* _file[0 .. _NFILE-1] as 1 .. NFILE, and _stdin as 0
  last,        \* <<function, stream>> of the last call, or <<>>
  ret          \* what it returned

stdioVars == <<st, last, ret>>

Console == 0
stdout == NFILE + 1                  \* _stdout and _stderr keep no state
Stream == 1 .. NFILE
Fresh(n) == [data |-> n, pos |-> 0, push |-> Eof]

StdioInit == /\ st = [f \in {Console} \cup Stream |-> Fresh(NoFile)]
             /\ last = <<>> /\ ret = 0

Says(fn, f, v) == last' = <<fn, f>> /\ ret' = v
Free == {f \in Stream : st[f].data = NoFile}
Size(r) == Len(Content[r.data])

\* What the header promises (stdio.h): the three standard streams are of them.
FOPEN_MAX == 32

\* Says which stream, 0 for the null pointer, and the name that was found.
fopen(n) ==
  IF Free = {} THEN UNCHANGED st /\ Says("fopen", 0, n)
  ELSE LET i == CHOOSE f \in Free : \A g \in Free : f <= g
       IN  st' = [st EXCEPT ![i] = Fresh(n)] /\ Says("fopen", i, n)

freopen(f, n) == st' = [st EXCEPT ![f] = Fresh(n)] /\ Says("freopen", f, n)
\* A name that is not found, or a mode that is not for reading.
OpenFails == UNCHANGED st /\ \E fn \in {"fopen", "freopen"} : Says(fn, 0, NoFile)

fclose(f) == st' = [st EXCEPT ![f] = Fresh(NoFile)] /\ Says("fclose", f, 0)

\* The character fgetc returns of the stream in state r, and the state after.
fgetc(f, r) ==
  IF r.push # Eof THEN {[c |-> r.push, to |-> [r EXCEPT !.push = Eof]]}
  ELSE IF f = Console THEN {[c |-> k, to |-> r] : k \in Key}
  ELSE IF r.pos < Size(r)
       THEN {[c |-> Content[r.data][r.pos + 1], to |-> [r EXCEPT !.pos = @ + 1]]}
       ELSE {[c |-> Eof, to |-> r]}

\* One turn of the loop of fread and fgets, with the character o: the end of
\* the file and, for a line, its new line leave the loop.
Turn(g, o, line) ==
  IF o.c = Eof THEN [g EXCEPT !.to = o.to, !.more = FALSE]
  ELSE [got |-> Append(g.got, o.c), to |-> o.to, more |-> ~ (line /\ o.c = NL)]

\* What the loop has got and left of a stream in state r after z turns of it.
Gather(f, r, z, line) ==
  LET after[i \in 0 .. z] ==
        IF i = 0 THEN {[got |-> <<>>, to |-> r, more |-> TRUE]}
        ELSE UNION {IF g.more THEN {Turn(g, o, line) : o \in fgetc(f, g.to)} ELSE {g}
                    : g \in after[i - 1]}
  IN  after[z]

Bytes(s, n) == (s * n) % (SizeMax + 1)

fread(f, s, n) ==
  \E g \in Gather(f, st[f], IF s = 0 THEN 0 ELSE Bytes(s, n), FALSE) :
    /\ st' = [st EXCEPT ![f] = g.to]
    /\ Says("fread", f, <<IF s = 0 THEN 0 ELSE Len(g.got) \div s, g.got>>)

fgets(f, n) ==
  \E g \in Gather(f, st[f], IF n <= 0 THEN 0 ELSE n - 1, TRUE) :
    st' = [st EXCEPT ![f] = g.to] /\ Says("fgets", f, g.got)

ungetc(f, c) ==
  IF c = Eof \/ st[f].push # Eof
  THEN UNCHANGED st /\ Says("ungetc", f, Eof)
  ELSE st' = [st EXCEPT ![f].push = c] /\ Says("ungetc", f, c)

Place(r) == r.pos - (IF r.push # Eof THEN 1 ELSE 0)

\* The sum of two longs in a register; the overflow is not defined in C, and
\* the compiler adds and looks at the sign of what it gets.
Long(i) ==
  IF i > PlaceMax THEN i - 2 * (PlaceMax + 1)
  ELSE IF i < - PlaceMax - 1 THEN i + 2 * (PlaceMax + 1) ELSE i

Target(r, off, w) ==
  CASE w = 0 -> off [] w = 1 -> Long(Place(r) + off) [] w = 2 -> Long(Size(r) + off)
    [] OTHER -> -1

\* Mutant: the character pushed back survives a seek.
fseekKeepsPush(f, off, w) ==
  LET p == Target(st[f], off, w)
  IN  IF p < 0 THEN UNCHANGED st /\ Says("fseek", f, -1)
      ELSE st' = [st EXCEPT ![f].pos = p] /\ Says("fseek", f, 0)

fseek(f, off, w) ==
  LET p == Target(st[f], off, w)
  IN  IF p < 0 THEN UNCHANGED st /\ Says("fseek", f, -1)
      ELSE st' = [st EXCEPT ![f].pos = p, ![f].push = Eof] /\ Says("fseek", f, 0)

ftell(f) == UNCHANGED st /\ Says("ftell", f, Place(st[f]))
feof(f) == /\ UNCHANGED st
           /\ Says("feof", f, st[f].push = Eof /\ st[f].pos >= Size(st[f]))

fwrite(f, s, n) ==
  /\ UNCHANGED st
  /\ Says("fwrite", f, IF s = 0 \/ n = 0 \/ f # stdout THEN 0 ELSE Bytes(s, n) \div s)

\* stdin, stdout and stderr cannot be closed, have no place, and the last two
\* nothing to read.
ConsoleRefuses(f) ==
  /\ UNCHANGED st
  /\ \/ Says("fclose", f, 0) \/ Says("ftell", f, -1) \/ Says("fseek", f, -1)
     \/ Says("feof", f, FALSE)
     \/ f = stdout /\ (Says("fread", f, <<0, <<>>>>) \/ Says("fgets", f, <<>>)
                         \/ Says("ungetc", f, Eof))

\* The caller has looked at the result, and may call again.
Taken == last # <<>> /\ last' = <<>> /\ ret' = 0 /\ UNCHANGED st

StdioCalls ==
  \/ OpenFails
  \/ \E n \in DOMAIN Content : fopen(n)
  \/ \E f \in Stream \ Free :
       \/ fclose(f)
       \/ ftell(f)
       \/ feof(f)
       \/ \E off \in Offsets, w \in 0 .. 3 : fseek(f, off, w)
  \/ \E f \in {Console} \cup (Stream \ Free) :
       \/ \E n \in DOMAIN Content : freopen(f, n)
       \/ \E s, n \in Counts : fread(f, s, n)
       \/ \E n \in Counts : fgets(f, n)
       \/ \E c \in Pushes \cup {Eof} : ungetc(f, c)
  \/ \E f \in {Console, stdout} :
       \/ \E s, n \in Counts : fwrite(f, s, n)
       \/ ConsoleRefuses(f)

StdioNext == Taken \/ (last = <<>> /\ StdioCalls)

StdioSpec == StdioInit /\ [][StdioNext]_stdioVars

-----------------------------------------------------------------------------
\* What feof says of a file.
AtEnd(r) == r.data # NoFile /\ r.push = Eof /\ r.pos >= Size(r)

\* What is pushed back counts in the position, is what a read gives first and
\* is dropped by a seek; a read that meets the end leaves the mark that feof
\* tells; streams do not disturb each other.
S == INSTANCE Streams WITH
  OpenMax <- NFILE,
  at <- [f \in {Console} \cup Stream |->
           [file |-> st[f].data, pushed |-> st[f].push,
            place |-> IF f = Console THEN 0 ELSE Place(st[f])]],
  ended <- [f \in {Console} \cup Stream |-> f # Console /\ AtEnd(st[f])]

\* The slots, positions and push back of stdio.c implement the streams.
ImplementsStreams == S!Spec

\* fopen finds room for a file that is there as long as fewer than FOPEN_MAX
\* streams, the three of the console among them, are open.
OpensAsPromised ==
  last = <<"fopen", 0>> /\ ret \in DOMAIN Content =>
    Cardinality(Stream \ Free) + 3 >= FOPEN_MAX

=============================================================================
