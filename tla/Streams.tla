------------------------------ MODULE Streams ------------------------------
(***************************************************************************)
(* The streams of C that a program reads ROM files with: a place in a file  *)
(* that a character pushed back moves back by one, a rest that a read takes *)
(* from the front, and a mark that the end was met.  There is no table of   *)
(* streams: an open fails only when OpenMax of them are open.  Stream 0 is  *)
(* the console: what is typed is its rest; it has no place and stays open.  *)
(*                                                                         *)
(* libc/stdio.c departs from C in three ways, which are allowed here, each  *)
(* where its name stands:                                                  *)
(*   EarlyEnd  feof says so as soon as nothing is left, not only after a    *)
(*             read has failed                                             *)
(*   Typing    the console that was reopened on a file may go on with what  *)
(*             is typed                                                    *)
(*   Sinking   a seek to before the least long may end at the greatest      *)
(* And the limit of open files is stdio.c's, not the one stdio.h promises.  *)
(***************************************************************************)
EXTENDS Integers, Sequences, FiniteSetsExt

CONSTANTS NoFile, Content, Key, Eof, NL, SizeMax, PlaceMax, Counts, Pushes, Offsets,
          OpenMax  \* as many files can be open

VARIABLES
  at,      \* stream -> its file, the place in it and the pushed character
  ended,   \* stream -> the end was met, and nothing has undone that
  last,    \* <<function, stream>> of the last call, or <<>>
  ret      \* what it returned

vars == <<at, ended, last, ret>>

Console == 0
Out == OpenMax + 1
Stream == 1 .. OpenMax
Opened(n) == [file |-> n, place |-> 0, pushed |-> Eof]
IsOpen(f) == f = Console \/ at[f].file # NoFile

\* What is still to be read of f: known for a file; still to be typed for the
\* console, where no call below takes more than SizeMax characters, and of one
\* that was reopened either of the two (Typing).
Rests(f) ==
  LET a == at[f]
      first == IF a.pushed = Eof THEN a.place + 1 ELSE a.place + 2
      typed == IF f = Console THEN [1 .. SizeMax -> Key] ELSE {}
      written == IF a.file = NoFile THEN {}
                 ELSE {SubSeq(Content[a.file], first, Len(Content[a.file]))}
  IN  {(IF a.pushed = Eof THEN <<>> ELSE <<a.pushed>>) \o t : t \in typed \cup written}

\* The mark of f after a call that met the end of it, or did not: set if it
\* met the end, clear while something is left, and else C clears it, but it
\* may be set (EarlyEnd).
Marks(f, met) ==
  LET a == at'[f]
  IN  \E e \in BOOLEAN :
        /\ ended' = [ended EXCEPT ![f] = e]
        /\ met => e
        /\ e => /\ f # Console /\ a.file # NoFile /\ a.pushed = Eof
                /\ a.place >= Len(Content[a.file])

Init == /\ at = [f \in {Console} \cup Stream |-> Opened(NoFile)]
        /\ ended = [f \in {Console} \cup Stream |-> FALSE]
        /\ last = <<>> /\ ret = 0

Called(fn, f) == last' = <<fn, f>>
Nothing(fn, f, v) == Called(fn, f) /\ ret' = v /\ UNCHANGED <<at, ended>>

\* A name that is there; one that is not is refused at any time.
Open(n) ==
  \/ \E f \in Stream : /\ Called("fopen", f) /\ ~ IsOpen(f) /\ ret' = n
                       /\ at' = [at EXCEPT ![f] = Opened(n)] /\ Marks(f, FALSE)
  \/ Nothing("fopen", 0, n) /\ \A f \in Stream : IsOpen(f)

Becomes(fn, f, n, v) ==
  Called(fn, f) /\ ret' = v /\ at' = [at EXCEPT ![f] = Opened(n)] /\ Marks(f, FALSE)
Reopen(f, n) == Becomes("freopen", f, n, n)
Close(f) == Becomes("fclose", f, NoFile, 0)

\* k characters are gone from the front of the rest.
Advance(f, k) ==
  at' = IF k = 0 THEN at
        ELSE [at EXCEPT ![f].place = IF f = Console THEN 0 ELSE @ + k,
                        ![f].pushed = Eof]

\* The next whole items there are and what is left of a last one; a request of
\* more than SizeMax bytes may stop sooner.
Read(f, s, n) ==
  /\ Called("fread", f)
  /\ \E r \in Rests(f) : \E k \in 0 .. Len(r) :
       /\ k <= s * n /\ (s * n <= SizeMax => k = Min({s * n, Len(r)}))
       /\ ret' = <<IF s = 0 THEN 0 ELSE k \div s, SubSeq(r, 1, k)>>
       /\ Advance(f, k)
       /\ Marks(f, f # Console /\ s * n <= SizeMax /\ k < s * n)

\* The rest of the line, or the n - 1 bytes of it that fit.
Line(f, n) ==
  /\ Called("fgets", f)
  /\ \E r \in Rests(f) :
       LET fits == Min({n - 1, Len(r)})
           ends == {i \in 1 .. fits : r[i] = NL}
           k == IF n <= 1 THEN 0 ELSE IF ends = {} THEN fits ELSE Min(ends)
       IN  /\ ret' = SubSeq(r, 1, k) /\ Advance(f, k)
           /\ Marks(f, f # Console /\ ends = {} /\ k < n - 1)

PushBack(f, c) ==
  IF at[f].pushed = Eof /\ c # Eof
  THEN /\ Called("ungetc", f) /\ ret' = c
       /\ at' = [at EXCEPT ![f].pushed = c,
                           ![f].place = IF f = Console THEN 0 ELSE @ - 1]
       /\ Marks(f, FALSE)
  ELSE Nothing("ungetc", f, Eof)

\* To a place counted from the start (0), from here (1) or from the end (2),
\* that a long can hold; or else not, or to the last of them (Sinking).
Seek(f, off, w) ==
  LET p == off + CASE w = 0 -> 0 [] w = 1 -> at[f].place
                   [] w = 2 -> Len(Content[at[f].file]) [] OTHER -> -1 - off
      Reach(q) == /\ ret' = 0 /\ at' = [at EXCEPT ![f].place = q, ![f].pushed = Eof]
                  /\ Marks(f, FALSE)
  IN  /\ Called("fseek", f)
      /\ \/ p \in 0 .. PlaceMax /\ Reach(p)
         \/ p \notin 0 .. PlaceMax /\ ret' = -1 /\ UNCHANGED <<at, ended>>
         \/ p < - PlaceMax - 1 /\ Reach(PlaceMax)

\* Only the console takes output, and takes all of it.
Write(f, s, n) ==
  \E k \in 0 .. n :
    /\ (f # Out \/ s = 0) => k = 0
    /\ (f = Out /\ s # 0 /\ s * n <= SizeMax) => k = n
    /\ Nothing("fwrite", f, k)

\* The console stays open and has no place, and its output cannot be read.
Refused(f) ==
  \/ \E c \in {<<"fclose", 0>>, <<"ftell", -1>>, <<"fseek", -1>>, <<"feof", FALSE>>} :
       Nothing(c[1], f, c[2])
  \/ f = Out /\ \E c \in {<<"fread", <<0, <<>>>>>>, <<"fgets", <<>>>>, <<"ungetc", Eof>>} :
                    Nothing(c[1], f, c[2])

\* The caller has looked at the result, and may call again.
Taken == last # <<>> /\ last' = <<>> /\ ret' = 0 /\ UNCHANGED <<at, ended>>

Next ==
  \/ Taken
  \/ last = <<>> /\
       \/ \E n \in DOMAIN Content : Open(n)
       \/ \E f \in Stream : IsOpen(f) /\
            \/ Close(f)
            \/ Nothing("ftell", f, at[f].place)
            \/ Nothing("feof", f, ended[f])
            \/ \E off \in Offsets, w \in 0 .. 3 : Seek(f, off, w)
       \/ \E f \in {Console} \cup Stream : IsOpen(f) /\
            \/ \E n \in DOMAIN Content : Reopen(f, n)
            \/ \E s, n \in Counts : Read(f, s, n)
            \/ \E n \in Counts : Line(f, n)
            \/ \E c \in Pushes \cup {Eof} : PushBack(f, c)
       \/ \E f \in {Console, Out} : Refused(f) \/ \E s, n \in Counts : Write(f, s, n)
       \/ \E fn \in {"fopen", "freopen"} : Nothing(fn, 0, NoFile)

Spec == Init /\ [][Next]_vars
=============================================================================
