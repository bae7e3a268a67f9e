-------------------------------- MODULE Ime --------------------------------
(***************************************************************************)
(* The input method of example/ime.c: one array of SIZE bytes holds the     *)
(* text in UTF-8 and in it, as one more character, the cursor. Every key    *)
(* moves bytes about in it; a pointer is a number of bytes before it. The   *)
(* array is the sequence of its bytes up to the NUL. The tables of rules    *)
(* are constants.                                                           *)
(***************************************************************************)
EXTENDS Integers, SequencesExt, FiniteSetsExt

CONSTANTS
  SIZE,             \* bytes of the array
  CURSOR1, CURSOR2, \* the two shapes of the cursor
  Romaji, Kanji,    \* <<from, to>>, characters as sequences of bytes
  Letter, NL

VARIABLES
  s,          \* the array
  key         \* the key that was handled, or "none" while one is waited for

vars == <<s, key>>

\* ulen of a first byte, and the bytes that come after one.
ulen(c) == IF c < 128 THEN 1 ELSE IF c < 192 THEN 4
           ELSE IF c < 224 THEN 2 ELSE IF c < 240 THEN 3 ELSE 4
Continues(c) == c \in 128 .. 191

\* A character of UTF-8, and one that is not the cursor.
Byte == 0 .. 255
IsCursor(c) == c \in {CURSOR1, CURSOR2}
Whole(c) == /\ c # <<>> /\ ~ Continues(c[1]) /\ Len(c) = ulen(c[1])
            /\ \A j \in 2 .. Len(c) : Continues(c[j])
Character == {c \in Seq(Byte) : Whole(c)}
Plain == {c \in Character : ~ IsCursor(c)}

CLEN == 3

ASSUME ImeAssumption ==
  /\ SIZE \in Nat /\ SIZE > CLEN
  /\ CURSOR1 # CURSOR2 /\ CURSOR1 \in Character /\ CURSOR2 \in Character
  /\ Len(CURSOR1) = CLEN /\ Len(CURSOR2) = CLEN
  /\ \A rules \in {Romaji, Kanji} : rules \in Seq((Seq(Plain) \ {<<>>}) \X Seq(Plain))
  /\ NL \in 0 .. 127 /\ Letter \subseteq 0 .. 127 /\ NL \notin Letter

Null == -1
From(t, i) == SubSeq(t, i + 1, Len(t))
Upto(t, i) == SubSeq(t, 1, i)
Part(t, i, j) == SubSeq(t, i + 1, j)

strstr(t, f) ==
  LET hits == {i \in 0 .. Len(t) - Len(f) : Part(t, i, i + Len(f)) = f}
  IN  IF hits = {} THEN Null ELSE Min(hits)

-----------------------------------------------------------------------------
\* Mutant: the length before the replacement is compared with the room.
ReplaceUnchecked(t, rule) ==
  LET from == FlattenSeq(rule[1])  to == FlattenSeq(rule[2])  p == strstr(t, from)
  IN  IF p = Null \/ Len(t) >= SIZE THEN t
      ELSE Upto(t, p) \o to \o From(t, p + Len(from))

replace(t, rule) ==
  LET from == FlattenSeq(rule[1])  to == FlattenSeq(rule[2])  p == strstr(t, from)
  IN  IF p = Null \/ Len(t) - Len(from) + Len(to) >= SIZE THEN t
      ELSE Upto(t, p) \o to \o From(t, p + Len(from))

convert(t, rules) ==
  LET tried[i \in 0 .. Len(rules)] == IF i = 0 THEN t ELSE replace(tried[i - 1], rules[i])
  IN  tried[Len(rules)]

Step(t, q) == q + ulen(t[q + 1])

cur(t) == IF strstr(t, CURSOR1) # Null THEN strstr(t, CURSOR1) ELSE strstr(t, CURSOR2)

prev_char(t, p) ==
  IF p <= 0 THEN p
  ELSE Max({q \in 0 .. p - 1 : q = 0 \/ ~ Continues(t[q + 1])})

blink(t) ==
  LET p == cur(t)
  IN  Upto(t, p) \o (IF Part(t, p, p + CLEN) = CURSOR1 THEN CURSOR2 ELSE CURSOR1)
        \o From(t, p + CLEN)

insert_char(t, c) ==
  LET p == cur(t)
  IN  IF p = Null \/ Len(t) + 1 >= SIZE THEN t ELSE Upto(t, p) \o <<c>> \o From(t, p)

backspace(t) ==
  LET p == cur(t)
  IN  IF p \in {Null, 0} THEN t ELSE Upto(t, prev_char(t, p)) \o From(t, p)

delete_char(t) ==
  LET q == cur(t) + CLEN
  IN  IF cur(t) = Null \/ q = Len(t) THEN t ELSE Upto(t, q) \o From(t, Step(t, q))

\* The CLEN bytes at p are moved to the place `to' outside of them.
move_cursor(t, to) ==
  LET p == cur(t)  c == Part(t, p, p + CLEN)
  IN  IF p = Null \/ to = p THEN t
      ELSE IF to < p THEN Upto(t, to) \o c \o Part(t, to, p) \o From(t, p + CLEN)
      ELSE Upto(t, p) \o Part(t, p + CLEN, to) \o c \o From(t, to)

\* Through tmp, which has four bytes.
left(t) ==
  LET p == cur(t) IN IF p \in {Null, 0} THEN t ELSE move_cursor(t, prev_char(t, p))
right(t) ==
  LET q == cur(t) + CLEN
  IN  IF cur(t) = Null \/ q = Len(t) THEN t ELSE move_cursor(t, Step(t, q))

\* A step is at most 4 bytes.
column(t, start, p) ==
  LET from[i \in 0 .. p + 3] == IF i < p THEN 1 + from[Step(t, i)] ELSE 0
  IN  from[start]

\* The start of the line that p is in, and q after at most col characters of it.
LineStart(t, p) == Max({i \in 0 .. p : i = 0 \/ t[i] = NL})
Across(t, q, col, end) ==
  LET at[k \in 0 .. col] ==
        IF k = 0 THEN q
        ELSE LET r == at[k - 1] IN IF r < end /\ t[r + 1] # NL THEN Step(t, r) ELSE r
  IN  at[col]

\* Mutant: a column is taken for three bytes.
UpBytes(t) ==
  LET p == cur(t)  start == LineStart(t, p)
  IN  IF p = Null \/ start = 0 THEN t
      ELSE LET q == LineStart(t, start - 1)
           IN  move_cursor(t, Min({q + 3 * column(t, start, p), start - 1}))

up(t) ==
  LET p == cur(t)  start == LineStart(t, p)
  IN  IF p = Null \/ start = 0 THEN t
      ELSE move_cursor(t, Across(t, LineStart(t, start - 1), column(t, start, p), start - 1))

LineEnd(t, q) ==
  LET from[i \in 0 .. Len(t) + 3] ==
        IF i < Len(t) /\ t[i + 1] # NL THEN from[Step(t, i)] ELSE i
  IN  from[q]

down(t) ==
  LET p == cur(t)
      end == LineEnd(t, p + CLEN)
  IN  IF p = Null \/ end = Len(t) THEN t
      ELSE move_cursor(t, Across(t, end + 1, column(t, LineStart(t, p), p), Len(t)))

-----------------------------------------------------------------------------
Init == s = CURSOR1 /\ key = "none"

On(k, t) == key = "none" /\ s' = t /\ key' = k
Redraw == key \notin {"none", "end"} /\ key' = "none" /\ UNCHANGED s

Blink == On("blink", IF cur(s) = Null THEN s ELSE blink(s))    \* BLINK ms without a key
Interrupt == On("end", s)                                      \* ^C
Rubout == On("backspace", backspace(s))
Enter == On("type", insert_char(s, NL))
Type(c) == On("type", convert(convert(insert_char(s, c), Romaji), Kanji))

\* ESC and what comes within KEYWAIT ms of it: after [ or O, one of A to D, or
\* 3 and ~. Anything else, and a key that is late, ends it without effect.
Escape == \/ On("up", up(s)) \/ On("down", down(s))
          \/ On("right", right(s)) \/ On("left", left(s))
          \/ On("delete", delete_char(s)) \/ On("other", s)

Next == Blink \/ Interrupt \/ Rubout \/ Enter \/ (\E c \in Letter : Type(c)) \/ Escape
          \/ Redraw

Spec == Init /\ [][Next]_vars

-----------------------------------------------------------------------------
\* The text as characters.
Chars(t) ==
  LET from[i \in 0 .. Len(t)] ==
        IF i = Len(t) THEN <<>>
        ELSE LET n == Min({Step(t, i), Len(t)}) IN <<Part(t, i, n)>> \o from[n]
  IN  from[0]

\* The array holds whole characters with room for the NUL, and one of them is
\* the cursor; the character before the cursor fits in tmp.
WholeCharacters ==
  LET cs == Chars(s) IN
  /\ Len(s) < SIZE
  /\ Cardinality({i \in DOMAIN cs : IsCursor(cs[i])}) = 1
  /\ \A i \in DOMAIN cs : Whole(cs[i])
  /\ cur(s) - prev_char(s, cur(s)) <= 4

View == LET cs == Chars(s)
            i == CHOOSE i \in DOMAIN cs : IsCursor(cs[i])
        IN  [before |-> SubSeq(cs, 1, i - 1), after |-> SubSeq(cs, i + 1, Len(cs)),
             shape |-> IF cs[i] = CURSOR1 THEN 1 ELSE 2]

E == INSTANCE Editor WITH
  CursorSize <- CLEN, NL <- <<NL>>, Typed <- {<<c>> : c \in Letter \cup {NL}},
  Rules <- Romaji \o Kanji, view <- View

\* Moving bytes is editing characters: what a key does to the array is what
\* the editor does to the text, for every text, place and length of characters.
ImplementsEditor == E!Spec
=============================================================================
