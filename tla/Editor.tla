------------------------------- MODULE Editor -------------------------------
(***************************************************************************)
(* What someone typing expects of an editor: characters before the cursor,  *)
(* characters after it, and rules that replace what was typed. A character  *)
(* is a sequence of bytes and is never taken apart; bytes only count        *)
(* against the room there is.                                               *)
(***************************************************************************)
EXTENDS Integers, SequencesExt, FiniteSetsExt

CONSTANTS SIZE, CursorSize, NL,
          Typed,      \* the characters that keys type
          Rules       \* <<from, to>>, in the order they are tried

VARIABLES
  view,       \* the text before and after the cursor, and the cursor's shape
  key         \* what the last key asked for, "none" once it is shown

vars == <<view, key>>

Init == view = [before |-> <<>>, after |-> <<>>, shape |-> 1] /\ key = "none"

Bytes(t) == Len(FlattenSeq(t))
Used(b, a) == Bytes(b) + CursorSize + Bytes(a)

Places(t, from) == {i \in 1 .. Len(t) - Len(from) + 1 : SubSeq(t, i, i + Len(from) - 1) = from}
Put(t, i, from, to) == SubSeq(t, 1, i - 1) \o to \o SubSeq(t, i + Len(from), Len(t))

\* The first place of the text a rule applies to, if the result fits.
Apply(t, r) ==
  LET b == Places(t[1], r[1])  a == Places(t[2], r[1])
  IN  IF Used(t[1], t[2]) - Bytes(r[1]) + Bytes(r[2]) >= SIZE THEN t
      ELSE IF b # {} THEN <<Put(t[1], Min(b), r[1], r[2]), t[2]>>
      ELSE IF a # {} THEN <<t[1], Put(t[2], Min(a), r[1], r[2])>>
      ELSE t

Type(v, c) ==
  LET fits == Used(v.before, v.after) + Len(c) < SIZE
      b == IF fits THEN Append(v.before, c) ELSE v.before
      tried[i \in 0 .. Len(Rules)] ==
        IF i = 0 THEN <<b, v.after>> ELSE Apply(tried[i - 1], Rules[i])
      t == IF c = NL THEN tried[0] ELSE tried[Len(Rules)]
  IN  [v EXCEPT !.before = t[1], !.after = t[2]]

\* The cursor moves; k characters of the text are before it.
MoveTo(v, k) ==
  LET all == v.before \o v.after
  IN  [v EXCEPT !.before = SubSeq(all, 1, k), !.after = SubSeq(all, k + 1, Len(all))]

\* To the same column of the line above or below, or to the end of that line.
Above(v) ==
  LET breaks == {i \in DOMAIN v.before : v.before[i] = NL}
      start == Max(breaks)                          \* the line starts after it
      above == Max((breaks \ {start}) \cup {0})
  IN  IF breaks = {} THEN Len(v.before)
      ELSE Min({above + Len(v.before) - start, start - 1})
Below(v) ==
  LET all == v.before \o v.after  n == Len(v.before)
      breaks == {i \in DOMAIN all : all[i] = NL} \cup {Len(all) + 1}
      start == Max({i \in breaks : i <= n} \cup {0})
      below == Min({i \in breaks : i > n})
      end == Min({i \in breaks : i > below})
  IN  IF below > Len(all) THEN n ELSE Min({below + n - start, end - 1})

Edit(v, e) ==
  LET n == Len(v.before) IN
  CASE e = "backspace" -> IF n = 0 THEN v ELSE [v EXCEPT !.before = Front(@)]
    [] e = "delete" -> IF v.after = <<>> THEN v ELSE [v EXCEPT !.after = Tail(@)]
    [] e = "left" -> MoveTo(v, IF n = 0 THEN 0 ELSE n - 1)
    [] e = "right" -> MoveTo(v, IF v.after = <<>> THEN n ELSE n + 1)
    [] e = "up" -> MoveTo(v, Above(v))
    [] e = "down" -> MoveTo(v, Below(v))
    [] e = "blink" -> [v EXCEPT !.shape = 3 - @]
    [] OTHER -> v

Keys == {"backspace", "delete", "left", "right", "up", "down", "blink", "other", "end"}

Next ==
  \/ /\ key = "none"
     /\ \E v \in {view} :
          \/ \E e \in Keys : key' = e /\ view' = Edit(v, e)
          \/ \E c \in Typed : key' = "type" /\ view' = Type(v, c)
  \/ key \notin {"none", "end"} /\ key' = "none" /\ UNCHANGED view

Spec == Init /\ [][Next]_vars
=============================================================================
