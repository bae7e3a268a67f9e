------------------------------ MODULE LineText ------------------------------
(***************************************************************************)
(* What a sequence of keys spells, said of the whole sequence and not key   *)
(* by key: a line without editing keys, and which keys are left of it.  It   *)
(* is the reference for perlos_readline() in Readline.tla.                  *)
(*                                                                         *)
(* A key is a visible character, or ESC, BS, or another control character.  *)
(* Some visible characters play a part after ESC: an Intro starts a longer  *)
(* sequence, which a Final ends.                                            *)
(***************************************************************************)
EXTENDS Integers, Sequences, FiniteSets

CONSTANTS Visible, Intro, Final, Key

(***************************************************************************)
(* The length of the escape sequence that k begins with: ESC and one key,   *)
(* or ESC, an Intro, and all up to the first Final; all of k if unfinished. *)
(***************************************************************************)
EscapeLength(k) ==
  LET ends == IF Len(k) >= 2 /\ k[2] \in Intro
              THEN {i \in 3 .. Len(k) : k[i] \in Final}
              ELSE {2} \cap DOMAIN k
  IN  IF ends = {} THEN Len(k) ELSE CHOOSE i \in ends : \A j \in ends : i <= j

\* k without its escape sequences.
Plain[k \in Seq(Key)] ==
  IF k = <<>> THEN <<>>
  ELSE IF k[1] = "ESC" THEN Plain[SubSeq(k, EscapeLength(k) + 1, Len(k))]
  ELSE <<k[1]>> \o Plain[Tail(k)]

(***************************************************************************)
(* Key i is left of p unless the erasures after it, up to some point, are   *)
(* more than the characters after it.                                       *)
(***************************************************************************)
Left(p, i) ==
  /\ p[i] \in Visible
  /\ \A j \in i + 1 .. Len(p) :
       Cardinality({m \in i + 1 .. j : p[m] = "BS"})
         <= Cardinality({m \in i + 1 .. j : p[m] \in Visible})

LeftOf(p) == {i \in DOMAIN p : Left(p, i)}

\* The text of p is what is left of it, in order.
IsText(t, p) ==
  /\ Len(t) = Cardinality(LeftOf(p))
  /\ \A i \in LeftOf(p) : t[Cardinality({j \in LeftOf(p) : j <= i})] = p[i]

\* At some point more is left than there is room for.
Exceeds(p, room) ==
  \E j \in DOMAIN p : Cardinality(LeftOf(SubSeq(p, 1, j))) > room
=============================================================================
