------------------------------ MODULE Readline ------------------------------
(***************************************************************************)
(* perlos_readline() (os/perlos.c:182-216), one key at a time, in calls that *)
(* follow each other.  getchar() never fails on either console, so the end  *)
(* of input that line 189 looks for is left out.                            *)
(*                                                                         *)
(* Characters are few: what matters of one is whether it is visible, erases *)
(* or ends something, and its part in an escape sequence.                   *)
(***************************************************************************)
EXTENDS Integers, Sequences, SequencesExt

CONSTANTS Cap,       \* the size of the buffer
          Visible,   \* TAB, and all from blank to 255 but DEL
          Intro,     \* "[" and "O"
          Final,     \* 0x40 to 0x7e
          MaxKeys    \* bound: keys of one call, beside the one that ends it

Control == {"BS", "ESC", "BEL"}
Ending == {"CR", "LF", "ETX", "EOT"}
Key == Visible \cup Control \cup Ending

ASSUME ReadlineAssumption ==
  /\ Cap \in Nat \ {0} /\ MaxKeys \in Nat \ {0}
  /\ Intro \subseteq Visible /\ Final \subseteq Visible
  /\ Visible \cap (Control \cup Ending \cup {"none"}) = {}

VARIABLES
  skip_lf,   \* static: the last key read here was CR
  s,         \* the buffer's first n bytes; n is Len(s)
  too_long, escape,
  reading,   \* within a call
  ret,       \* [code, line] of the last call, NoResult within a call
  screen,    \* what the terminal shows of the line
  keys,      \* what this call, or the last, has read
  afterCr    \* the key this program read before that was CR

vars == <<skip_lf, s, too_long, escape, reading, ret, screen, keys, afterCr>>

NoResult == [code |-> 0, line |-> <<>>]

\* What readline returns: n and the line, or a negative code.
Codes == {-1, -2, -3}

Init ==
  /\ skip_lf = FALSE /\ s = <<>> /\ too_long = FALSE /\ escape = 0
  /\ reading = FALSE /\ ret = NoResult
  /\ screen = <<>> /\ keys = <<>> /\ afterCr = FALSE

-----------------------------------------------------------------------------
\* The terminal.

Shows(text) == screen' = screen \o text
ShowsErased == screen' = IF screen = <<>> THEN <<>> ELSE Front(screen)

-----------------------------------------------------------------------------

Call ==
  /\ ~ reading
  /\ s' = <<>> /\ too_long' = FALSE /\ escape' = 0
  /\ reading' = TRUE /\ ret' = NoResult
  /\ keys' = <<>> /\ screen' = <<>>
  /\ afterCr' = IF keys = <<>> THEN afterCr ELSE Last(keys) = "CR"
  /\ UNCHANGED skip_lf

Returns(code, line) == reading' = FALSE /\ ret' = [code |-> code, line |-> line]

\* No editing state is touched.
Stays == UNCHANGED <<s, too_long, escape, screen>>

\* The LF of CR LF.
Skipped(c) == skip_lf /\ c = "LF"

Enter(c) ==
  /\ c \in {"CR", "LF"}
  /\ IF too_long THEN Returns(-3, <<>>) ELSE Returns(Len(s), s)
  /\ Stays

Interrupt(c) ==
  c = "ETX" /\ Returns(-2, <<>>) /\ s' = <<>> /\ UNCHANGED <<too_long, escape, screen>>

EndOfText(c) ==
  /\ c = "EOT"
  /\ IF too_long THEN Returns(-3, <<>>) /\ s' = <<>>
     ELSE (IF s = <<>> THEN Returns(-1, <<>>) ELSE Returns(Len(s), s)) /\ UNCHANGED s
  /\ UNCHANGED <<too_long, escape, screen>>

\* Mutant: a long sequence has one key after its introduction.
InEscapeShort(c) ==
  /\ escape' = IF escape = 1 /\ c \in Intro THEN 2 ELSE 0
  /\ UNCHANGED <<s, too_long, screen>>

\* A key that belongs to an escape sequence.
InEscape(c) ==
  /\ escape' = IF escape = 1 THEN (IF c \in Intro THEN 2 ELSE 0)
               ELSE IF c \in Final THEN 0 ELSE 2
  /\ UNCHANGED <<s, too_long, screen>>

StartEscape(c) == c = "ESC" /\ escape' = 1 /\ UNCHANGED <<s, too_long, screen>>

Erase(c) ==
  /\ c = "BS"
  /\ IF s # <<>> /\ ~ too_long THEN s' = Front(s) /\ ShowsErased ELSE UNCHANGED <<s, screen>>
  /\ UNCHANGED <<too_long, escape>>

Ignored(c) == c = "BEL" /\ Stays

\* Mutant: the end of the string has no room.
PutFull(c) ==
  /\ c \in Visible
  /\ IF too_long THEN Stays
     ELSE IF Len(s) >= Cap THEN too_long' = TRUE /\ UNCHANGED <<s, escape, screen>>
     ELSE s' = Append(s, c) /\ Shows(<<c>>) /\ UNCHANGED <<too_long, escape>>

Put(c) ==
  /\ c \in Visible
  /\ IF too_long THEN Stays
     ELSE IF Len(s) + 1 >= Cap THEN too_long' = TRUE /\ UNCHANGED <<s, escape, screen>>
     ELSE s' = Append(s, c) /\ Shows(<<c>>) /\ UNCHANGED <<too_long, escape>>

\* skip_lf is cleared by any key, and set by CR.
NextSkip(c) == skip_lf' = (c = "CR")

GetKey(c) ==
  /\ reading
  /\ Len(keys) < MaxKeys \/ c \in Ending
  /\ keys' = Append(keys, c)
  /\ UNCHANGED afterCr
  /\ NextSkip(c)
  /\ \/ Skipped(c) /\ Stays /\ UNCHANGED <<reading, ret>>
     \/ ~ Skipped(c) /\ (Enter(c) \/ Interrupt(c) \/ EndOfText(c))
     \/ /\ c \notin Ending /\ UNCHANGED <<reading, ret>>
        /\ \/ escape # 0 /\ InEscape(c)
           \/ escape = 0 /\ (StartEscape(c) \/ Erase(c) \/ Ignored(c) \/ Put(c))

Next ==
  \/ Call
  \/ \E c \in Key : GetKey(c)

Spec == Init /\ [][Next]_vars

-----------------------------------------------------------------------------

(***************************************************************************)
(* The types, among them that the text and its zero fit in the buffer.      *)
(***************************************************************************)
TypeOK ==
  /\ skip_lf \in BOOLEAN /\ too_long \in BOOLEAN /\ escape \in 0 .. 2
  /\ s \in Seq(Visible) /\ Len(s) < Cap
  /\ reading \in BOOLEAN
  /\ ret.line \in Seq(Visible) /\ Len(ret.line) < Cap
  /\ ret.code \in Codes \cup {Len(ret.line)}
  /\ ret.code \in Codes => ret.line = <<>>
  /\ keys \in Seq(Key) /\ Len(keys) <= MaxKeys + 1
  /\ screen \in Seq(Visible) /\ afterCr \in BOOLEAN

(***************************************************************************)
(* readline() returns what its keys spell by LineText, at the first key that *)
(* ends the line and not before: with erasures and escape sequences in any  *)
(* mixture, cut short or not, and before and after the line has become too  *)
(* long.  LF as the first key after a CR that readline() read is no key, so *)
(* that CR, LF, and CR LF each end one line.  The terminal shows the line,   *)
(* so that the user sees what Enter will evaluate.                          *)
(***************************************************************************)
Text == INSTANCE LineText

Counted == IF afterCr /\ keys # <<>> /\ keys[1] = "LF" THEN Tail(keys) ELSE keys

MeansEnd(c, p, r) ==
  LET long == Text!Exceeds(p, Cap - 1)
  IN  CASE c = "ETX" -> r.code = -2
        [] c # "ETX" /\ long -> r.code = -3
        [] c = "EOT" /\ ~ long /\ Text!LeftOf(p) = {} -> r.code = -1
        [] OTHER -> r.code = Len(r.line) /\ Text!IsText(r.line, p)

ReturnsWhatIsTyped ==
  /\ reading => screen = s
  /\ \A i \in 1 .. Len(Counted) - 1 : Counted[i] \notin Ending
  /\ Counted # <<>> =>
       /\ reading <=> Last(Counted) \notin Ending
       /\ ~ reading => MeansEnd(Last(Counted), Text!Plain[Front(Counted)], ret)
=============================================================================
