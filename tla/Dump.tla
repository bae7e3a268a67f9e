-------------------------------- MODULE Dump --------------------------------
(***************************************************************************)
(* How os/perlos.c prints the value of an evaluated line: dump_str() and    *)
(* dump_sv(). A value is a pair <<kind, what>>: an undefined one, a scalar  *)
(* used as a number with its text, a string, a reference to an array, to a  *)
(* hash (a sequence of keys and values) or to another value. Characters are *)
(* strings of one character.                                                *)
(***************************************************************************)
EXTENDS Calls, SequencesExt

CONSTANTS DumpStrings, Scalars     \* the strings tried, what arrays hold

\* Mutant: a backslash in a string is printed as it is.
EscapedBare(c) ==
  CASE c = "\n" -> <<"\\", "n">> [] c = "\r" -> <<"\\", "r">> [] c = "\t" -> <<"\\", "t">>
    [] c = "\"" -> <<"\\", c>> [] OTHER -> <<c>>

Escaped(c) ==
  CASE c = "\n" -> <<"\\", "n">> [] c = "\r" -> <<"\\", "r">> [] c = "\t" -> <<"\\", "t">>
    [] c \in {"\"", "\\"} -> <<"\\", c>> [] OTHER -> <<c>>

dump_str(s) ==
  <<"\"">> \o FlattenSeq([i \in DOMAIN s |-> Escaped(s[i])]) \o <<"\"">>

Listed(items) ==
  FlattenSeq([i \in DOMAIN items |-> IF i = 1 THEN items[i] ELSE <<",", " ">> \o items[i]])

RECURSIVE dump_sv(_)
dump_sv(v) ==
  CASE v[1] = "undef" -> <<"u", "n", "d", "e", "f">>
    [] v[1] = "number" -> v[2]
    [] v[1] = "string" -> dump_str(v[2])
    [] v[1] = "array" ->
         <<"[">> \o Listed([i \in DOMAIN v[2] |-> dump_sv(v[2][i])]) \o <<"]">>
    [] v[1] = "hash" ->
         <<"{">> \o Listed([i \in DOMAIN v[2] |-> dump_str(v[2][i][1]) \o
                            <<" ", "=", ">", " ">> \o dump_sv(v[2][i][2])]) \o <<"}">>
    [] v[1] = "ref" -> <<"\\">> \o dump_sv(v[2][1])

-----------------------------------------------------------------------------
\* Arrays, hashes and references of scalars, and what holds those.
Deeper(s) ==
  {<<"array", <<>>>>, <<"hash", <<>>>>}
  \cup {<<"array", <<x>>>> : x \in s} \cup {<<"array", <<x, y>>>> : x, y \in s}
  \cup {<<"hash", <<<<k, x>>>>>> : k \in DumpStrings, x \in s}
  \cup {<<"ref", <<x>>>> : x \in s}
Pairs2 == {<<"hash", <<<<<<>>, x>>, <<k, x>>>>>> : k \in DumpStrings \ {<<>>}, x \in Scalars}
Nested == {<<"array", <<<<"undef", <<>>>>, x>>>> : x \in Deeper(Scalars)}
          \cup {<<"ref", <<x>>>> : x \in Deeper(Scalars)}
Values == Scalars \cup {<<"string", s>> : s \in DumpStrings}
          \cup Deeper(Scalars) \cup Pairs2 \cup Nested

DumpCalls == Call("dump_sv", Values)

\* What is printed tells two values apart, whatever quotes, backslashes,
\* brackets and commas their strings and keys hold.
DumpTellsApart ==
  call.fn = "dump_sv" =>
    LET text == dump_sv(call.a) IN \A w \in Values \ {call.a} : dump_sv(w) # text
=============================================================================
