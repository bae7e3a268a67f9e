------------------------------- MODULE MCLibc -------------------------------
(***************************************************************************)
(* The C library, and how the prompt prints a value: the streams run over   *)
(* two slots and two files; each function that keeps no state is called     *)
(* with every argument below, one call at a time, while no stream is open.  *)
(***************************************************************************)
EXTENDS Stdio, CString, Stdlib, FloatParts, Calendar, RomTree, Format, Dump

vars == <<stdioVars, call>>

\* A file of two lines and an empty one.
Files == [lines |-> <<65, 10, 66>>, empty |-> <<>>]
SeekBy == {-4, -1, 0, 1, 3}
OneFile == [empty |-> <<>>]

\* Centuries and leap years on both sides of the eras of 400 years.
YearsTried == {-800, -401, -400, -1, 0, 1, 100, 1899, 1900, 1904, 1969, 1970,
               1972, 1999, 2000, 2001, 2099, 2100, 2400}

\* Every image of up to eight cells, alone and behind an entry.
ShortImages == UNION {[1 .. n -> 0 .. 2] : n \in 0 .. 8}
ImagesTried == ShortImages \cup {<<1, 0, 2, 0, 0, 0>> \o i : i \in ShortImages}
\* a/a/a/b cannot be reached: only its directory has a path that fits.
TreeNames == {<<97, 47, 97, 47, 97, 47, 98>>, <<97, 97>>, <<97, 47, 98>>,
              <<97, 47, 97, 97, 97>>}

LeastExponent == -2
ExponentsTried == {-14, -10, -6, -3, -1, 0, 1, 4}
\* The longest fraction and the longest whole number of a float.
LongestFloats == {<<16777215, -149>>, <<16777215, 104>>}

\* Strings of what a dump is made of, and what arrays and hashes hold.
DumpedStrings == SeqOf({"\"", "\\", "n", "\n"}, 2) \cup {<<",", " ">>, <<"]">>, <<"1">>}
DumpedScalars == {<<"undef", <<>>>>, <<"number", <<"1">>>>, <<"string", <<"1">>>>,
                  <<"string", <<"\\">>>>, <<"string", <<"\"">>>>, <<"string", <<",", " ">>>>}

Init == StdioInit /\ call = Idle

PureCall == /\ call = Idle /\ st = [f \in {Console} \cup Stream |-> Fresh(NoFile)]
            /\ last = <<>>
            /\ \/ CStringCalls \/ StdlibCalls \/ AeabiCalls
               \/ CalendarCalls \/ RomTreeCalls \/ PrintfCalls
               \/ FloatPartsCalls \/ FormatCalls \/ DumpCalls
            /\ UNCHANGED stdioVars
Return == call # Idle /\ call' = Idle /\ UNCHANGED stdioVars

Next == PureCall \/ Return \/ (call = Idle /\ StdioNext /\ UNCHANGED call)

Spec == Init /\ [][Next]_vars

\* The streams alone, with a table as long as stdio.c has it.
StreamsOnly == Init /\ [][StdioNext /\ UNCHANGED call]_vars
=============================================================================
