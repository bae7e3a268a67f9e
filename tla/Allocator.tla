----------------------------- MODULE Allocator -----------------------------
(***************************************************************************)
(* What malloc, calloc, realloc and free promise to the program that uses   *)
(* them: memory nobody else owns, contents that stay as they are until the  *)
(* owner changes them, the common part of the contents kept by realloc, and *)
(* a refusal that changes nothing.                                          *)
(***************************************************************************)
EXTENDS Integers, Sequences

CONSTANTS Client,  \* the program's pointer variables
          Top      \* words of memory

VARIABLES live,      \* what is owned: variable -> [p |-> address, n |-> words]
          contents   \* variable -> the words it points to

vars == <<live, contents>>

Range(r) == r.p .. r.p + r.n - 1

\* Memory for c: inside the heap and apart from everything else that is owned.
FreeFor(c, r) ==
  /\ Range(r) \subseteq 0 .. Top - 1
  /\ \A d \in DOMAIN live \ {c} : Range(r) \cap Range(live[d]) = {}

Init == live = [c \in {} |-> 0] /\ contents = [c \in {} |-> <<>>]

\* The words of c that survive a change to n words.
Prefix(c, n) == IF c \notin DOMAIN live THEN <<>>
                ELSE SubSeq(contents[c], 1, IF n < live[c].n THEN n ELSE live[c].n)

\* c gets n words at p, keeps the prefix it had and writes the rest.
Give(c, p, n) ==
  /\ live' = [d \in DOMAIN live \cup {c} |-> IF d = c THEN [p |-> p, n |-> n] ELSE live[d]]
  /\ contents' = [d \in DOMAIN live \cup {c} |->
                    IF d = c
                    THEN Prefix(c, n) \o [i \in 1 .. n - Len(Prefix(c, n)) |-> c]
                    ELSE contents[d]]
  /\ FreeFor(c, [p |-> p, n |-> n])

Take(c) ==
  /\ live' = [d \in DOMAIN live \ {c} |-> live[d]]
  /\ contents' = [d \in DOMAIN live \ {c} |-> contents[d]]

Next ==
  \/ \E c \in Client, p \in 0 .. Top - 1, n \in 1 .. Top : Give(c, p, n)
  \/ \E c \in DOMAIN live : Take(c)

Spec == Init /\ [][Next]_vars
=============================================================================
