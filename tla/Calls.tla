------------------------------- MODULE Calls -------------------------------
(***************************************************************************)
(* The functions of the C library that keep no state are checked one call   *)
(* at a time: `call' holds the name and the arguments of the call that is   *)
(* being looked at, and an invariant compares what the code's algorithm     *)
(* returns for them with a definition of what it should return.             *)
(***************************************************************************)
EXTENDS Integers, Sequences

VARIABLE call      \* [fn |-> the function, ... its arguments]

Idle == [fn |-> "none"]

\* A call to fn with one of the argument lists in s.
Call(fn, s) == \E a \in s : call' = [fn |-> fn, a |-> a]
=============================================================================
