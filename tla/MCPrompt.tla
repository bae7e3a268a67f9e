------------------------------ MODULE MCPrompt ------------------------------
(***************************************************************************)
(* The prompt: perlos_readline(), and from the same start the loop of       *)
(* perlos_repl(), which takes its lines from Input.                         *)
(*                                                                         *)
(* Lines: every command, an empty line, and lines of one and two bytes; a   *)
(* block of eight bytes takes three or four of them.                        *)
(***************************************************************************)
EXTENDS Readline, Repl

MCChar == {"a", "b", "c", ":quit", ":{", ":}",
           ":mem", "mem", "on", "off", "reset", "check", "other"}

MCInput == {<<>>, <<"a">>, <<"b", "c">>, <<":quit">>, <<":{">>, <<":}">>}
             \cup {<<":mem", c>> : c \in MemWords}

MCInit == Init /\ ReplInit
MCNext == \/ ReplInit /\ Next /\ UNCHANGED replVars
          \/ Init /\ ReplNext /\ UNCHANGED vars
MCSpec == MCInit /\ [][MCNext]_<<vars, replVars>>
=============================================================================
