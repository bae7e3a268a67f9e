------------------------------ MODULE Session ------------------------------
(***************************************************************************)
(* What the prompt of PerlOS promises.  A line is evaluated, or is a        *)
(* command; between ":{" and ":}" the lines are collected, and then         *)
(* evaluated together, each with its newline.  Whatever goes wrong - the    *)
(* input interrupted or too long, the block too large, no memory - gives up *)
(* the whole block and goes back to the prompt; no part of it is evaluated. *)
(***************************************************************************)
EXTENDS Integers, Sequences

CONSTANTS Input,   \* the lines that are typed
          Limit,   \* the bytes a block may have, its zero counted
          NoBlock  \* no block is being collected

VARIABLES text,  \* what has been collected, or NoBlock
          did,   \* what the last line did: [what, text]
          open   \* the session lasts

vars == <<text, did, open>>

Did(what, t) == did' = [what |-> what, text |-> t]

Init == text = NoBlock /\ open = TRUE /\ did = [what |-> "start", text |-> <<>>]

\* Commands about the heap, at the prompt only.
Heap == [mem |-> "dump", on |-> "dump", off |-> "dump", reset |-> "dump",
         check |-> "check", other |-> "usage"]

End ==
  /\ open' = FALSE /\ text' = NoBlock
  /\ \E why \in {"eof", "quit"} : Did(why, <<>>)

GiveUp ==
  /\ text' = NoBlock /\ UNCHANGED open
  /\ \E why \in {"interrupted", "too long"} : Did(why, <<>>)

AtPrompt(l) ==
  /\ text = NoBlock /\ UNCHANGED open
  /\ \/ \E c \in DOMAIN Heap : /\ l = <<":mem", c>> /\ UNCHANGED text
                               /\ Did(Heap[c], <<>>)
     \/ l = <<":{">> /\ text' = <<>> /\ Did("begin", <<>>)
     \/ /\ l \notin {<<":{">>, <<":quit">>} \cup {<<":mem", c>> : c \in DOMAIN Heap}
        /\ UNCHANGED text
        /\ IF l = <<>> THEN Did("nothing", <<>>) ELSE Did("evaluated", l)

InBlock(l) ==
  /\ text # NoBlock /\ UNCHANGED open
  /\ \/ /\ l = <<":}">> /\ text' = NoBlock
        /\ IF text = <<>> THEN Did("nothing", <<>>) ELSE Did("evaluated", text)
     \/ /\ l \notin {<<":}">>, <<":quit">>}
        /\ LET more == text \o l \o <<"\n">>
           IN  \/ Len(more) < Limit /\ text' = more /\ Did("collected", l)
               \/ Len(more) < Limit /\ text' = NoBlock /\ Did("memory", <<>>)
               \/ Len(more) >= Limit /\ text' = NoBlock /\ Did("limit", <<>>)

Next ==
  open /\ (End \/ GiveUp \/ \E l \in Input : AtPrompt(l) \/ InBlock(l))

Spec == Init /\ [][Next]_vars
=============================================================================
