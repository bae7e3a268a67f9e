-------------------------------- MODULE Repl --------------------------------
(***************************************************************************)
(* The loop of perlos_repl() (os/perlos.c:270-311) from the first prompt on: *)
(* one step is one return of perlos_readline(), which Readline.tla models,  *)
(* and what is done with it.  The block of a multiline input is memory of   *)
(* the heap, which grows with realloc(); where it lies is kept apart from   *)
(* what it holds, so that a pointer may dangle and memory may be lost.      *)
(*                                                                         *)
(* A text is a sequence of bytes.  ":quit", ":{", ":}" and ":mem" count as   *)
(* one byte, and so does what follows ":mem".  Evaluation belongs to Perl;  *)
(* what counts is the text it is given.                                     *)
(***************************************************************************)
EXTENDS Integers, Sequences, FiniteSets

CONSTANTS Char,     \* the bytes of a line
          Input,    \* the lines that are typed
          Limit,    \* 65536
          Address,  \* where a block may lie
          NoBlock

VARIABLES
  multiline, block, used,
  monitor_heap,  \* :mem on
  memory,        \* address of a block in use -> its bytes
  running,       \* the loop is not left
  did            \* what the last line did: [what, text]

replVars == <<multiline, block, used, monitor_heap, memory, running, did>>

Null == "null"
Zero == "zero"
Junk == "junk"

\* What is in a block.
Byte == Char \cup {"\n", Zero, Junk}

ASSUME ReplAssumption ==
  /\ Limit \in Nat
  /\ Input \subseteq Seq(Char)
  /\ Null \notin Address
  /\ NoBlock \notin Seq(Byte)

ReplInit ==
  /\ multiline = FALSE /\ block = Null /\ used = 0 /\ monitor_heap = FALSE
  /\ memory = [a \in {} |-> <<>>]
  /\ running = TRUE
  /\ did = [what |-> "start", text |-> <<>>]

Did(what, t) == did' = [what |-> what, text |-> t]

-----------------------------------------------------------------------------
\* The heap: free(), and what a realloc() to n bytes may leave, at p.

Without(p) == [a \in DOMAIN memory \ {p} |-> memory[a]]

Reallocated(p, n) ==
  LET old == IF block = Null THEN <<>> ELSE memory[block]
      kept == [i \in 1 .. n |-> IF i <= Len(old) THEN old[i] ELSE Junk]
  IN  [a \in (DOMAIN memory \ {block}) \cup {p} |-> IF a = p THEN kept ELSE memory[a]]

\* bytes stored from offset at on.
Stored(m, at, bytes) ==
  [i \in DOMAIN m |-> IF i - at \in DOMAIN bytes THEN bytes[i - at] ELSE m[i]]

\* Mutant: the mode is kept.
ForgetMode == memory' = Without(block) /\ block' = Null /\ used' = 0 /\ UNCHANGED multiline

\* free(block); block=0; used=0; multiline=0;
Forget == memory' = Without(block) /\ block' = Null /\ used' = 0 /\ multiline' = FALSE

-----------------------------------------------------------------------------

Same == UNCHANGED <<multiline, block, used, monitor_heap, memory, running>>

\* The end: free(block) leaves the pointer.
Leave(why) ==
  /\ running' = FALSE /\ memory' = Without(block) /\ Did(why, <<>>)
  /\ UNCHANGED <<multiline, block, used, monitor_heap>>

EndOfInput == Leave("eof")

\* -2 and -3 of readline().
Broken ==
  /\ \E why \in {"interrupted", "too long"} : Did(why, <<>>)
  /\ Forget /\ UNCHANGED <<monitor_heap, running>>

Quit(l) == l = <<":quit">> /\ Leave("quit")

IsMem(l) == Len(l) > 0 /\ l[1] = ":mem"

\* What may follow ":mem"; "other" stands for all that mem_line() does not know.
MemWords == {"mem", "on", "off", "reset", "check", "other"}

ASSUME MemAssumption ==
  \A l \in Input : IsMem(l) => \E c \in MemWords : l = <<":mem", c>>

Mem(l) ==
  /\ ~ multiline /\ IsMem(l)
  /\ monitor_heap' = (l[2] = "on" \/ (monitor_heap /\ l[2] # "off"))
  /\ Did(IF l[2] = "check" THEN "check" ELSE IF l[2] = "other" THEN "usage" ELSE "dump", <<>>)
  /\ UNCHANGED <<multiline, block, used, memory, running>>

OpenBlock(l) ==
  /\ ~ multiline /\ l = <<":{">>
  /\ multiline' = TRUE /\ Did("begin", <<>>)
  /\ UNCHANGED <<block, used, monitor_heap, memory, running>>

CloseBlock(l) ==
  /\ multiline /\ l = <<":}">>
  /\ IF used > 0 THEN Did("evaluated", SubSeq(memory[block], 1, used))
     ELSE Did("nothing", <<>>)
  /\ Forget /\ UNCHANGED <<monitor_heap, running>>

Collects(l) == multiline /\ l \notin {<<":quit">>, <<":}">>}

\* Mutant: the zero is not counted.
NeedsOneLess(l) == used + Len(l) + 1

Needs(l) == used + Len(l) + 2

TooLarge(l) ==
  /\ Collects(l) /\ Needs(l) > Limit
  /\ Did("limit", <<>>) /\ Forget /\ UNCHANGED <<monitor_heap, running>>

NoMemory(l) ==
  /\ Collects(l) /\ Needs(l) <= Limit
  /\ Did("memory", <<>>) /\ Forget /\ UNCHANGED <<monitor_heap, running>>

Collect(l) ==
  /\ Collects(l) /\ Needs(l) <= Limit
  /\ \E p \in (Address \ DOMAIN memory) \cup ({block} \cap Address) :
       /\ block' = p
       /\ memory' = [Reallocated(p, Needs(l)) EXCEPT
                       ![p] = Stored(@, used, l \o <<"\n", Zero>>)]
  /\ used' = used + Len(l) + 1
  /\ Did("collected", l)
  /\ UNCHANGED <<multiline, monitor_heap, running>>

Evaluate(l) ==
  /\ ~ multiline /\ ~ IsMem(l) /\ l \notin {<<":quit">>, <<":{">>}
  /\ IF l = <<>> THEN Did("nothing", <<>>) ELSE Did("evaluated", l)
  /\ Same

Line(l) ==
  \/ Quit(l) \/ Mem(l) \/ OpenBlock(l) \/ CloseBlock(l)
  \/ TooLarge(l) \/ NoMemory(l) \/ Collect(l) \/ Evaluate(l)

ReplNext ==
  /\ running
  /\ EndOfInput \/ Broken \/ \E l \in Input : Line(l)

ReplSpec == ReplInit /\ [][ReplNext]_replVars

-----------------------------------------------------------------------------

(***************************************************************************)
(* While the loop runs, the memory in use is the block and nothing else, it *)
(* is what block points to, and the text and its zero are inside it and     *)
(* within the limit; without multiline there is none.  After the loop       *)
(* nothing is left.                                                         *)
(***************************************************************************)
BlockOwned ==
  /\ ~ running => DOMAIN memory = {}
  /\ running =>
       /\ DOMAIN memory = {block} \ {Null}
       /\ block # Null => /\ multiline /\ used + 1 = Len(memory[block])
                          /\ Len(memory[block]) <= Limit
                          /\ memory[block][used + 1] = Zero
       /\ block = Null => used = 0

(***************************************************************************)
(* The loop is the session that the user expects: what is evaluated is what *)
(* was typed since ":{", line by line, wherever realloc() has moved it, and  *)
(* nothing of a block that was given up comes back.                         *)
(***************************************************************************)
Collected == IF block = Null THEN <<>> ELSE SubSeq(memory[block], 1, used)

S == INSTANCE Session WITH
  text <- IF multiline /\ running THEN Collected ELSE NoBlock, open <- running

ImplementsSession == S!Spec
=============================================================================
