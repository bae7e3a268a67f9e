------------------------------- MODULE Blocks -------------------------------
(***************************************************************************)
(* The first-fit heap of libc/heap.c below malloc and free: blocks that     *)
(* tile a region of memory, each with a header that has its size, whether   *)
(* it is in use and the distance back to the header before it.              *)
(*                                                                         *)
(* Addresses and sizes are counted in words of eight bytes, the unit ALIGN  *)
(* rounds to, and a header takes one (H).  A heap is a function from the    *)
(* addresses of its headers to their contents; the operators take one and   *)
(* a header, as the C functions take a Block pointer.  The program sees     *)
(* b + 1, the address after the header.                                     *)
(***************************************************************************)
EXTENDS Integers, FiniteSets

CONSTANTS HeapStart,  \* the first word (HEAP_START)
          Capacity    \* words of the heap (CAPACITY)

ASSUME BlocksAssumption ==
  HeapStart \in Nat /\ Capacity \in Nat /\ Capacity >= 2

VARIABLES blk,     \* header address -> [size, used, prev]
          blocks,  \* the counter of blocks
          used     \* the counter of words in use

blockVars == <<blk, blocks, used>>

HeapEnd == HeapStart + Capacity

Header == [size : Nat \ {0}, used : BOOLEAN, prev : Nat]

\* init(): one free block.
BlocksInit ==
  /\ blk = [b \in {HeapStart} |-> [size |-> Capacity - 1, used |-> FALSE, prev |-> 0]]
  /\ blocks = 1 /\ used = 0

-----------------------------------------------------------------------------

\* next(): the header after b, or HeapEnd.
NextOf(f, b) == b + 1 + f[b].size

\* join(): whether it does anything, and what.
Joins(f, b) == NextOf(f, b) # HeapEnd /\ ~ f[NextOf(f, b)].used

Merged(f, b) ==
  LET q == NextOf(f, b)
      r == NextOf(f, q)
      z == f[b].size + 1 + f[q].size
  IN  [a \in DOMAIN f \ {q} |->
         IF a = b THEN [f[a] EXCEPT !.size = z]
         ELSE IF a = r THEN [f[a] EXCEPT !.prev = 1 + z]
         ELSE f[a]]

Join(f, b) == IF Joins(f, b) THEN Merged(f, b) ELSE f

\* blocks-- in join().
JoinCount(f, b) == IF Joins(f, b) THEN -1 ELSE 0

\* split(): n words stay in b and the rest becomes a free block, unless it
\* would be empty.
Splits(f, b, n) == f[b].size - n >= 2

\* Mutant: the block after the cut does not learn its new way back.
CutStale(f, b, n) ==
  [a \in DOMAIN f \cup {b + 1 + n} |->
     IF a = b THEN [f[a] EXCEPT !.size = n]
     ELSE IF a = b + 1 + n
     THEN [size |-> f[b].size - n - 1, used |-> FALSE, prev |-> 1 + n]
     ELSE f[a]]

Cut(f, b, n) ==
  LET q == b + 1 + n
      r == NextOf(f, b)
      z == f[b].size - n - 1
  IN  [a \in DOMAIN f \cup {q} |->
         IF a = b THEN [f[a] EXCEPT !.size = n]
         ELSE IF a = q THEN [size |-> z, used |-> FALSE, prev |-> 1 + n]
         ELSE IF a = r THEN [f[a] EXCEPT !.prev = 1 + z]
         ELSE f[a]]

Split(f, b, n) == IF Splits(f, b, n) THEN Join(Cut(f, b, n), b + 1 + n) ELSE f

\* blocks++ in split(), and the join() at its end.
SplitCount(f, b, n) ==
  IF Splits(f, b, n) THEN 1 + JoinCount(Cut(f, b, n), b + 1 + n) ELSE 0

Mark(f, b, u) ==
  [a \in DOMAIN f |-> IF a = b THEN [f[a] EXCEPT !.used = u] ELSE f[a]]

-----------------------------------------------------------------------------
\* The search of allocate(), which goes up through the blocks.

Fits(f, n) == {b \in DOMAIN f : ~ f[b].used /\ f[b].size >= n}

FirstFit(f, n) == CHOOSE b \in Fits(f, n) : \A c \in Fits(f, n) : b <= c

Taken(f, b, n) == Mark(Split(f, b, n), b, TRUE)

\* free(): join with the block after, then the block before with this one.
\* Mutant: it does not look whether the block before is in use.
JoinLeftAlways(f, b) == f[b].prev # 0

JoinLeft(f, b) == f[b].prev # 0 /\ ~ f[b - f[b].prev].used

\* Mutant: only the right side.
FreedRight(f, b) == Join(Mark(f, b, FALSE), b)

Freed(f, b) ==
  LET g == Join(Mark(f, b, FALSE), b)
  IN  IF JoinLeft(g, b) THEN Join(g, b - g[b].prev) ELSE g

FreedCount(f, b) ==
  LET g == Join(Mark(f, b, FALSE), b)
  IN  JoinCount(Mark(f, b, FALSE), b)
      + (IF JoinLeft(g, b) THEN JoinCount(g, b - g[b].prev) ELSE 0)

\* realloc(): the neighbour after b is taken if that makes b large enough.
Grows(f, b, n) ==
  /\ f[b].size < n /\ Joins(f, b)
  /\ f[b].size + 1 + f[NextOf(f, b)].size >= n

FitsInPlace(f, b, n) == f[b].size >= n \/ Grows(f, b, n)

Grown(f, b, n) == IF Grows(f, b, n) THEN Merged(f, b) ELSE f

-----------------------------------------------------------------------------
\* The three things a caller does to the heap.

Allocate(n) ==
  /\ Fits(blk, n) # {}
  /\ LET b == FirstFit(blk, n)
     IN  /\ blk' = Taken(blk, b, n)
         /\ blocks' = blocks + SplitCount(blk, b, n)
         /\ used' = used + blk'[b].size

Release(b) ==
  /\ blk' = Freed(blk, b)
  /\ blocks' = blocks + FreedCount(blk, b)
  /\ used' = used - blk[b].size

Resize(b, n) ==
  /\ FitsInPlace(blk, b, n)
  /\ LET g == Grown(blk, b, n)
     IN  /\ blk' = Split(g, b, n)
         /\ blocks' = blocks + SplitCount(g, b, n) - (IF Grows(blk, b, n) THEN 1 ELSE 0)
         /\ used' = used - blk[b].size + blk'[b].size

\* A realloc that cannot stay in place allocates, copies and frees.
Move(b, n) ==
  /\ ~ FitsInPlace(blk, b, n) /\ Fits(blk, n) # {}
  /\ LET c == FirstFit(blk, n)
         g == Taken(blk, c, n)
     IN  /\ blk' = Freed(g, b)
         /\ blocks' = blocks + SplitCount(blk, c, n) + FreedCount(g, b)
         /\ used' = used + g[c].size - blk[b].size

InUse == {b \in DOMAIN blk : blk[b].used}

BlocksNext ==
  \/ \E n \in 1 .. Capacity : Allocate(n)
  \/ \E b \in InUse : Release(b) \/ (\E n \in 1 .. Capacity : Resize(b, n) \/ Move(b, n))

BlocksSpec == BlocksInit /\ [][BlocksNext]_blockVars

-----------------------------------------------------------------------------

(***************************************************************************)
(* The blocks tile the heap: they start at its first word, each ends where  *)
(* the next begins or at the end, and no two overlap.                       *)
(***************************************************************************)
Tiled(f) ==
  /\ HeapStart \in DOMAIN f
  /\ \A b \in DOMAIN f : /\ b \in HeapStart .. HeapEnd - 1
                         /\ f[b] \in Header
                         /\ NextOf(f, b) \in DOMAIN f \cup {HeapEnd}
  /\ \A a, b \in DOMAIN f : a < b => NextOf(f, a) <= b

(***************************************************************************)
(* prev of a block is the way back to the one before it, and 0 in the first *)
(* only: free() follows it to coalesce to the left.                         *)
(***************************************************************************)
Linked(f) ==
  /\ f[HeapStart].prev = 0
  /\ \A b \in DOMAIN f \ {HeapStart} :
       /\ f[b].prev > 0
       /\ b - f[b].prev \in DOMAIN f
       /\ NextOf(f, b - f[b].prev) = b

(***************************************************************************)
(* No two neighbours are free: what is freed is coalesced on both sides.    *)
(***************************************************************************)
Coalesced(f) ==
  \A b \in DOMAIN f :
    ~ f[b].used /\ NextOf(f, b) # HeapEnd => f[NextOf(f, b)].used

WellFormed == Tiled(blk) /\ Linked(blk) /\ Coalesced(blk)

(***************************************************************************)
(* A block in use stays where it is, as long as it is and in use until it   *)
(* is itself freed or resized, whatever is split and joined around it: at   *)
(* most one block in use changes in a step.                                 *)
(***************************************************************************)
Kept(f, g, b) == b \in DOMAIN g /\ g[b].used /\ g[b].size = f[b].size

OthersKept ==
  [][\E t \in DOMAIN blk : \A b \in InUse \ {t} : Kept(blk, blk', b)]_blockVars
=============================================================================
