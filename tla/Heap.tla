-------------------------------- MODULE Heap --------------------------------
(***************************************************************************)
(* malloc, calloc, realloc and free of libc/heap.c: fixed-size pools over   *)
(* the first-fit heap of Blocks, the statistics, and a program that uses    *)
(* them.  With Pools = <<>> it is the build without HEAP_SMALL_POOL.        *)
(*                                                                         *)
(* The pools are at the bottom, from word 0, and the heap above them.       *)
(* Requests are in bytes, and size_t holds SizeMax at most.  init() has     *)
(* run: every function that looks at the heap calls it first.               *)
(*                                                                         *)
(* The program owns a few pointer variables.  It fills what it is given     *)
(* with a value of its own, as the randomized test of t/heap.t does, and    *)
(* mem has what every word of memory holds.                                 *)
(***************************************************************************)
EXTENDS Blocks, Sequences, FiniteSetsExt

CONSTANTS
  Pools,     \* sequence of [size |-> words, n |-> slots, base |-> first word]
  SizeMax,   \* the largest size_t, in bytes
  HistMax,   \* the histogram has a bin for each size up to this one
  Client,    \* the program's pointer variables
  Junk,      \* what a word nobody owns holds
  Bytes,     \* the sizes it asks malloc and realloc for
  Arrays     \* the pairs it asks calloc for

PoolTop(q) == q.base + q.size * q.n

ASSUME HeapAssumption ==
  /\ Pools \in Seq([size : Nat \ {0}, n : Nat \ {0}, base : Nat])
  /\ \A i \in DOMAIN Pools :
       Pools[i].base = IF i = 1 THEN 0 ELSE PoolTop(Pools[i - 1])
  /\ HeapStart = IF Pools = <<>> THEN 0 ELSE PoolTop(Pools[Len(Pools)])
  /\ SizeMax \in Nat /\ SizeMax % 8 = 7 /\ SizeMax > 8 * HeapEnd
  /\ HistMax \in Nat
  /\ Junk \notin Client
  /\ Bytes \subseteq 1 .. SizeMax
  /\ Arrays \subseteq (1 .. SizeMax) \X (1 .. SizeMax)

VARIABLES
  pool,         \* the pools: [free |-> slots, the next one first, used |-> count]
  smallUsed,    \* the words in use in the pools
  peakUsed, peakOccupied,  \* the peaks, in words
  hist,         \* live allocations by size, and in bin 0 the larger ones
  live,         \* what the program owns: variable -> [p |-> address, n |-> words]
  mem           \* what each word holds

heapVars == <<blockVars, pool, smallUsed, hist>>
vars == <<heapVars, peakUsed, peakOccupied, live, mem>>

Greater(a, b) == IF a < b THEN b ELSE a
Lesser(a, b) == IF a < b THEN a ELSE b

\* ALIGN(n), in words; it wraps as size_t does.  Mutant: it rounds down.
AlignDown(n) == (n % (SizeMax + 1)) \div 8
Align(n) == ((n + 7) % (SizeMax + 1)) \div 8

\* The words the program uses of n bytes.
Words(n) == (n + 7) \div 8

Slots(i) == {Pools[i].base + j * Pools[i].size : j \in 0 .. Pools[i].n - 1}

Init ==
  /\ BlocksInit
  /\ pool = [i \in DOMAIN Pools |->
               [free |-> [j \in 1 .. Pools[i].n |->
                            Pools[i].base + (Pools[i].n - j) * Pools[i].size],
                used |-> 0]]
  /\ smallUsed = 0 /\ peakUsed = 0 /\ peakOccupied = 0
  /\ hist = [z \in 0 .. HistMax |-> 0]
  /\ live = [i \in {} |-> [p |-> 0, n |-> 0]]
  /\ mem = [w \in 0 .. HeapEnd - 1 |-> Junk]

-----------------------------------------------------------------------------

AllUsed == used + smallUsed

\* Mutant: both peaks are taken when the words in use are more than ever.
PeakTogether(u, bs) ==
  IF u > peakUsed THEN peakUsed' = u /\ peakOccupied' = u + bs
  ELSE UNCHANGED <<peakUsed, peakOccupied>>

\* peak(), when u words are in use in bs blocks.
Peak(u, bs) == /\ peakUsed' = Greater(peakUsed, u)
               /\ peakOccupied' = Greater(peakOccupied, u + bs)

\* small_pool(p): the pool p lies in.
InPool(p) == {i \in DOMAIN Pools : p >= Pools[i].base /\ p < PoolTop(Pools[i])}

\* small_alloc(n): a pool of exactly this size with a free slot.
PoolsFor(z) == {i \in DOMAIN Pools : Pools[i].size = z /\ pool[i].free # <<>>}

\* Memory m with v in the n words at p, and with n words copied from p to q.
Filled(m, p, n, v) == [w \in DOMAIN m |-> IF w \in p .. p + n - 1 THEN v ELSE m[w]]
Copied(m, q, p, n) ==
  [w \in DOMAIN m |-> IF w \in q .. q + n - 1 THEN m[p + (w - q)] ELSE m[w]]

\* memcpy() and then free() of n words; mutant: the other way round.
MovedLate(m, q, p, n) == Copied(Filled(m, p, n, Junk), q, p, n)
Moved(m, q, p, n) == Filled(Copied(m, q, p, n), p, n, Junk)

\* Where alloc_any(z) goes: a slot of the first such pool, else a block.
FromPool(z) == PoolsFor(z) # {}
ThePool(z) == CHOOSE i \in PoolsFor(z) : \A j \in PoolsFor(z) : i <= j
Place(z) == IF FromPool(z) THEN Head(pool[ThePool(z)].free) ELSE FirstFit(blk, z) + 1
CanPlace(z) == FromPool(z) \/ Fits(blk, z) # {}

Small(p) == InPool(p) # {}
PoolOf(p) == CHOOSE i \in InPool(p) : TRUE
SizeAt(p) == IF Small(p) THEN Pools[PoolOf(p)].size ELSE blk[p - 1].size

\* The pools after a slot is taken for z words, and after p is freed.
SlotTaken(pl, z) ==
  IF FromPool(z)
  THEN [pl EXCEPT ![ThePool(z)].free = Tail(@), ![ThePool(z)].used = @ + 1]
  ELSE pl

SlotReturned(pl, p) ==
  IF Small(p)
  THEN [pl EXCEPT ![PoolOf(p)].free = <<p>> \o @, ![PoolOf(p)].used = @ - 1]
  ELSE pl

\* What leaves small_used when p is freed.
SmallWords(p) == IF Small(p) THEN SizeAt(p) ELSE 0

\* hist_add() and hist_del()
Bin(z) == IF z <= HistMax THEN z ELSE 0
HistAdd(h, z) == [h EXCEPT ![Bin(z)] = @ + 1]
HistDel(h, z) == [h EXCEPT ![Bin(z)] = @ - 1]

Owning(c, p, n) ==
  live' = [x \in DOMAIN live \cup {c} |->
             IF x = c THEN [p |-> p, n |-> n] ELSE live[x]]

-----------------------------------------------------------------------------

\* failure(): nothing changes but the diagnostics, which are left out.
Fail == UNCHANGED vars

\* c = alloc_any(z), and the program fills the n words it asked for.
Obtain(c, z, n) ==
  /\ CanPlace(z)
  /\ LET p == Place(z)
     IN  /\ IF FromPool(z) THEN UNCHANGED blockVars ELSE Allocate(z)
         /\ pool' = SlotTaken(pool, z)
         /\ smallUsed' = smallUsed + (IF FromPool(z) THEN z ELSE 0)
         /\ hist' = HistAdd(hist, IF FromPool(z) THEN z ELSE blk'[p - 1].size)
         /\ Owning(c, p, n)
         /\ mem' = Filled(mem, p, n, c)
  /\ Peak(AllUsed', blocks')

Malloc(c, n) ==
  /\ c \notin DOMAIN live /\ n > 0
  /\ IF n > SizeMax - 7 \/ ~ CanPlace(Align(n))
     THEN Fail
     ELSE Obtain(c, Align(n), Words(n))

\* What calloc() clears the program fills at once.
Calloc(c, n, s) ==
  /\ c \notin DOMAIN live /\ n > 0 /\ s > 0
  /\ LET z == (n * s) % (SizeMax + 1)
     IN  IF s > SizeMax \div n \/ z > SizeMax - 7 \/ ~ CanPlace(Align(z))
         THEN Fail
         ELSE Obtain(c, Align(z), Words(n * s))

\* free(), and realloc() to no bytes.
Free(c) ==
  /\ c \in DOMAIN live
  /\ LET p == live[c].p
     IN  /\ IF Small(p) THEN UNCHANGED blockVars ELSE Release(p - 1)
         /\ pool' = SlotReturned(pool, p)
         /\ smallUsed' = smallUsed - SmallWords(p)
         /\ hist' = HistDel(hist, SizeAt(p))
         /\ mem' = Filled(mem, p, SizeAt(p), Junk)
         /\ live' = [x \in DOMAIN live \ {c} |-> live[x]]
  /\ UNCHANGED <<peakUsed, peakOccupied>>

\* realloc() that keeps the address; the program fills what is new.
StayInPlace(c, z, n) ==
  LET p == live[c].p
      keep == Lesser(live[c].n, n)
  IN  /\ IF Small(p)
         THEN /\ z <= SizeAt(p)
              /\ UNCHANGED <<heapVars, peakUsed, peakOccupied>>
         ELSE /\ Resize(p - 1, z)
              /\ hist' = HistAdd(HistDel(hist, SizeAt(p)), blk'[p - 1].size)
              /\ UNCHANGED <<pool, smallUsed>>
              /\ Peak(AllUsed', blocks')
      /\ mem' = Filled(Filled(mem, p + keep, SizeAt(p) - keep, Junk), p + keep, n - keep, c)
      /\ Owning(c, p, n)
    
\* realloc() that moves: memcpy() of the old size, then free(); peak() ran
\* when there were both.
MoveAway(c, z, n) ==
  LET p == live[c].p
      q == Place(z)
      keep == Lesser(live[c].n, n)
  IN  /\ CanPlace(z)
      /\ IF FromPool(z)
         THEN IF Small(p) THEN UNCHANGED blockVars ELSE Release(p - 1)
         ELSE IF Small(p) THEN Allocate(z) ELSE Move(p - 1, z)
      /\ pool' = SlotReturned(SlotTaken(pool, z), p)
      /\ smallUsed' = smallUsed + (IF FromPool(z) THEN z ELSE 0) - SmallWords(p)
      /\ hist' = HistDel(HistAdd(hist, IF FromPool(z) THEN z ELSE blk'[q - 1].size), SizeAt(p))
      /\ IF FromPool(z)
         THEN Peak(AllUsed + z, blocks)
         ELSE Peak(AllUsed + blk'[q - 1].size, blocks + SplitCount(blk, q - 1, z))
      /\ mem' = Filled(Moved(mem, q, p, SizeAt(p)), q + keep, n - keep, c)
      /\ Owning(c, q, n)
    
CanStay(c, z) == LET p == live[c].p
                 IN  IF Small(p) THEN z <= SizeAt(p) ELSE FitsInPlace(blk, p - 1, z)

Realloc(c, n) ==
  /\ n > 0
  /\ LET z == Align(n)
     IN  \/ /\ c \notin DOMAIN live
            /\ Malloc(c, n)
         \/ /\ c \in DOMAIN live
            /\ IF n > SizeMax - 7 THEN Fail
               ELSE IF CanStay(c, z) THEN StayInPlace(c, z, Words(n))
               ELSE IF CanPlace(z) THEN MoveAway(c, z, Words(n))
               ELSE Fail

ResetPeak ==
  /\ peakUsed' = AllUsed /\ peakOccupied' = AllUsed + blocks
  /\ UNCHANGED <<heapVars, live, mem>>

Next ==
  \/ ResetPeak
  \/ \E c \in Client : \/ Free(c)
                       \/ \E n \in Bytes : Malloc(c, n) \/ Realloc(c, n)
                       \/ \E a \in Arrays : Calloc(c, a[1], a[2])

Spec == Init /\ [][Next]_vars

-----------------------------------------------------------------------------
\* heap_get_stats(): the walk through the headers, which counts and checks.

NoStats == [ok |-> TRUE, used |-> 0, free |-> 0, largest |-> 0,
            usedBlocks |-> 0, freeBlocks |-> 0]
Corrupt == [NoStats EXCEPT !.ok = FALSE]

\* The check of one header at off, after one that was free or not.
Sound(off, prev, wasFree) ==
  /\ HeapStart + off \in DOMAIN blk
  /\ LET b == blk[HeapStart + off]
     IN  b.size <= Capacity - off - 1 /\ b.prev = prev /\ ~ (wasFree /\ ~ b.used)

Seen(s, b) ==
  IF b.used
  THEN [s EXCEPT !.used = @ + b.size, !.usedBlocks = @ + 1]
  ELSE [s EXCEPT !.free = @ + b.size, !.freeBlocks = @ + 1,
                 !.largest = Greater(@, b.size)]

\* Where the walk is: off, prev and was_free.
Places == [off : 0 .. Capacity, prev : 0 .. Capacity, wasFree : BOOLEAN]

Walk ==
  LET walk[at \in Places] ==
        IF at.off = Capacity THEN NoStats
        ELSE IF ~ Sound(at.off, at.prev, at.wasFree) THEN Corrupt
        ELSE LET b == blk[HeapStart + at.off]
             IN  Seen(walk[[off |-> at.off + 1 + b.size, prev |-> 1 + b.size,
                            wasFree |-> ~ b.used]], b)
  IN  walk[[off |-> 0, prev |-> 0, wasFree |-> FALSE]]

SumOf(v) == MapThenSumSet(LAMBDA x : v[x], DOMAIN v)

\* The counters are compared, and then the pools added.
Stats ==
  LET w == Walk
      inUse == [i \in DOMAIN Pools |-> Pools[i].size * pool[i].used]
      idle == [i \in DOMAIN Pools |-> Pools[i].size * (Pools[i].n - pool[i].used)]
      slots == [i \in DOMAIN Pools |-> pool[i].used]
  IN  [w EXCEPT !.ok = @ /\ w.used = used /\ w.usedBlocks + w.freeBlocks = blocks,
                !.used = @ + SumOf(inUse),
                !.free = @ + SumOf(idle),
                !.usedBlocks = @ + SumOf(slots)]

Total == HeapEnd
Overhead == Walk.usedBlocks + Walk.freeBlocks

-----------------------------------------------------------------------------

TypeOK ==
  /\ blk \in [DOMAIN blk -> Header] /\ blocks \in Nat /\ used \in Nat
  /\ pool \in [DOMAIN Pools -> [free : Seq(0 .. HeapEnd - 1), used : Nat]]
  /\ smallUsed \in Nat /\ peakUsed \in Nat /\ peakOccupied \in Nat
  /\ hist \in [0 .. HistMax -> Nat]
  /\ DOMAIN live \subseteq Client
  /\ live \in [DOMAIN live -> [p : 0 .. HeapEnd - 1, n : 1 .. HeapEnd]]
  /\ mem \in [0 .. HeapEnd - 1 -> Client \cup {Junk}]

(***************************************************************************)
(* The statistics are the truth, whichever way the program came here: the   *)
(* check of heap_get_stats() passes, what it counts as used is what the     *)
(* program owns, slot by slot and block by block, so that nothing leaks and *)
(* nothing is counted twice, and heap.h's sum, total = used + free +        *)
(* overhead, holds with the pools in it.                                    *)
(***************************************************************************)
StatsAgree ==
  LET sizeOf == [c \in DOMAIN live |-> SizeAt(live[c].p)]
  IN  /\ Stats.ok
      /\ Stats.usedBlocks = Cardinality(DOMAIN live)
      /\ Stats.used = SumOf(sizeOf)
      /\ Stats.used = AllUsed
      /\ Total = Stats.used + Stats.free + Overhead

(***************************************************************************)
(* Memory between what the program owns is never lost to headers or broken  *)
(* into pieces: wherever there is a run of z words and one for a header     *)
(* that no owned block covers, a request of z words is served.              *)
(***************************************************************************)
Covered == UNION {live[c].p - 1 .. live[c].p + SizeAt(live[c].p) - 1 :
                    c \in {d \in DOMAIN live : ~ Small(live[d].p)}}

ServesWhatFits ==
  \A z \in 1 .. Capacity - 1 : \A w \in HeapStart .. HeapEnd - 1 - z :
    (w .. w + z) \cap Covered = {} => Fits(blk, z) # {}

(***************************************************************************)
(* From the first allocation on the peaks are never below what is in use    *)
(* now, also when a realloc() that stays in place has changed both the words *)
(* and the blocks.  (Before it the header of the one free block is in none.) *)
(***************************************************************************)
PeakSound ==
  /\ peakUsed >= AllUsed
  /\ peakUsed > 0 => peakOccupied >= AllUsed + blocks

(***************************************************************************)
(* The histogram has each live allocation in the bin of the size its block  *)
(* has now, also if it was grown, cut or moved from a pool since.           *)
(***************************************************************************)
HistExact ==
  \A i \in 0 .. HistMax :
    hist[i] = Cardinality({c \in DOMAIN live : Bin(SizeAt(live[c].p)) = i})

(***************************************************************************)
(* After every sequence of calls, failed ones included, the books are right: *)
(* the counters, the peaks and the histogram say what the blocks and slots   *)
(* are.  They are corrected one by one in six places of heap.c.              *)
(***************************************************************************)
HeapInv == TypeOK /\ StatsAgree /\ PeakSound /\ HistExact

(***************************************************************************)
(* Only the heap's own operations touch the blocks, so what is proved of    *)
(* them holds here.                                                         *)
(***************************************************************************)
UsesBlocks == BlocksSpec

(***************************************************************************)
(* The program sees an allocator: what it is given overlaps nothing else it *)
(* owns, nothing it wrote changes, realloc() keeps the words both sizes     *)
(* have, and a call that fails changes nothing.                             *)
(***************************************************************************)
Abstract == INSTANCE Allocator WITH
  Top <- HeapEnd,
  contents <- [c \in DOMAIN live |-> [i \in 1 .. live[c].n |-> mem[live[c].p + i - 1]]]

ImplementsAllocator == Abstract!Spec
=============================================================================
