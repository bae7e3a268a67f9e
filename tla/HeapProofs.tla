----------------------------- MODULE HeapProofs -----------------------------
(***************************************************************************)
(* Proofs about Blocks and Heap, for all pools, sizes, requests and         *)
(* programs.                                                                *)
(*                                                                         *)
(* First the blocks: their heap keeps its structure and touches nobody      *)
(* else's block. Between the steps of an operation two neighbours may be    *)
(* free: a block that was cut off or freed and the one beside it. Apart(f,  *)
(* X) is Coalesced except after the blocks of X, and each join() takes one  *)
(* of them out of X.                                                        *)
(*                                                                         *)
(* Then the whole heap. Its invariant is OwnInv: what the program owns is   *)
(* exactly what the blocks in use and the slots that are off their lists    *)
(* hand out, one pointer each, and large enough. Each of its operations     *)
(* trades one address for another (Traded), in the blocks or in a pool.     *)
(* From it follow that only the operations of Blocks touch the blocks, that *)
(* every request that fits is served, that the peaks, the histogram, the    *)
(* counters and the statistics are right, and that the heap implements      *)
(* Allocator.                                                               *)
(***************************************************************************)
EXTENDS Heap, ModuloFacts, FiniteSetTheorems, FunctionTheorems, SequenceTheorems, TLAPS

-----------------------------------------------------------------------------
\* The blocks.

Good(f) == Tiled(f) /\ Linked(f)

Apart(f, X) ==
  \A a \in DOMAIN f \ X :
    ~ f[a].used /\ NextOf(f, a) # HeapEnd => f[NextOf(f, a)].used

\* Every block in use but b is kept from f to g.
Frame(f, g, b) == \A a \in DOMAIN f \ {b} : f[a].used => Kept(f, g, a)

\* What the three changes do to each block: m is f with q, the block after b,
\* merged into b; c is f with all but n words of b cut off; b is marked.
IsMerged(f, b, q, r, m) ==
  /\ q \in DOMAIN f /\ ~ f[q].used /\ b < q /\ q < r
  /\ DOMAIN m = DOMAIN f \ {q}
  /\ \A a \in DOMAIN m :
       /\ m[a] \in Header
       /\ m[a].used = f[a].used
       /\ a # b => m[a].size = f[a].size /\ NextOf(m, a) = NextOf(f, a)
       /\ a # r => m[a].prev = f[a].prev
  /\ NextOf(m, b) = r
  /\ r \in DOMAIN m => m[r].prev > 0 /\ r - m[r].prev = b

IsCut(f, b, n, q, r, c) ==
  /\ q \in Nat /\ q \notin DOMAIN f /\ b < q /\ q < r
  /\ DOMAIN c = DOMAIN f \cup {q}
  /\ c[b] \in Header /\ c[b].size = n /\ c[b].used = f[b].used
  /\ c[b].prev = f[b].prev /\ NextOf(c, b) = q
  /\ c[q] \in Header /\ ~ c[q].used /\ NextOf(c, q) = r
  /\ c[q].prev > 0 /\ q - c[q].prev = b
  /\ \A a \in DOMAIN f \ {b} :
       /\ c[a] \in Header /\ c[a].size = f[a].size /\ c[a].used = f[a].used
       /\ NextOf(c, a) = NextOf(f, a)
       /\ a # r => c[a].prev = f[a].prev
  /\ r \in DOMAIN f => c[r].prev > 0 /\ r - c[r].prev = q

IsMarked(f, b, u, m) ==
  /\ DOMAIN m = DOMAIN f /\ m[b].used = u
  /\ \A a \in DOMAIN f : /\ m[a].size = f[a].size /\ m[a].prev = f[a].prev
                         /\ a # b => m[a].used = f[a].used
                         /\ NextOf(m, a) = NextOf(f, a)

\* What a caller sees of join(): g is f with the block after b joined, or f.
IsJoined(f, b, g) ==
  /\ b \in DOMAIN g
  /\ g[b].used = f[b].used /\ g[b].prev = f[b].prev /\ g[b].size >= f[b].size
  /\ \A a \in DOMAIN f : a < b => a \in DOMAIN g /\ g[a].used = f[a].used
  /\ Frame(f, g, b)

-----------------------------------------------------------------------------

\* The facts of arithmetic about a good heap.
LEMMA GoodFacts ==
  ASSUME NEW f, Good(f)
  PROVE  /\ HeapStart \in DOMAIN f /\ HeapStart \in Nat /\ HeapEnd \in Nat
         /\ f[HeapStart].prev = 0
         /\ \A a \in DOMAIN f :
              /\ a \in Nat /\ a >= HeapStart /\ a < HeapEnd
              /\ f[a] \in Header /\ f[a].size \in Nat /\ f[a].size > 0
              /\ f[a].used \in BOOLEAN /\ f[a].prev \in Nat
              /\ NextOf(f, a) = a + 1 + f[a].size /\ NextOf(f, a) \in Nat
              /\ NextOf(f, a) > a /\ NextOf(f, a) <= HeapEnd
              /\ NextOf(f, a) # HeapEnd => NextOf(f, a) \in DOMAIN f
BY BlocksAssumption DEF Good, Tiled, Linked, Header, HeapEnd, NextOf

\* Blocks do not overlap, and each follows one block at most.
LEMMA GoodOrder ==
  ASSUME NEW f, Good(f), NEW a \in DOMAIN f, NEW b \in DOMAIN f
  PROVE  /\ a < b => NextOf(f, a) <= b
         /\ NextOf(f, a) = NextOf(f, b) => a = b
<1>1. a < b => NextOf(f, a) <= b
  BY DEF Good, Tiled
<1>2. b < a => NextOf(f, b) <= a
  BY DEF Good, Tiled
<1>3. NextOf(f, a) = NextOf(f, b) => a = b
  BY <1>1, <1>2, GoodFacts
<1> QED
  BY <1>1, <1>3

LEMMA BlockBefore ==
  ASSUME NEW f, Good(f), NEW b \in DOMAIN f
  PROVE  /\ b = HeapStart <=> f[b].prev = 0
         /\ b # HeapStart => /\ f[b].prev > 0 /\ b - f[b].prev \in DOMAIN f
                             /\ NextOf(f, b - f[b].prev) = b
BY DEF Good, Linked

-----------------------------------------------------------------------------
\* join()

LEMMA MergedIs ==
  ASSUME NEW f, Good(f), NEW b \in DOMAIN f, Joins(f, b),
         NEW q, q = NextOf(f, b), NEW r, r = NextOf(f, q), NEW m, m = Merged(f, b)
  PROVE  IsMerged(f, b, q, r, m)
<1> DEFINE z == f[b].size + 1 + f[q].size
<1>1. q \in DOMAIN f /\ ~ f[q].used /\ b < q /\ q < r
  BY GoodFacts DEF Joins
<1>2. z \in Nat \ {0} /\ r = b + 1 + z
  BY <1>1, GoodFacts
<1>3. DOMAIN m = DOMAIN f \ {q}
  BY DEF Merged
<1>4. \A a \in DOMAIN m :
        m[a] = IF a = b THEN [f[a] EXCEPT !.size = z]
               ELSE IF a = r THEN [f[a] EXCEPT !.prev = 1 + z]
               ELSE f[a]
  BY DEF Merged
<1>5. ASSUME NEW a \in DOMAIN m
      PROVE  /\ m[a] \in Header /\ m[a].used = f[a].used
             /\ a # b => m[a].size = f[a].size
             /\ a = b => m[a].size = z
             /\ a # r => m[a].prev = f[a].prev
             /\ a = r => m[a].prev = 1 + z
  <2>1. f[a] \in Header
    BY <1>3, <1>5, GoodFacts
  <2>2. b # r
    BY <1>1, GoodFacts
  <2>. HIDE DEF z
  <2> QED
    BY <1>2, <1>4, <1>5, <2>1, <2>2 DEF Header
<1>6. b \in DOMAIN m
  BY <1>1, <1>3, GoodFacts
<1>. HIDE DEF z
<1>7. NextOf(m, b) = r
  BY <1>2, <1>5, <1>6 DEF NextOf
<1>8. \A a \in DOMAIN m : a # b => NextOf(m, a) = NextOf(f, a)
  BY <1>5 DEF NextOf
<1>9. r \in DOMAIN m => m[r].prev > 0 /\ r - m[r].prev = b
  BY <1>2, <1>5, GoodFacts
<1> QED
  BY <1>1, <1>3, <1>5, <1>7, <1>8, <1>9 DEF IsMerged

LEMMA MergedGood ==
  ASSUME NEW f, Good(f), NEW b \in DOMAIN f, Joins(f, b)
  PROVE  Good(Merged(f, b))
<1> SUFFICES ASSUME NEW q, q = NextOf(f, b), NEW r, r = NextOf(f, q),
                    NEW m, m = Merged(f, b)
             PROVE  Good(m)
  OBVIOUS
<1>1. IsMerged(f, b, q, r, m)
  BY MergedIs
<1>. USE DEF IsMerged
<1>2. b \in DOMAIN m /\ HeapStart \in DOMAIN m /\ r # HeapStart
  <2>1. HeapStart <= b /\ b < q /\ q < r /\ b \in Nat /\ q \in Nat /\ r \in Nat
    BY <1>1, GoodFacts
  <2> QED
    BY <1>1, <2>1, GoodFacts
<1>3. \A a \in DOMAIN f : NextOf(f, a) = q <=> a = b
  BY GoodOrder
<1>4. \A a \in DOMAIN f : NextOf(f, a) = r <=> a = q
  BY <1>1, GoodOrder
<1>5. r # HeapEnd => r \in DOMAIN f /\ r # q
  BY <1>1, GoodFacts
<1>6. Tiled(m)
  <2>1. \A a \in DOMAIN m : NextOf(m, a) \in DOMAIN m \cup {HeapEnd}
    BY <1>1, <1>2, <1>3, <1>5, GoodFacts
  <2>2. ASSUME NEW a \in DOMAIN m, NEW c \in DOMAIN m, a < c
        PROVE  NextOf(m, a) <= c
    <3>1. CASE a # b
      BY <1>1, <2>2, <3>1, GoodOrder
    <3>2. CASE a = b
      <4>1. q <= c
        BY <1>1, <2>2, <3>2, GoodOrder
      <4>2. q < c
        <5>1. q \in Nat /\ c \in Nat /\ c # q
          BY <1>1, <2>2, GoodFacts
        <5> QED
          BY <4>1, <5>1
      <4> QED
        BY <1>1, <3>2, <4>2, GoodOrder
    <3> QED
      BY <3>1, <3>2
  <2>3. \A a \in DOMAIN m : a \in HeapStart .. HeapEnd - 1
    BY <1>1, GoodFacts
  <2> QED
    BY <1>1, <1>2, <2>1, <2>2, <2>3 DEF Tiled
<1>7. Linked(m)
  <2>1. m[HeapStart].prev = 0
    BY <1>1, <1>2, GoodFacts
  <2>2. ASSUME NEW a \in DOMAIN m \ {HeapStart}
        PROVE  m[a].prev > 0 /\ a - m[a].prev \in DOMAIN m /\ NextOf(m, a - m[a].prev) = a
    <3>1. CASE a = r
      BY <1>1, <1>2, <3>1
    <3>2. CASE a # r
      <4>1. m[a].prev = f[a].prev /\ a \in DOMAIN f /\ a # q
        BY <1>1, <3>2
      <4>2. f[a].prev > 0 /\ a - f[a].prev \in DOMAIN f /\ NextOf(f, a - f[a].prev) = a
        BY <4>1, BlockBefore
      <4>3. a - f[a].prev # q /\ a - f[a].prev # b
        BY <1>1, <1>3, <1>4, <3>2, <4>1, <4>2
      <4> QED
        BY <1>1, <4>1, <4>2, <4>3
    <3> QED
      BY <3>1, <3>2
  <2> QED
    BY <2>1, <2>2 DEF Linked
<1> QED
  BY <1>6, <1>7 DEF Good

\* After it the blocks of X alone may have a free one after them, if the join
\* was of the last block that is not in X.
LEMMA JoinApart ==
  ASSUME NEW f, Good(f), NEW b \in DOMAIN f, NEW X,
         Apart(f, X \cup {b}), NextOf(f, b) \notin X
  PROVE  Apart(Join(f, b), X)
<1>1. CASE ~ Joins(f, b)
  <2>1. NextOf(f, b) # HeapEnd => f[NextOf(f, b)].used
    BY <1>1 DEF Joins
  <2>2. Join(f, b) = f
    BY <1>1 DEF Join
  <2> QED
    BY <2>1, <2>2 DEF Apart
<1>2. CASE Joins(f, b)
  <2>1. SUFFICES ASSUME NEW q, q = NextOf(f, b), NEW r, r = NextOf(f, q),
                        NEW m, m = Merged(f, b),
                        NEW a \in DOMAIN m \ X, ~ m[a].used, NextOf(m, a) # HeapEnd
                 PROVE  m[NextOf(m, a)].used
    BY <1>2 DEF Apart, Join
  <2>2. IsMerged(f, b, q, r, m)
    BY <1>2, <2>1, MergedIs
  <2>. USE DEF IsMerged
  <2>3. Good(m)
    BY <1>2, <2>1, MergedGood
  <2>4. NextOf(m, a) \in DOMAIN m
    BY <2>1, <2>3, GoodFacts
  <2>5. CASE a = b
    <3>1. f[r].used
      BY <2>1, <2>2, <2>5 DEF Apart
    <3> QED
      BY <2>2, <2>4, <2>5, <3>1
  <2>6. CASE a # b
    <3>1. f[NextOf(f, a)].used
      BY <2>1, <2>2, <2>6 DEF Apart
    <3> QED
      BY <2>2, <2>4, <2>6, <3>1
  <2> QED
    BY <2>5, <2>6
<1> QED
  BY <1>1, <1>2

LEMMA JoinGood ==
  ASSUME NEW f, Good(f), NEW b \in DOMAIN f, NEW g, g = Join(f, b)
  PROVE  Good(g) /\ IsJoined(f, b, g)
<1>1. CASE ~ Joins(f, b)
  BY <1>1, GoodFacts DEF Join, Frame, Kept, IsJoined
<1>2. CASE Joins(f, b)
  <2>1. SUFFICES ASSUME NEW q, q = NextOf(f, b), NEW r, r = NextOf(f, q),
                        NEW m, m = Merged(f, b)
                 PROVE  Good(m) /\ IsJoined(f, b, m)
    BY <1>2 DEF Join
  <2>2. Good(m)
    BY <1>2, <2>1, MergedGood
  <2>3. IsMerged(f, b, q, r, m)
    BY <1>2, <2>1, MergedIs
  <2>. USE DEF IsMerged
  <2>4. b \in Nat /\ q \in Nat /\ r \in Nat /\ b # q /\ b # r
    BY <2>1, <2>3, GoodFacts
  <2>5. b \in DOMAIN m /\ m[b].used = f[b].used /\ m[b].prev = f[b].prev
    BY <2>3, <2>4
  <2>6. m[b].size >= f[b].size
    <3>1. b + 1 + m[b].size = r /\ b + 1 + f[b].size = q
      BY <2>1, <2>2, <2>3, <2>5, GoodFacts
    <3>2. m[b].size \in Nat /\ f[b].size \in Nat
      BY <2>2, <2>5, GoodFacts
    <3> QED
      BY <2>3, <2>4, <3>1, <3>2
  <2>7. \A a \in DOMAIN f : a < b => a \in DOMAIN m /\ m[a].used = f[a].used
    BY <2>3, <2>4, GoodFacts
  <2>8. Frame(f, m, b)
    BY <2>3 DEF Frame, Kept
  <2> QED
    BY <2>2, <2>5, <2>6, <2>7, <2>8 DEF IsJoined
<1> QED
  BY <1>1, <1>2

-----------------------------------------------------------------------------
\* split()

LEMMA CutIs ==
  ASSUME NEW f, Good(f), NEW b \in DOMAIN f, NEW n \in Nat \ {0}, Splits(f, b, n),
         NEW q, q = b + 1 + n, NEW r, r = NextOf(f, b), NEW c, c = Cut(f, b, n)
  PROVE  IsCut(f, b, n, q, r, c)
<1> DEFINE z == f[b].size - n - 1
<1>1. /\ b \in Nat /\ f[b].size \in Nat /\ r = b + 1 + f[b].size
      /\ f[b] \in Header /\ f[b].prev \in Nat
  BY GoodFacts
<1>2. /\ z \in Nat \ {0} /\ q \in Nat /\ r = q + 1 + z /\ b < q /\ q < r
  BY <1>1 DEF Splits
<1>3. q \notin DOMAIN f
  <2> SUFFICES ASSUME q \in DOMAIN f PROVE FALSE
    OBVIOUS
  <2>1. b < q
    BY <1>2
  <2>2. NextOf(f, b) <= q
    BY <2>1, GoodOrder
  <2> QED
    BY <1>1, <1>2, <2>2
<1>4. DOMAIN c = DOMAIN f \cup {q}
  BY DEF Cut
<1>5. c[b] = [f[b] EXCEPT !.size = n]
  BY <1>4 DEF Cut
<1>6. c[q] = [size |-> z, used |-> FALSE, prev |-> 1 + n]
  BY <1>2, <1>3, <1>4 DEF Cut
<1>7. \A a \in DOMAIN f \ {b} : c[a] = IF a = r THEN [f[a] EXCEPT !.prev = 1 + z] ELSE f[a]
  BY <1>3, <1>4 DEF Cut
<1>. HIDE DEF z
<1>8. ASSUME NEW a \in DOMAIN f \ {b}
      PROVE  /\ c[a] \in Header /\ c[a].size = f[a].size /\ c[a].used = f[a].used
             /\ a # r => c[a].prev = f[a].prev
             /\ a = r => c[a].prev = 1 + z
  <2>1. f[a] \in Header
    BY GoodFacts
  <2>2. CASE a # r
    BY <1>7, <2>1, <2>2
  <2>3. CASE a = r
    <3>1. c[a] = [f[a] EXCEPT !.prev = 1 + z]
      BY <1>7, <2>3
    <3> QED
      BY <1>2, <2>1, <2>3, <3>1 DEF Header
  <2> QED
    BY <2>2, <2>3
<1>9. \A a \in DOMAIN f \ {b} : NextOf(c, a) = NextOf(f, a)
  BY <1>8 DEF NextOf
<1>10. /\ c[b] \in Header /\ c[b].size = n /\ c[b].used = f[b].used
       /\ c[b].prev = f[b].prev
  BY <1>1, <1>5 DEF Header
<1>11. c[q] \in Header /\ ~ c[q].used /\ c[q].size = z /\ c[q].prev = 1 + n
  BY <1>2, <1>6 DEF Header
<1>12. NextOf(c, b) = q /\ NextOf(c, q) = r
  BY <1>2, <1>10, <1>11 DEF NextOf
<1>13. c[q].prev > 0 /\ q - c[q].prev = b
  BY <1>1, <1>11
<1>14. r \in DOMAIN f => c[r].prev > 0 /\ r - c[r].prev = q
  <2>1. r # b
    BY <1>1, <1>2
  <2> QED
    BY <1>2, <1>8, <2>1
<1> QED
  BY <1>2, <1>3, <1>4, <1>8, <1>9, <1>10, <1>11, <1>12, <1>13, <1>14
  DEF IsCut

LEMMA CutGood ==
  ASSUME NEW f, Good(f), NEW b \in DOMAIN f, NEW n \in Nat \ {0}, Splits(f, b, n)
  PROVE  Good(Cut(f, b, n))
<1> SUFFICES ASSUME NEW q, q = b + 1 + n, NEW r, r = NextOf(f, b),
                    NEW c, c = Cut(f, b, n)
             PROVE  Good(c)
  OBVIOUS
<1>1. IsCut(f, b, n, q, r, c)
  BY CutIs
<1>. USE DEF IsCut
<1>2. /\ b \in Nat /\ r \in Nat /\ HeapStart <= b /\ r <= HeapEnd
      /\ HeapStart \in Nat /\ HeapEnd \in Nat /\ r # HeapEnd => r \in DOMAIN f
  BY GoodFacts
<1>3. HeapStart \in DOMAIN f /\ HeapStart # q /\ HeapStart # r
  BY <1>1, <1>2, GoodFacts
<1>4. \A a \in DOMAIN f : NextOf(f, a) = r <=> a = b
  BY GoodOrder
<1>5. Tiled(c)
  <2>1. \A a \in DOMAIN c : c[a] \in Header /\ a \in HeapStart .. HeapEnd - 1
    BY <1>1, <1>2, GoodFacts
  <2>2. \A a \in DOMAIN c : NextOf(c, a) \in DOMAIN c \cup {HeapEnd}
    BY <1>1, <1>2, GoodFacts
  <2>3. ASSUME NEW a \in DOMAIN c, NEW d \in DOMAIN c, a < d
        PROVE  NextOf(c, a) <= d
    <3>1. CASE a = b
      <4>1. CASE d = q
        BY <1>1, <3>1, <4>1
      <4>2. CASE d # q
        <5>1. r <= d /\ d \in Nat
          BY <1>1, <2>3, <3>1, <4>2, GoodOrder, GoodFacts
        <5> QED
          BY <1>1, <1>2, <3>1, <5>1
      <4> QED
        BY <4>1, <4>2
    <3>2. CASE a = q
      <4>1. d \in DOMAIN f /\ d \in Nat /\ b < d
        BY <1>1, <1>2, <2>3, <3>2, GoodFacts
      <4> QED
        BY <1>1, <3>2, <4>1, GoodOrder
    <3>3. CASE a # b /\ a # q
      <4>1. a \in DOMAIN f /\ a \in Nat /\ NextOf(c, a) = NextOf(f, a)
        BY <1>1, <3>3, GoodFacts
      <4>2. CASE d = q
        <5>1. a < b
          <6>1. ~ (b < a)
            <7> SUFFICES ASSUME b < a PROVE FALSE
              OBVIOUS
            <7>1. r <= a
              BY <4>1, GoodOrder
            <7> QED
              BY <1>1, <1>2, <2>3, <4>1, <4>2, <7>1
          <6> QED
            BY <1>2, <3>3, <4>1, <6>1
        <5>2. NextOf(f, a) <= b /\ NextOf(f, a) \in Nat
          BY <4>1, <5>1, GoodOrder, GoodFacts
        <5> QED
          BY <1>1, <1>2, <4>1, <4>2, <5>2
      <4>3. CASE d # q
        BY <1>1, <2>3, <4>1, <4>3, GoodOrder
      <4> QED
        BY <4>2, <4>3
    <3> QED
      BY <3>1, <3>2, <3>3
  <2> QED
    BY <1>1, <1>3, <2>1, <2>2, <2>3 DEF Tiled
<1>6. Linked(c)
  <2>1. c[HeapStart].prev = 0
    BY <1>1, <1>3, GoodFacts
  <2>2. ASSUME NEW a \in DOMAIN c \ {HeapStart}
        PROVE  c[a].prev > 0 /\ a - c[a].prev \in DOMAIN c /\ NextOf(c, a - c[a].prev) = a
    <3>1. CASE a = q
      BY <1>1, <3>1
    <3>2. CASE a = r
      BY <1>1, <2>2, <3>2
    <3>3. CASE a # q /\ a # r
      <4>1. a \in DOMAIN f /\ c[a].prev = f[a].prev
        BY <1>1, <3>3
      <4>2. f[a].prev > 0 /\ a - f[a].prev \in DOMAIN f /\ NextOf(f, a - f[a].prev) = a
        BY <2>2, <4>1, BlockBefore
      <4>3. a - f[a].prev # b
        BY <3>3, <4>2
      <4> QED
        BY <1>1, <4>1, <4>2, <4>3
    <3> QED
      BY <3>1, <3>2, <3>3
  <2> QED
    BY <2>1, <2>2 DEF Linked
<1> QED
  BY <1>5, <1>6 DEF Good

\* The rest of split(): what was cut off joins a free block after it.
LEMMA SplitGood ==
  ASSUME NEW f, Good(f), NEW b \in DOMAIN f, NEW n \in Nat \ {0}, n <= f[b].size,
         Apart(f, {})
  PROVE  /\ Good(Split(f, b, n))
         /\ Apart(Split(f, b, n), {b})
         /\ f[b].used => Apart(Split(f, b, n), {})
         /\ b \in DOMAIN Split(f, b, n)
         /\ Split(f, b, n)[b].used = f[b].used
         /\ Frame(f, Split(f, b, n), b)
<1>1. CASE ~ Splits(f, b, n)
  BY <1>1, GoodFacts DEF Split, Apart, Frame, Kept
<1>2. CASE Splits(f, b, n)
  <2>1. SUFFICES ASSUME NEW q, q = b + 1 + n, NEW r, r = NextOf(f, b),
                        NEW c, c = Cut(f, b, n), NEW g, g = Join(c, q)
                 PROVE  /\ Good(g) /\ Apart(g, {b}) /\ (f[b].used => Apart(g, {}))
                        /\ b \in DOMAIN g /\ g[b].used = f[b].used /\ Frame(f, g, b)
    BY <1>2 DEF Split
  <2>2. IsCut(f, b, n, q, r, c)
    BY <1>2, <2>1, CutIs
  <2>. USE DEF IsCut
  <2>3. Good(c)
    BY <1>2, <2>1, CutGood
  <2>4. Good(g) /\ IsJoined(c, q, g)
    BY <2>1, <2>2, <2>3, JoinGood
  <2>. USE DEF IsJoined
  <2>5. b \in DOMAIN g /\ g[b].used = f[b].used
    BY <2>2, <2>4
  <2>6. Frame(f, g, b)
    BY <2>2, <2>4 DEF Frame, Kept
  <2>7. b \in Nat /\ r \in Nat /\ r # b
    BY <2>1, GoodFacts
  <2>8. ASSUME NEW a \in DOMAIN c, a # b, a # q, ~ c[a].used, NextOf(c, a) # HeapEnd
        PROVE  c[NextOf(c, a)].used
    <3>1. a \in DOMAIN f /\ ~ f[a].used /\ NextOf(c, a) = NextOf(f, a)
      BY <2>2, <2>8
    <3>2. f[NextOf(f, a)].used /\ NextOf(f, a) \in DOMAIN f
      BY <2>8, <3>1, GoodFacts DEF Apart
    <3> QED
      BY <2>2, <3>1, <3>2
  <2>9. Apart(c, {b} \cup {q})
    BY <2>8 DEF Apart
  <2>10. Apart(g, {b})
    BY <2>1, <2>2, <2>3, <2>7, <2>9, JoinApart
  <2>11. f[b].used => Apart(g, {})
    <3>1. ASSUME f[b].used PROVE Apart(c, {} \cup {q})
      BY <2>2, <2>9, <3>1 DEF Apart
    <3>2. ASSUME f[b].used PROVE Apart(g, {})
      BY <2>1, <2>2, <2>3, <3>1, <3>2, JoinApart
    <3> QED
      BY <3>2
  <2> QED
    BY <2>4, <2>5, <2>6, <2>10, <2>11
<1> QED
  BY <1>1, <1>2

-----------------------------------------------------------------------------
\* The mark on a block.

LEMMA MarkGood ==
  ASSUME NEW f, Good(f), NEW b \in DOMAIN f, NEW u \in BOOLEAN,
         NEW m, m = Mark(f, b, u)
  PROVE  Good(m) /\ IsMarked(f, b, u, m)
<1>1. DOMAIN m = DOMAIN f
  BY DEF Mark
<1>2. \A a \in DOMAIN f : m[a] = IF a = b THEN [f[a] EXCEPT !.used = u] ELSE f[a]
  BY DEF Mark
<1>3. ASSUME NEW a \in DOMAIN f
      PROVE  /\ m[a] \in Header /\ m[a].size = f[a].size /\ m[a].prev = f[a].prev
             /\ a # b => m[a].used = f[a].used
             /\ a = b => m[a].used = u
  <2>1. f[a] \in Header
    BY GoodFacts
  <2>2. CASE a # b
    BY <1>2, <2>1, <2>2
  <2>3. CASE a = b
    BY <1>2, <2>1, <2>3 DEF Header
  <2> QED
    BY <2>2, <2>3
<1>4. \A a \in DOMAIN f : NextOf(m, a) = NextOf(f, a)
  BY <1>3 DEF NextOf
<1>5. Tiled(m)
  BY <1>1, <1>3, <1>4 DEF Good, Tiled
<1>6. Linked(m)
  <2>1. m[HeapStart].prev = 0
    BY <1>3, GoodFacts
  <2>2. \A a \in DOMAIN m \ {HeapStart} :
          m[a].prev > 0 /\ a - m[a].prev \in DOMAIN m /\ NextOf(m, a - m[a].prev) = a
    BY <1>1, <1>3, <1>4, BlockBefore
  <2> QED
    BY <2>1, <2>2 DEF Linked
<1> QED
  BY <1>1, <1>3, <1>4, <1>5, <1>6 DEF Good, IsMarked

\* Once a block is in use, what is before and after it does not matter.
LEMMA MarkUsedApart ==
  ASSUME NEW f, Good(f), NEW b \in DOMAIN f, Apart(f, {b})
  PROVE  Apart(Mark(f, b, TRUE), {})
<1> SUFFICES ASSUME NEW m, m = Mark(f, b, TRUE),
                    NEW a \in DOMAIN m, ~ m[a].used, NextOf(m, a) # HeapEnd
             PROVE  m[NextOf(m, a)].used
  BY DEF Apart
<1>1. IsMarked(f, b, TRUE, m)
  BY MarkGood
<1>. USE DEF IsMarked
<1>2. a # b /\ ~ f[a].used /\ NextOf(f, a) # HeapEnd
  BY <1>1
<1>3. f[NextOf(f, a)].used /\ NextOf(f, a) \in DOMAIN f
  BY <1>1, <1>2, GoodFacts DEF Apart
<1> QED
  BY <1>1, <1>3

\* A freed block and the one before it may now have a free one after them.
LEMMA MarkFreeApart ==
  ASSUME NEW f, Good(f), NEW b \in DOMAIN f, Apart(f, {}),
         NEW X, \A a \in DOMAIN f : NextOf(f, a) = b => a \in X
  PROVE  Apart(Mark(f, b, FALSE), X \cup {b})
<1> SUFFICES ASSUME NEW m, m = Mark(f, b, FALSE),
                    NEW a \in DOMAIN m, a \notin X, a # b,
                    ~ m[a].used, NextOf(m, a) # HeapEnd
             PROVE  m[NextOf(m, a)].used
  BY DEF Apart
<1>1. IsMarked(f, b, FALSE, m)
  BY MarkGood
<1>. USE DEF IsMarked
<1>2. ~ f[a].used /\ NextOf(f, a) # HeapEnd /\ NextOf(f, a) # b
  BY <1>1
<1>3. f[NextOf(f, a)].used /\ NextOf(f, a) \in DOMAIN f
  BY <1>1, <1>2, GoodFacts DEF Apart
<1> QED
  BY <1>1, <1>2, <1>3

-----------------------------------------------------------------------------
\* The operations.

\* A whole heap: Coalesced is Apart with no exceptions.
Whole(f) == Good(f) /\ Apart(f, {})

LEMMA TakenWhole ==
  ASSUME NEW f, Whole(f), NEW b \in DOMAIN f, ~ f[b].used,
         NEW n \in Nat \ {0}, n <= f[b].size
  PROVE  /\ Whole(Taken(f, b, n))
         /\ \A a \in DOMAIN f : f[a].used => Kept(f, Taken(f, b, n), a)
<1> DEFINE s == Split(f, b, n)
<1>1. Good(s) /\ Apart(s, {b}) /\ b \in DOMAIN s /\ Frame(f, s, b)
  BY SplitGood DEF Whole
<1>. HIDE DEF s
<1> SUFFICES ASSUME NEW m, m = Mark(s, b, TRUE)
             PROVE  Whole(m) /\ \A a \in DOMAIN f : f[a].used => Kept(f, m, a)
  BY DEF Taken, s
<1>2. Good(m) /\ IsMarked(s, b, TRUE, m)
  BY <1>1, MarkGood
<1>. USE DEF IsMarked
<1>3. Apart(m, {})
  BY <1>1, MarkUsedApart
<1>4. \A a \in DOMAIN f : f[a].used => Kept(f, m, a)
  BY <1>1, <1>2 DEF Frame, Kept
<1> QED
  BY <1>2, <1>3, <1>4 DEF Whole

LEMMA FreedWhole ==
  ASSUME NEW f, Whole(f), NEW b \in DOMAIN f
  PROVE  Whole(Freed(f, b)) /\ Frame(f, Freed(f, b), b)
<1> SUFFICES ASSUME NEW m, m = Mark(f, b, FALSE), NEW g, g = Join(m, b),
                    NEW h, h = IF JoinLeft(g, b) THEN Join(g, b - g[b].prev) ELSE g
             PROVE  Whole(h) /\ Frame(f, h, b)
  BY DEF Freed
<1> DEFINE X == {a \in DOMAIN f : NextOf(f, a) = b}
<1>1. Good(m) /\ IsMarked(f, b, FALSE, m)
  BY MarkGood DEF Whole
<1>. USE DEF IsMarked
<1>2. Apart(m, X \cup {b})
  BY MarkFreeApart DEF Whole
<1>3. NextOf(m, b) \notin X
  <2>1. \A a \in X : a < b /\ a \in Nat
    BY GoodFacts DEF Whole
  <2>. HIDE DEF X
  <2>2. NextOf(m, b) > b /\ b \in Nat /\ NextOf(m, b) \in Nat
    BY <1>1, GoodFacts
  <2> SUFFICES ASSUME NextOf(m, b) \in X PROVE FALSE
    OBVIOUS
  <2>3. NextOf(m, b) < b
    BY <2>1
  <2> QED
    BY ONLY <2>2, <2>3, b \in Nat, NextOf(m, b) \in Nat
<1>. HIDE DEF X
<1>4. Apart(g, X)
  BY <1>1, <1>2, <1>3, JoinApart
<1>5. Good(g) /\ IsJoined(m, b, g)
  BY <1>1, JoinGood
<1>. USE DEF IsJoined
<1>6. Frame(f, g, b)
  BY <1>1, <1>5, ZenonT(40) DEF Frame, Kept
<1>7. CASE g[b].prev = 0
  <2>1. b = HeapStart
    BY <1>5, <1>7, BlockBefore
  <2>2. X = {}
    BY <2>1, GoodFacts DEF X, Whole
  <2>3. h = g
    BY <1>7 DEF JoinLeft
  <2> QED
    BY <1>4, <1>5, <1>6, <2>2, <2>3 DEF Whole
<1>8. CASE g[b].prev # 0
  <2> DEFINE p == b - g[b].prev
  <2>1. b # HeapStart
    BY <1>5, <1>8, GoodFacts, ZenonT(40)
  <2>2. p \in DOMAIN g /\ NextOf(g, p) = b
    BY <1>5, <2>1, BlockBefore
  <2>3. p \in DOMAIN f /\ NextOf(f, p) = b
    <3>1. p = b - f[b].prev
      BY <1>1, <1>5
    <3> QED
      BY <2>1, <3>1, BlockBefore DEF Whole
  <2>4. X = {p}
    <3>1. \A a \in DOMAIN f : NextOf(f, a) = b => a = p
      BY <2>3, GoodOrder DEF Whole
    <3>. HIDE DEF p
    <3> QED
      BY <2>3, <3>1 DEF X
  <2>. HIDE DEF p
  <2>5. CASE g[p].used
    <3>1. h = g
      BY <2>5 DEF JoinLeft, p
    <3>2. Apart(g, {})
      BY <1>4, <2>4, <2>5 DEF Apart
    <3> QED
      BY <1>5, <1>6, <3>1, <3>2 DEF Whole
  <2>6. CASE ~ g[p].used
    <3>1. h = Join(g, p)
      BY <1>8, <2>6 DEF JoinLeft, p
    <3>2. Good(h) /\ IsJoined(g, p, h)
      <4>1. Good(g) /\ p \in DOMAIN g
        BY <1>5, <2>2
      <4> QED
        BY ONLY <3>1, <4>1, JoinGood
    <3>3. Apart(g, {} \cup {p})
      BY <1>4, <2>4 DEF Apart
    <3>4. Apart(h, {})
      <4>1. Good(g) /\ p \in DOMAIN g /\ NextOf(g, p) \notin {}
        BY <1>5, <2>2
      <4> QED
        BY ONLY <3>1, <3>3, <4>1, JoinApart
    <3>5. Frame(f, h, b)
      <4>1. Frame(g, h, p)
        BY <3>2
      <4>2. ASSUME NEW a \in DOMAIN f \ {b}, f[a].used
            PROVE  Kept(f, h, a)
        <5>1. Kept(f, g, a)
          BY <1>6, <4>2 DEF Frame
        <5>2. Kept(g, h, a)
          BY ONLY <2>6, <4>1, <5>1 DEF Frame, Kept
        <5> QED
          BY ONLY <5>1, <5>2 DEF Kept
      <4> QED
        BY <4>2 DEF Frame
    <3> QED
      BY <3>2, <3>4, <3>5 DEF Whole
  <2> QED
    BY <2>5, <2>6
<1> QED
  BY <1>7, <1>8

LEMMA ResizedWhole ==
  ASSUME NEW f, Whole(f), NEW b \in DOMAIN f, f[b].used,
         NEW n \in Nat \ {0}, FitsInPlace(f, b, n)
  PROVE  /\ Whole(Split(Grown(f, b, n), b, n))
         /\ Frame(f, Split(Grown(f, b, n), b, n), b)
<1> SUFFICES ASSUME NEW g, g = Grown(f, b, n)
             PROVE  Whole(Split(g, b, n)) /\ Frame(f, Split(g, b, n), b)
  OBVIOUS
<1>1. /\ Good(g) /\ b \in DOMAIN g /\ g[b].used /\ Apart(g, {})
      /\ Frame(f, g, b) /\ n <= g[b].size
  <2>1. CASE ~ Grows(f, b, n)
    BY <2>1, GoodFacts DEF Grown, Whole, FitsInPlace, Frame, Kept
  <2>2. CASE Grows(f, b, n)
    <3>1. Joins(f, b)
      BY <2>2 DEF Grows
    <3>2. g = Join(f, b)
      BY <2>2, <3>1 DEF Grown, Join
    <3>3. Good(g) /\ IsJoined(f, b, g)
      BY <3>2, JoinGood DEF Whole
    <3>. USE DEF IsJoined
    <3>4. Apart(f, {} \cup {b})
      BY DEF Whole, Apart
    <3>5. Apart(g, {})
      BY <3>2, <3>4, JoinApart DEF Whole
    <3>6. g[b].size = f[b].size + 1 + f[NextOf(f, b)].size
      <4>1. b # NextOf(f, b)
        BY GoodFacts DEF Whole
      <4> QED
        BY <2>2, <4>1, GoodFacts DEF Grown, Merged, Whole, Header
    <3> QED
      BY <2>2, <3>3, <3>5, <3>6, GoodFacts DEF Grows
  <2> QED
    BY <2>1, <2>2
<1>2. /\ Good(Split(g, b, n)) /\ Apart(Split(g, b, n), {})
      /\ Frame(g, Split(g, b, n), b)
  BY <1>1, SplitGood
<1> QED
  BY <1>1, <1>2 DEF Whole, Frame, Kept

-----------------------------------------------------------------------------
\* The specification.

LEMMA WholeIsWellFormed == WellFormed <=> Whole(blk)
BY DEF WellFormed, Whole, Good, Coalesced, Apart

LEMMA FirstFitFits ==
  ASSUME NEW f, Whole(f), NEW n, Fits(f, n) # {}
  PROVE  FirstFit(f, n) \in Fits(f, n)
<1>1. Fits(f, n) \in SUBSET Nat
  BY GoodFacts DEF Fits, Whole
<1>2. PICK m \in Fits(f, n) : \A c \in Fits(f, n) : ~ (<<c, m>> \in OpToRel(<, Nat))
  BY <1>1, NatLessThanWellFounded, WFMin, Zenon
<1>3. \A c, d \in Nat : c < d => <<c, d>> \in OpToRel(<, Nat)
  BY Zenon DEF OpToRel
<1>4. \A c \in Fits(f, n) : ~ (c < m)
  BY <1>1, <1>2, <1>3, Zenon
<1>5. \A c \in Fits(f, n) : m <= c
  BY <1>1, <1>4
<1> QED
  BY <1>5 DEF FirstFit

\* What a step from f to g has to show: the heap stays whole, and no block in
\* use but one changes.
Fine(f, g) ==
  /\ Whole(g)
  /\ \E t \in DOMAIN f : \A b \in DOMAIN f \ {t} : f[b].used => Kept(f, g, b)

LEMMA MovedFine ==
  ASSUME NEW f, Whole(f), NEW b \in DOMAIN f, f[b].used,
         NEW n \in Nat \ {0}, NEW c \in Fits(f, n)
  PROVE  Fine(f, Freed(Taken(f, c, n), b))
<1> SUFFICES ASSUME NEW g, g = Taken(f, c, n), NEW h, h = Freed(g, b)
             PROVE  Fine(f, h)
  OBVIOUS
<1>1. c \in DOMAIN f /\ ~ f[c].used /\ n <= f[c].size
  BY GoodFacts DEF Fits, Whole
<1>2. Whole(g) /\ \A a \in DOMAIN f : f[a].used => Kept(f, g, a)
  BY <1>1, TakenWhole
<1>3. b \in DOMAIN g
  BY <1>2 DEF Kept
<1>4. Whole(h) /\ Frame(g, h, b)
  BY <1>2, <1>3, FreedWhole
<1>5. \A a \in DOMAIN f \ {b} : f[a].used => Kept(f, h, a)
  BY <1>2, <1>4 DEF Frame, Kept
<1> QED
  BY <1>4, <1>5 DEF Fine

LEMMA StepFine ==
  ASSUME Whole(blk), [BlocksNext]_blockVars
  PROVE  Fine(blk, blk')
<1>1. ASSUME NEW n \in 1 .. Capacity, Allocate(n)
      PROVE  Fine(blk, blk')
  <2> DEFINE b == FirstFit(blk, n)
  <2>1. b \in Fits(blk, n) /\ blk' = Taken(blk, b, n)
    BY <1>1, FirstFitFits DEF Allocate
  <2>. HIDE DEF b
  <2>2. b \in DOMAIN blk /\ ~ blk[b].used /\ n <= blk[b].size
    BY <2>1, GoodFacts DEF Fits, Whole
  <2>3. Whole(blk') /\ \A a \in DOMAIN blk : blk[a].used => Kept(blk, blk', a)
    BY <2>1, <2>2, TakenWhole
  <2> QED
    BY <2>2, <2>3 DEF Fine
<1>2. ASSUME NEW b \in InUse, Release(b)
      PROVE  Fine(blk, blk')
  <2>1. b \in DOMAIN blk /\ blk' = Freed(blk, b)
    BY <1>2 DEF InUse, Release
  <2>2. Whole(blk') /\ Frame(blk, blk', b)
    BY <2>1, FreedWhole
  <2> QED
    BY <2>1, <2>2 DEF Fine, Frame
<1>3. ASSUME NEW b \in InUse, NEW n \in 1 .. Capacity, Resize(b, n)
      PROVE  Fine(blk, blk')
  <2>1. /\ b \in DOMAIN blk /\ blk[b].used /\ FitsInPlace(blk, b, n)
        /\ blk' = Split(Grown(blk, b, n), b, n)
    BY <1>3 DEF InUse, Resize
  <2>2. Whole(blk') /\ Frame(blk, blk', b)
    BY <2>1, ResizedWhole
  <2> QED
    BY <2>1, <2>2 DEF Fine, Frame
<1>4. ASSUME NEW b \in InUse, NEW n \in 1 .. Capacity, Move(b, n)
      PROVE  Fine(blk, blk')
  <2> DEFINE c == FirstFit(blk, n)
  <2>1. c \in Fits(blk, n) /\ blk' = Freed(Taken(blk, c, n), b)
    BY <1>4, FirstFitFits DEF Move
  <2>. HIDE DEF c
  <2>2. b \in DOMAIN blk /\ blk[b].used
    BY DEF InUse
  <2> QED
    BY <2>1, <2>2, MovedFine
<1>5. CASE UNCHANGED blockVars
  BY <1>5, GoodFacts DEF blockVars, Fine, Kept, Whole
<1> QED
  BY <1>1, <1>2, <1>3, <1>4, <1>5 DEF BlocksNext

LEMMA InitWhole == BlocksInit => Whole(blk)
<1> SUFFICES ASSUME BlocksInit PROVE Whole(blk)
  OBVIOUS
<1>1. /\ DOMAIN blk = {HeapStart}
      /\ blk[HeapStart] = [size |-> Capacity - 1, used |-> FALSE, prev |-> 0]
  BY DEF BlocksInit
<1>2. blk[HeapStart] \in Header /\ NextOf(blk, HeapStart) = HeapEnd
  BY <1>1, BlocksAssumption DEF Header, NextOf, HeapEnd
<1>3. HeapStart \in HeapStart .. HeapEnd - 1
  BY BlocksAssumption DEF HeapEnd
<1>4. Tiled(blk)
  <2>1. \A a \in DOMAIN blk : a = HeapStart
    BY <1>1
  <2>2. \A a, b \in DOMAIN blk : ~ (a < b)
    BY <2>1, BlocksAssumption
  <2> QED
    BY <1>1, <1>2, <1>3, <2>1, <2>2 DEF Tiled
<1>5. Linked(blk)
  BY <1>1 DEF Linked
<1>6. Apart(blk, {})
  BY <1>1, <1>2 DEF Apart
<1> QED
  BY <1>4, <1>5, <1>6 DEF Whole, Good

(***************************************************************************)
(* The structure malloc(), free() and realloc() rely on is kept by every    *)
(* sequence of them, for every size of the heap: the blocks tile it, every  *)
(* way back leads to the block before, and no two neighbours are free.      *)
(***************************************************************************)
THEOREM BlocksWellFormed == BlocksSpec => []WellFormed
<1>1. BlocksInit => Whole(blk)
  BY InitWhole
<1>2. Whole(blk) /\ [BlocksNext]_blockVars => Whole(blk)'
  BY StepFine DEF Fine
<1>3. Whole(blk) => WellFormed
  BY WholeIsWellFormed
<1> QED
  BY <1>1, <1>2, <1>3, PTL DEF BlocksSpec

(***************************************************************************)
(* No call moves, resizes or frees the block of another: in each step all   *)
(* the blocks in use but one stay where they are and as large as they are.  *)
(***************************************************************************)
THEOREM BlocksOthersKept == BlocksSpec => OthersKept
<1>1. BlocksInit => Whole(blk)
  BY InitWhole
<1>2. Whole(blk) /\ [BlocksNext]_blockVars => Whole(blk)'
  BY StepFine DEF Fine
<1>3. Whole(blk) /\ [BlocksNext]_blockVars
        => [\E t \in DOMAIN blk : \A b \in InUse \ {t} : Kept(blk, blk', b)]_blockVars
  BY StepFine DEF Fine, InUse
<1> QED
  BY <1>1, <1>2, <1>3, PTL DEF BlocksSpec, OthersKept

-----------------------------------------------------------------------------
\* The counter of blocks.

Headers(f) == Cardinality(DOMAIN f)

LEMMA HeadersFinite ==
  ASSUME NEW f, Good(f)
  PROVE  IsFiniteSet(DOMAIN f) /\ Headers(f) \in Nat
<1>1. HeapEnd \in Nat /\ \A a \in DOMAIN f : a \in Nat /\ a < HeapEnd
  BY GoodFacts
<1>2. DOMAIN f \in SUBSET Nat /\ \A a \in DOMAIN f : a <= HeapEnd
  BY <1>1
<1>3. IsFiniteSet(DOMAIN f)
  BY <1>1, <1>2, FS_BoundedSetOfNaturals
<1> QED
  BY <1>3, FS_CardinalityType DEF Headers

LEMMA JoinHeaders ==
  ASSUME NEW f, Good(f), NEW b \in DOMAIN f
  PROVE  Headers(Join(f, b)) = Headers(f) + JoinCount(f, b)
<1>1. IsFiniteSet(DOMAIN f) /\ Headers(f) \in Nat
  BY HeadersFinite
<1>2. CASE ~ Joins(f, b)
  BY <1>1, <1>2 DEF Join, JoinCount
<1>3. CASE Joins(f, b)
  <2>1. IsMerged(f, b, NextOf(f, b), NextOf(f, NextOf(f, b)), Join(f, b))
    BY <1>3, MergedIs DEF Join
  <2>2. NextOf(f, b) \in DOMAIN f /\ DOMAIN Join(f, b) = DOMAIN f \ {NextOf(f, b)}
    BY <2>1 DEF IsMerged
  <2>3. Headers(Join(f, b)) = Headers(f) - 1
    BY <1>1, <2>2, FS_RemoveElement DEF Headers
  <2> QED
    BY <1>1, <1>3, <2>3 DEF JoinCount
<1> QED
  BY <1>2, <1>3

LEMMA SplitHeaders ==
  ASSUME NEW f, Good(f), NEW b \in DOMAIN f, NEW n \in Nat \ {0}
  PROVE  Headers(Split(f, b, n)) = Headers(f) + SplitCount(f, b, n)
<1>1. IsFiniteSet(DOMAIN f) /\ Headers(f) \in Nat
  BY HeadersFinite
<1>2. CASE ~ Splits(f, b, n)
  BY <1>1, <1>2 DEF Split, SplitCount
<1>3. CASE Splits(f, b, n)
  <2>1. PICK q, c : q = b + 1 + n /\ c = Cut(f, b, n)
    OBVIOUS
  <2>2. IsCut(f, b, n, q, NextOf(f, b), c) /\ Good(c)
    BY <1>3, <2>1, CutIs, CutGood
  <2>3. q \notin DOMAIN f /\ DOMAIN c = DOMAIN f \cup {q}
    BY <2>2 DEF IsCut
  <2>4. Headers(c) = Headers(f) + 1
    BY <1>1, <2>3, FS_AddElement DEF Headers
  <2>5. Headers(Join(c, q)) = Headers(c) + JoinCount(c, q)
    BY <2>2, <2>3, JoinHeaders
  <2>6. Split(f, b, n) = Join(c, q) /\ SplitCount(f, b, n) = 1 + JoinCount(c, q)
    BY <1>3, <2>1 DEF Split, SplitCount
  <2>7. JoinCount(c, q) \in Int
    BY DEF JoinCount
  <2> QED
    BY <1>1, <2>4, <2>5, <2>6, <2>7
<1> QED
  BY <1>2, <1>3

LEMMA TakenHeaders ==
  ASSUME NEW f, Whole(f), NEW b \in DOMAIN f, NEW n \in Nat \ {0}
  PROVE  Headers(Taken(f, b, n)) = Headers(f) + SplitCount(f, b, n)
<1>1. Headers(Taken(f, b, n)) = Headers(Split(f, b, n))
  BY DEF Headers, Taken, Mark
<1> QED
  BY <1>1, SplitHeaders DEF Whole

LEMMA FreedHeaders ==
  ASSUME NEW f, Whole(f), NEW b \in DOMAIN f
  PROVE  Headers(Freed(f, b)) = Headers(f) + FreedCount(f, b)
<1>1. PICK m, g : m = Mark(f, b, FALSE) /\ g = Join(m, b)
  OBVIOUS
<1>2. Good(m) /\ b \in DOMAIN m /\ Headers(m) = Headers(f) /\ Headers(f) \in Nat
  <2>1. Good(f) /\ FALSE \in BOOLEAN
    BY DEF Whole
  <2>2. Good(m) /\ IsMarked(f, b, FALSE, m)
    BY ONLY <1>1, <2>1, b \in DOMAIN f, MarkGood
  <2> QED
    BY <2>1, <2>2, HeadersFinite DEF IsMarked, Headers
<1>3. Good(g) /\ b \in DOMAIN g /\ Headers(g) = Headers(m) + JoinCount(m, b)
  BY <1>1, <1>2, JoinGood, JoinHeaders DEF IsJoined
<1>4. JoinCount(m, b) \in Int /\ Headers(g) \in Nat
  BY <1>3, HeadersFinite DEF JoinCount
<1>5. CASE JoinLeft(g, b)
  <2>1. b - g[b].prev \in DOMAIN g
    BY <1>3, <1>5, BlockBefore DEF JoinLeft
  <2>2. PICK x : x = b - g[b].prev /\ x \in DOMAIN g
    BY <2>1
  <2>3. Headers(Join(g, x)) = Headers(g) + JoinCount(g, x) /\ JoinCount(g, x) \in Int
    BY <1>3, <2>2, JoinHeaders DEF JoinCount
  <2>4. Freed(f, b) = Join(g, x) /\ FreedCount(f, b) = JoinCount(m, b) + JoinCount(g, x)
    BY <1>1, <1>5, <2>2 DEF Freed, FreedCount
  <2> QED
    BY <1>2, <1>3, <1>4, <2>3, <2>4
<1>6. CASE ~ JoinLeft(g, b)
  <2>1. Freed(f, b) = g /\ FreedCount(f, b) = JoinCount(m, b) + 0
    BY <1>1, <1>6 DEF Freed, FreedCount
  <2> QED
    BY <1>2, <1>3, <1>4, <2>1
<1> QED
  BY <1>5, <1>6

LEMMA ResizedHeaders ==
  ASSUME NEW f, Whole(f), NEW b \in DOMAIN f, NEW n \in Nat \ {0}
  PROVE  Headers(Split(Grown(f, b, n), b, n))
           = Headers(f) + SplitCount(Grown(f, b, n), b, n) - (IF Grows(f, b, n) THEN 1 ELSE 0)
<1>1. PICK g : g = Grown(f, b, n)
  OBVIOUS
<1>2. Headers(f) \in Nat
  BY HeadersFinite DEF Whole
<1>3. Good(g) /\ b \in DOMAIN g /\ Headers(g) = Headers(f) - (IF Grows(f, b, n) THEN 1 ELSE 0)
  <2>1. CASE ~ Grows(f, b, n)
    BY <1>1, <1>2, <2>1 DEF Grown, Whole
  <2>2. CASE Grows(f, b, n)
    <3>1. Joins(f, b) /\ g = Join(f, b) /\ JoinCount(f, b) = -1
      BY <1>1, <2>2 DEF Grows, Grown, Join, JoinCount
    <3>2. Good(g) /\ b \in DOMAIN g
      BY <3>1, JoinGood DEF Whole, IsJoined
    <3>3. Headers(g) = Headers(f) + JoinCount(f, b)
      BY <3>1, JoinHeaders DEF Whole
    <3> QED
      BY <1>2, <2>2, <3>1, <3>2, <3>3
  <2> QED
    BY <2>1, <2>2
<1>4. Headers(Split(g, b, n)) = Headers(g) + SplitCount(g, b, n)
  BY <1>3, SplitHeaders
<1>5. SplitCount(g, b, n) \in Int
  <2>1. \A c, q : JoinCount(c, q) \in Int
    BY DEF JoinCount
  <2> QED
    BY <2>1 DEF SplitCount
<1> QED
  BY <1>1, <1>2, <1>3, <1>4, <1>5

LEMMA StepHeaders ==
  ASSUME Whole(blk), blocks = Headers(blk), [BlocksNext]_blockVars
  PROVE  blocks' = Headers(blk')
<1>1. ASSUME NEW n \in 1 .. Capacity, Allocate(n)
      PROVE  blocks' = Headers(blk')
  <2>1. PICK b : b = FirstFit(blk, n)
    OBVIOUS
  <2>2. b \in DOMAIN blk /\ n \in Nat \ {0}
    BY <1>1, <2>1, FirstFitFits, BlocksAssumption DEF Allocate, Fits
  <2> QED
    BY <1>1, <2>1, <2>2, TakenHeaders DEF Allocate
<1>2. ASSUME NEW b \in InUse, Release(b)
      PROVE  blocks' = Headers(blk')
  BY <1>2, FreedHeaders DEF Release, InUse
<1>3. ASSUME NEW b \in InUse, NEW n \in 1 .. Capacity, Resize(b, n)
      PROVE  blocks' = Headers(blk')
  <2>1. b \in DOMAIN blk /\ n \in Nat \ {0}
    BY BlocksAssumption DEF InUse
  <2> QED
    BY <1>3, <2>1, ResizedHeaders DEF Resize
<1>4. ASSUME NEW b \in InUse, NEW n \in 1 .. Capacity, Move(b, n)
      PROVE  blocks' = Headers(blk')
  <2>1. PICK c, g : c = FirstFit(blk, n) /\ g = Taken(blk, c, n)
    OBVIOUS
  <2>2. c \in Fits(blk, n) /\ n \in Nat \ {0}
    BY <1>4, <2>1, FirstFitFits, BlocksAssumption DEF Move
  <2>3. c \in DOMAIN blk /\ ~ blk[c].used /\ n <= blk[c].size /\ b \in DOMAIN blk /\ blk[b].used
    BY <2>2, GoodFacts DEF Fits, InUse, Whole
  <2>4. Whole(g) /\ b \in DOMAIN g
    BY <2>1, <2>2, <2>3, TakenWhole DEF Kept
  <2>5. Headers(g) = Headers(blk) + SplitCount(blk, c, n)
    BY <2>1, <2>2, <2>3, TakenHeaders
  <2>6. Headers(Freed(g, b)) = Headers(g) + FreedCount(g, b)
    BY <2>4, FreedHeaders
  <2>7. /\ blk' = Freed(g, b)
        /\ blocks' = blocks + SplitCount(blk, c, n) + FreedCount(g, b)
    BY <1>4, <2>1 DEF Move
  <2> QED
    BY <2>5, <2>6, <2>7
<1>5. CASE UNCHANGED blockVars
  BY <1>5 DEF blockVars
<1> QED
  BY <1>1, <1>2, <1>3, <1>4, <1>5 DEF BlocksNext

(***************************************************************************)
(* blocks, which join() and split() count down and up one by one, is the    *)
(* number of headers there are after every operation.                       *)
(***************************************************************************)
THEOREM BlocksCounted == BlocksSpec => [](blocks = Headers(blk))
<1>1. BlocksInit => Whole(blk) /\ blocks = Headers(blk)
  <2> SUFFICES ASSUME BlocksInit PROVE blocks = Headers(blk)
    BY InitWhole
  <2>1. DOMAIN blk = {HeapStart} /\ blocks = 1
    BY DEF BlocksInit
  <2> QED
    BY <2>1, FS_Singleton DEF Headers
<1>2. Whole(blk) /\ [BlocksNext]_blockVars => Whole(blk)'
  BY StepFine DEF Fine
<1>3. Whole(blk) /\ (blocks = Headers(blk)) /\ [BlocksNext]_blockVars
        => (blocks = Headers(blk))'
  BY StepHeaders
<1> QED
  BY <1>1, <1>2, <1>3, PTL DEF BlocksSpec

-----------------------------------------------------------------------------
\* The type of the heap.

IsFunction(f) == f = [a \in DOMAIN f |-> f[a]]

LEMMA OperationsFunction ==
  ASSUME NEW f, IsFunction(f), NEW b, NEW n
  PROVE  /\ IsFunction(Join(f, b)) /\ IsFunction(Split(f, b, n)) /\ IsFunction(Taken(f, b, n))
         /\ IsFunction(Freed(f, b)) /\ IsFunction(Grown(f, b, n))
<1>1. ASSUME NEW g, IsFunction(g), NEW a PROVE IsFunction(Join(g, a))
  BY <1>1 DEF Join, Merged, IsFunction
<1>2. IsFunction(Split(f, b, n))
  <2>1. IsFunction(Cut(f, b, n))
    BY DEF Cut, IsFunction
  <2> QED
    BY <1>1, <2>1 DEF Split
<1>3. \A g, a, u : IsFunction(Mark(g, a, u))
  BY DEF Mark, IsFunction
<1>4. IsFunction(Freed(f, b))
  <2>1. PICK g : g = Join(Mark(f, b, FALSE), b)
    OBVIOUS
  <2>2. IsFunction(g) /\ Freed(f, b) = IF JoinLeft(g, b) THEN Join(g, b - g[b].prev) ELSE g
    BY <1>1, <1>3, <2>1 DEF Freed
  <2> QED
    BY <1>1, <2>2
<1>5. IsFunction(Grown(f, b, n))
  BY DEF Grown, Merged, IsFunction
<1> QED
  BY <1>1, <1>2, <1>3, <1>4, <1>5 DEF Taken

LEMMA StepFunction ==
  ASSUME IsFunction(blk), [BlocksNext]_blockVars
  PROVE  IsFunction(blk')
<1>1. ASSUME NEW n, Allocate(n) PROVE IsFunction(blk')
  BY <1>1, OperationsFunction DEF Allocate
<1>2. ASSUME NEW b, Release(b) PROVE IsFunction(blk')
  BY <1>2, OperationsFunction DEF Release
<1>3. ASSUME NEW b, NEW n, Resize(b, n) PROVE IsFunction(blk')
  BY <1>3, OperationsFunction DEF Resize
<1>4. ASSUME NEW b, NEW n, Move(b, n) PROVE IsFunction(blk')
  BY <1>4, OperationsFunction DEF Move
<1>5. CASE UNCHANGED blockVars
  BY <1>5 DEF blockVars
<1> QED
  BY <1>1, <1>2, <1>3, <1>4, <1>5 DEF BlocksNext

LEMMA BlocksTyped == BlocksSpec => [](blk \in [DOMAIN blk -> Header])
<1>1. BlocksInit => Whole(blk) /\ IsFunction(blk)
  <2>1. BlocksInit => IsFunction(blk)
    BY DEF BlocksInit, IsFunction
  <2> QED
    BY <2>1, InitWhole
<1>2. Whole(blk) /\ [BlocksNext]_blockVars => Whole(blk)'
  BY StepFine DEF Fine
<1>3. IsFunction(blk) /\ [BlocksNext]_blockVars => IsFunction(blk)'
  BY StepFunction
<1>4. Whole(blk) /\ IsFunction(blk) => blk \in [DOMAIN blk -> Header]
  BY GoodFacts DEF Whole, IsFunction
<1> QED
  BY <1>1, <1>2, <1>3, <1>4, PTL DEF BlocksSpec

-----------------------------------------------------------------------------
\* The pools and what is handed out.

LEMMA Element ==
  ASSUME NEW T, NEW s \in Seq(T), NEW i \in DOMAIN s
  PROVE  s[i] \in T /\ Len(s) \in Nat /\ i \in 1 .. Len(s)
OBVIOUS

-----------------------------------------------------------------------------
\* Where the pools are.

LEMMA Times ==
  ASSUME NEW a \in Nat, NEW b \in Nat, NEW s \in Nat
  PROVE  /\ a * s \in Nat /\ s * a = a * s
         /\ a < b => a * s + s <= b * s
<1>1. a * s \in Nat /\ s * a = a * s
  OBVIOUS
<1>2. ASSUME a < b PROVE a * s + s <= b * s
  <2>1. PICK k \in Nat : b = a + 1 + k
    <3>1. b - a - 1 \in Nat /\ b = a + 1 + (b - a - 1)
      BY <1>2
    <3> QED
      BY <3>1
  <2>2. b * s = a * s + s + k * s /\ k * s \in Nat
    BY <2>1
  <2> QED
    BY <1>1, <2>2
<1> QED
  BY <1>1, <1>2

LEMMA PoolTypes ==
  ASSUME NEW i \in DOMAIN Pools
  PROVE  /\ Pools[i].size \in Nat \ {0} /\ Pools[i].n \in Nat \ {0}
         /\ Pools[i].base \in Nat /\ PoolTop(Pools[i]) \in Nat
         /\ Pools[i].base <= PoolTop(Pools[i])
         /\ i \in 1 .. Len(Pools) /\ Len(Pools) \in Nat
         /\ Pools[i].base = IF i = 1 THEN 0 ELSE PoolTop(Pools[i - 1])
<1>1. /\ Pools[i] \in [size : Nat \ {0}, n : Nat \ {0}, base : Nat]
      /\ i \in 1 .. Len(Pools) /\ Len(Pools) \in Nat
  BY HeapAssumption, Element
<1>2. Pools[i].size * Pools[i].n \in Nat
  BY <1>1, Times
<1>3. PoolTop(Pools[i]) \in Nat /\ Pools[i].base <= PoolTop(Pools[i])
  BY <1>1, <1>2 DEF PoolTop
<1> QED
  BY <1>1, <1>3, HeapAssumption

LEMMA PoolOrder ==
  ASSUME NEW i \in DOMAIN Pools, NEW j \in DOMAIN Pools, i < j
  PROVE  PoolTop(Pools[i]) <= Pools[j].base
<1> DEFINE S == {k \in DOMAIN Pools : i < k /\ ~ (PoolTop(Pools[i]) <= Pools[k].base)}
<1> SUFFICES ASSUME S # {} PROVE FALSE
  OBVIOUS
<1>1. S \in SUBSET Nat
  BY PoolTypes
<1>2. PICK k \in S : \A c \in S : k <= c
  BY <1>1, LeastNatural
<1>3. /\ k \in DOMAIN Pools /\ k \in Nat /\ i \in Nat /\ i >= 1 /\ i < k
      /\ k - 1 \in DOMAIN Pools
  <2>1. DOMAIN Pools = 1 .. Len(Pools) /\ Len(Pools) \in Nat
    BY HeapAssumption
  <2>2. k \in DOMAIN Pools /\ i < k
    OBVIOUS
  <2>. HIDE DEF S
  <2> QED
    BY <2>1, <2>2
<1>4. Pools[k].base = PoolTop(Pools[k - 1])
  BY <1>3, PoolTypes, SMTT(30)
<1>5. CASE i = k - 1
  BY <1>3, <1>4, <1>5, PoolTypes
<1>6. CASE i # k - 1
  <2>1. k - 1 \notin S
    BY <1>2, <1>3
  <2>2. PoolTop(Pools[i]) <= Pools[k - 1].base
    BY <1>3, <1>6, <2>1
  <2> QED
    BY <1>3, <1>4, <2>2, PoolTypes, SMTT(30)
<1> QED
  BY <1>5, <1>6

LEMMA PoolsBelow ==
  ASSUME NEW i \in DOMAIN Pools
  PROVE  PoolTop(Pools[i]) <= HeapStart
<1>1. Len(Pools) \in DOMAIN Pools /\ Pools # <<>> /\ i <= Len(Pools)
  BY PoolTypes, HeapAssumption, SMTT(30)
<1>2. HeapStart = PoolTop(Pools[Len(Pools)])
  BY <1>1, HeapAssumption
<1>3. CASE i = Len(Pools)
  BY <1>2, <1>3, PoolTypes
<1>4. CASE i # Len(Pools)
  <2>1. PoolTop(Pools[i]) <= Pools[Len(Pools)].base
    BY <1>1, <1>4, PoolOrder, PoolTypes
  <2> QED
    BY <1>1, <1>2, <2>1, PoolTypes
<1> QED
  BY <1>3, <1>4

LEMMA SlotFacts ==
  ASSUME NEW i \in DOMAIN Pools, NEW s \in Slots(i)
  PROVE  /\ s \in Nat /\ Pools[i].base <= s /\ s + Pools[i].size <= PoolTop(Pools[i])
         /\ \A t \in Slots(i) : s # t => \/ s + Pools[i].size <= t
                                         \/ t + Pools[i].size <= s
<1> DEFINE z == Pools[i].size
<1>1. z \in Nat \ {0} /\ Pools[i].n \in Nat \ {0} /\ Pools[i].base \in Nat
  BY PoolTypes
<1>2. PoolTop(Pools[i]) = Pools[i].base + z * Pools[i].n
  BY DEF PoolTop
<1>3. Slots(i) = {Pools[i].base + j * z : j \in 0 .. Pools[i].n - 1}
  BY DEF Slots
<1>4. PICK j \in 0 .. Pools[i].n - 1 : s = Pools[i].base + j * z
  BY <1>3
<1>. HIDE DEF z
<1>5. j * z \in Nat /\ j * z + z <= Pools[i].n * z /\ z * Pools[i].n = Pools[i].n * z
      /\ Pools[i].n * z \in Nat
  BY <1>1, Times
<1>6. s \in Nat /\ Pools[i].base <= s /\ s + z <= PoolTop(Pools[i])
  BY <1>1, <1>2, <1>4, <1>5
<1>7. ASSUME NEW t \in Slots(i), s # t
      PROVE  s + z <= t \/ t + z <= s
  <2>1. PICK k \in 0 .. Pools[i].n - 1 : t = Pools[i].base + k * z
    BY <1>3
  <2>2. j # k /\ k * z \in Nat
    BY <1>1, <1>4, <1>7, <2>1, Times
  <2>3. j < k => j * z + z <= k * z
    BY <1>1, Times
  <2>4. k < j => k * z + z <= j * z
    BY <1>1, Times
  <2>5. PICK a, b, o : a = j * z /\ b = k * z /\ o = Pools[i].base
    OBVIOUS
  <2>6. a \in Nat /\ b \in Nat /\ o \in Nat /\ z \in Nat /\ s = o + a /\ t = o + b
    BY <1>1, <1>4, <1>5, <2>1, <2>2, <2>5
  <2>7. a + z <= b \/ b + z <= a
    BY <2>2, <2>3, <2>4, <2>5
  <2> QED
    BY ONLY <2>6, <2>7
<1> QED
  BY <1>6, <1>7 DEF z

LEMMA SlotIn ==
  ASSUME NEW i \in DOMAIN Pools, NEW s \in Slots(i)
  PROVE  Small(s) /\ PoolOf(s) = i /\ SizeAt(s) = Pools[i].size
<1>1. s \in Nat /\ Pools[i].base <= s /\ s < PoolTop(Pools[i])
  BY SlotFacts, PoolTypes
<1>2. i \in InPool(s)
  BY <1>1 DEF InPool
<1>3. ASSUME NEW j \in InPool(s), j # i PROVE FALSE
  <2>1. j \in DOMAIN Pools /\ Pools[j].base <= s /\ s < PoolTop(Pools[j])
    BY PoolTypes DEF InPool
  <2>2. i < j \/ j < i
    BY <1>3, <2>1, PoolTypes
  <2> QED
    BY <1>1, <2>1, <2>2, PoolOrder, PoolTypes
<1>4. PoolOf(s) = i
  BY <1>2, <1>3 DEF PoolOf
<1> QED
  BY <1>2, <1>4 DEF Small, SizeAt

LEMMA BlockIn ==
  ASSUME NEW p \in Int, p >= HeapStart
  PROVE  ~ Small(p) /\ SizeAt(p) = blk[p - 1].size
<1>1. ASSUME NEW i \in InPool(p) PROVE FALSE
  BY PoolsBelow, PoolTypes, BlocksAssumption DEF InPool
<1> QED
  BY <1>1 DEF Small, SizeAt

-----------------------------------------------------------------------------
\* What the operations on blocks do to who is in use: at most b changes.

Changed(f, g, b) ==
  /\ Frame(f, g, b)
  /\ \A a \in DOMAIN g \ {b} : g[a].used => a \in DOMAIN f /\ f[a].used

LEMMA JoinUse ==
  ASSUME NEW f, Good(f), NEW b \in DOMAIN f, NEW g, g = Join(f, b)
  PROVE  \A a \in DOMAIN g : a \in DOMAIN f /\ g[a].used = f[a].used
<1>1. CASE ~ Joins(f, b)
  BY <1>1 DEF Join
<1>2. CASE Joins(f, b)
  <2>1. IsMerged(f, b, NextOf(f, b), NextOf(f, NextOf(f, b)), g)
    BY <1>2, MergedIs DEF Join
  <2> QED
    BY <2>1 DEF IsMerged
<1> QED
  BY <1>1, <1>2

LEMMA SplitUse ==
  ASSUME NEW f, Good(f), NEW b \in DOMAIN f, NEW n \in Nat \ {0}, n <= f[b].size,
         NEW g, g = Split(f, b, n)
  PROVE  /\ \A a \in DOMAIN g : g[a].used => a \in DOMAIN f /\ f[a].used
         /\ b \in DOMAIN g => g[b].size >= n
<1>1. CASE ~ Splits(f, b, n)
  BY <1>1 DEF Split
<1>2. CASE Splits(f, b, n)
  <2>1. SUFFICES ASSUME NEW q, q = b + 1 + n, NEW r, r = NextOf(f, b),
                        NEW c, c = Cut(f, b, n), g = Join(c, q)
                 PROVE  /\ \A a \in DOMAIN g : g[a].used => a \in DOMAIN f /\ f[a].used
                        /\ b \in DOMAIN g => g[b].size >= n
    BY <1>2 DEF Split
  <2>2. IsCut(f, b, n, q, r, c) /\ Good(c)
    BY <1>2, <2>1, CutIs, CutGood
  <2>. USE DEF IsCut
  <2>3. \A a \in DOMAIN g : a \in DOMAIN c /\ g[a].used = c[a].used
    <3>1. q \in DOMAIN c
      BY <2>2
    <3> QED
      BY <2>1, <2>2, <3>1, JoinUse
  <2>4. b \in DOMAIN c /\ b # q /\ b \in Nat
    BY <2>2, GoodFacts
  <2>5. b \in DOMAIN g => g[b].size = n
    <3>1. CASE ~ Joins(c, q)
      BY <2>1, <2>2, <3>1 DEF Join
    <3>2. CASE Joins(c, q)
      <4>1. q \in DOMAIN c
        BY <2>2
      <4>2. IsMerged(c, q, NextOf(c, q), NextOf(c, NextOf(c, q)), g)
        BY <2>1, <2>2, <3>2, <4>1, MergedIs DEF Join
      <4> QED
        BY <2>2, <2>4, <4>2 DEF IsMerged
    <3> QED
      BY <3>1, <3>2
  <2>6. \A a \in DOMAIN g : g[a].used => a \in DOMAIN f /\ f[a].used
    BY <2>2, <2>3
  <2> QED
    BY <2>5, <2>6
<1> QED
  BY <1>1, <1>2

LEMMA TakenIs ==
  ASSUME NEW f, Whole(f), NEW b \in DOMAIN f, ~ f[b].used,
         NEW n \in Nat \ {0}, n <= f[b].size, NEW g, g = Taken(f, b, n)
  PROVE  /\ Whole(g) /\ Changed(f, g, b)
         /\ b \in DOMAIN g /\ g[b].used /\ g[b].size >= n
<1>1. Whole(g) /\ Frame(f, g, b)
  BY TakenWhole DEF Frame
<1> DEFINE s == Split(f, b, n)
<1>2. Good(s) /\ b \in DOMAIN s
  BY SplitGood DEF Whole
<1>3. (\A a \in DOMAIN s : s[a].used => a \in DOMAIN f /\ f[a].used) /\ s[b].size >= n
  BY <1>2, SplitUse DEF Whole
<1>. HIDE DEF s
<1>4. IsMarked(s, b, TRUE, g)
  BY <1>2, MarkGood DEF Taken, s
<1>5. b \in DOMAIN g /\ g[b].used /\ g[b].size >= n
  BY <1>2, <1>3, <1>4 DEF IsMarked
<1> QED
  BY <1>1, <1>3, <1>4, <1>5 DEF Changed, IsMarked

LEMMA FreedIs ==
  ASSUME NEW f, Whole(f), NEW b \in DOMAIN f, NEW h, h = Freed(f, b)
  PROVE  /\ Whole(h) /\ Changed(f, h, b)
         /\ b \in DOMAIN h => ~ h[b].used
<1>1. Whole(h) /\ Frame(f, h, b)
  BY FreedWhole
<1>2. PICK m, g : /\ m = Mark(f, b, FALSE) /\ g = Join(m, b)
                  /\ h = IF JoinLeft(g, b) THEN Join(g, b - g[b].prev) ELSE g
  BY DEF Freed
<1>3. Good(m) /\ IsMarked(f, b, FALSE, m) /\ b \in DOMAIN m
  <2>1. Good(f) /\ FALSE \in BOOLEAN
    BY DEF Whole
  <2>2. Good(m) /\ IsMarked(f, b, FALSE, m)
    BY ONLY <1>2, <2>1, b \in DOMAIN f, MarkGood
  <2> QED
    BY <2>2 DEF IsMarked
<1>4. Good(g) /\ b \in DOMAIN g
  BY <1>2, <1>3, JoinGood DEF IsJoined
<1>5. \A a \in DOMAIN g : a \in DOMAIN m /\ g[a].used = m[a].used
  <2>1. Good(m) /\ b \in DOMAIN m /\ g = Join(m, b)
    BY <1>2, <1>3
  <2> QED
    BY ONLY <2>1, JoinUse
<1>6. \A a \in DOMAIN h : a \in DOMAIN g /\ h[a].used = g[a].used
  <2>1. CASE ~ JoinLeft(g, b)
    BY <1>2, <2>1
  <2>2. CASE JoinLeft(g, b)
    <3>1. g[b].prev # 0
      BY <2>2 DEF JoinLeft
    <3>2. b - g[b].prev \in DOMAIN g
      BY <1>4, <3>1, BlockBefore
    <3> QED
      BY <1>2, <1>4, <2>2, <3>2, JoinUse, ZenonT(40)
  <2> QED
    BY <2>1, <2>2
<1> QED
  BY <1>1, <1>3, <1>5, <1>6 DEF Changed, IsMarked

LEMMA ResizedIs ==
  ASSUME NEW f, Whole(f), NEW b \in DOMAIN f, f[b].used,
         NEW n \in Nat \ {0}, FitsInPlace(f, b, n),
         NEW h, h = Split(Grown(f, b, n), b, n)
  PROVE  /\ Whole(h) /\ Changed(f, h, b)
         /\ b \in DOMAIN h /\ h[b].used /\ h[b].size >= n
<1>1. Whole(h) /\ Frame(f, h, b)
  BY ResizedWhole
<1> DEFINE g == Grown(f, b, n)
<1>2. /\ Good(g) /\ b \in DOMAIN g /\ g[b].used /\ Apart(g, {}) /\ n <= g[b].size
      /\ \A a \in DOMAIN g : a \in DOMAIN f /\ g[a].used = f[a].used
  <2>1. CASE ~ Grows(f, b, n)
    BY <2>1, GoodFacts DEF Grown, Whole, FitsInPlace
  <2>2. CASE Grows(f, b, n)
    <3>1. Joins(f, b)
      BY <2>2 DEF Grows
    <3>2. g = Join(f, b) /\ g = Merged(f, b)
      BY <2>2, <3>1 DEF Grown, Join
    <3>. HIDE DEF g
    <3>3. Good(g) /\ IsJoined(f, b, g)
      BY <3>2, JoinGood DEF Whole
    <3>4. Apart(f, {} \cup {b})
      BY DEF Whole, Apart
    <3>5. Apart(g, {})
      BY <3>2, <3>4, JoinApart, ZenonT(40) DEF Whole
    <3>6. g[b].size = f[b].size + 1 + f[NextOf(f, b)].size
      <4>1. b # NextOf(f, b)
        BY GoodFacts DEF Whole
      <4> QED
        BY <2>2, <3>2, <4>1, GoodFacts DEF Merged, Whole, Header
    <3>7. \A a \in DOMAIN g : a \in DOMAIN f /\ g[a].used = f[a].used
      BY <3>2, JoinUse DEF Whole
    <3> QED
      BY <2>2, <3>3, <3>5, <3>6, <3>7, GoodFacts DEF Grows, IsJoined
  <2> QED
    BY <2>1, <2>2
<1>. HIDE DEF g
<1>3. h = Split(g, b, n)
  BY DEF g
<1>4. b \in DOMAIN h /\ h[b].used
  BY <1>2, <1>3, SplitGood
<1>5. (\A a \in DOMAIN h : h[a].used => a \in DOMAIN g /\ g[a].used) /\ h[b].size >= n
  BY ONLY <1>2, <1>3, <1>4, n \in Nat \ {0}, SplitUse
<1> QED
  BY <1>1, <1>2, <1>4, <1>5 DEF Changed

-----------------------------------------------------------------------------
\* What is handed out: the blocks in use and the slots that are on no list.

Listed(s) == {s[k] : k \in DOMAIN s}
Distinct(s) == \A j, k \in DOMAIN s : s[j] = s[k] => j = k

Idle(pl, i) == Listed(pl[i].free)

\* The list of free slots of each pool has each of its slots once at most.
Pooled(pl) ==
  /\ pl \in [DOMAIN Pools -> [free : Seq(Nat), used : Int]]
  /\ \A i \in DOMAIN Pools : Idle(pl, i) \subseteq Slots(i) /\ Distinct(pl[i].free)

SlotsOut(pl) == {p \in Nat : \E i \in DOMAIN Pools : p \in Slots(i) \ Idle(pl, i)}
BlocksOut(f) == {p \in Nat : p - 1 \in DOMAIN f /\ f[p - 1].used}
Out(f, pl) == SlotsOut(pl) \cup BlocksOut(f)

SizeIn(f, p) == IF Small(p) THEN Pools[PoolOf(p)].size ELSE f[p - 1].size
Extent(f, p) == p .. p + SizeIn(f, p) - 1

LEMMA SlotOut ==
  ASSUME NEW f, NEW pl, NEW p \in SlotsOut(pl)
  PROVE  /\ PoolOf(p) \in DOMAIN Pools /\ p \in Slots(PoolOf(p)) \ Idle(pl, PoolOf(p))
         /\ p \in Nat /\ Small(p) /\ SizeIn(f, p) = Pools[PoolOf(p)].size
         /\ SizeIn(f, p) \in Nat \ {0} /\ p + SizeIn(f, p) <= HeapStart
<1>1. PICK i \in DOMAIN Pools : p \in Slots(i) \ Idle(pl, i)
  BY DEF SlotsOut
<1>2. Small(p) /\ PoolOf(p) = i /\ p \in Nat
  BY <1>1, SlotIn, SlotFacts
<1>3. SizeIn(f, p) = Pools[i].size /\ Pools[i].size \in Nat \ {0}
  BY <1>2, PoolTypes DEF SizeIn
<1>4. p + Pools[i].size <= PoolTop(Pools[i]) /\ PoolTop(Pools[i]) <= HeapStart
  BY <1>1, SlotFacts, PoolsBelow
<1>5. PoolTop(Pools[i]) \in Nat /\ HeapStart \in Nat
  BY PoolTypes, BlocksAssumption
<1> QED
  BY <1>1, <1>2, <1>3, <1>4, <1>5

LEMMA BlockOut ==
  ASSUME NEW f, Whole(f), NEW p \in BlocksOut(f)
  PROVE  /\ p - 1 \in DOMAIN f /\ f[p - 1].used /\ p - 1 \in Nat /\ p - 1 >= HeapStart
         /\ p \in Nat /\ ~ Small(p) /\ SizeIn(f, p) = f[p - 1].size
         /\ SizeIn(f, p) \in Nat \ {0} /\ p + SizeIn(f, p) = NextOf(f, p - 1)
         /\ p + SizeIn(f, p) <= HeapEnd
<1>1. p - 1 \in DOMAIN f /\ f[p - 1].used /\ p \in Nat
  BY DEF BlocksOut
<1>2. /\ p - 1 \in Nat /\ p - 1 >= HeapStart /\ f[p - 1].size \in Nat \ {0}
      /\ NextOf(f, p - 1) = p - 1 + 1 + f[p - 1].size /\ NextOf(f, p - 1) <= HeapEnd
      /\ HeapStart \in Nat
  BY <1>1, GoodFacts DEF Whole
<1>3. ~ Small(p)
  BY <1>1, <1>2, BlockIn
<1> QED
  BY <1>1, <1>2, <1>3 DEF SizeIn

LEMMA OutFacts ==
  ASSUME NEW f, Whole(f), NEW pl, NEW p \in Out(f, pl)
  PROVE  /\ p \in Nat /\ SizeIn(f, p) \in Nat \ {0} /\ p + SizeIn(f, p) <= HeapEnd
         /\ Small(p) <=> p \in SlotsOut(pl)
         /\ ~ Small(p) <=> p \in BlocksOut(f)
<1>1. CASE p \in SlotsOut(pl)
  <2>1. p + SizeIn(f, p) <= HeapEnd
    BY <1>1, SlotOut, BlocksAssumption DEF HeapEnd
  <2> QED
    BY <1>1, <2>1, SlotOut, BlockOut
<1>2. CASE p \in BlocksOut(f)
  BY <1>2, SlotOut, BlockOut
<1> QED
  BY <1>1, <1>2 DEF Out

\* Nothing that is handed out overlaps anything else.
LEMMA OutApart ==
  ASSUME NEW f, Whole(f), NEW pl, NEW p \in Out(f, pl), NEW q \in Out(f, pl), p # q
  PROVE  p + SizeIn(f, p) <= q \/ q + SizeIn(f, q) <= p
<1>1. ASSUME NEW x \in SlotsOut(pl), NEW y \in BlocksOut(f)
      PROVE  x + SizeIn(f, x) <= y
  <2>1. x + SizeIn(f, x) <= HeapStart /\ x + SizeIn(f, x) \in Nat
    BY SlotOut
  <2>2. y - 1 >= HeapStart /\ y \in Nat /\ HeapStart \in Nat
    BY BlockOut, BlocksAssumption
  <2> QED
    BY <2>1, <2>2
<1>2. CASE p \in SlotsOut(pl) /\ q \in SlotsOut(pl)
  <2> DEFINE i == PoolOf(p)
             j == PoolOf(q)
  <2>1. /\ i \in DOMAIN Pools /\ p \in Slots(i) /\ SizeIn(f, p) = Pools[i].size
        /\ j \in DOMAIN Pools /\ q \in Slots(j) /\ SizeIn(f, q) = Pools[j].size
    BY <1>2, SlotOut
  <2>. HIDE DEF i, j
  <2>2. CASE i = j
    BY <2>1, <2>2, SlotFacts
  <2>3. CASE i # j
    <3>1. i \in Nat /\ j \in Nat
      BY <2>1, PoolTypes
    <3>2. /\ p \in Nat /\ q \in Nat /\ Pools[i].base <= p /\ Pools[j].base <= q
          /\ p + Pools[i].size <= PoolTop(Pools[i])
          /\ q + Pools[j].size <= PoolTop(Pools[j])
      BY <2>1, SlotFacts
    <3>3. /\ PoolTop(Pools[i]) \in Nat /\ PoolTop(Pools[j]) \in Nat
          /\ Pools[i].size \in Nat /\ Pools[j].size \in Nat
          /\ Pools[i].base \in Nat /\ Pools[j].base \in Nat
      BY <2>1, PoolTypes
    <3>4. CASE i < j
      <4>1. PoolTop(Pools[i]) <= Pools[j].base
        BY <2>1, <3>4, PoolOrder
      <4> QED
        BY <2>1, <3>2, <3>3, <4>1
    <3>5. CASE j < i
      <4>1. PoolTop(Pools[j]) <= Pools[i].base
        BY <2>1, <3>5, PoolOrder
      <4> QED
        BY <2>1, <3>2, <3>3, <4>1
    <3> QED
      BY <2>3, <3>1, <3>4, <3>5
  <2> QED
    BY <2>2, <2>3
<1>3. CASE p \in BlocksOut(f) /\ q \in BlocksOut(f)
  <2>1. /\ p - 1 \in DOMAIN f /\ p \in Nat /\ p + SizeIn(f, p) = NextOf(f, p - 1)
        /\ q - 1 \in DOMAIN f /\ q \in Nat /\ q + SizeIn(f, q) = NextOf(f, q - 1)
    BY <1>3, BlockOut
  <2>2. /\ p - 1 < q - 1 => NextOf(f, p - 1) <= q - 1
        /\ q - 1 < p - 1 => NextOf(f, q - 1) <= p - 1
    BY <2>1, GoodOrder DEF Whole
  <2>3. NextOf(f, p - 1) \in Nat /\ NextOf(f, q - 1) \in Nat
    BY <2>1, GoodFacts DEF Whole
  <2> QED
    BY <2>1, <2>2, <2>3
<1> QED
  BY <1>1, <1>2, <1>3 DEF Out

LEMMA ExtentsApart ==
  ASSUME NEW f, Whole(f), NEW pl, NEW p \in Out(f, pl)
  PROVE  /\ Extent(f, p) \subseteq 0 .. HeapEnd - 1
         /\ \A q \in Out(f, pl) : p # q => Extent(f, p) \cap Extent(f, q) = {}
<1>1. /\ p \in Nat /\ SizeIn(f, p) \in Nat /\ p + SizeIn(f, p) <= HeapEnd
      /\ HeapEnd \in Nat
  BY OutFacts, GoodFacts DEF Whole
<1>2. ASSUME NEW q \in Out(f, pl), p # q
      PROVE  Extent(f, p) \cap Extent(f, q) = {}
  <2>1. p + SizeIn(f, p) <= q \/ q + SizeIn(f, q) <= p
    BY <1>2, OutApart
  <2>2. q \in Nat /\ SizeIn(f, q) \in Nat
    BY OutFacts
  <2> QED
    BY <1>1, <2>1, <2>2 DEF Extent
<1> QED
  BY <1>1, <1>2 DEF Extent

-----------------------------------------------------------------------------
\* A slot is taken from its list, or put back on it.

LEMMA TailListed ==
  ASSUME NEW T, NEW s \in Seq(T), s # <<>>, Distinct(s)
  PROVE  /\ Tail(s) \in Seq(T) /\ Distinct(Tail(s))
         /\ Head(s) \in Listed(s) /\ Listed(Tail(s)) = Listed(s) \ {Head(s)}
<1>1. /\ Len(s) \in Nat /\ Len(s) > 0 /\ DOMAIN s = 1 .. Len(s)
      /\ DOMAIN Tail(s) = 1 .. Len(s) - 1 /\ Head(s) = s[1] /\ Tail(s) \in Seq(T)
  OBVIOUS
<1>2. \A k \in DOMAIN Tail(s) : Tail(s)[k] = s[k + 1]
  OBVIOUS
<1>3. Distinct(Tail(s))
  BY <1>1, <1>2 DEF Distinct
<1>4. Head(s) \in Listed(s)
  BY <1>1 DEF Listed
<1>5. ASSUME NEW x \in Listed(Tail(s)) PROVE x \in Listed(s) /\ x # Head(s)
  <2>1. PICK k \in 1 .. Len(s) - 1 : x = s[k + 1]
    BY <1>1, <1>2 DEF Listed
  <2>2. k + 1 \in DOMAIN s /\ 1 \in DOMAIN s /\ k + 1 # 1
    BY <1>1
  <2> QED
    BY <1>1, <2>1, <2>2 DEF Listed, Distinct
<1>6. ASSUME NEW x \in Listed(s), x # Head(s) PROVE x \in Listed(Tail(s))
  <2>1. PICK k \in 1 .. Len(s) : x = s[k]
    BY <1>1 DEF Listed
  <2>2. k - 1 \in DOMAIN Tail(s) /\ s[(k - 1) + 1] = x
    BY <1>1, <1>6, <2>1
  <2> QED
    BY <1>2, <2>2 DEF Listed
<1> QED
  BY <1>1, <1>3, <1>4, <1>5, <1>6

LEMMA ConsListed ==
  ASSUME NEW T, NEW s \in Seq(T), NEW p \in T, p \notin Listed(s), Distinct(s)
  PROVE  /\ <<p>> \o s \in Seq(T) /\ Distinct(<<p>> \o s)
         /\ Listed(<<p>> \o s) = Listed(s) \cup {p}
<1> DEFINE t == <<p>> \o s
<1>1. /\ Len(s) \in Nat /\ DOMAIN s = 1 .. Len(s)
      /\ DOMAIN t = 1 .. Len(s) + 1 /\ t[1] = p /\ t \in Seq(T)
  OBVIOUS
<1>2. \A k \in DOMAIN t : k # 1 => k - 1 \in DOMAIN s /\ t[k] = s[k - 1]
  OBVIOUS
<1>3. \A k \in DOMAIN s : k + 1 \in DOMAIN t /\ t[k + 1] = s[k]
  OBVIOUS
<1>. HIDE DEF t
<1>4. \A k \in DOMAIN t : k # 1 => t[k] \in Listed(s) /\ t[k] # p
  BY <1>2 DEF Listed
<1>5. Distinct(t)
  <2> SUFFICES ASSUME NEW j \in DOMAIN t, NEW k \in DOMAIN t, t[j] = t[k] PROVE j = k
    BY DEF Distinct
  <2>1. CASE j = 1 \/ k = 1
    BY <1>1, <1>4, <2>1
  <2>2. CASE j # 1 /\ k # 1
    <3>1. j - 1 = k - 1
      BY <1>2, <2>2 DEF Distinct
    <3> QED
      BY <1>1, <3>1
  <2> QED
    BY <2>1, <2>2
<1>6. Listed(t) = Listed(s) \cup {p}
  <2>1. \A x \in Listed(t) : x \in Listed(s) \cup {p}
    BY <1>1, <1>4 DEF Listed
  <2>2. p \in Listed(t)
    BY <1>1 DEF Listed
  <2>3. \A x \in Listed(s) : x \in Listed(t)
    BY <1>3 DEF Listed
  <2> QED
    BY <2>1, <2>2, <2>3
<1> QED
  BY <1>1, <1>5, <1>6 DEF t

\* One pool becomes another: what [pl EXCEPT ...] does.
EditedPool(pl, i, s, u, ql) ==
  /\ ql \in [DOMAIN Pools -> [free : Seq(Nat), used : Int]]
  /\ ql[i].free = s /\ ql[i].used = u
  /\ \A j \in DOMAIN Pools \ {i} : ql[j] = pl[j]

LEMMA PoolEdited ==
  ASSUME NEW pl \in [DOMAIN Pools -> [free : Seq(Nat), used : Int]], NEW i \in DOMAIN Pools,
         NEW s \in Seq(Nat), NEW u \in Int
  PROVE  EditedPool(pl, i, s, u, [pl EXCEPT ![i].free = s, ![i].used = u])
<1> DEFINE ql == [pl EXCEPT ![i].free = s, ![i].used = u]
<1>1. pl[i] \in [free : Seq(Nat), used : Int]
  OBVIOUS
<1>2. DOMAIN ql = DOMAIN Pools /\ \A j \in DOMAIN Pools \ {i} : ql[j] = pl[j]
  OBVIOUS
<1>3. ql[i] = [[pl[i] EXCEPT !.free = s] EXCEPT !.used = u]
  OBVIOUS
<1>4. ql[i] = [free |-> s, used |-> u]
  BY <1>1, <1>3
<1>5. ql = [j \in DOMAIN Pools |-> IF j = i THEN [free |-> s, used |-> u] ELSE pl[j]]
  BY <1>2, <1>4
<1> QED
  BY <1>2, <1>4, <1>5 DEF EditedPool

\* pl when a slot of pool i is taken, and when p is given back to pool i.
OneTaken(pl, i) == [pl EXCEPT ![i].free = Tail(@), ![i].used = @ + 1]
OneBack(pl, i, p) == [pl EXCEPT ![i].free = <<p>> \o @, ![i].used = @ - 1]

LEMMA SlotTakenIs ==
  ASSUME NEW pl, Pooled(pl), NEW i \in DOMAIN Pools, pl[i].free # <<>>,
         NEW h, h = Head(pl[i].free),
         NEW ql, ql = OneTaken(pl, i)
  PROVE  /\ Pooled(ql) /\ SlotsOut(ql) = SlotsOut(pl) \cup {h}
         /\ h \in Slots(i) /\ h \notin SlotsOut(pl)
         /\ ql[i].used = pl[i].used + 1 /\ \A j \in DOMAIN Pools \ {i} : ql[j] = pl[j]
<1>1. /\ pl[i] \in [free : Seq(Nat), used : Int] /\ DOMAIN pl = DOMAIN Pools
      /\ Distinct(pl[i].free) /\ Idle(pl, i) \subseteq Slots(i)
  BY DEF Pooled
<1>2. /\ Tail(pl[i].free) \in Seq(Nat) /\ Distinct(Tail(pl[i].free))
      /\ h \in Idle(pl, i) /\ Listed(Tail(pl[i].free)) = Idle(pl, i) \ {h}
  BY <1>1, TailListed DEF Idle
<1>3. /\ ql \in [DOMAIN Pools -> [free : Seq(Nat), used : Int]]
      /\ ql[i].free = Tail(pl[i].free) /\ ql[i].used = pl[i].used + 1
      /\ \A j \in DOMAIN Pools \ {i} : ql[j] = pl[j]
  <2>1. /\ pl \in [DOMAIN Pools -> [free : Seq(Nat), used : Int]]
        /\ Tail(pl[i].free) \in Seq(Nat) /\ pl[i].used + 1 \in Int
    BY <1>1, <1>2 DEF Pooled
  <2>2. EditedPool(pl, i, Tail(pl[i].free), pl[i].used + 1, ql)
    BY <2>1, PoolEdited, Zenon DEF OneTaken
  <2> QED
    BY <2>2 DEF EditedPool
<1>4. /\ Idle(ql, i) = Idle(pl, i) \ {h}
      /\ \A j \in DOMAIN Pools \ {i} : Idle(ql, j) = Idle(pl, j)
  BY <1>2, <1>3 DEF Idle
<1>5. Pooled(ql)
  <2>1. ASSUME NEW j \in DOMAIN Pools
        PROVE  Idle(ql, j) \subseteq Slots(j) /\ Distinct(ql[j].free)
    <3>1. CASE j = i
      BY <1>1, <1>2, <1>3, <1>4, <3>1
    <3>2. CASE j # i
      BY <1>3, <1>4, <3>2 DEF Pooled
    <3> QED
      BY <3>1, <3>2
  <2> QED
    BY <1>3, <2>1 DEF Pooled
<1>6. h \in Slots(i) /\ h \in Nat
  BY <1>1, <1>2, SlotFacts
<1>7. \A j \in DOMAIN Pools : h \in Slots(j) => j = i
  BY <1>6, SlotIn
<1>8. h \notin SlotsOut(pl)
  BY <1>2, <1>7 DEF SlotsOut
<1>9. SlotsOut(ql) = SlotsOut(pl) \cup {h}
  BY <1>4, <1>6, <1>7 DEF SlotsOut
<1> QED
  BY <1>3, <1>5, <1>6, <1>8, <1>9

LEMMA SlotBackIs ==
  ASSUME NEW pl, Pooled(pl), NEW p \in SlotsOut(pl), NEW i, i = PoolOf(p),
         NEW ql, ql = OneBack(pl, i, p)
  PROVE  /\ Pooled(ql) /\ SlotsOut(ql) = SlotsOut(pl) \ {p}
         /\ ql[i].used = pl[i].used - 1 /\ \A j \in DOMAIN Pools \ {i} : ql[j] = pl[j]
<1>1. i \in DOMAIN Pools /\ p \in Slots(i) /\ p \notin Idle(pl, i) /\ p \in Nat
  BY SlotOut
<1>2. /\ pl[i] \in [free : Seq(Nat), used : Int] /\ DOMAIN pl = DOMAIN Pools
      /\ Distinct(pl[i].free) /\ Idle(pl, i) \subseteq Slots(i)
  BY <1>1 DEF Pooled
<1>3. /\ <<p>> \o pl[i].free \in Seq(Nat) /\ Distinct(<<p>> \o pl[i].free)
      /\ Listed(<<p>> \o pl[i].free) = Idle(pl, i) \cup {p}
  BY <1>1, <1>2, ConsListed DEF Idle
<1>4. /\ ql \in [DOMAIN Pools -> [free : Seq(Nat), used : Int]]
      /\ ql[i].free = <<p>> \o pl[i].free /\ ql[i].used = pl[i].used - 1
      /\ \A j \in DOMAIN Pools \ {i} : ql[j] = pl[j]
  <2>1. /\ pl \in [DOMAIN Pools -> [free : Seq(Nat), used : Int]]
        /\ <<p>> \o pl[i].free \in Seq(Nat) /\ pl[i].used - 1 \in Int
    BY <1>2, <1>3 DEF Pooled
  <2>2. EditedPool(pl, i, <<p>> \o pl[i].free, pl[i].used - 1, ql)
    BY <1>1, <2>1, PoolEdited, Zenon DEF OneBack
  <2> QED
    BY <2>2 DEF EditedPool
<1>5. /\ Idle(ql, i) = Idle(pl, i) \cup {p}
      /\ \A j \in DOMAIN Pools \ {i} : Idle(ql, j) = Idle(pl, j)
  BY <1>3, <1>4 DEF Idle
<1>6. Pooled(ql)
  <2>1. ASSUME NEW j \in DOMAIN Pools
        PROVE  Idle(ql, j) \subseteq Slots(j) /\ Distinct(ql[j].free)
    <3>1. CASE j = i
      BY <1>1, <1>2, <1>3, <1>4, <1>5, <3>1
    <3>2. CASE j # i
      BY <1>4, <1>5, <3>2 DEF Pooled
    <3> QED
      BY <3>1, <3>2
  <2> QED
    BY <1>4, <2>1 DEF Pooled
<1>7. \A j \in DOMAIN Pools : p \in Slots(j) => j = i
  BY <1>1, SlotIn
<1>8. SlotsOut(ql) = SlotsOut(pl) \ {p}
  BY <1>1, <1>5, <1>7 DEF SlotsOut
<1> QED
  BY <1>4, <1>6, <1>8

LEMMA ChangedOut ==
  ASSUME NEW f, Whole(f), NEW g, Whole(g), NEW p \in Nat, Changed(f, g, p - 1)
  PROVE  /\ BlocksOut(g) \ {p} = BlocksOut(f) \ {p}
         /\ \A x \in BlocksOut(f) \ {p} : SizeIn(g, x) = SizeIn(f, x)
<1>1. ASSUME NEW x \in BlocksOut(f), x # p
      PROVE  x \in BlocksOut(g) /\ SizeIn(g, x) = SizeIn(f, x)
  <2>1. x - 1 \in DOMAIN f \ {p - 1} /\ f[x - 1].used /\ x \in Nat
    BY <1>1 DEF BlocksOut
  <2>2. Kept(f, g, x - 1)
    BY <2>1 DEF Changed, Frame
  <2> QED
    BY <2>1, <2>2 DEF Kept, BlocksOut, SizeIn
<1>2. ASSUME NEW x \in BlocksOut(g), x # p
      PROVE  x \in BlocksOut(f)
  <2>1. x - 1 \in DOMAIN g \ {p - 1} /\ g[x - 1].used /\ x \in Nat
    BY <1>2 DEF BlocksOut
  <2> QED
    BY <2>1 DEF Changed, BlocksOut
<1> QED
  BY <1>1, <1>2

-----------------------------------------------------------------------------
\* What malloc(), free() and realloc() do to what is handed out.

HeapOK(f, pl) == Whole(f) /\ Pooled(pl)

\* From f and pl to g and ql: P is given back and Q handed out, and the rest
\* stays as it is.
Traded(f, pl, g, ql, P, Q) ==
  /\ HeapOK(g, ql)
  /\ Out(g, ql) = (Out(f, pl) \ P) \cup Q
  /\ \A x \in Out(f, pl) \ P : SizeIn(g, x) = SizeIn(f, x)

LEMMA SameSizes ==
  ASSUME NEW f, NEW g, NEW pl, NEW p \in Nat,
         \A x \in BlocksOut(f) \ {p} : SizeIn(g, x) = SizeIn(f, x)
  PROVE  \A x \in Out(f, pl) \ {p} : SizeIn(g, x) = SizeIn(f, x)
<1>1. \A x \in SlotsOut(pl) : SizeIn(g, x) = SizeIn(f, x)
  BY SlotOut
<1> QED
  BY <1>1 DEF Out

LEMMA ThePoolIs ==
  ASSUME NEW z, FromPool(z)
  PROVE  ThePool(z) \in DOMAIN Pools /\ Pools[ThePool(z)].size = z /\ pool[ThePool(z)].free # <<>>
<1>1. PoolsFor(z) \in SUBSET Nat
  BY PoolTypes DEF PoolsFor
<1>2. \E i \in PoolsFor(z) : \A j \in PoolsFor(z) : i <= j
  BY <1>1, LeastNatural DEF FromPool
<1>3. ThePool(z) \in PoolsFor(z)
  BY <1>2 DEF ThePool
<1> QED
  BY <1>3 DEF PoolsFor

LEMMA Placed ==
  ASSUME HeapOK(blk, pool), NEW z \in Nat \ {0}, CanPlace(z), NEW p, p = Place(z),
         NEW g, g = IF FromPool(z) THEN blk ELSE Taken(blk, FirstFit(blk, z), z),
         NEW ql, ql = SlotTaken(pool, z)
  PROVE  /\ Traded(blk, pool, g, ql, {}, {p})
         /\ p \notin Out(blk, pool) /\ p \in Nat
         /\ SizeIn(g, p) \in Nat /\ SizeIn(g, p) >= z
         /\ FromPool(z) => Small(p) /\ SizeIn(g, p) = z
         /\ ~ FromPool(z) => /\ p - 1 \in Fits(blk, z) /\ p - 1 = FirstFit(blk, z)
                             /\ ~ Small(p) /\ SizeIn(g, p) = g[p - 1].size
<1>1. CASE FromPool(z)
  <2> DEFINE i == ThePool(z)
  <2>1. i \in DOMAIN Pools /\ Pools[i].size = z /\ pool[i].free # <<>>
    BY <1>1, ThePoolIs
  <2>2. p = Head(pool[i].free) /\ g = blk
    BY <1>1 DEF Place
  <2>3. ql = OneTaken(pool, i)
    BY <1>1 DEF SlotTaken, OneTaken
  <2>. HIDE DEF i
  <2>4. /\ Pooled(ql) /\ SlotsOut(ql) = SlotsOut(pool) \cup {p}
        /\ p \in Slots(i) /\ p \notin SlotsOut(pool)
    BY <2>1, <2>2, <2>3, SlotTakenIs DEF HeapOK
  <2>5. Small(p) /\ PoolOf(p) = i /\ p \in Nat /\ p < HeapStart /\ SizeIn(g, p) = z
    <3>1. Small(p) /\ PoolOf(p) = i /\ p \in Nat /\ p + Pools[i].size <= PoolTop(Pools[i])
      BY <2>1, <2>4, SlotIn, SlotFacts
    <3>2. PoolTop(Pools[i]) <= HeapStart /\ PoolTop(Pools[i]) \in Nat /\ HeapStart \in Nat
      BY <2>1, PoolsBelow, PoolTypes, BlocksAssumption
    <3> QED
      BY <2>1, <3>1, <3>2 DEF SizeIn
  <2>6. p \notin BlocksOut(blk)
    BY <2>5, BlockOut DEF HeapOK
  <2>7. Traded(blk, pool, g, ql, {}, {p})
    BY <2>2, <2>4 DEF Traded, HeapOK, Out
  <2> QED
    BY <1>1, <2>4, <2>5, <2>6, <2>7 DEF Out
<1>2. CASE ~ FromPool(z)
  <2> DEFINE b == FirstFit(blk, z)
  <2>1. b \in Fits(blk, z)
    BY <1>2, FirstFitFits DEF CanPlace, HeapOK
  <2>2. p = b + 1 /\ g = Taken(blk, b, z) /\ ql = pool
    BY <1>2 DEF Place, SlotTaken
  <2>3. b \in DOMAIN blk /\ ~ blk[b].used /\ z <= blk[b].size /\ b \in Nat /\ b >= HeapStart
    BY <2>1, GoodFacts DEF Fits, HeapOK, Whole
  <2>4. b = FirstFit(blk, z)
    OBVIOUS
  <2>. HIDE DEF b
  <2>5. /\ Whole(g) /\ Changed(blk, g, b) /\ b \in DOMAIN g /\ g[b].used /\ g[b].size >= z
    BY <2>2, <2>3, TakenIs DEF HeapOK
  <2>6. p \in Nat /\ p - 1 = b /\ HeapStart \in Nat
    BY <2>2, <2>3, BlocksAssumption
  <2>7. p \in BlocksOut(g) /\ p \notin BlocksOut(blk)
    BY <2>3, <2>5, <2>6 DEF BlocksOut
  <2>8. ~ Small(p) /\ SizeIn(g, p) = g[b].size /\ SizeIn(g, p) \in Nat
    BY <2>5, <2>6, <2>7, BlockOut
  <2>9. p \notin SlotsOut(pool)
    BY <2>8, SlotOut
  <2>10. /\ BlocksOut(g) \ {p} = BlocksOut(blk) \ {p}
         /\ \A x \in BlocksOut(blk) \ {p} : SizeIn(g, x) = SizeIn(blk, x)
    BY <2>5, <2>6, ChangedOut DEF HeapOK
  <2>11. \A x \in Out(blk, pool) \ {p} : SizeIn(g, x) = SizeIn(blk, x)
    BY <2>6, <2>10, SameSizes
  <2>12. Out(g, pool) = Out(blk, pool) \cup {p}
    BY <2>7, <2>10 DEF Out
  <2>13. Traded(blk, pool, g, ql, {}, {p})
    BY <2>2, <2>5, <2>7, <2>9, <2>11, <2>12 DEF Traded, HeapOK, Out
  <2> QED
    BY <1>2, <2>1, <2>4, <2>5, <2>6, <2>7, <2>8, <2>9, <2>13 DEF Out
<1> QED
  BY <1>1, <1>2

LEMMA Returned ==
  ASSUME NEW f, NEW pl, HeapOK(f, pl), NEW p \in Out(f, pl),
         NEW g, g = IF Small(p) THEN f ELSE Freed(f, p - 1),
         NEW ql, ql = SlotReturned(pl, p)
  PROVE  Traded(f, pl, g, ql, {p}, {})
<1>1. CASE Small(p)
  <2>1. p \in SlotsOut(pl) /\ p \notin BlocksOut(f)
    BY <1>1, OutFacts DEF HeapOK
  <2>2. g = f /\ ql = OneBack(pl, PoolOf(p), p)
    BY <1>1 DEF SlotReturned, OneBack
  <2>3. Pooled(ql) /\ SlotsOut(ql) = SlotsOut(pl) \ {p}
    BY <2>1, <2>2, SlotBackIs DEF HeapOK
  <2> QED
    BY <2>1, <2>2, <2>3 DEF Traded, HeapOK, Out
<1>2. CASE ~ Small(p)
  <2>1. p \in BlocksOut(f) /\ p \notin SlotsOut(pl)
    BY <1>2, OutFacts DEF HeapOK
  <2>2. g = Freed(f, p - 1) /\ ql = pl
    BY <1>2 DEF SlotReturned
  <2>3. p - 1 \in DOMAIN f /\ p \in Nat
    BY <2>1, BlockOut DEF HeapOK
  <2>4. Whole(g) /\ Changed(f, g, p - 1) /\ (p - 1 \in DOMAIN g => ~ g[p - 1].used)
    BY <2>2, <2>3, FreedIs DEF HeapOK
  <2>5. p \notin BlocksOut(g)
    BY <2>4 DEF BlocksOut
  <2>6. /\ BlocksOut(g) \ {p} = BlocksOut(f) \ {p}
        /\ \A x \in BlocksOut(f) \ {p} : SizeIn(g, x) = SizeIn(f, x)
    BY <2>3, <2>4, ChangedOut DEF HeapOK
  <2>7. \A x \in Out(f, pl) \ {p} : SizeIn(g, x) = SizeIn(f, x)
    BY <2>3, <2>6, SameSizes
  <2>8. Out(g, ql) = Out(f, pl) \ {p}
    BY <2>1, <2>2, <2>5, <2>6 DEF Out
  <2> QED
    BY <2>2, <2>4, <2>7, <2>8 DEF Traded, HeapOK
<1> QED
  BY <1>1, <1>2

LEMMA Resized ==
  ASSUME NEW f, NEW pl, HeapOK(f, pl), NEW p \in Out(f, pl), ~ Small(p),
         NEW z \in Nat \ {0}, FitsInPlace(f, p - 1, z),
         NEW g, g = Split(Grown(f, p - 1, z), p - 1, z)
  PROVE  /\ Traded(f, pl, g, pl, {p}, {p})
         /\ SizeIn(g, p) \in Nat /\ SizeIn(g, p) >= z /\ SizeIn(g, p) = g[p - 1].size
<1>1. p \in BlocksOut(f) /\ p \notin SlotsOut(pl)
  BY OutFacts DEF HeapOK
<1>2. p - 1 \in DOMAIN f /\ f[p - 1].used /\ p \in Nat
  BY <1>1, BlockOut DEF HeapOK
<1>3. /\ Whole(g) /\ Changed(f, g, p - 1) /\ p - 1 \in DOMAIN g /\ g[p - 1].used
      /\ g[p - 1].size >= z
  BY <1>2, ResizedIs DEF HeapOK
<1>4. p \in BlocksOut(g)
  BY <1>2, <1>3 DEF BlocksOut
<1>5. SizeIn(g, p) = g[p - 1].size /\ SizeIn(g, p) \in Nat
  BY <1>3, <1>4, BlockOut
<1>6. /\ BlocksOut(g) \ {p} = BlocksOut(f) \ {p}
      /\ \A x \in BlocksOut(f) \ {p} : SizeIn(g, x) = SizeIn(f, x)
  BY <1>2, <1>3, ChangedOut DEF HeapOK
<1>7. \A x \in Out(f, pl) \ {p} : SizeIn(g, x) = SizeIn(f, x)
  BY <1>2, <1>6, SameSizes
<1>8. Out(g, pl) = (Out(f, pl) \ {p}) \cup {p}
  BY <1>1, <1>4, <1>6 DEF Out
<1> QED
  BY <1>3, <1>5, <1>7, <1>8 DEF Traded, HeapOK

-----------------------------------------------------------------------------
\* The calls of the program, once the requests that fail are put aside.

LEMMA Aligned ==
  ASSUME NEW n \in Nat, n > 0, ~ (n > SizeMax - 7)
  PROVE  Align(n) = Words(n) /\ Words(n) \in Nat \ {0}
<1>1. SizeMax \in Nat /\ n + 7 \in Nat /\ n + 7 < SizeMax + 1 /\ SizeMax + 1 \in Nat \ {0}
  BY HeapAssumption
<1>2. (n + 7) % (SizeMax + 1) = n + 7
  <2>1. PICK x \in Nat, m \in Nat \ {0} : x = n + 7 /\ m = SizeMax + 1
    BY <1>1
  <2>2. x < m
    BY <1>1, <2>1
  <2>3. -m <= x /\ x < 2 * m /\ x \in Int /\ ~ (x < 0)
    BY <2>2
  <2>4. x % m = x
    BY ONLY <2>2, <2>3, m \in Nat \ {0}, Wrap
  <2> QED
    BY <2>1, <2>4
<1>3. (n + 7) \div 8 \in Nat \ {0}
  OBVIOUS
<1> QED
  BY <1>2, <1>3 DEF Align, Words

LEMMA Multiplied ==
  ASSUME NEW n \in Nat \ {0}, NEW s \in Nat \ {0}, ~ (s > SizeMax \div n)
  PROVE  (n * s) % (SizeMax + 1) = n * s /\ n * s \in Nat \ {0}
<1> DEFINE q == SizeMax \div n
<1>1. SizeMax \in Nat
  BY HeapAssumption
<1>2. q \in Nat /\ SizeMax = q * n + (SizeMax % n) /\ SizeMax % n \in 0 .. n - 1
  BY <1>1
<1>3. s <= q
  BY <1>2
<1>. HIDE DEF q
<1>4. s * n \in Nat /\ q * n \in Nat /\ n * s = s * n
  BY <1>2, Times
<1>5. s * n <= q * n
  <2>1. CASE s = q
    BY <1>4, <2>1
  <2>2. CASE s < q
    <3>1. s * n + n <= q * n
      BY <1>2, <2>2, Times
    <3> QED
      BY <1>4, <3>1
  <2> QED
    BY <1>2, <1>3, <2>1, <2>2
<1>6. n * s > 0
  <2>1. 0 * n + n <= s * n
    BY Times
  <2> QED
    BY <1>4, <2>1
<1>7. n * s \in Nat /\ n * s < SizeMax + 1 /\ SizeMax + 1 \in Nat \ {0}
  BY <1>1, <1>2, <1>4, <1>5
<1>8. (n * s) % (SizeMax + 1) = n * s
  <2>1. PICK x \in Nat : x = n * s
    BY <1>7
  <2> QED
    BY ONLY <1>7, <2>1, Wrap
<1> QED
  BY <1>6, <1>7, <1>8

Got(c, z) == c \notin DOMAIN live /\ Obtain(c, z, z)
Stayed(c, z) == c \in DOMAIN live /\ CanStay(c, z) /\ StayInPlace(c, z, z)
Left(c, z) == c \in DOMAIN live /\ ~ CanStay(c, z) /\ MoveAway(c, z, z)

LEMMA MallocIs ==
  ASSUME NEW c \in Client, NEW n \in Nat, Malloc(c, n)
  PROVE  UNCHANGED vars \/ \E z \in Nat \ {0} : Got(c, z)
<1>1. /\ c \notin DOMAIN live /\ n > 0
      /\ IF n > SizeMax - 7 \/ ~ CanPlace(Align(n)) THEN Fail
         ELSE Obtain(c, Align(n), Words(n))
  BY Zenon DEF Malloc
<1>2. CASE n > SizeMax - 7 \/ ~ CanPlace(Align(n))
  BY <1>1, <1>2, Zenon DEF Fail
<1>3. CASE ~ (n > SizeMax - 7 \/ ~ CanPlace(Align(n)))
  <2>1. Align(n) = Words(n) /\ Words(n) \in Nat \ {0}
    BY <1>1, <1>3, Aligned
  <2>2. Obtain(c, Words(n), Words(n))
    BY <1>1, <1>3, <2>1, Zenon
  <2> QED
    BY <1>1, <2>1, <2>2, Zenon DEF Got
<1> QED
  BY <1>2, <1>3

LEMMA CallocIs ==
  ASSUME NEW c \in Client, NEW n \in Nat, NEW s \in Nat, Calloc(c, n, s)
  PROVE  UNCHANGED vars \/ \E z \in Nat \ {0} : Got(c, z)
<1> DEFINE z == (n * s) % (SizeMax + 1)
           Bad == s > SizeMax \div n \/ z > SizeMax - 7 \/ ~ CanPlace(Align(z))
<1>1. /\ c \notin DOMAIN live /\ n > 0 /\ s > 0
      /\ IF Bad THEN Fail ELSE Obtain(c, Align(z), Words(n * s))
  BY Zenon DEF Calloc
<1>2. CASE Bad
  BY <1>1, <1>2, Zenon DEF Fail
<1>3. CASE ~ Bad
  <2>1. z = n * s /\ n * s \in Nat \ {0}
    BY <1>1, <1>3, Multiplied
  <2>2. ~ (z > SizeMax - 7)
    BY <1>3
  <2>. HIDE DEF z
  <2>3. Align(z) = Words(z) /\ Words(z) \in Nat \ {0}
    BY <2>1, <2>2, Aligned
  <2>4. Obtain(c, Words(z), Words(z))
    BY <1>1, <1>3, <2>1, <2>3, Zenon
  <2> QED
    BY <1>1, <2>3, <2>4, Zenon DEF Got
<1> QED
  BY <1>2, <1>3

LEMMA ReallocIs ==
  ASSUME NEW c \in Client, NEW n \in Nat, Realloc(c, n)
  PROVE  \/ UNCHANGED vars
         \/ \E z \in Nat \ {0} : Got(c, z) \/ Stayed(c, z) \/ Left(c, z)
<1> DEFINE z == Align(n)
<1>1. /\ n > 0
      /\ \/ Malloc(c, n)
         \/ /\ c \in DOMAIN live
            /\ IF n > SizeMax - 7 THEN Fail
               ELSE IF CanStay(c, z) THEN StayInPlace(c, z, Words(n))
               ELSE IF CanPlace(z) THEN MoveAway(c, z, Words(n))
               ELSE Fail
  BY Zenon DEF Realloc
<1>2. CASE Malloc(c, n)
  BY <1>2, MallocIs, Zenon
<1>3. CASE ~ Malloc(c, n)
  <2>1. CASE n > SizeMax - 7
    BY <1>1, <1>3, <2>1, Zenon DEF Fail
  <2>2. CASE ~ (n > SizeMax - 7)
    <3>1. z = Words(n) /\ Words(n) \in Nat \ {0}
      BY <1>1, <2>2, Aligned
    <3>2. \/ UNCHANGED vars
          \/ Stayed(c, Words(n)) \/ Left(c, Words(n))
      BY <1>1, <1>3, <2>2, <3>1, Zenon DEF Fail, Stayed, Left
    <3> QED
      BY <3>1, <3>2, Zenon
  <2> QED
    BY <2>1, <2>2
<1> QED
  BY <1>2, <1>3

\* What a step is, whatever was asked.
LEMMA NextIs ==
  ASSUME [Next]_vars
  PROVE  \/ UNCHANGED vars
         \/ ResetPeak
         \/ \E c \in Client : \/ Free(c)
                              \/ \E z \in Nat \ {0} : Got(c, z) \/ Stayed(c, z) \/ Left(c, z)
<1>1. \A n \in Bytes : n \in Nat
  BY HeapAssumption
<1>2. \A a \in Arrays : a[1] \in Nat /\ a[2] \in Nat
  <2> SUFFICES ASSUME NEW a \in Arrays PROVE a[1] \in Nat /\ a[2] \in Nat
    OBVIOUS
  <2>1. a \in (1 .. SizeMax) \X (1 .. SizeMax)
    BY HeapAssumption
  <2> QED
    BY <2>1, HeapAssumption
<1>3. ASSUME NEW c \in Client, NEW n \in Bytes, Malloc(c, n) \/ Realloc(c, n)
      PROVE  UNCHANGED vars \/ \E z \in Nat \ {0} : Got(c, z) \/ Stayed(c, z) \/ Left(c, z)
  BY <1>1, <1>3, MallocIs, ReallocIs, Zenon
<1>4. ASSUME NEW c \in Client, NEW a \in Arrays, Calloc(c, a[1], a[2])
      PROVE  UNCHANGED vars \/ \E z \in Nat \ {0} : Got(c, z) \/ Stayed(c, z) \/ Left(c, z)
  BY <1>2, <1>4, CallocIs, Zenon
<1> QED
  BY <1>3, <1>4, Zenon DEF Next

-----------------------------------------------------------------------------
(***************************************************************************)
(* The inductive invariant: everything the program owns is handed out, is   *)
(* as large as it asked for and is owned once, and nothing is handed out    *)
(* that it does not own.                                                    *)
(***************************************************************************)
OwnInv ==
  /\ HeapOK(blk, pool)
  /\ DOMAIN live \subseteq Client
  /\ \A c \in DOMAIN live :
       /\ live[c] \in [p : Nat, n : Nat \ {0}]
       /\ live[c].p \in Out(blk, pool)
       /\ live[c].n <= SizeIn(blk, live[c].p)
  /\ \A c, d \in DOMAIN live : live[c].p = live[d].p => c = d
  /\ \A p \in Out(blk, pool) : \E c \in DOMAIN live : live[c].p = p

\* What the variable c owned before, and what the others own.
Old(c) == IF c \in DOMAIN live THEN {live[c].p} ELSE {}

LEMMA OldOut ==
  ASSUME OwnInv, NEW c
  PROVE  /\ Old(c) \subseteq Out(blk, pool)
         /\ \A d \in DOMAIN live \ {c} : live[d].p \in Out(blk, pool) \ Old(c)
         /\ \A p \in Out(blk, pool) \ Old(c) : \E d \in DOMAIN live \ {c} : live[d].p = p
BY DEF OwnInv, Old

\* c is given n words at q, and what it had goes.
Gives(c, q, n) ==
  /\ c \in Client
  /\ Traded(blk, pool, blk', pool', Old(c), {q})
  /\ q \in Nat /\ q \notin Out(blk, pool) \ Old(c)
  /\ n \in Nat \ {0} /\ n <= SizeIn(blk', q)
  /\ Owning(c, q, n)

LEMMA GivesKeeps ==
  ASSUME OwnInv, NEW c, NEW q, NEW n, Gives(c, q, n)
  PROVE  OwnInv'
<1>1. /\ DOMAIN live' = DOMAIN live \cup {c} /\ live'[c] = [p |-> q, n |-> n]
      /\ \A d \in DOMAIN live \ {c} : live'[d] = live[d]
  BY DEF Gives, Owning
<1>2. /\ HeapOK(blk', pool') /\ Out(blk', pool') = (Out(blk, pool) \ Old(c)) \cup {q}
      /\ \A x \in Out(blk, pool) \ Old(c) : SizeIn(blk', x) = SizeIn(blk, x)
      /\ q \in Nat /\ n \in Nat \ {0} /\ n <= SizeIn(blk', q) /\ c \in Client
      /\ q \notin Out(blk, pool) \ Old(c)
  BY DEF Gives, Traded
<1>3. ASSUME NEW d \in DOMAIN live'
      PROVE  /\ live'[d] \in [p : Nat, n : Nat \ {0}]
             /\ live'[d].p \in Out(blk', pool')
             /\ live'[d].n <= SizeIn(blk', live'[d].p)
             /\ d # c => live'[d].p \in Out(blk, pool) \ Old(c)
  <2>1. CASE d = c
    BY <1>1, <1>2, <2>1
  <2>2. CASE d # c
    <3>1. d \in DOMAIN live \ {c} /\ live'[d] = live[d]
      BY <1>1, <2>2
    <3>2. live[d].p \in Out(blk, pool) \ Old(c)
      BY <3>1, OldOut
    <3> QED
      BY <1>2, <3>1, <3>2 DEF OwnInv
  <2> QED
    BY <2>1, <2>2
<1>4. ASSUME NEW d \in DOMAIN live', NEW e \in DOMAIN live', live'[d].p = live'[e].p
      PROVE  d = e
  <2>1. CASE d = c \/ e = c
    BY <1>1, <1>2, <1>3, <1>4, <2>1
  <2>2. CASE d # c /\ e # c
    BY <1>1, <1>4, <2>2 DEF OwnInv
  <2> QED
    BY <2>1, <2>2
<1>5. ASSUME NEW x \in Out(blk', pool')
      PROVE  \E d \in DOMAIN live' : live'[d].p = x
  <2>1. CASE x = q
    BY <1>1, <2>1
  <2>2. CASE x # q
    <3>1. PICK d \in DOMAIN live \ {c} : live[d].p = x
      BY <1>2, <2>2, OldOut
    <3> QED
      BY <1>1, <3>1
  <2> QED
    BY <2>1, <2>2
<1>6. DOMAIN live' \subseteq Client
  BY <1>1, <1>2 DEF OwnInv
<1> QED
  BY <1>2, <1>3, <1>4, <1>5, <1>6 DEF OwnInv

\* c gives back what it has.
Drops(c) ==
  /\ c \in DOMAIN live
  /\ Traded(blk, pool, blk', pool', Old(c), {})
  /\ live' = [x \in DOMAIN live \ {c} |-> live[x]]

LEMMA DropsKeeps ==
  ASSUME OwnInv, NEW c, Drops(c)
  PROVE  OwnInv'
<1>1. DOMAIN live' = DOMAIN live \ {c} /\ \A d \in DOMAIN live' : live'[d] = live[d]
  BY DEF Drops
<1>2. /\ HeapOK(blk', pool') /\ Out(blk', pool') = Out(blk, pool) \ Old(c)
      /\ \A x \in Out(blk, pool) \ Old(c) : SizeIn(blk', x) = SizeIn(blk, x)
  BY DEF Drops, Traded
<1>3. ASSUME NEW d \in DOMAIN live'
      PROVE  /\ live'[d] \in [p : Nat, n : Nat \ {0}]
             /\ live'[d].p \in Out(blk', pool')
             /\ live'[d].n <= SizeIn(blk', live'[d].p)
  <2>1. live[d].p \in Out(blk, pool) \ Old(c)
    BY <1>1, OldOut
  <2> QED
    BY <1>1, <1>2, <2>1 DEF OwnInv
<1>4. \A x \in Out(blk', pool') : \E d \in DOMAIN live' : live'[d].p = x
  BY <1>1, <1>2, OldOut
<1>5. DOMAIN live' \subseteq Client /\ \A d, e \in DOMAIN live' : live'[d].p = live'[e].p => d = e
  BY <1>1 DEF OwnInv
<1> QED
  BY <1>2, <1>3, <1>4, <1>5 DEF OwnInv

-----------------------------------------------------------------------------
\* Each call is one of the two.

LEMMA SizeAtIs ==
  ASSUME NEW p
  PROVE  SizeAt(p) = SizeIn(blk, p) /\ SizeAt(p)' = SizeIn(blk', p)
BY DEF SizeAt, SizeIn, Small, PoolOf, InPool

LEMMA GotGives ==
  ASSUME OwnInv, NEW c \in Client, NEW z \in Nat \ {0}, Got(c, z)
  PROVE  /\ Gives(c, Place(z), z) /\ mem' = Filled(mem, Place(z), z, c)
         /\ Place(z) \notin Out(blk, pool) /\ Old(c) = {}
         /\ Small(Place(z)) <=> FromPool(z)
         /\ FromPool(z) => SizeIn(blk', Place(z)) = z /\ UNCHANGED blockVars
         /\ ~ FromPool(z) => SizeIn(blk', Place(z)) = blk'[Place(z) - 1].size /\ Allocate(z)
<1> DEFINE p == Place(z)
<1>1. /\ c \notin DOMAIN live /\ CanPlace(z)
      /\ IF FromPool(z) THEN UNCHANGED blockVars ELSE Allocate(z)
      /\ pool' = SlotTaken(pool, z) /\ Owning(c, p, z) /\ mem' = Filled(mem, p, z, c)
  BY Zenon DEF Got, Obtain
<1>2. blk' = IF FromPool(z) THEN blk ELSE Taken(blk, FirstFit(blk, z), z)
  <2>1. CASE FromPool(z)
    BY <1>1, <2>1 DEF blockVars
  <2>2. CASE ~ FromPool(z)
    BY <1>1, <2>2 DEF Allocate
  <2> QED
    BY <2>1, <2>2
<1>3. /\ Traded(blk, pool, blk', pool', {}, {p})
      /\ p \notin Out(blk, pool) /\ p \in Nat
      /\ SizeIn(blk', p) \in Nat /\ SizeIn(blk', p) >= z
      /\ FromPool(z) => Small(p) /\ SizeIn(blk', p) = z
      /\ ~ FromPool(z) => ~ Small(p) /\ SizeIn(blk', p) = blk'[p - 1].size
  <2>1. HeapOK(blk, pool)
    BY DEF OwnInv
  <2> QED
    BY ONLY <1>1, <1>2, <2>1, z \in Nat \ {0}, Placed
<1>4. Old(c) = {}
  BY <1>1 DEF Old
<1>. HIDE DEF p
<1>5. z <= SizeIn(blk', p)
  BY <1>3
<1>6. Gives(c, p, z)
  BY <1>1, <1>3, <1>4, <1>5 DEF Gives
<1>7. /\ FromPool(z) => UNCHANGED blockVars
      /\ ~ FromPool(z) => Allocate(z)
  BY <1>1, Zenon
<1>8. Small(p) <=> FromPool(z)
  BY <1>3, Zenon
<1> QED
  BY <1>1, <1>3, <1>4, <1>6, <1>7, <1>8 DEF p

LEMMA FreeDrops ==
  ASSUME OwnInv, NEW c \in Client, Free(c)
  PROVE  /\ Drops(c)
         /\ mem' = Filled(mem, live[c].p, SizeIn(blk, live[c].p), Junk)
         /\ Small(live[c].p) => UNCHANGED blockVars
         /\ ~ Small(live[c].p) => Release(live[c].p - 1)
<1> DEFINE p == live[c].p
<1>1. /\ c \in DOMAIN live
      /\ IF Small(p) THEN UNCHANGED blockVars ELSE Release(p - 1)
      /\ pool' = SlotReturned(pool, p)
      /\ mem' = Filled(mem, p, SizeAt(p), Junk)
      /\ live' = [x \in DOMAIN live \ {c} |-> live[x]]
  BY Zenon DEF Free
<1>2. blk' = IF Small(p) THEN blk ELSE Freed(blk, p - 1)
  <2>1. CASE Small(p)
    BY <1>1, <2>1 DEF blockVars
  <2>2. CASE ~ Small(p)
    BY <1>1, <2>2 DEF Release
  <2> QED
    BY <2>1, <2>2
<1>3. HeapOK(blk, pool) /\ p \in Out(blk, pool) /\ Old(c) = {p}
  BY <1>1 DEF OwnInv, Old
<1>4. Traded(blk, pool, blk', pool', {p}, {})
  BY ONLY <1>1, <1>2, <1>3, Returned
<1>5. SizeAt(p) = SizeIn(blk, p)
  BY SizeAtIs
<1>. HIDE DEF p
<1>6. Drops(c) /\ mem' = Filled(mem, p, SizeIn(blk, p), Junk)
  BY <1>1, <1>3, <1>4, <1>5 DEF Drops
<1> QED
  BY <1>1, <1>6, Zenon DEF p

\* What realloc() leaves where it is, and what of the old contents stays.
Stays(c, z, p, keep) ==
  /\ p = live[c].p /\ keep = Lesser(live[c].n, z)
  /\ Gives(c, p, z) /\ Old(c) = {p}
  /\ mem' = Filled(Filled(mem, p + keep, SizeIn(blk, p) - keep, Junk), p + keep, z - keep, c)

LEMMA StayedGives ==
  ASSUME OwnInv, NEW c \in Client, NEW z \in Nat \ {0}, Stayed(c, z)
  PROVE  /\ Stays(c, z, live[c].p, Lesser(live[c].n, z))
         /\ Small(live[c].p) => UNCHANGED <<heapVars, peakUsed, peakOccupied>>
         /\ ~ Small(live[c].p) => /\ Resize(live[c].p - 1, z)
                                  /\ SizeIn(blk', live[c].p) = blk'[live[c].p - 1].size
<1> DEFINE p == live[c].p
           keep == Lesser(live[c].n, z)
<1>1. /\ c \in DOMAIN live /\ CanStay(c, z)
      /\ Small(p) => /\ z <= SizeAt(p)
                     /\ UNCHANGED <<heapVars, peakUsed, peakOccupied>>
      /\ ~ Small(p) => Resize(p - 1, z) /\ UNCHANGED <<pool, smallUsed>>
      /\ mem' = Filled(Filled(mem, p + keep, SizeAt(p) - keep, Junk), p + keep, z - keep, c)
      /\ Owning(c, p, z)
  BY Zenon DEF Stayed, StayInPlace
<1>2. /\ HeapOK(blk, pool) /\ p \in Out(blk, pool) /\ Old(c) = {p}
      /\ p \in Nat /\ SizeAt(p) = SizeIn(blk, p)
  BY <1>1, SizeAtIs DEF OwnInv, Old
<1>3. /\ Traded(blk, pool, blk', pool', {p}, {p}) /\ z <= SizeIn(blk', p)
      /\ ~ Small(p) => SizeIn(blk', p) = blk'[p - 1].size
  <2>1. CASE Small(p)
    <3>1. blk' = blk /\ pool' = pool
      BY <1>1, <2>1 DEF heapVars, blockVars
    <3> QED
      BY <1>1, <1>2, <2>1, <3>1 DEF Traded
  <2>2. CASE ~ Small(p)
    <3>1. FitsInPlace(blk, p - 1, z) /\ blk' = Split(Grown(blk, p - 1, z), p - 1, z)
      BY <1>1, <2>2 DEF Resize
    <3>2. pool' = pool
      BY <1>1, <2>2
    <3>3. /\ Traded(blk, pool, blk', pool, {p}, {p})
          /\ SizeIn(blk', p) \in Nat /\ SizeIn(blk', p) >= z
          /\ SizeIn(blk', p) = blk'[p - 1].size
      BY ONLY <1>2, <2>2, <3>1, z \in Nat \ {0}, Resized
    <3> QED
      BY <3>2, <3>3
  <2> QED
    BY <2>1, <2>2
<1>. HIDE DEF p, keep
<1>4. Gives(c, p, z)
  BY <1>1, <1>2, <1>3 DEF Gives
<1>5. Stays(c, z, p, keep)
  BY <1>1, <1>2, <1>4 DEF Stays, p, keep
<1> QED
  BY <1>1, <1>3, <1>5, Zenon DEF p, keep

\* What realloc() moves from p to q.
Leaves(c, z, p, q, keep) ==
  /\ p = live[c].p /\ q = Place(z) /\ keep = live[c].n
  /\ Gives(c, q, z) /\ Old(c) = {p} /\ q \notin Out(blk, pool)
  /\ SizeIn(blk, p) < z /\ Extent(blk, p) \cap Extent(blk', q) = {}
  /\ mem' = Filled(Moved(mem, q, p, SizeIn(blk, p)), q + keep, z - keep, c)

LEMMA LeftGives ==
  ASSUME OwnInv, NEW c \in Client, NEW z \in Nat \ {0}, Left(c, z)
  PROVE  /\ Leaves(c, z, live[c].p, Place(z), live[c].n)
         /\ Small(Place(z)) <=> FromPool(z)
         /\ FromPool(z) => SizeIn(blk', Place(z)) = z
         /\ ~ FromPool(z) => SizeIn(blk', Place(z)) = blk'[Place(z) - 1].size
         /\ FromPool(z) /\ Small(live[c].p) => UNCHANGED blockVars
         /\ FromPool(z) /\ ~ Small(live[c].p) => Release(live[c].p - 1)
         /\ ~ FromPool(z) /\ Small(live[c].p) => Allocate(z)
         /\ ~ FromPool(z) /\ ~ Small(live[c].p) => Move(live[c].p - 1, z)
<1> DEFINE p == live[c].p
           q == Place(z)
           keep == Lesser(live[c].n, z)
           G == IF FromPool(z) THEN blk ELSE Taken(blk, FirstFit(blk, z), z)
           ql == SlotTaken(pool, z)
<1>1. /\ c \in DOMAIN live /\ ~ CanStay(c, z) /\ CanPlace(z)
      /\ IF FromPool(z)
         THEN IF Small(p) THEN UNCHANGED blockVars ELSE Release(p - 1)
         ELSE IF Small(p) THEN Allocate(z) ELSE Move(p - 1, z)
      /\ pool' = SlotReturned(SlotTaken(pool, z), p)
      /\ mem' = Filled(Moved(mem, q, p, SizeAt(p)), q + keep, z - keep, c)
      /\ Owning(c, q, z)
  BY Zenon DEF Left, MoveAway
<1>2. /\ HeapOK(blk, pool) /\ p \in Out(blk, pool) /\ Old(c) = {p}
      /\ p \in Nat /\ SizeAt(p) = SizeIn(blk, p) /\ live[c].n \in Nat
      /\ live[c].n <= SizeIn(blk, p)
  BY <1>1, SizeAtIs DEF OwnInv, Old
<1>3. SizeIn(blk, p) \in Nat /\ (Small(p) <=> p \in SlotsOut(pool))
      /\ (~ Small(p) <=> p \in BlocksOut(blk))
  BY <1>2, OutFacts DEF HeapOK
<1>4. SizeIn(blk, p) < z
  <2>1. CASE Small(p)
    BY <1>1, <1>2, <1>3, <2>1 DEF CanStay
  <2>2. CASE ~ Small(p)
    <3>1. SizeIn(blk, p) = blk[p - 1].size
      BY <2>2 DEF SizeIn
    <3>2. ~ (blk[p - 1].size >= z)
      BY <1>1, <2>2 DEF CanStay, FitsInPlace
    <3> QED
      BY <1>3, <3>1, <3>2
  <2> QED
    BY <2>1, <2>2
<1>5. keep = live[c].n
  BY <1>2, <1>3, <1>4 DEF Lesser
<1>6. blk' = IF Small(p) THEN G ELSE Freed(G, p - 1)
  <2>1. CASE FromPool(z)
    BY <1>1, <2>1 DEF blockVars, Release
  <2>2. CASE ~ FromPool(z)
    BY <1>1, <2>2 DEF Allocate, Move
  <2> QED
    BY <2>1, <2>2
<1>7. /\ Traded(blk, pool, G, ql, {}, {q})
      /\ q \notin Out(blk, pool) /\ q \in Nat
      /\ SizeIn(G, q) \in Nat /\ SizeIn(G, q) >= z
      /\ FromPool(z) => Small(q) /\ SizeIn(G, q) = z
      /\ ~ FromPool(z) => ~ Small(q)
  BY ONLY <1>1, <1>2, z \in Nat \ {0}, Placed
<1>8. pool' = SlotReturned(ql, p)
  BY <1>1
<1>. HIDE DEF q, p, G, ql, keep
<1>9. HeapOK(G, ql) /\ Out(G, ql) = Out(blk, pool) \cup {q} /\ p \in Out(G, ql) /\ q # p
      /\ \A x \in Out(blk, pool) : SizeIn(G, x) = SizeIn(blk, x)
  BY <1>2, <1>7 DEF Traded
<1>10. Traded(G, ql, blk', pool', {p}, {})
  BY ONLY <1>6, <1>8, <1>9, Returned
<1>11. Traded(blk, pool, blk', pool', {p}, {q})
  BY <1>7, <1>9, <1>10 DEF Traded
<1>12. SizeIn(blk', q) = SizeIn(G, q)
  BY <1>9, <1>10 DEF Traded
<1>13. z <= SizeIn(blk', q)
  BY <1>7, <1>12
<1>14. Gives(c, q, z)
  BY <1>1, <1>2, <1>7, <1>11, <1>13 DEF Gives
<1>15. Leaves(c, z, p, q, live[c].n)
  <2>1. q \in Out(G, ql) /\ Whole(G)
    BY <1>9 DEF HeapOK
  <2>2. Extent(G, p) \cap Extent(G, q) = {}
    BY <1>9, <2>1, ExtentsApart
  <2>3. Extent(blk, p) \cap Extent(blk', q) = {}
    BY <1>2, <1>9, <1>12, <2>2 DEF Extent
  <2> QED
    BY <1>1, <1>2, <1>4, <1>5, <1>7, <1>14, <2>3 DEF Leaves, p, q
<1>16. /\ FromPool(z) => SizeIn(blk', q) = z
       /\ ~ FromPool(z) => SizeIn(blk', q) = blk'[q - 1].size
  BY <1>7, <1>12 DEF SizeIn
<1>17. Small(q) <=> FromPool(z)
  BY <1>7, Zenon
<1> QED
  BY <1>1, <1>15, <1>16, <1>17, Zenon DEF p, q

-----------------------------------------------------------------------------
\* The program owns what is handed out, from the start and after each call.

LEMMA InitOwns == Init => OwnInv
<1> SUFFICES ASSUME Init PROVE OwnInv
  OBVIOUS
<1>1. Whole(blk) /\ BlocksInit
  BY InitWhole DEF Init
<1>2. BlocksOut(blk) = {}
  BY DEF Init, BlocksInit, BlocksOut
<1>3. ASSUME NEW i \in DOMAIN Pools
      PROVE  /\ pool[i] \in [free : Seq(Nat), used : Int]
             /\ Idle(pool, i) = Slots(i) /\ Distinct(pool[i].free)
  <2> DEFINE n == Pools[i].n
             z == Pools[i].size
             b == Pools[i].base
             free == [j \in 1 .. n |-> b + (n - j) * z]
  <2>1. n \in Nat \ {0} /\ z \in Nat \ {0} /\ b \in Nat
    BY PoolTypes
  <2>2. pool[i] = [free |-> free, used |-> 0]
    BY DEF Init
  <2>3. Slots(i) = {b + j * z : j \in 0 .. n - 1}
    BY DEF Slots
  <2>. HIDE DEF n, z, b
  <2>4. \A j \in 1 .. n : n - j \in Nat /\ (n - j) * z \in Nat /\ b + (n - j) * z \in Nat
    BY <2>1, Times
  <2>5. free \in Seq(Nat)
    BY <2>1, <2>4
  <2>6. ASSUME NEW j \in 1 .. n, NEW k \in 1 .. n, free[j] = free[k]
        PROVE  j = k
    <3>1. (n - j) * z = (n - k) * z /\ n - j \in Nat /\ n - k \in Nat
      BY <2>1, <2>4, <2>6
    <3>2. /\ n - j < n - k => (n - j) * z + z <= (n - k) * z
          /\ n - k < n - j => (n - k) * z + z <= (n - j) * z
      BY <2>1, <3>1, Times
    <3>3. ~ (n - j < n - k) /\ ~ (n - k < n - j)
      BY <2>1, <2>4, <3>1, <3>2
    <3> QED
      BY <2>1, <3>1, <3>3
  <2>7. Listed(free) = Slots(i)
    <3>1. ASSUME NEW j \in 1 .. n PROVE free[j] \in Slots(i)
      BY <2>1, <2>3
    <3>2. ASSUME NEW s \in Slots(i) PROVE \E j \in 1 .. n : free[j] = s
      <4>1. PICK k \in 0 .. n - 1 : s = b + k * z
        BY <2>3
      <4>2. n - k \in 1 .. n /\ n - (n - k) = k
        BY <2>1, <4>1
      <4> QED
        BY <4>1, <4>2
    <3> QED
      BY <3>1, <3>2 DEF Listed
  <2> QED
    BY <2>2, <2>5, <2>6, <2>7 DEF Idle, Distinct
<1>4. Pooled(pool)
  <2>1. pool = [i \in DOMAIN Pools |-> pool[i]]
    BY DEF Init
  <2> QED
    BY <1>3, <2>1 DEF Pooled
<1>5. SlotsOut(pool) = {}
  BY <1>3 DEF SlotsOut
<1>6. DOMAIN live = {}
  BY DEF Init
<1> QED
  BY <1>1, <1>2, <1>4, <1>5, <1>6 DEF OwnInv, HeapOK, Out

LEMMA OwnStep == OwnInv /\ [Next]_vars => OwnInv'
<1> SUFFICES ASSUME OwnInv, [Next]_vars PROVE OwnInv'
  OBVIOUS
<1>1. CASE UNCHANGED vars \/ ResetPeak
  <2>1. blk' = blk /\ pool' = pool /\ live' = live
    BY <1>1 DEF vars, ResetPeak, heapVars, blockVars
  <2> QED
    BY <2>1 DEF OwnInv
<1>2. ASSUME NEW c \in Client, Free(c) PROVE OwnInv'
  BY <1>2, FreeDrops, DropsKeeps
<1>3. ASSUME NEW c \in Client, NEW z \in Nat \ {0}, Got(c, z) PROVE OwnInv'
  <2>1. Gives(c, Place(z), z)
    BY <1>3, GotGives
  <2> QED
    BY <2>1, GivesKeeps
<1>4. ASSUME NEW c \in Client, NEW z \in Nat \ {0}, Stayed(c, z) PROVE OwnInv'
  <2>1. Gives(c, live[c].p, z)
    BY <1>4, StayedGives DEF Stays
  <2> QED
    BY <2>1, GivesKeeps
<1>5. ASSUME NEW c \in Client, NEW z \in Nat \ {0}, Left(c, z) PROVE OwnInv'
  <2>1. Gives(c, Place(z), z)
    BY <1>5, LeftGives DEF Leaves
  <2> QED
    BY <2>1, GivesKeeps
<1> QED
  BY <1>1, <1>2, <1>3, <1>4, <1>5, NextIs, Zenon

(***************************************************************************)
(* What the program owns and what the heap has handed out are the same, one *)
(* to one, after every sequence of calls: nothing is given twice, nothing   *)
(* that was given is on a free list or in a free block, and nothing leaks.  *)
(***************************************************************************)
THEOREM HeapOwns == Spec => []OwnInv
BY InitOwns, OwnStep, PTL DEF Spec

-----------------------------------------------------------------------------
\* Blocks in Heap.

LEMMA WithinCapacity ==
  ASSUME NEW f, Whole(f), NEW b \in DOMAIN f, NEW z \in Nat \ {0}, z <= f[b].size
  PROVE  z \in 1 .. Capacity
<1>1. /\ b \in Nat /\ b >= HeapStart /\ f[b].size \in Nat /\ HeapStart \in Nat
      /\ b + 1 + f[b].size <= HeapEnd
  BY GoodFacts DEF Whole
<1> QED
  BY <1>1, BlocksAssumption DEF HeapEnd

LEMMA AllocateFits ==
  ASSUME Whole(blk), NEW z \in Nat \ {0}, Fits(blk, z) # {}
  PROVE  z \in 1 .. Capacity
<1>1. PICK b \in DOMAIN blk : blk[b].size >= z
  BY DEF Fits
<1>2. blk[b].size \in Nat
  BY GoodFacts DEF Whole
<1>3. z <= blk[b].size
  BY <1>1, <1>2
<1> QED
  BY <1>3, WithinCapacity

LEMMA InPlaceFits ==
  ASSUME Whole(blk), NEW b \in InUse, NEW z \in Nat \ {0}, FitsInPlace(blk, b, z)
  PROVE  z \in 1 .. Capacity
<1>1. b \in DOMAIN blk /\ blk[b].used
  BY DEF InUse
<1>2. /\ Whole(Split(Grown(blk, b, z), b, z)) /\ b \in DOMAIN Split(Grown(blk, b, z), b, z)
      /\ Split(Grown(blk, b, z), b, z)[b].size >= z
  BY <1>1, ResizedIs
<1> DEFINE h == Split(Grown(blk, b, z), b, z)
<1>. HIDE DEF h
<1>3. Whole(h) /\ b \in DOMAIN h /\ h[b].size >= z
  BY <1>2 DEF h
<1>4. h[b].size \in Nat
  BY <1>3, GoodFacts DEF Whole
<1>5. z <= h[b].size
  BY <1>3, <1>4
<1> QED
  BY <1>3, <1>5, WithinCapacity

LEMMA OwnedInUse ==
  ASSUME OwnInv, NEW c \in DOMAIN live, ~ Small(live[c].p)
  PROVE  live[c].p - 1 \in InUse
<1>1. live[c].p \in BlocksOut(blk)
  BY OutFacts DEF OwnInv, HeapOK
<1> QED
  BY <1>1 DEF BlocksOut, InUse

LEMMA BlocksStep == OwnInv /\ [Next]_vars => [BlocksNext]_blockVars
<1> SUFFICES ASSUME OwnInv, [Next]_vars PROVE [BlocksNext]_blockVars
  OBVIOUS
<1>1. Whole(blk)
  BY DEF OwnInv, HeapOK
<1>2. ASSUME NEW z \in Nat \ {0}, Allocate(z) PROVE BlocksNext
  <2>1. z \in 1 .. Capacity
    BY <1>1, <1>2, AllocateFits DEF Allocate
  <2> QED
    BY <1>2, <2>1, Zenon DEF BlocksNext
<1>3. ASSUME NEW c \in DOMAIN live, ~ Small(live[c].p), Release(live[c].p - 1)
      PROVE  BlocksNext
  BY <1>3, OwnedInUse, Zenon DEF BlocksNext
<1>4. CASE UNCHANGED vars \/ ResetPeak
  BY <1>4 DEF vars, ResetPeak, heapVars
<1>5. ASSUME NEW c \in Client, Free(c) PROVE [BlocksNext]_blockVars
  <2>1. c \in DOMAIN live
    BY <1>5 DEF Free
  <2> QED
    BY <1>3, <1>5, <2>1, FreeDrops
<1>6. ASSUME NEW c \in Client, NEW z \in Nat \ {0}, Got(c, z)
      PROVE  [BlocksNext]_blockVars
  BY <1>2, <1>6, GotGives
<1>7. ASSUME NEW c \in Client, NEW z \in Nat \ {0}, Stayed(c, z)
      PROVE  [BlocksNext]_blockVars
  <2>1. c \in DOMAIN live
    BY <1>7 DEF Stayed
  <2>2. CASE Small(live[c].p)
    BY <1>7, <2>2, StayedGives DEF heapVars
  <2>3. CASE ~ Small(live[c].p)
    <3>1. Resize(live[c].p - 1, z)
      BY <1>7, <2>3, StayedGives
    <3>2. live[c].p - 1 \in InUse
      BY <2>1, <2>3, OwnedInUse
    <3>3. z \in 1 .. Capacity
      BY <1>1, <3>1, <3>2, InPlaceFits DEF Resize
    <3> QED
      BY <3>1, <3>2, <3>3, Zenon DEF BlocksNext
  <2> QED
    BY <2>2, <2>3
<1>8. ASSUME NEW c \in Client, NEW z \in Nat \ {0}, Left(c, z)
      PROVE  [BlocksNext]_blockVars
  <2>1. c \in DOMAIN live
    BY <1>8 DEF Left
  <2>2. CASE FromPool(z)
    BY <1>3, <1>8, <2>1, <2>2, LeftGives
  <2>3. CASE ~ FromPool(z) /\ Small(live[c].p)
    BY <1>2, <1>8, <2>3, LeftGives
  <2>4. CASE ~ FromPool(z) /\ ~ Small(live[c].p)
    <3>1. Move(live[c].p - 1, z)
      BY <1>8, <2>4, LeftGives
    <3>2. live[c].p - 1 \in InUse
      BY <2>1, <2>4, OwnedInUse
    <3>3. z \in 1 .. Capacity
      BY <1>1, <3>1, AllocateFits DEF Move
    <3> QED
      BY <3>1, <3>2, <3>3, Zenon DEF BlocksNext
  <2> QED
    BY <2>2, <2>3, <2>4
<1> QED
  BY <1>4, <1>5, <1>6, <1>7, <1>8, NextIs, Zenon

(***************************************************************************)
(* The calls touch the blocks only as Blocks says: no request, and no       *)
(* mixture of pools and blocks, does anything else to them.                 *)
(***************************************************************************)
THEOREM HeapUsesBlocks == Spec => UsesBlocks
<1>1. Init => BlocksInit
  BY DEF Init
<1> QED
  BY <1>1, HeapOwns, BlocksStep, PTL DEF Spec, UsesBlocks, BlocksSpec

(***************************************************************************)
(* So the heap keeps its structure under malloc(), calloc(), realloc() and  *)
(* free() of a program, with pools or without.                              *)
(***************************************************************************)
THEOREM HeapWellFormed == Spec => []WellFormed
BY HeapUsesBlocks, BlocksWellFormed, PTL DEF UsesBlocks

(***************************************************************************)
(* And no call moves, resizes or frees the block of another variable.       *)
(***************************************************************************)
THEOREM HeapOthersKept == Spec => OthersKept
BY HeapUsesBlocks, BlocksOthersKept, PTL DEF UsesBlocks

-----------------------------------------------------------------------------
\* Every word of the heap is in some block.
LEMMA BlockAround ==
  ASSUME NEW f, Whole(f), NEW w \in HeapStart .. HeapEnd - 1
  PROVE  \E b \in DOMAIN f : b <= w /\ w < NextOf(f, b)
<1> DEFINE S == {w - a : a \in {b \in DOMAIN f : b <= w}}
<1>1. w \in Nat /\ HeapStart \in DOMAIN f /\ HeapStart <= w /\ HeapEnd \in Nat /\ w < HeapEnd
  BY GoodFacts DEF Whole
<1>2. S \in SUBSET Nat /\ S # {}
  <2>1. ASSUME NEW a \in DOMAIN f, a <= w PROVE w - a \in Nat
    <3>1. a \in Nat
      BY GoodFacts DEF Whole
    <3> QED
      BY <1>1, <2>1, <3>1
  <2>2. w - HeapStart \in S
    BY <1>1
  <2> QED
    BY <2>1, <2>2
<1>3. PICK m \in S : \A c \in S : m <= c
  <2>. HIDE DEF S
  <2> QED
    BY <1>2, LeastNatural
<1>4. PICK b \in DOMAIN f : b <= w /\ m = w - b
  OBVIOUS
<1>5. b \in Nat /\ NextOf(f, b) \in Nat /\ NextOf(f, b) > b
      /\ (NextOf(f, b) # HeapEnd => NextOf(f, b) \in DOMAIN f)
  BY GoodFacts DEF Whole
<1>6. w < NextOf(f, b)
  <2> SUFFICES ASSUME NextOf(f, b) <= w PROVE FALSE
    BY <1>1, <1>5
  <2>1. w - NextOf(f, b) \in S
    BY <1>1, <1>5
  <2>2. m <= w - NextOf(f, b)
    BY <1>3, <2>1
  <2> QED
    BY <1>1, <1>4, <1>5, <2>2
<1> QED
  BY <1>4, <1>6

LEMMA CoveredBlock ==
  ASSUME OwnInv, NEW b \in DOMAIN blk, blk[b].used, NEW w \in Nat, b <= w, w < NextOf(blk, b)
  PROVE  w \in Covered
<1>1. b \in Nat /\ NextOf(blk, b) = b + 1 + blk[b].size /\ blk[b].size \in Nat
  BY GoodFacts DEF OwnInv, HeapOK, Whole
<1>2. PICK p \in Nat : p = b + 1
  BY <1>1
<1>3. p - 1 = b
  BY <1>1, <1>2
<1>4. p \in BlocksOut(blk)
  BY <1>2, <1>3 DEF BlocksOut
<1>5. PICK c \in DOMAIN live : live[c].p = p
  BY <1>4 DEF OwnInv, Out
<1>6. ~ Small(p) /\ SizeAt(p) = blk[b].size
  BY <1>3, <1>4, SizeAtIs, BlockOut DEF OwnInv, HeapOK
<1>7. w \in p - 1 .. p + SizeAt(p) - 1
  BY <1>1, <1>2, <1>6
<1> QED
  BY <1>5, <1>6, <1>7 DEF Covered

LEMMA OwnServes == OwnInv => ServesWhatFits
<1> SUFFICES ASSUME OwnInv, NEW z \in 1 .. Capacity - 1, NEW w \in HeapStart .. HeapEnd - 1 - z,
                    (w .. w + z) \cap Covered = {}
             PROVE  Fits(blk, z) # {}
  BY DEF ServesWhatFits
<1>1. Whole(blk) /\ HeapEnd \in Nat /\ HeapStart \in Nat /\ w \in Nat /\ z \in Nat
  BY BlocksAssumption DEF OwnInv, HeapOK, HeapEnd
<1>2. w \in HeapStart .. HeapEnd - 1 /\ w + z < HeapEnd
  BY <1>1
<1>3. PICK b \in DOMAIN blk : b <= w /\ w < NextOf(blk, b)
  BY <1>1, <1>2, BlockAround
<1> DEFINE e == NextOf(blk, b)
<1>4. /\ b \in Nat /\ e = b + 1 + blk[b].size /\ e \in Nat /\ blk[b].size \in Nat
      /\ e # HeapEnd => e \in DOMAIN blk
  BY <1>1, GoodFacts DEF Whole
<1>. HIDE DEF e
<1>5. ~ blk[b].used
  <2> SUFFICES ASSUME blk[b].used PROVE FALSE
    OBVIOUS
  <2>1. w \in Covered
    BY <1>1, <1>3, CoveredBlock
  <2> QED
    BY <1>1, <2>1
<1>6. w + z < e
  <2> SUFFICES ASSUME e <= w + z PROVE FALSE
    BY <1>1, <1>4
  <2>1. e # HeapEnd /\ e \in DOMAIN blk
    BY <1>1, <1>2, <1>4
  <2>2. blk[e].used
    BY <1>1, <1>5, <2>1 DEF Whole, Apart, e
  <2>3. e < NextOf(blk, e)
    BY <1>1, <2>1, GoodFacts DEF Whole
  <2>4. e \in Covered
    BY <1>4, <2>1, <2>2, <2>3, CoveredBlock
  <2>5. e \in w .. w + z
    BY <1>1, <1>3, <1>4 DEF e
  <2> QED
    BY <2>4, <2>5
<1>7. blk[b].size >= z
  BY <1>1, <1>3, <1>4, <1>6
<1> QED
  BY <1>5, <1>7 DEF Fits

(***************************************************************************)
(* Free memory is never lost: a request fails only when no run of words     *)
(* between what the program owns is large enough for it and a header.       *)
(***************************************************************************)
THEOREM HeapServesWhatFits == Spec => []ServesWhatFits
BY HeapOwns, OwnServes, PTL

-----------------------------------------------------------------------------
\* The counters.

\* What an address counts for in the words in use of the blocks and the pools.
Big(f, p) == IF Small(p) THEN 0 ELSE SizeIn(f, p)
Little(f, p) == IF Small(p) THEN SizeIn(f, p) ELSE 0

LEMMA CountTypes ==
  ASSUME NEW f, Whole(f), NEW pl, NEW p \in Out(f, pl)
  PROVE  /\ Big(f, p) \in Nat /\ Little(f, p) \in Nat
         /\ Big(f, p) + Little(f, p) = SizeIn(f, p)
BY OutFacts DEF Big, Little

LEMMA JoinCounts ==
  ASSUME NEW f, NEW b
  PROVE  JoinCount(f, b) \in Int /\ JoinCount(f, b) <= 0
BY DEF JoinCount

LEMMA Counts ==
  ASSUME NEW f, NEW b, NEW n
  PROVE  /\ SplitCount(f, b, n) \in Int
         /\ FreedCount(f, b) \in Int /\ FreedCount(f, b) <= 0
<1>1. SplitCount(f, b, n) \in Int
  BY JoinCounts DEF SplitCount
<1> DEFINE g == Join(Mark(f, b, FALSE), b)
           x == JoinCount(Mark(f, b, FALSE), b)
           y == IF JoinLeft(g, b) THEN JoinCount(g, b - g[b].prev) ELSE 0
<1>2. x \in Int /\ x <= 0
  BY JoinCounts
<1>3. y \in Int /\ y <= 0
  <2>1. \A a : JoinCount(g, a) \in Int /\ JoinCount(g, a) <= 0
    BY JoinCounts
  <2>. HIDE DEF g, x
  <2>2. CASE JoinLeft(g, b)
    <3>1. y = JoinCount(g, b - g[b].prev)
      BY <2>2
    <3>. HIDE DEF y
    <3> QED
      BY <2>1, <3>1
  <2>3. CASE ~ JoinLeft(g, b)
    BY <2>3
  <2> QED
    BY <2>2, <2>3
<1>4. FreedCount(f, b) = x + y
  BY DEF FreedCount
<1>. HIDE DEF x, y
<1> QED
  BY <1>1, <1>2, <1>3, <1>4

LEMMA GotCounts ==
  ASSUME OwnInv, NEW c \in Client, NEW z \in Nat \ {0}, Got(c, z),
         used \in Int, smallUsed \in Int
  PROVE  /\ used' = used + Big(blk', Place(z))
         /\ smallUsed' = smallUsed + Little(blk', Place(z))
<1>1. smallUsed' = smallUsed + (IF FromPool(z) THEN z ELSE 0)
  BY DEF Got, Obtain
<1>2. CASE FromPool(z)
  <2>1. used' = used /\ Small(Place(z)) /\ SizeIn(blk', Place(z)) = z
    BY <1>2, GotGives DEF blockVars
  <2> QED
    BY <1>1, <1>2, <2>1 DEF Big, Little
<1>3. CASE ~ FromPool(z)
  <2>1. /\ Allocate(z) /\ ~ Small(Place(z)) /\ SizeIn(blk', Place(z)) = blk'[Place(z) - 1].size
    BY <1>3, GotGives
  <2>2. used' = used + blk'[FirstFit(blk, z)].size
    BY <2>1 DEF Allocate
  <2>3. Place(z) - 1 = FirstFit(blk, z)
    <3>1. FirstFit(blk, z) \in Nat
      BY <2>1, FirstFitFits, GoodFacts DEF Allocate, OwnInv, HeapOK, Whole, Fits
    <3> QED
      BY <1>3, <3>1 DEF Place
  <2> QED
    BY <1>1, <1>3, <2>1, <2>2, <2>3 DEF Big, Little
<1> QED
  BY <1>2, <1>3

LEMMA FreeCounts ==
  ASSUME OwnInv, NEW c \in Client, Free(c), used \in Int, smallUsed \in Int
  PROVE  /\ used' = used - Big(blk, live[c].p)
         /\ smallUsed' = smallUsed - Little(blk, live[c].p)
<1> DEFINE p == live[c].p
<1>1. smallUsed' = smallUsed - SmallWords(p)
  BY DEF Free
<1>2. SmallWords(p) = Little(blk, p)
  BY SizeAtIs DEF SmallWords, Little
<1>3. used' = used - Big(blk, p)
  <2>1. CASE Small(p)
    BY <2>1, FreeDrops DEF blockVars, Big
  <2>2. CASE ~ Small(p)
    <3>1. Release(p - 1)
      BY <2>2, FreeDrops
    <3> QED
      BY <2>2, <3>1 DEF Release, Big, SizeIn
  <2> QED
    BY <2>1, <2>2
<1> QED
  BY <1>1, <1>2, <1>3

LEMMA StayedCounts ==
  ASSUME OwnInv, NEW c \in Client, NEW z \in Nat \ {0}, Stayed(c, z),
         used \in Int, smallUsed \in Int
  PROVE  /\ used' = used - Big(blk, live[c].p) + Big(blk', live[c].p)
         /\ smallUsed' = smallUsed - Little(blk, live[c].p) + Little(blk', live[c].p)
<1> DEFINE p == live[c].p
<1> DEFINE Counted == /\ used' = used - Big(blk, p) + Big(blk', p)
                      /\ smallUsed' = smallUsed - Little(blk, p) + Little(blk', p)
<1>1. ASSUME Small(p) PROVE Counted
  <2>1. used' = used /\ smallUsed' = smallUsed /\ blk' = blk
    BY <1>1, StayedGives DEF heapVars, blockVars
  <2>2. Big(blk, p) \in Nat /\ Little(blk, p) \in Nat
    BY CountTypes DEF Stayed, OwnInv, HeapOK
  <2>. HIDE DEF p
  <2> QED
    BY <2>1, <2>2
<1>2. ASSUME ~ Small(p) PROVE Counted
  <2>1. Resize(p - 1, z) /\ SizeIn(blk', p) = blk'[p - 1].size
    BY <1>2, StayedGives
  <2>2. smallUsed' = smallUsed
    BY <1>2 DEF Stayed, StayInPlace
  <2>3. used' = used - Big(blk, p) + Big(blk', p)
    BY <1>2, <2>1 DEF Resize, Big, SizeIn
  <2>4. Little(blk, p) = 0 /\ Little(blk', p) = 0
    BY <1>2 DEF Little
  <2>. HIDE DEF p
  <2> QED
    BY <2>2, <2>3, <2>4
<1> QED
  BY <1>1, <1>2

LEMMA LeftCounts ==
  ASSUME OwnInv, NEW c \in Client, NEW z \in Nat \ {0}, Left(c, z),
         used \in Int, smallUsed \in Int
  PROVE  /\ used' = used - Big(blk, live[c].p) + Big(blk', Place(z))
         /\ smallUsed' = smallUsed - Little(blk, live[c].p) + Little(blk', Place(z))
<1> DEFINE p == live[c].p
           q == Place(z)
<1>1. smallUsed' = smallUsed + (IF FromPool(z) THEN z ELSE 0) - SmallWords(p)
  BY DEF Left, MoveAway
<1>2. SmallWords(p) = Little(blk, p)
  BY SizeAtIs DEF SmallWords, Little
<1>3. /\ Leaves(c, z, p, q, live[c].n)
      /\ Small(q) <=> FromPool(z)
      /\ FromPool(z) => SizeIn(blk', q) = z
      /\ ~ FromPool(z) => SizeIn(blk', q) = blk'[q - 1].size
      /\ FromPool(z) /\ Small(p) => UNCHANGED blockVars
      /\ FromPool(z) /\ ~ Small(p) => Release(p - 1)
      /\ ~ FromPool(z) /\ Small(p) => Allocate(z)
      /\ ~ FromPool(z) /\ ~ Small(p) => Move(p - 1, z)
  BY LeftGives
<1>4. /\ p \in Out(blk, pool) /\ q \in Out(blk', pool') /\ Whole(blk') /\ Whole(blk)
      /\ p \in Nat /\ q \in Nat /\ p # q
  <2>1. c \in DOMAIN live
    BY DEF Left
  <2> QED
    BY <1>3, <2>1 DEF Leaves, Gives, Traded, HeapOK, OwnInv
<1>5. Big(blk, p) \in Nat /\ Little(blk, p) \in Nat /\ Big(blk', q) \in Nat /\ Little(blk', q) \in Nat
  BY <1>4, CountTypes
<1>6. (FirstFit(blk, z) = q - 1 /\ CanPlace(z)) \/ FromPool(z)
  <2>1. CASE ~ FromPool(z)
    <3>1. CanPlace(z) /\ Fits(blk, z) # {}
      BY <2>1 DEF Left, MoveAway, CanPlace
    <3>2. FirstFit(blk, z) \in Nat
      BY <1>4, <3>1, FirstFitFits, GoodFacts DEF Whole, Fits
    <3> QED
      BY <2>1, <3>1, <3>2 DEF Place
  <2> QED
    BY <2>1
<1>7. smallUsed' = smallUsed - Little(blk, p) + Little(blk', q)
  <2>1. Little(blk', q) = IF FromPool(z) THEN z ELSE 0
    BY <1>3 DEF Little
  <2>. HIDE DEF p, q
  <2> QED
    BY <1>1, <1>2, <1>5, <2>1
<1>8. used' = used - Big(blk, p) + Big(blk', q)
  <2>1. CASE FromPool(z) /\ Small(p)
    BY <1>3, <2>1 DEF blockVars, Big
  <2>2. CASE FromPool(z) /\ ~ Small(p)
    <3>1. used' = used - blk[p - 1].size
      BY <1>3, <2>2 DEF Release
    <3>2. Big(blk', q) = 0 /\ Big(blk, p) = blk[p - 1].size
      BY <1>3, <2>2 DEF Big, SizeIn
    <3>. HIDE DEF p, q
    <3> QED
      BY <1>5, <3>1, <3>2
  <2>3. CASE ~ FromPool(z) /\ Small(p)
    <3>1. used' = used + blk'[q - 1].size
      BY <1>3, <1>6, <2>3 DEF Allocate
    <3>2. Big(blk', q) = blk'[q - 1].size /\ Big(blk, p) = 0
      BY <1>3, <2>3 DEF Big
    <3>. HIDE DEF p, q
    <3> QED
      BY <1>5, <3>1, <3>2
  <2>4. CASE ~ FromPool(z) /\ ~ Small(p)
    <3> DEFINE g == Taken(blk, q - 1, z)
    <3>1. used' = used + g[q - 1].size - blk[p - 1].size /\ blk' = Freed(g, p - 1)
      BY <1>3, <1>6, <2>4 DEF Move
    <3>2. Big(blk', q) = blk'[q - 1].size /\ Big(blk, p) = blk[p - 1].size
      BY <1>3, <2>4 DEF Big, SizeIn
    <3>3. q - 1 \in DOMAIN blk /\ ~ blk[q - 1].used /\ z <= blk[q - 1].size
      <4>1. q - 1 \in Fits(blk, z)
        BY <1>3, <1>4, <1>6, <2>4, FirstFitFits DEF Move
      <4> QED
        BY <1>4, <4>1, GoodFacts DEF Fits, Whole
    <3>4. Whole(g) /\ Changed(blk, g, q - 1) /\ q - 1 \in DOMAIN g /\ g[q - 1].used
      BY <1>4, <3>3, TakenIs
    <3>. HIDE DEF p, q, g
    <3>5. p - 1 \in DOMAIN blk /\ blk[p - 1].used /\ p - 1 # q - 1
      <4>1. p \in BlocksOut(blk)
        BY <1>4, <2>4, OutFacts
      <4> QED
        BY <3>3, <4>1 DEF BlocksOut
    <3>6. p - 1 \in DOMAIN g
      BY <3>4, <3>5 DEF Changed, Frame, Kept
    <3>7. Frame(g, blk', p - 1)
      BY <3>1, <3>4, <3>6, FreedWhole
    <3>8. blk'[q - 1].size = g[q - 1].size
      BY <3>4, <3>5, <3>7 DEF Frame, Kept
    <3> QED
      BY <1>5, <3>1, <3>2, <3>8
  <2> QED
    BY <2>1, <2>2, <2>3, <2>4
<1> QED
  BY <1>7, <1>8

\* The headers.
LEMMA BlocksCount ==
  ASSUME OwnInv, NEW c \in Client, blocks \in Int
  PROVE  /\ Free(c) => blocks' \in Int /\ blocks' <= blocks
         /\ \A z \in Nat \ {0} : Got(c, z) \/ Stayed(c, z) => blocks' \in Int
         /\ \A z \in Nat \ {0} : Left(c, z) =>
              /\ blocks' \in Int
              /\ blocks' <= blocks + (IF FromPool(z) THEN 0 ELSE SplitCount(blk, Place(z) - 1, z))
<1>1. ASSUME NEW b, Release(b) PROVE blocks' \in Int /\ blocks' <= blocks
  BY <1>1, Counts DEF Release
<1>2. ASSUME NEW z, Allocate(z)
      PROVE  blocks' = blocks + SplitCount(blk, FirstFit(blk, z), z) /\ blocks' \in Int
  BY <1>2, Counts DEF Allocate
<1>3. ASSUME Free(c) PROVE blocks' \in Int /\ blocks' <= blocks
  <2>1. UNCHANGED blockVars \/ Release(live[c].p - 1)
    BY <1>3, FreeDrops
  <2> QED
    BY <1>1, <2>1 DEF blockVars
<1>4. ASSUME NEW z \in Nat \ {0}, Got(c, z) PROVE blocks' \in Int
  <2>1. UNCHANGED blockVars \/ Allocate(z)
    BY <1>4, GotGives
  <2> QED
    BY <1>2, <2>1 DEF blockVars
<1>5. ASSUME NEW z \in Nat \ {0}, Stayed(c, z) PROVE blocks' \in Int
  <2>1. UNCHANGED heapVars \/ Resize(live[c].p - 1, z)
    BY <1>5, StayedGives
  <2>2. ASSUME NEW b, Resize(b, z) PROVE blocks' \in Int
    BY <2>2, Counts DEF Resize
  <2> QED
    BY <2>1, <2>2 DEF heapVars, blockVars
<1>6. ASSUME NEW z \in Nat \ {0}, Left(c, z)
      PROVE  /\ blocks' \in Int
             /\ blocks' <= blocks + (IF FromPool(z) THEN 0 ELSE SplitCount(blk, Place(z) - 1, z))
  <2>1. CASE FromPool(z)
    <3>1. UNCHANGED blockVars \/ Release(live[c].p - 1)
      BY <1>6, <2>1, LeftGives
    <3> QED
      BY <1>1, <2>1, <3>1 DEF blockVars
  <2>2. CASE ~ FromPool(z)
    <3>1. Allocate(z) \/ Move(live[c].p - 1, z)
      BY <1>6, <2>2, LeftGives
    <3>2. Fits(blk, z) # {}
      BY <3>1 DEF Allocate, Move
    <3>3. FirstFit(blk, z) \in Nat
      BY <3>2, FirstFitFits, GoodFacts DEF OwnInv, HeapOK, Whole, Fits
    <3>4. FirstFit(blk, z) = Place(z) - 1
      BY <2>2, <3>3 DEF Place
    <3>5. ASSUME NEW b, Move(b, z)
          PROVE  /\ blocks' \in Int
                 /\ blocks' <= blocks + SplitCount(blk, FirstFit(blk, z), z)
      <4>1. blocks' = blocks + SplitCount(blk, FirstFit(blk, z), z)
                        + FreedCount(Taken(blk, FirstFit(blk, z), z), b)
        BY <3>5 DEF Move
      <4>2. PICK x \in Int, y \in Int :
              /\ x = SplitCount(blk, FirstFit(blk, z), z) /\ y <= 0
              /\ y = FreedCount(Taken(blk, FirstFit(blk, z), z), b)
        BY Counts
      <4>3. blocks' = blocks + x + y
        BY <4>1, <4>2
      <4> QED
        BY <4>2, <4>3
    <3>6. SplitCount(blk, FirstFit(blk, z), z) \in Int
      BY Counts
    <3> QED
      BY <1>2, <2>2, <3>1, <3>4, <3>5, <3>6
  <2> QED
    BY <2>1, <2>2
<1> QED
  BY <1>3, <1>4, <1>5, <1>6

-----------------------------------------------------------------------------
(***************************************************************************)
(* The peaks.  The counters are numbers, and neither peak is left behind by *)
(* what it is the peak of.                                                  *)
(***************************************************************************)
PeakInv ==
  /\ used \in Int /\ smallUsed \in Int /\ blocks \in Int
  /\ peakUsed \in Int /\ peakOccupied \in Int
  /\ PeakSound

\* After peak() for u words in bs blocks, of which no more are in use now.
LEMMA PeakRaised ==
  ASSUME PeakInv, NEW u \in Int, NEW bs \in Int, Peak(u, bs),
         used' \in Int, smallUsed' \in Int, blocks' \in Int,
         used' + smallUsed' <= u, blocks' <= bs
  PROVE  PeakInv'
<1>1. /\ peakUsed' \in Int /\ peakOccupied' \in Int
      /\ peakUsed' >= u /\ peakOccupied' >= u + bs
  BY DEF Peak, Greater, PeakInv
<1>2. /\ peakUsed' >= used' + smallUsed'
      /\ peakOccupied' >= (used' + smallUsed') + blocks'
  <2>1. PICK x \in Int, y \in Int, z \in Int, v \in Int, w \in Int :
          /\ x = used' /\ y = smallUsed' /\ z = blocks'
          /\ v = peakUsed' /\ w = peakOccupied'
    BY <1>1
  <2>2. x + y <= u /\ z <= bs /\ v >= u /\ w >= u + bs
    BY <1>1, <2>1
  <2>3. v >= x + y /\ w >= (x + y) + z
    BY ONLY <2>2, u \in Int, bs \in Int, x \in Int, y \in Int, z \in Int, v \in Int, w \in Int
  <2> QED
    BY <2>1, <2>3
<1> QED
  BY <1>1, <1>2 DEF PeakInv, PeakSound, AllUsed

\* The peaks stay, and no more is in use than before.
LEMMA PeakStays ==
  ASSUME PeakInv, peakUsed' = peakUsed, peakOccupied' = peakOccupied,
         used' \in Int, smallUsed' \in Int, blocks' \in Int,
         used' + smallUsed' <= used + smallUsed, blocks' <= blocks
  PROVE  PeakInv'
<1>1. /\ used \in Int /\ smallUsed \in Int /\ blocks \in Int
      /\ peakUsed \in Int /\ peakOccupied \in Int
      /\ peakUsed >= used + smallUsed
      /\ peakUsed > 0 => peakOccupied >= (used + smallUsed) + blocks
  BY DEF PeakInv, PeakSound, AllUsed
<1>2. /\ peakUsed >= used' + smallUsed'
      /\ peakUsed > 0 => peakOccupied >= (used' + smallUsed') + blocks'
  <2>1. PICK x \in Int, y \in Int, z \in Int : x = used' /\ y = smallUsed' /\ z = blocks'
    OBVIOUS
  <2>2. PICK u \in Int, bs \in Int, v \in Int, w \in Int :
          /\ u = used + smallUsed /\ bs = blocks
          /\ v = peakUsed /\ w = peakOccupied
    BY <1>1
  <2>3. x + y <= u /\ z <= bs /\ v >= u /\ (v > 0 => w >= u + bs)
    BY <1>1, <2>1, <2>2
  <2>4. v >= x + y /\ (v > 0 => w >= (x + y) + z)
    BY ONLY <2>3, u \in Int, bs \in Int, x \in Int, y \in Int, z \in Int, v \in Int, w \in Int
  <2> QED
    BY <2>1, <2>2, <2>4
<1> QED
  BY <1>1, <1>2 DEF PeakInv, PeakSound, AllUsed

LEMMA PeakStep == OwnInv /\ OwnInv' /\ PeakInv /\ [Next]_vars => PeakInv'
<1> SUFFICES ASSUME OwnInv, OwnInv', PeakInv, [Next]_vars PROVE PeakInv'
  OBVIOUS
<1>1. used \in Int /\ smallUsed \in Int /\ blocks \in Int
  BY DEF PeakInv
<1>2. CASE UNCHANGED vars
  BY <1>2 DEF vars, heapVars, blockVars, PeakInv, PeakSound, AllUsed
<1>3. CASE ResetPeak
  BY <1>3 DEF ResetPeak, heapVars, blockVars, PeakInv, PeakSound, AllUsed
<1>4. ASSUME NEW c \in DOMAIN live
      PROVE  /\ Big(blk, live[c].p) \in Nat /\ Little(blk, live[c].p) \in Nat
             /\ Big(blk, live[c].p) + Little(blk, live[c].p) = SizeIn(blk, live[c].p)
  BY CountTypes DEF OwnInv, HeapOK
<1>5. ASSUME NEW c \in Client, NEW q, NEW z, Gives(c, q, z)
      PROVE  /\ Big(blk', q) \in Nat /\ Little(blk', q) \in Nat
             /\ Big(blk', q) + Little(blk', q) = SizeIn(blk', q)
             /\ SizeIn(blk', q) \in Nat
  <2>1. q \in Out(blk', pool') /\ Whole(blk')
    BY <1>5 DEF Gives, Traded, HeapOK
  <2> QED
    BY <2>1, CountTypes, OutFacts
<1>6. ASSUME NEW c \in Client, Free(c) PROVE PeakInv'
  <2>1. c \in DOMAIN live /\ peakUsed' = peakUsed /\ peakOccupied' = peakOccupied
    BY <1>6 DEF Free
  <2>2. /\ used' = used - Big(blk, live[c].p)
        /\ smallUsed' = smallUsed - Little(blk, live[c].p)
    BY <1>1, <1>6, FreeCounts
  <2>3. used' \in Int /\ smallUsed' \in Int /\ used' + smallUsed' <= used + smallUsed
    BY <1>1, <1>4, <2>1, <2>2
  <2>4. blocks' \in Int /\ blocks' <= blocks
    BY <1>1, <1>6, BlocksCount
  <2> QED
    BY <2>1, <2>3, <2>4, PeakStays
<1>7. ASSUME NEW c \in Client, NEW z \in Nat \ {0}, Got(c, z) PROVE PeakInv'
  <2>1. Gives(c, Place(z), z) /\ Peak(AllUsed', blocks')
    BY <1>7, GotGives DEF Got, Obtain
  <2>2. /\ used' = used + Big(blk', Place(z))
        /\ smallUsed' = smallUsed + Little(blk', Place(z))
    BY <1>1, <1>7, GotCounts
  <2>3. used' \in Int /\ smallUsed' \in Int
    BY <1>1, <1>5, <2>1, <2>2
  <2>4. blocks' \in Int
    BY <1>1, <1>7, BlocksCount
  <2>5. AllUsed' = used' + smallUsed' /\ AllUsed' \in Int
    BY <2>3 DEF AllUsed
  <2>6. used' + smallUsed' <= AllUsed' /\ blocks' <= blocks'
    BY <2>4, <2>5
  <2> QED
    BY <2>1, <2>3, <2>4, <2>5, <2>6, PeakRaised
<1>8. ASSUME NEW c \in Client, NEW z \in Nat \ {0}, Stayed(c, z) PROVE PeakInv'
  <2> DEFINE p == live[c].p
  <2>1. c \in DOMAIN live /\ Gives(c, p, z)
    BY <1>8, StayedGives DEF Stayed, Stays
  <2>2. /\ used' = used - Big(blk, p) + Big(blk', p)
        /\ smallUsed' = smallUsed - Little(blk, p) + Little(blk', p)
    BY <1>1, <1>8, StayedCounts
  <2>3. used' \in Int /\ smallUsed' \in Int
    BY <1>1, <1>4, <1>5, <2>1, <2>2
  <2>4. blocks' \in Int
    BY <1>1, <1>8, BlocksCount
  <2>5. AllUsed' = used' + smallUsed' /\ AllUsed' \in Int
    BY <2>3 DEF AllUsed
  <2>6. CASE Small(p)
    <3>1. /\ used' = used /\ smallUsed' = smallUsed /\ blocks' = blocks
          /\ peakUsed' = peakUsed /\ peakOccupied' = peakOccupied
      BY <1>8, <2>6, StayedGives DEF heapVars, blockVars
    <3> QED
      BY <1>1, <3>1, PeakStays
  <2>7. CASE ~ Small(p)
    <3>1. Peak(AllUsed', blocks')
      BY <1>8, <2>7 DEF Stayed, StayInPlace
    <3>2. used' + smallUsed' <= AllUsed' /\ blocks' <= blocks'
      BY <2>4, <2>5
    <3> QED
      BY <2>3, <2>4, <2>5, <3>1, <3>2, PeakRaised
  <2> QED
    BY <2>6, <2>7
<1>9. ASSUME NEW c \in Client, NEW z \in Nat \ {0}, Left(c, z) PROVE PeakInv'
  <2> DEFINE p == live[c].p
             q == Place(z)
             u == AllUsed + SizeIn(blk', q)
             bs == blocks + (IF FromPool(z) THEN 0 ELSE SplitCount(blk, q - 1, z))
  <2>1. /\ c \in DOMAIN live /\ Gives(c, q, z)
        /\ FromPool(z) => SizeIn(blk', q) = z
        /\ ~ FromPool(z) => SizeIn(blk', q) = blk'[q - 1].size
    BY <1>9, LeftGives DEF Left, Leaves
  <2>2. /\ used' = used - Big(blk, p) + Big(blk', q)
        /\ smallUsed' = smallUsed - Little(blk, p) + Little(blk', q)
    BY <1>1, <1>9, LeftCounts
  <2>3. blocks' \in Int /\ blocks' <= bs
    BY <1>1, <1>9, BlocksCount
  <2>4. Peak(u, bs)
    <3>1. CASE FromPool(z)
      <4>1. Peak(AllUsed + z, blocks)
        BY <1>9, <3>1 DEF Left, MoveAway
      <4>2. bs = blocks
        BY <1>1, <3>1
      <4> QED
        BY <2>1, <3>1, <4>1, <4>2
    <3>2. CASE ~ FromPool(z)
      <4>1. Peak(AllUsed + blk'[q - 1].size, blocks + SplitCount(blk, q - 1, z))
        BY <1>9, <3>2 DEF Left, MoveAway
      <4> QED
        BY <2>1, <3>2, <4>1
    <3> QED
      BY <3>1, <3>2
  <2>5. u \in Int /\ bs \in Int /\ AllUsed = used + smallUsed
    BY <1>1, <1>5, <2>1, Counts DEF AllUsed
  <2>. HIDE DEF bs
  <2>6. /\ used' \in Int /\ smallUsed' \in Int
        /\ used' + smallUsed' <= u
    BY <1>1, <1>4, <1>5, <2>1, <2>2, <2>5
  <2>. HIDE DEF u
  <2> QED
    BY <2>3, <2>4, <2>5, <2>6, PeakRaised
<1> QED
  BY <1>2, <1>3, <1>6, <1>7, <1>8, <1>9, NextIs, Zenon

(***************************************************************************)
(* What heap.h says of the peaks holds after every sequence of calls and    *)
(* resets: they are never below what is in use.                             *)
(***************************************************************************)
THEOREM HeapPeakSound == Spec => []PeakSound
<1>1. Init => PeakInv
  BY DEF Init, BlocksInit, PeakInv, PeakSound, AllUsed
<1>2. PeakInv => PeakSound
  BY DEF PeakInv
<1> QED
  BY <1>1, <1>2, InitOwns, OwnStep, PeakStep, PTL DEF Spec

-----------------------------------------------------------------------------
\* The histogram.

InBin(f, lv, i) == {c \in DOMAIN lv : Bin(SizeIn(f, lv[c].p)) = i}
One(z, i) == IF Bin(z) = i THEN 1 ELSE 0

(***************************************************************************)
(* Each bin counts the variables whose block or slot is of its size.        *)
(***************************************************************************)
HistInv ==
  /\ hist \in [0 .. HistMax -> Int]
  /\ IsFiniteSet(DOMAIN live)
  /\ \A i \in 0 .. HistMax : hist[i] = Cardinality(InBin(blk, live, i))

LEMMA HistChanges ==
  ASSUME NEW h \in [0 .. HistMax -> Int], NEW z \in Nat
  PROVE  /\ HistAdd(h, z) \in [0 .. HistMax -> Int]
         /\ HistDel(h, z) \in [0 .. HistMax -> Int]
         /\ \A i \in 0 .. HistMax : /\ HistAdd(h, z)[i] = h[i] + One(z, i)
                                    /\ HistDel(h, z)[i] = h[i] - One(z, i)
<1>1. Bin(z) \in 0 .. HistMax
  BY HeapAssumption DEF Bin
<1> QED
  BY <1>1 DEF HistAdd, HistDel, One

\* With or without c.
LEMMA WithOne ==
  ASSUME NEW X, IsFiniteSet(X), NEW c, c \notin X, NEW P \in BOOLEAN
  PROVE  Cardinality(X \cup (IF P THEN {c} ELSE {})) = Cardinality(X) + (IF P THEN 1 ELSE 0)
<1>1. Cardinality(X) \in Nat
  BY FS_CardinalityType
<1>2. CASE P
  BY <1>2, FS_AddElement
<1>3. CASE ~ P
  BY <1>1, <1>3
<1> QED
  BY <1>2, <1>3

LEMMA BinWithout ==
  ASSUME NEW f, NEW lv, NEW c \in DOMAIN lv, IsFiniteSet(DOMAIN lv), NEW i
  PROVE  /\ IsFiniteSet(InBin(f, lv, i) \ {c}) /\ IsFiniteSet(InBin(f, lv, i))
         /\ Cardinality(InBin(f, lv, i) \ {c}) \in Nat
         /\ Cardinality(InBin(f, lv, i))
              = Cardinality(InBin(f, lv, i) \ {c}) + One(SizeIn(f, lv[c].p), i)
<1> DEFINE X == InBin(f, lv, i) \ {c}
           P == Bin(SizeIn(f, lv[c].p)) = i
<1>1. InBin(f, lv, i) \in SUBSET DOMAIN lv /\ X \in SUBSET DOMAIN lv
  BY DEF InBin
<1>2. IsFiniteSet(X) /\ IsFiniteSet(InBin(f, lv, i)) /\ Cardinality(X) \in Nat
  BY <1>1, FS_Subset, FS_CardinalityType
<1>3. InBin(f, lv, i) = X \cup (IF P THEN {c} ELSE {})
  BY DEF InBin
<1>4. P \in BOOLEAN /\ c \notin X
  OBVIOUS
<1>5. Cardinality(InBin(f, lv, i)) = Cardinality(X) + (IF P THEN 1 ELSE 0)
  <2>. HIDE DEF X, P
  <2> QED
    BY <1>2, <1>3, <1>4, WithOne
<1> QED
  BY <1>2, <1>5 DEF One

\* What c has in a bin.
Share(f, lv, c, i) == IF c \in DOMAIN lv THEN One(SizeIn(f, lv[c].p), i) ELSE 0

LEMMA BinShare ==
  ASSUME NEW f, NEW lv, NEW c, IsFiniteSet(DOMAIN lv), NEW i
  PROVE  /\ Cardinality(InBin(f, lv, i) \ {c}) \in Nat /\ Share(f, lv, c, i) \in Int
         /\ Cardinality(InBin(f, lv, i))
              = Cardinality(InBin(f, lv, i) \ {c}) + Share(f, lv, c, i)
<1>1. CASE c \in DOMAIN lv
  <2>1. Share(f, lv, c, i) = One(SizeIn(f, lv[c].p), i)
    BY <1>1 DEF Share
  <2>2. One(SizeIn(f, lv[c].p), i) \in Int
    BY DEF One
  <2> QED
    BY <1>1, <2>1, <2>2, BinWithout
<1>2. CASE c \notin DOMAIN lv
  <2>1. InBin(f, lv, i) \ {c} = InBin(f, lv, i) /\ InBin(f, lv, i) \in SUBSET DOMAIN lv
    BY <1>2 DEF InBin
  <2>2. Cardinality(InBin(f, lv, i)) \in Nat
    BY <2>1, FS_Subset, FS_CardinalityType
  <2>3. Share(f, lv, c, i) = 0
    BY <1>2 DEF Share
  <2> QED
    BY <2>1, <2>2, <2>3
<1> QED
  BY <1>1, <1>2

\* A step that changes what c has.
LEMMA BinsChange ==
  ASSUME NEW f, NEW lv, NEW g, NEW mv, NEW c, NEW i,
         IsFiniteSet(DOMAIN lv), DOMAIN mv \ {c} = DOMAIN lv \ {c},
         \A d \in DOMAIN lv \ {c} : SizeIn(g, mv[d].p) = SizeIn(f, lv[d].p)
  PROVE  /\ IsFiniteSet(DOMAIN mv)
         /\ Cardinality(InBin(g, mv, i))
              = Cardinality(InBin(f, lv, i)) - Share(f, lv, c, i) + Share(g, mv, c, i)
<1>1. IsFiniteSet(DOMAIN mv)
  <2>1. IsFiniteSet(DOMAIN lv \cup {c})
    BY FS_AddElement
  <2>2. DOMAIN mv \in SUBSET (DOMAIN lv \cup {c})
    OBVIOUS
  <2> QED
    BY <2>1, <2>2, FS_Subset
<1>2. InBin(g, mv, i) \ {c} = InBin(f, lv, i) \ {c}
  BY DEF InBin
<1>3. /\ Cardinality(InBin(f, lv, i) \ {c}) \in Nat /\ Share(f, lv, c, i) \in Int
      /\ Cardinality(InBin(f, lv, i))
           = Cardinality(InBin(f, lv, i) \ {c}) + Share(f, lv, c, i)
  BY BinShare
<1>4. /\ Share(g, mv, c, i) \in Int
      /\ Cardinality(InBin(g, mv, i))
           = Cardinality(InBin(g, mv, i) \ {c}) + Share(g, mv, c, i)
  BY <1>1, BinShare
<1>5. Cardinality(InBin(g, mv, i))
        = Cardinality(InBin(f, lv, i) \ {c}) + Share(g, mv, c, i)
  BY <1>2, <1>4, Zenon
<1>6. Cardinality(InBin(g, mv, i))
        = Cardinality(InBin(f, lv, i)) - Share(f, lv, c, i) + Share(g, mv, c, i)
  <2> DEFINE x == Cardinality(InBin(f, lv, i) \ {c})
             y == Cardinality(InBin(f, lv, i))
             u == Share(f, lv, c, i)
             v == Share(g, mv, c, i)
             w == Cardinality(InBin(g, mv, i))
  <2>1. x \in Nat /\ u \in Int /\ v \in Int /\ y = x + u /\ w = x + v
    BY <1>3, <1>4, <1>5, Zenon
  <2>. HIDE DEF x, y, u, v, w
  <2>2. w = y - u + v
    BY <2>1
  <2> QED
    BY <2>2 DEF y, u, v, w
<1> QED
  BY <1>1, <1>6

LEMMA GivesBins ==
  ASSUME OwnInv, IsFiniteSet(DOMAIN live), NEW c, NEW q, NEW n, Gives(c, q, n), NEW i
  PROVE  /\ IsFiniteSet(DOMAIN live')
         /\ Cardinality(InBin(blk', live', i))
              = Cardinality(InBin(blk, live, i))
                - Share(blk, live, c, i) + One(SizeIn(blk', q), i)
<1>1. /\ DOMAIN live' = DOMAIN live \cup {c} /\ live'[c].p = q
      /\ \A d \in DOMAIN live \ {c} : live'[d] = live[d]
  BY DEF Gives, Owning
<1>2. \A d \in DOMAIN live \ {c} : SizeIn(blk', live'[d].p) = SizeIn(blk, live[d].p)
  BY <1>1, OldOut DEF Gives, Traded
<1>3. DOMAIN live' \ {c} = DOMAIN live \ {c} /\ c \in DOMAIN live'
  BY <1>1
<1>4. Share(blk', live', c, i) = One(SizeIn(blk', q), i)
  BY <1>1, <1>3 DEF Share
<1> QED
  BY <1>1, <1>2, <1>3, <1>4, BinsChange

LEMMA DropsBins ==
  ASSUME OwnInv, IsFiniteSet(DOMAIN live), NEW c, Drops(c), NEW i
  PROVE  /\ IsFiniteSet(DOMAIN live')
         /\ Cardinality(InBin(blk', live', i))
              = Cardinality(InBin(blk, live, i)) - One(SizeIn(blk, live[c].p), i)
<1>1. /\ DOMAIN live' = DOMAIN live \ {c} /\ c \in DOMAIN live
      /\ \A d \in DOMAIN live \ {c} : live'[d] = live[d]
  BY DEF Drops
<1>2. \A d \in DOMAIN live \ {c} : SizeIn(blk', live'[d].p) = SizeIn(blk, live[d].p)
  BY <1>1, OldOut DEF Drops, Traded
<1>3. DOMAIN live' \ {c} = DOMAIN live \ {c} /\ c \notin DOMAIN live'
  BY <1>1
<1>4. /\ Cardinality(InBin(blk', live', i))
           = Cardinality(InBin(blk, live, i)) - One(SizeIn(blk, live[c].p), i) + 0
  <2>1. Share(blk', live', c, i) = 0 /\ Share(blk, live, c, i) = One(SizeIn(blk, live[c].p), i)
    BY <1>1, <1>3 DEF Share
  <2> QED
    BY <1>1, <1>2, <1>3, <2>1, BinsChange
<1>5. Cardinality(InBin(blk, live, i)) \in Nat
  <2>1. InBin(blk, live, i) \in SUBSET DOMAIN live
    BY DEF InBin
  <2> QED
    BY <2>1, FS_Subset, FS_CardinalityType
<1>6. One(SizeIn(blk, live[c].p), i) \in Int
  BY DEF One
<1> QED
  BY <1>1, <1>2, <1>3, <1>4, <1>5, <1>6, BinsChange

LEMMA HistStep == OwnInv /\ OwnInv' /\ HistInv /\ [Next]_vars => HistInv'
<1> SUFFICES ASSUME OwnInv, OwnInv', HistInv, [Next]_vars PROVE HistInv'
  OBVIOUS
<1>1. /\ hist \in [0 .. HistMax -> Int] /\ IsFiniteSet(DOMAIN live)
      /\ \A i \in 0 .. HistMax : hist[i] = Cardinality(InBin(blk, live, i))
      /\ \A i \in 0 .. HistMax : hist[i] \in Int
  BY DEF HistInv
<1>2. CASE UNCHANGED vars \/ ResetPeak
  <2>1. hist' = hist /\ live' = live /\ blk' = blk
    BY <1>2 DEF vars, ResetPeak, heapVars, blockVars
  <2> QED
    BY <2>1 DEF HistInv
<1>3. ASSUME NEW c \in DOMAIN live
      PROVE  SizeIn(blk, live[c].p) \in Nat /\ SizeAt(live[c].p) = SizeIn(blk, live[c].p)
  BY OutFacts, SizeAtIs DEF OwnInv, HeapOK
<1>4. ASSUME NEW c, NEW q, NEW z, Gives(c, q, z) PROVE SizeIn(blk', q) \in Nat
  <2>1. q \in Out(blk', pool') /\ Whole(blk')
    BY <1>4 DEF Gives, Traded, HeapOK
  <2> QED
    BY <2>1, OutFacts
<1>5. ASSUME NEW c \in Client, Free(c) PROVE HistInv'
  <2>1. Drops(c) /\ c \in DOMAIN live
    BY <1>5, FreeDrops DEF Drops
  <2>2. hist' = HistDel(hist, SizeIn(blk, live[c].p))
    BY <1>3, <1>5, <2>1 DEF Free
  <2>3. /\ hist' \in [0 .. HistMax -> Int]
        /\ \A i \in 0 .. HistMax : hist'[i] = hist[i] - One(SizeIn(blk, live[c].p), i)
    BY <1>1, <1>3, <2>1, <2>2, HistChanges
  <2> QED
    BY <1>1, <2>1, <2>3, DropsBins DEF HistInv
<1>6. ASSUME NEW c \in Client, NEW z \in Nat \ {0}, Got(c, z) PROVE HistInv'
  <2> DEFINE q == Place(z)
  <2>1. /\ Gives(c, q, z) /\ c \notin DOMAIN live
        /\ SizeIn(blk', q) = IF FromPool(z) THEN z ELSE blk'[q - 1].size
    BY <1>6, GotGives DEF Got
  <2>2. hist' = HistAdd(hist, SizeIn(blk', q))
    BY <1>6, <2>1 DEF Got, Obtain
  <2>3. SizeIn(blk', q) \in Nat
    BY <1>4, <2>1
  <2>. HIDE DEF q
  <2>4. /\ hist' \in [0 .. HistMax -> Int]
        /\ \A i \in 0 .. HistMax : hist'[i] = hist[i] + One(SizeIn(blk', q), i)
    BY <1>1, <2>2, <2>3, HistChanges
  <2>5. \A i \in 0 .. HistMax : Cardinality(InBin(blk', live', i))
                                  = hist[i] - 0 + One(SizeIn(blk', q), i)
    <3>1. \A i : Share(blk, live, c, i) = 0
      BY <2>1 DEF Share
    <3> QED
      BY <1>1, <2>1, <3>1, GivesBins
  <2>6. \A i : One(SizeIn(blk', q), i) \in Int
    BY DEF One
  <2>7. IsFiniteSet(DOMAIN live')
    BY <1>1, <2>1, GivesBins
  <2> QED
    BY <1>1, <2>4, <2>5, <2>6, <2>7 DEF HistInv
<1>7. ASSUME NEW c, NEW q, NEW z, c \in DOMAIN live, Gives(c, q, z),
             hist' \in [0 .. HistMax -> Int],
             \A i \in 0 .. HistMax :
               hist'[i] = hist[i] - One(SizeIn(blk, live[c].p), i) + One(SizeIn(blk', q), i)
      PROVE  HistInv'
  <2>1. IsFiniteSet(DOMAIN live')
    BY <1>1, <1>7, GivesBins
  <2>2. \A i \in 0 .. HistMax : hist'[i] = Cardinality(InBin(blk', live', i))
    <3>1. \A i : Share(blk, live, c, i) = One(SizeIn(blk, live[c].p), i)
      BY <1>7 DEF Share
    <3> QED
      BY <1>1, <1>7, <3>1, GivesBins
  <2> QED
    BY <1>7, <2>1, <2>2 DEF HistInv
<1>8. ASSUME NEW c \in Client, NEW z \in Nat \ {0}, Stayed(c, z) PROVE HistInv'
  <2> DEFINE p == live[c].p
  <2>1. c \in DOMAIN live /\ Gives(c, p, z)
    BY <1>8, StayedGives DEF Stayed, Stays
  <2>2. SizeIn(blk, p) \in Nat /\ SizeAt(p) = SizeIn(blk, p) /\ SizeIn(blk', p) \in Nat
    BY <1>3, <1>4, <2>1
  <2>3. CASE Small(p)
    <3>1. hist' = hist /\ SizeIn(blk', p) = SizeIn(blk, p)
      BY <1>8, <2>3, StayedGives DEF heapVars, blockVars
    <3>2. \A i \in 0 .. HistMax :
            hist'[i] = hist[i] - One(SizeIn(blk, p), i) + One(SizeIn(blk', p), i)
      BY <1>1, <3>1 DEF One
    <3>. HIDE DEF p
    <3> QED
      BY <1>1, <1>7, <2>1, <3>1, <3>2 DEF p
  <2>4. CASE ~ Small(p)
    <3>1. hist' = HistAdd(HistDel(hist, SizeIn(blk, p)), SizeIn(blk', p))
      <4>1. hist' = HistAdd(HistDel(hist, SizeAt(p)), blk'[p - 1].size)
        BY <1>8, <2>4 DEF Stayed, StayInPlace
      <4>2. SizeIn(blk', p) = blk'[p - 1].size
        BY <1>8, <2>4, StayedGives
      <4> QED
        BY <2>2, <4>1, <4>2
    <3>2. /\ HistDel(hist, SizeIn(blk, p)) \in [0 .. HistMax -> Int]
          /\ \A i \in 0 .. HistMax :
               HistDel(hist, SizeIn(blk, p))[i] = hist[i] - One(SizeIn(blk, p), i)
      BY <1>1, <2>2, HistChanges
    <3>3. /\ hist' \in [0 .. HistMax -> Int]
          /\ \A i \in 0 .. HistMax :
               hist'[i] = hist[i] - One(SizeIn(blk, p), i) + One(SizeIn(blk', p), i)
      BY <2>2, <3>1, <3>2, HistChanges
    <3> QED
      BY <1>7, <2>1, <3>3
  <2> QED
    BY <2>3, <2>4
<1>9. ASSUME NEW c \in Client, NEW z \in Nat \ {0}, Left(c, z) PROVE HistInv'
  <2> DEFINE p == live[c].p
             q == Place(z)
  <2>1. /\ c \in DOMAIN live /\ Gives(c, q, z)
        /\ SizeIn(blk', q) = IF FromPool(z) THEN z ELSE blk'[q - 1].size
    BY <1>9, LeftGives DEF Left, Leaves
  <2>2. SizeIn(blk, p) \in Nat /\ SizeAt(p) = SizeIn(blk, p) /\ SizeIn(blk', q) \in Nat
    BY <1>3, <1>4, <2>1
  <2>3. hist' = HistDel(HistAdd(hist, SizeIn(blk', q)), SizeIn(blk, p))
    BY <1>9, <2>1, <2>2 DEF Left, MoveAway
  <2>. HIDE DEF p, q
  <2>4. /\ HistAdd(hist, SizeIn(blk', q)) \in [0 .. HistMax -> Int]
        /\ \A i \in 0 .. HistMax :
             HistAdd(hist, SizeIn(blk', q))[i] = hist[i] + One(SizeIn(blk', q), i)
    BY <1>1, <2>2, HistChanges
  <2>5. /\ hist' \in [0 .. HistMax -> Int]
        /\ \A i \in 0 .. HistMax :
             hist'[i] = (hist[i] + One(SizeIn(blk', q), i)) - One(SizeIn(blk, p), i)
    <3>1. PICK h : h = HistAdd(hist, SizeIn(blk', q))
      OBVIOUS
    <3>2. /\ HistDel(h, SizeIn(blk, p)) \in [0 .. HistMax -> Int]
          /\ \A i \in 0 .. HistMax :
               HistDel(h, SizeIn(blk, p))[i] = h[i] - One(SizeIn(blk, p), i)
      BY <2>2, <2>4, <3>1, HistChanges
    <3>3. \A i \in 0 .. HistMax : h[i] = hist[i] + One(SizeIn(blk', q), i)
      BY <2>4, <3>1
    <3>4. hist' = HistDel(h, SizeIn(blk, p))
      BY <2>3, <3>1
    <3> QED
      BY ONLY <3>2, <3>3, <3>4
  <2>6. \A i : One(SizeIn(blk', q), i) \in Int /\ One(SizeIn(blk, p), i) \in Int
    BY DEF One
  <2>7. \A i \in 0 .. HistMax :
          hist'[i] = hist[i] - One(SizeIn(blk, p), i) + One(SizeIn(blk', q), i)
    BY <1>1, <2>5, <2>6
  <2> QED
    BY <1>7, <2>1, <2>5, <2>7 DEF p
<1> QED
  BY <1>2, <1>5, <1>6, <1>8, <1>9, NextIs, Zenon

(***************************************************************************)
(* The histogram of the heap profile is exact after every sequence of       *)
(* calls, though a realloc() changes the size of a block in four ways.      *)
(***************************************************************************)
THEOREM HeapHistExact == Spec => []HistExact
<1>1. Init => HistInv
  <2> SUFFICES ASSUME Init PROVE HistInv
    OBVIOUS
  <2>1. DOMAIN live = {} /\ hist = [z \in 0 .. HistMax |-> 0]
    BY DEF Init
  <2>2. \A i : InBin(blk, live, i) = {}
    BY <2>1 DEF InBin
  <2> QED
    BY <2>1, <2>2, FS_EmptySet DEF HistInv
<1>2. HistInv => HistExact
  BY DEF HistInv, HistExact, InBin, SizeAt, SizeIn
<1> QED
  BY <1>1, <1>2, InitOwns, OwnStep, HistStep, PTL DEF Spec

-----------------------------------------------------------------------------
\* What the program reads: Heap implements Allocator.

MemInv == DOMAIN mem = 0 .. HeapEnd - 1

\* What r points to.
At(m, r) == [i \in 1 .. r.n |-> m[r.p + i - 1]]

LEMMA FilledAt ==
  ASSUME NEW m, NEW p, NEW n, NEW v
  PROVE  /\ DOMAIN Filled(m, p, n, v) = DOMAIN m
         /\ \A w \in DOMAIN m :
              /\ w \in p .. p + n - 1 => Filled(m, p, n, v)[w] = v
              /\ w \notin p .. p + n - 1 => Filled(m, p, n, v)[w] = m[w]
BY DEF Filled

LEMMA CopiedAt ==
  ASSUME NEW m, NEW q, NEW p, NEW n
  PROVE  /\ DOMAIN Copied(m, q, p, n) = DOMAIN m
         /\ \A w \in DOMAIN m :
              /\ w \in q .. q + n - 1 => Copied(m, q, p, n)[w] = m[p + (w - q)]
              /\ w \notin q .. q + n - 1 => Copied(m, q, p, n)[w] = m[w]
BY DEF Copied

LEMMA First ==
  ASSUME NEW S, NEW s \in Seq(S), NEW k \in Nat, k <= Len(s)
  PROVE  SubSeq(s, 1, k) = [i \in 1 .. k |-> s[i]] /\ SubSeq(s, 1, k) \in Seq(S)
         /\ Len(SubSeq(s, 1, k)) = k
OBVIOUS

LEMMA Appended ==
  ASSUME NEW S, NEW s \in Seq(S), NEW c, NEW n \in Nat, Len(s) <= n
  PROVE  s \o [i \in 1 .. n - Len(s) |-> c]
           = [i \in 1 .. n |-> IF i <= Len(s) THEN s[i] ELSE c]
<1> DEFINE t == [i \in 1 .. n - Len(s) |-> c]
           T == S \cup {c}
<1>1. Len(s) \in Nat /\ n - Len(s) \in Nat /\ s \in Seq(T)
  OBVIOUS
<1>2. t \in Seq(T) /\ Len(t) = n - Len(s)
  BY <1>1
<1>3. /\ s \o t \in Seq(T) /\ Len(s \o t) = n
      /\ \A i \in 1 .. n : (s \o t)[i] = IF i <= Len(s) THEN s[i] ELSE t[i - Len(s)]
  <2>. HIDE DEF t, T
  <2> QED
    BY <1>1, <1>2
<1>4. \A i \in 1 .. n : i > Len(s) => t[i - Len(s)] = c
  BY <1>1
<1>. HIDE DEF t, T
<1>5. \A i \in 1 .. n : (s \o t)[i] = IF i <= Len(s) THEN s[i] ELSE c
  BY <1>1, <1>3, <1>4
<1>6. PICK r \in Seq(T) : r = s \o t
  BY <1>3
<1>7. r = [i \in 1 .. n |-> r[i]]
  <2>1. DOMAIN r = 1 .. n
    BY <1>3, <1>6
  <2>2. r = [i \in DOMAIN r |-> r[i]]
    OBVIOUS
  <2> QED
    BY <2>1, <2>2, Zenon
<1>8. r = [i \in 1 .. n |-> IF i <= Len(s) THEN s[i] ELSE c]
  BY <1>5, <1>6, <1>7
<1> QED
  BY <1>6, <1>8 DEF t

LEMMA GivesApart ==
  ASSUME OwnInv, NEW c, NEW q, NEW n, Gives(c, q, n)
  PROVE  /\ Extent(blk', q) \subseteq 0 .. HeapEnd - 1
         /\ q .. q + n - 1 \subseteq Extent(blk', q)
         /\ \A d \in DOMAIN live \ {c} : Extent(blk, live[d].p) \cap Extent(blk', q) = {}
<1>1. /\ HeapOK(blk', pool') /\ Out(blk', pool') = (Out(blk, pool) \ Old(c)) \cup {q}
      /\ \A x \in Out(blk, pool) \ Old(c) : SizeIn(blk', x) = SizeIn(blk, x)
      /\ q \in Nat /\ n \in Nat \ {0} /\ n <= SizeIn(blk', q)
      /\ q \notin Out(blk, pool) \ Old(c)
  BY DEF Gives, Traded
<1>2. Whole(blk') /\ q \in Out(blk', pool') /\ SizeIn(blk', q) \in Nat
  BY <1>1, OutFacts DEF HeapOK
<1>3. Extent(blk', q) \subseteq 0 .. HeapEnd - 1
  BY <1>2, ExtentsApart
<1>4. q .. q + n - 1 \subseteq Extent(blk', q)
  BY <1>1, <1>2 DEF Extent
<1>5. ASSUME NEW d \in DOMAIN live \ {c}
      PROVE  Extent(blk, live[d].p) \cap Extent(blk', q) = {}
  <2>1. live[d].p \in Out(blk, pool) \ Old(c)
    BY OldOut
  <2>2. /\ live[d].p \in Out(blk', pool') /\ live[d].p # q
        /\ SizeIn(blk', live[d].p) = SizeIn(blk, live[d].p)
    BY <1>1, <2>1
  <2>3. Extent(blk', q) \cap Extent(blk', live[d].p) = {}
    BY <1>2, <2>2, ExtentsApart
  <2> QED
    BY <2>2, <2>3 DEF Extent
<1> QED
  BY <1>3, <1>4, <1>5

LEMMA OwnedApart ==
  ASSUME OwnInv, NEW c \in DOMAIN live
  PROVE  /\ Extent(blk, live[c].p) \subseteq 0 .. HeapEnd - 1
         /\ \A i \in 1 .. live[c].n : live[c].p + i - 1 \in Extent(blk, live[c].p)
         /\ \A d \in DOMAIN live \ {c} : Extent(blk, live[d].p) \cap Extent(blk, live[c].p) = {}
<1>1. /\ Whole(blk) /\ live[c].p \in Out(blk, pool) /\ live[c].p \in Nat
      /\ live[c].n \in Nat /\ live[c].n <= SizeIn(blk, live[c].p)
  BY DEF OwnInv, HeapOK
<1>2. SizeIn(blk, live[c].p) \in Nat
  BY <1>1, OutFacts
<1>3. \A d \in DOMAIN live \ {c} : live[d].p \in Out(blk, pool) /\ live[d].p # live[c].p
  BY DEF OwnInv
<1>4. \A i \in 1 .. live[c].n : live[c].p + i - 1 \in Extent(blk, live[c].p)
  BY <1>1, <1>2 DEF Extent
<1> QED
  BY <1>1, <1>3, <1>4, ExtentsApart

\* What is written elsewhere leaves d's words.
LEMMA AtKept ==
  ASSUME OwnInv, NEW d \in DOMAIN live,
         \A w \in Extent(blk, live[d].p) : mem'[w] = mem[w]
  PROVE  At(mem', live[d]) = At(mem, live[d])
BY OwnedApart DEF At

\* A step of the program that gives c the words it kept and words of its own.
Keep(c, n) == IF c \in DOMAIN live THEN Lesser(live[c].n, n) ELSE 0

Writes(c, q, n) ==
  /\ DOMAIN mem' = DOMAIN mem
  /\ \A d \in DOMAIN live \ {c} : \A w \in Extent(blk, live[d].p) : mem'[w] = mem[w]
  /\ \A i \in 1 .. n : mem'[q + i - 1] = IF i <= Keep(c, n) THEN mem[live[c].p + i - 1] ELSE c

LEMMA GotWrites ==
  ASSUME OwnInv, MemInv, NEW c \in Client, NEW z \in Nat \ {0}, Got(c, z)
  PROVE  Writes(c, Place(z), z)
<1> DEFINE q == Place(z)
<1>1. Gives(c, q, z) /\ mem' = Filled(mem, q, z, c) /\ Keep(c, z) = 0
  BY GotGives DEF Got, Keep
<1>2. /\ Extent(blk', q) \subseteq 0 .. HeapEnd - 1
      /\ q .. q + z - 1 \subseteq Extent(blk', q)
      /\ \A d \in DOMAIN live \ {c} : Extent(blk, live[d].p) \cap Extent(blk', q) = {}
      /\ q \in Nat
  BY <1>1, GivesApart DEF Gives
<1>. HIDE DEF q
<1>3. /\ DOMAIN mem' = DOMAIN mem
      /\ \A w \in DOMAIN mem : /\ w \in q .. q + z - 1 => mem'[w] = c
                               /\ w \notin q .. q + z - 1 => mem'[w] = mem[w]
  BY <1>1, FilledAt
<1>4. \A d \in DOMAIN live \ {c} : \A w \in Extent(blk, live[d].p) : mem'[w] = mem[w]
  BY <1>2, <1>3, OwnedApart DEF MemInv
<1>5. \A i \in 1 .. z : q + i - 1 \in q .. q + z - 1 /\ ~ (i <= 0)
  BY <1>2
<1>6. \A i \in 1 .. z : mem'[q + i - 1] = c
  BY <1>2, <1>3, <1>5 DEF MemInv
<1> QED
  BY <1>1, <1>3, <1>4, <1>5, <1>6 DEF Writes, q

LEMMA StayedWrites ==
  ASSUME OwnInv, MemInv, NEW c \in Client, NEW z \in Nat \ {0}, Stayed(c, z)
  PROVE  Writes(c, live[c].p, z)
<1>1. PICK p, k, s : /\ p = live[c].p /\ k = Lesser(live[c].n, z) /\ s = SizeIn(blk, p)
                     /\ Stays(c, z, p, k)
  BY StayedGives
<1>2. c \in DOMAIN live /\ Gives(c, p, z) /\ k = Keep(c, z)
  BY <1>1 DEF Stayed, Stays, Keep
<1>3. /\ p \in Nat /\ live[c].n \in Nat /\ live[c].n <= s /\ s \in Nat
      /\ k \in Nat /\ k <= z /\ k <= s
  <2>1. p \in Nat /\ live[c].n \in Nat /\ live[c].n <= s /\ p \in Out(blk, pool) /\ Whole(blk)
    BY <1>1, <1>2 DEF OwnInv, HeapOK
  <2>2. s \in Nat
    BY <1>1, <2>1, OutFacts
  <2> QED
    BY <1>1, <2>1, <2>2 DEF Lesser
<1>4. /\ Extent(blk', p) \subseteq DOMAIN mem /\ p .. p + z - 1 \subseteq Extent(blk', p)
      /\ \A d \in DOMAIN live \ {c} : Extent(blk, live[d].p) \cap Extent(blk', p) = {}
  BY <1>2, GivesApart DEF MemInv
<1>5. /\ Extent(blk, p) = p .. p + s - 1
      /\ \A d \in DOMAIN live \ {c} : /\ Extent(blk, live[d].p) \subseteq DOMAIN mem
                                      /\ Extent(blk, live[d].p) \cap Extent(blk, p) = {}
  BY <1>1, <1>2, OwnedApart DEF MemInv, Extent
<1>6. PICK m : m = Filled(mem, p + k, s - k, Junk)
  OBVIOUS
<1>7. mem' = Filled(m, p + k, z - k, c)
  BY <1>1, <1>6 DEF Stays
<1>8. /\ DOMAIN m = DOMAIN mem
      /\ \A w \in DOMAIN mem : w \notin p + k .. p + s - 1 => m[w] = mem[w]
  <2>1. p + k + (s - k) - 1 = p + s - 1
    BY <1>3
  <2> QED
    BY <1>6, <2>1, FilledAt
<1>9. /\ DOMAIN mem' = DOMAIN mem
      /\ \A w \in DOMAIN mem : /\ w \in p + k .. p + z - 1 => mem'[w] = c
                               /\ w \notin p + k .. p + z - 1 => mem'[w] = m[w]
  <2>1. p + k + (z - k) - 1 = p + z - 1
    BY <1>3
  <2> QED
    BY <1>7, <1>8, <2>1, FilledAt
<1>10. p + k .. p + s - 1 \subseteq p .. p + s - 1 /\ p + k .. p + z - 1 \subseteq p .. p + z - 1
  BY <1>3
<1>11. \A d \in DOMAIN live \ {c} : \A w \in Extent(blk, live[d].p) : mem'[w] = mem[w]
  BY <1>4, <1>5, <1>8, <1>9, <1>10
<1>12. ASSUME NEW i \in 1 .. z
       PROVE  mem'[p + i - 1] = IF i <= k THEN mem[p + i - 1] ELSE c
  <2>1. p + i - 1 \in p .. p + z - 1
    BY <1>3
  <2>2. p + i - 1 \in DOMAIN mem
    BY <1>4, <2>1
  <2>3. CASE i <= k
    <3>1. p + i - 1 \notin p + k .. p + z - 1 /\ p + i - 1 \notin p + k .. p + s - 1
      BY <1>3, <2>3
    <3> QED
      BY <1>8, <1>9, <2>2, <2>3, <3>1
  <2>4. CASE ~ (i <= k)
    <3>1. p + i - 1 \in p + k .. p + z - 1
      BY <1>3, <2>4
    <3> QED
      BY <1>9, <2>2, <2>4, <3>1
  <2> QED
    BY <2>3, <2>4
<1> QED
  BY <1>1, <1>2, <1>9, <1>11, <1>12 DEF Writes

LEMMA LeftWrites ==
  ASSUME OwnInv, MemInv, NEW c \in Client, NEW z \in Nat \ {0}, Left(c, z)
  PROVE  Writes(c, Place(z), z)
<1>1. PICK p, q, k, s : /\ p = live[c].p /\ q = Place(z) /\ k = live[c].n
                        /\ s = SizeIn(blk, p) /\ Leaves(c, z, p, q, k)
  BY LeftGives
<1>2. c \in DOMAIN live /\ Gives(c, q, z) /\ q \in Nat
  BY <1>1 DEF Left, Leaves, Gives
<1>3. /\ p \in Nat /\ k \in Nat /\ k <= s /\ s \in Nat /\ s < z
  <2>1. p \in Nat /\ k \in Nat /\ k <= s /\ p \in Out(blk, pool) /\ Whole(blk)
    BY <1>1, <1>2 DEF OwnInv, HeapOK
  <2> QED
    BY <1>1, <2>1, OutFacts DEF Leaves
<1>4. Keep(c, z) = k
  BY <1>1, <1>2, <1>3 DEF Keep, Lesser
<1>5. /\ Extent(blk', q) \subseteq DOMAIN mem /\ q .. q + z - 1 \subseteq Extent(blk', q)
      /\ \A d \in DOMAIN live \ {c} : Extent(blk, live[d].p) \cap Extent(blk', q) = {}
  BY <1>2, GivesApart DEF MemInv
<1>6. /\ Extent(blk, p) = p .. p + s - 1
      /\ \A d \in DOMAIN live \ {c} : /\ Extent(blk, live[d].p) \subseteq DOMAIN mem
                                      /\ Extent(blk, live[d].p) \cap Extent(blk, p) = {}
  BY <1>1, <1>2, OwnedApart DEF MemInv, Extent
<1>7. Extent(blk, p) \cap Extent(blk', q) = {}
  BY <1>1 DEF Leaves
<1>8. PICK m, l : m = Copied(mem, q, p, s) /\ l = Filled(m, p, s, Junk)
  OBVIOUS
<1>9. mem' = Filled(l, q + k, z - k, c)
  BY <1>1, <1>8 DEF Leaves, Moved
<1>10. /\ DOMAIN m = DOMAIN mem
       /\ \A w \in DOMAIN mem : /\ w \in q .. q + s - 1 => m[w] = mem[p + (w - q)]
                                /\ w \notin q .. q + s - 1 => m[w] = mem[w]
  BY <1>8, CopiedAt
<1>11. /\ DOMAIN l = DOMAIN mem
       /\ \A w \in DOMAIN mem : w \notin p .. p + s - 1 => l[w] = m[w]
  BY <1>8, <1>10, FilledAt
<1>12. /\ DOMAIN mem' = DOMAIN mem
       /\ \A w \in DOMAIN mem : /\ w \in q + k .. q + z - 1 => mem'[w] = c
                                /\ w \notin q + k .. q + z - 1 => mem'[w] = l[w]
  <2>1. q + k + (z - k) - 1 = q + z - 1
    BY <1>2, <1>3
  <2> QED
    BY <1>9, <1>11, <2>1, FilledAt
<1>13. q + k .. q + z - 1 \subseteq q .. q + z - 1 /\ q .. q + s - 1 \subseteq q .. q + z - 1
  BY <1>2, <1>3
<1>14. \A d \in DOMAIN live \ {c} : \A w \in Extent(blk, live[d].p) : mem'[w] = mem[w]
  BY <1>5, <1>6, <1>10, <1>11, <1>12, <1>13
<1>15. ASSUME NEW i \in 1 .. z
       PROVE  mem'[q + i - 1] = IF i <= k THEN mem[p + i - 1] ELSE c
  <2>1. q + i - 1 \in q .. q + z - 1
    BY <1>2
  <2>2. q + i - 1 \in DOMAIN mem /\ q + i - 1 \notin p .. p + s - 1
    BY <1>5, <1>6, <1>7, <2>1
  <2>3. CASE i <= k
    <3>1. /\ q + i - 1 \notin q + k .. q + z - 1 /\ q + i - 1 \in q .. q + s - 1
          /\ p + ((q + i - 1) - q) = p + i - 1
      BY <1>2, <1>3, <2>3
    <3>2. mem'[q + i - 1] = mem[p + ((q + i - 1) - q)]
      BY <1>10, <1>11, <1>12, <2>2, <3>1
    <3> QED
      BY <2>3, <3>1, <3>2
  <2>4. CASE ~ (i <= k)
    <3>1. q + i - 1 \in q + k .. q + z - 1
      BY <1>2, <1>3, <2>4
    <3> QED
      BY <1>12, <2>2, <2>4, <3>1
  <2> QED
    BY <2>3, <2>4
<1> QED
  BY <1>1, <1>4, <1>12, <1>14, <1>15 DEF Writes

\* Such a step is Allocator's.
LEMMA GivesIsGive ==
  ASSUME OwnInv, MemInv, NEW c, NEW q, NEW n, Gives(c, q, n), Writes(c, q, n)
  PROVE  Abstract!Next
<1> DEFINE r == [p |-> q, n |-> n]
           k == Keep(c, n)
           pre == Abstract!Prefix(c, n)
<1>1. /\ c \in Client /\ q \in Nat /\ n \in Nat \ {0} /\ n <= SizeIn(blk', q)
      /\ live' = [d \in DOMAIN live \cup {c} |-> IF d = c THEN r ELSE live[d]]
  BY DEF Gives, Owning
<1>2. /\ DOMAIN live' = DOMAIN live \cup {c} /\ live'[c] = r
      /\ \A d \in DOMAIN live \ {c} : live'[d] = live[d]
  BY <1>1
<1>3. /\ Extent(blk', q) \subseteq 0 .. HeapEnd - 1
      /\ q .. q + n - 1 \subseteq Extent(blk', q)
      /\ \A d \in DOMAIN live \ {c} : Extent(blk, live[d].p) \cap Extent(blk', q) = {}
  BY GivesApart
<1>4. q \in 0 .. HeapEnd - 1 /\ n \in 1 .. HeapEnd
  <2>1. q \in q .. q + n - 1 /\ q + n - 1 \in q .. q + n - 1
    BY <1>1
  <2>2. q \in 0 .. HeapEnd - 1 /\ q + n - 1 \in 0 .. HeapEnd - 1 /\ HeapEnd \in Nat
    BY <1>3, <2>1, BlocksAssumption DEF HeapEnd
  <2> QED
    BY <1>1, <2>2
<1>5. ASSUME NEW d \in DOMAIN live
      PROVE  Abstract!Range(live[d]) \subseteq Extent(blk, live[d].p)
  <2>1. /\ live[d].p \in Nat /\ live[d].n \in Nat /\ live[d].n <= SizeIn(blk, live[d].p)
        /\ live[d].p \in Out(blk, pool) /\ Whole(blk)
    BY DEF OwnInv, HeapOK
  <2>2. SizeIn(blk, live[d].p) \in Nat
    BY <2>1, OutFacts
  <2> QED
    BY <2>1, <2>2 DEF Abstract!Range, Extent
<1>6. Abstract!FreeFor(c, r)
  <2>1. Abstract!Range(r) = q .. q + n - 1
    BY DEF Abstract!Range
  <2> QED
    BY <1>3, <1>5, <2>1 DEF Abstract!FreeFor
<1>7. \A d \in DOMAIN live \ {c} : At(mem', live'[d]) = At(mem, live[d])
  <2>1. \A d \in DOMAIN live \ {c} : At(mem', live[d]) = At(mem, live[d])
    BY AtKept DEF Writes
  <2> QED
    BY <1>2, <2>1
<1> DEFINE S == {mem[live[c].p + i - 1] : i \in 1 .. live[c].n}
<1>8. /\ pre \in Seq(S) /\ Len(pre) = k /\ k \in Nat /\ k <= n
      /\ \A i \in 1 .. k : pre[i] = mem[live[c].p + i - 1]
  <2>1. CASE c \notin DOMAIN live
    <3>1. pre = <<>> /\ k = 0
      BY <2>1 DEF Abstract!Prefix, Keep
    <3>. HIDE DEF pre, k, S
    <3> QED
      BY <1>1, <3>1
  <2>2. CASE c \in DOMAIN live
    <3> DEFINE a == At(mem, live[c])
    <3>1. live[c].n \in Nat
      BY <2>2 DEF OwnInv
    <3>2. k = (IF n < live[c].n THEN n ELSE live[c].n) /\ k \in Nat /\ k <= n /\ k <= live[c].n
      BY <1>1, <2>2, <3>1 DEF Keep, Lesser
    <3>3. pre = SubSeq(a, 1, k)
      BY <2>2, <3>2 DEF Abstract!Prefix, At
    <3>4. a \in Seq(S) /\ Len(a) = live[c].n
      <4>1. PICK m \in Nat : m = live[c].n
        BY <3>1
      <4>2. \A i \in 1 .. m : mem[live[c].p + i - 1] \in S
        BY <4>1
      <4>3. a = [i \in 1 .. m |-> mem[live[c].p + i - 1]]
        BY <4>1 DEF At
      <4>. HIDE DEF S, a
      <4>4. a \in Seq(S) /\ Len(a) = m
        BY <4>2, <4>3
      <4> QED
        BY <4>1, <4>4
    <3>5. \A i \in 1 .. k : a[i] = mem[live[c].p + i - 1]
      BY <3>1, <3>2 DEF At
    <3>. HIDE DEF pre, k, S, a
    <3>6. pre = [i \in 1 .. k |-> a[i]] /\ pre \in Seq(S) /\ Len(pre) = k
      BY <3>2, <3>3, <3>4, First
    <3> QED
      BY <3>2, <3>5, <3>6
  <2> QED
    BY <2>1, <2>2
<1>9. At(mem', r) = pre \o [i \in 1 .. n - Len(pre) |-> c]
  <2>1. pre \o [i \in 1 .. n - Len(pre) |-> c]
          = [i \in 1 .. n |-> IF i <= Len(pre) THEN pre[i] ELSE c]
    <3>. HIDE DEF pre, k, S
    <3> QED
      BY <1>1, <1>8, Appended
  <2>2. ASSUME NEW i \in 1 .. n
        PROVE  mem'[q + i - 1] = IF i <= Len(pre) THEN pre[i] ELSE c
    <3>. HIDE DEF pre, S
    <3>1. mem'[q + i - 1] = IF i <= k THEN mem[live[c].p + i - 1] ELSE c
      BY DEF Writes
    <3>2. i <= k => i \in 1 .. k
      BY <1>1, <1>8
    <3>. HIDE DEF k
    <3> QED
      BY <1>8, <3>1, <3>2
  <2>3. At(mem', r) = [i \in 1 .. n |-> mem'[q + i - 1]]
    BY DEF At
  <2>. HIDE DEF pre, k, S, r
  <2> QED
    BY <2>1, <2>2, <2>3
<1>10. [d \in DOMAIN live' |-> At(mem', live'[d])]
         = [d \in DOMAIN live \cup {c} |->
              IF d = c THEN pre \o [i \in 1 .. n - Len(pre) |-> c]
              ELSE [e \in DOMAIN live |-> At(mem, live[e])][d]]
  <2>. HIDE DEF pre, k, S, r
  <2>1. \A d \in DOMAIN live \cup {c} :
          At(mem', live'[d]) = IF d = c THEN pre \o [i \in 1 .. n - Len(pre) |-> c]
                               ELSE [e \in DOMAIN live |-> At(mem, live[e])][d]
    BY <1>2, <1>7, <1>9
  <2> QED
    BY <1>2, <2>1
<1>11. Abstract!Give(c, q, n)
  BY <1>1, <1>6, <1>10, Zenon DEF Abstract!Give, At
<1> QED
  BY <1>1, <1>4, <1>11, Zenon DEF Abstract!Next

LEMMA DropsIsTake ==
  ASSUME OwnInv, NEW c, Drops(c),
         \A d \in DOMAIN live \ {c} : \A w \in Extent(blk, live[d].p) : mem'[w] = mem[w]
  PROVE  Abstract!Next
<1>1. /\ c \in DOMAIN live /\ DOMAIN live' = DOMAIN live \ {c}
      /\ live' = [d \in DOMAIN live \ {c} |-> live[d]]
      /\ \A d \in DOMAIN live \ {c} : live'[d] = live[d]
  BY DEF Drops
<1>2. \A d \in DOMAIN live \ {c} : At(mem', live'[d]) = At(mem, live[d])
  <2>1. \A d \in DOMAIN live \ {c} : At(mem', live[d]) = At(mem, live[d])
    BY AtKept
  <2> QED
    BY <1>1, <2>1
<1>3. [d \in DOMAIN live' |-> At(mem', live'[d])]
        = [d \in DOMAIN live \ {c} |-> [e \in DOMAIN live |-> At(mem, live[e])][d]]
  BY <1>1, <1>2
<1>4. Abstract!Take(c)
  BY <1>1, <1>3, Zenon DEF Abstract!Take, At
<1> QED
  BY <1>1, <1>4, Zenon DEF Abstract!Next

LEMMA HeapImplementsStep ==
  OwnInv /\ MemInv /\ [Next]_vars => MemInv' /\ [Abstract!Next]_(Abstract!vars)
<1> SUFFICES ASSUME OwnInv, MemInv, [Next]_vars
             PROVE  MemInv' /\ [Abstract!Next]_(Abstract!vars)
  OBVIOUS
<1>1. CASE UNCHANGED vars \/ ResetPeak
  <2>1. live' = live /\ mem' = mem
    BY <1>1 DEF vars, ResetPeak
  <2> QED
    BY <2>1 DEF MemInv, Abstract!vars
<1>2. ASSUME NEW c \in Client, Free(c) PROVE MemInv' /\ Abstract!Next
  <2> DEFINE p == live[c].p
  <2>1. Drops(c) /\ mem' = Filled(mem, p, SizeIn(blk, p), Junk) /\ c \in DOMAIN live
    BY <1>2, FreeDrops DEF Drops
  <2>2. /\ DOMAIN mem' = DOMAIN mem
        /\ \A w \in DOMAIN mem : w \notin Extent(blk, p) => mem'[w] = mem[w]
    BY <2>1, FilledAt DEF Extent
  <2>3. \A d \in DOMAIN live \ {c} : /\ Extent(blk, live[d].p) \subseteq DOMAIN mem
                                     /\ Extent(blk, live[d].p) \cap Extent(blk, p) = {}
    BY <2>1, OwnedApart DEF MemInv
  <2>4. \A d \in DOMAIN live \ {c} : \A w \in Extent(blk, live[d].p) : mem'[w] = mem[w]
    BY <2>2, <2>3
  <2> QED
    BY <2>1, <2>2, <2>4, DropsIsTake DEF MemInv
<1>3. ASSUME NEW c \in Client, NEW z \in Nat \ {0}, Got(c, z) \/ Stayed(c, z) \/ Left(c, z)
      PROVE  MemInv' /\ Abstract!Next
  <2>1. PICK q : Gives(c, q, z) /\ Writes(c, q, z)
    <3>1. CASE Got(c, z)
      BY <3>1, GotGives, GotWrites
    <3>2. CASE Stayed(c, z)
      BY <3>2, StayedGives, StayedWrites DEF Stays
    <3>3. CASE Left(c, z)
      BY <3>3, LeftGives, LeftWrites DEF Leaves
    <3> QED
      BY <1>3, <3>1, <3>2, <3>3
  <2>2. MemInv'
    BY <2>1 DEF Writes, MemInv
  <2> QED
    BY <2>1, <2>2, GivesIsGive
<1> QED
  BY <1>1, <1>2, <1>3, NextIs, Zenon

(***************************************************************************)
(* The program sees an allocator: what malloc(), calloc() and realloc() give *)
(* it is apart from all it owns, realloc() keeps the words both sizes have   *)
(* wherever it puts them, and nothing else it wrote ever changes.            *)
(***************************************************************************)
THEOREM HeapImplementsAllocator == Spec => ImplementsAllocator
<1>1. Init => MemInv /\ Abstract!Init
  BY DEF Init, MemInv, Abstract!Init
<1> QED
  BY <1>1, InitOwns, OwnStep, HeapImplementsStep, PTL
  DEF Spec, ImplementsAllocator, Abstract!Spec

-----------------------------------------------------------------------------
\* The counters count what the program owns, word by word.

\* The words of the addresses of O that are in pools, or in blocks.
Part(f, O, sm) == UNION {Extent(f, x) : x \in {y \in O : Small(y) = sm}}
Weigh(f, p, sm) == IF Small(p) = sm THEN SizeIn(f, p) ELSE 0

LEMMA PartWith ==
  ASSUME NEW f, Whole(f), NEW pl, NEW p \in Out(f, pl), NEW sm \in BOOLEAN
  PROVE  /\ Cardinality(Part(f, Out(f, pl), sm))
              = Cardinality(Part(f, Out(f, pl) \ {p}, sm)) + Weigh(f, p, sm)
         /\ Cardinality(Part(f, Out(f, pl) \ {p}, sm)) \in Nat /\ Weigh(f, p, sm) \in Nat
<1> DEFINE O == Out(f, pl)
           A == Part(f, O \ {p}, sm)
<1>1. /\ p \in Nat /\ SizeIn(f, p) \in Nat \ {0} /\ Small(p) \in BOOLEAN
      /\ Extent(f, p) = p .. p + SizeIn(f, p) - 1
  BY OutFacts DEF Extent, Small
<1>2. /\ \A x \in O : Extent(f, x) \subseteq 0 .. HeapEnd - 1
      /\ \A x \in O \ {p} : Extent(f, p) \cap Extent(f, x) = {}
  BY ExtentsApart
<1>3. IsFiniteSet(0 .. HeapEnd - 1)
  BY GoodFacts, FS_Interval DEF Whole
<1>4. A \in SUBSET (0 .. HeapEnd - 1)
  BY <1>2 DEF Part
<1>5. IsFiniteSet(A) /\ Cardinality(A) \in Nat
  BY <1>3, <1>4, FS_Subset, FS_CardinalityType
<1>6. CASE Small(p) # sm
  <2>1. Part(f, O, sm) = A
    BY <1>6 DEF Part
  <2>2. Weigh(f, p, sm) = 0
    BY <1>6 DEF Weigh
  <2>. HIDE DEF A
  <2> QED
    BY <1>5, <2>1, <2>2 DEF A
<1>7. CASE Small(p) = sm
  <2>1. Part(f, O, sm) = A \cup Extent(f, p)
    BY <1>7 DEF Part
  <2>2. A \cap Extent(f, p) = {}
    BY <1>2 DEF Part
  <2>3. IsFiniteSet(Extent(f, p)) /\ Cardinality(Extent(f, p)) = SizeIn(f, p)
    <3>1. PICK n \in Nat \ {0} : n = SizeIn(f, p)
      BY <1>1
    <3>2. IsFiniteSet(p .. p + n - 1) /\ Cardinality(p .. p + n - 1) = n
      <4>1. p \in Int /\ p + n - 1 \in Int /\ ~ (p > p + n - 1) /\ p + n - 1 - p + 1 = n
        BY <1>1, <3>1
      <4> QED
        BY <4>1, FS_Interval
    <3> QED
      BY <1>1, <3>1, <3>2
  <2>4. Weigh(f, p, sm) = SizeIn(f, p)
    BY <1>7 DEF Weigh
  <2>. HIDE DEF A
  <2>5. Cardinality(A \cup Extent(f, p)) = Cardinality(A) + Cardinality(Extent(f, p))
    <3>1. Cardinality(A \cup Extent(f, p))
            = Cardinality(A) + Cardinality(Extent(f, p)) - Cardinality(A \cap Extent(f, p))
      BY <1>5, <2>3, FS_Union
    <3>2. Cardinality(A \cap Extent(f, p)) = 0
      BY <2>2, FS_EmptySet
    <3>3. PICK x \in Nat, y \in Nat : x = Cardinality(A) /\ y = Cardinality(Extent(f, p))
      BY <1>1, <1>5, <2>3
    <3>4. Cardinality(A \cup Extent(f, p)) = x + y - 0
      BY <3>1, <3>2, <3>3
    <3> QED
      BY <3>3, <3>4
  <2>6. Cardinality(Part(f, O, sm)) = Cardinality(A) + Weigh(f, p, sm)
    BY <2>1, <2>3, <2>4, <2>5
  <2> QED
    BY <1>1, <1>5, <2>4, <2>6 DEF A
<1> QED
  BY <1>6, <1>7

LEMMA SameParts ==
  ASSUME NEW f, NEW g, NEW O, \A x \in O : SizeIn(g, x) = SizeIn(f, x), NEW sm
  PROVE  Part(g, O, sm) = Part(f, O, sm)
BY DEF Part, Extent

\* The words in use of the blocks, or of the pools.
InParts(f, pl, sm) == Cardinality(Part(f, Out(f, pl), sm))

LEMMA GivesParts ==
  ASSUME OwnInv, NEW c, NEW q, NEW n, Gives(c, q, n), NEW sm \in BOOLEAN
  PROVE  /\ c \notin DOMAIN live =>
              InParts(blk', pool', sm) = InParts(blk, pool, sm) + Weigh(blk', q, sm)
         /\ c \in DOMAIN live =>
              InParts(blk', pool', sm)
                = InParts(blk, pool, sm) - Weigh(blk, live[c].p, sm) + Weigh(blk', q, sm)
<1> DEFINE O == Out(blk, pool) \ Old(c)
<1>1. /\ Whole(blk') /\ Out(blk', pool') = O \cup {q} /\ q \notin O
      /\ \A x \in O : SizeIn(blk', x) = SizeIn(blk, x)
  BY DEF Gives, Traded, HeapOK
<1>2. q \in Out(blk', pool') /\ Out(blk', pool') \ {q} = O
  BY <1>1
<1>3. Part(blk', O, sm) = Part(blk, O, sm)
  BY <1>1, SameParts
<1>4. /\ InParts(blk', pool', sm) = Cardinality(Part(blk, O, sm)) + Weigh(blk', q, sm)
      /\ Cardinality(Part(blk, O, sm)) \in Nat /\ Weigh(blk', q, sm) \in Nat
  <2>. HIDE DEF O
  <2>1. /\ Cardinality(Part(blk', Out(blk', pool'), sm))
             = Cardinality(Part(blk', Out(blk', pool') \ {q}, sm)) + Weigh(blk', q, sm)
        /\ Cardinality(Part(blk', Out(blk', pool') \ {q}, sm)) \in Nat
        /\ Weigh(blk', q, sm) \in Nat
    BY <1>1, <1>2, PartWith
  <2>2. Part(blk', Out(blk', pool') \ {q}, sm) = Part(blk, O, sm)
    BY <1>2, <1>3
  <2> QED
    BY <2>1, <2>2 DEF InParts
<1>5. CASE c \notin DOMAIN live
  <2>1. O = Out(blk, pool)
    BY <1>5 DEF Old
  <2> QED
    BY <1>4, <1>5, <2>1 DEF InParts
<1>6. CASE c \in DOMAIN live
  <2>1. O = Out(blk, pool) \ {live[c].p}
    BY <1>6 DEF Old
  <2>2. Whole(blk) /\ live[c].p \in Out(blk, pool)
    BY <1>6 DEF OwnInv, HeapOK
  <2>3. /\ InParts(blk, pool, sm) = Cardinality(Part(blk, O, sm)) + Weigh(blk, live[c].p, sm)
        /\ Weigh(blk, live[c].p, sm) \in Nat
    BY <2>1, <2>2, PartWith DEF InParts
  <2>. HIDE DEF O
  <2> QED
    BY <1>4, <1>6, <2>3
<1> QED
  BY <1>5, <1>6

LEMMA DropsParts ==
  ASSUME OwnInv, NEW c, Drops(c), NEW sm \in BOOLEAN
  PROVE  InParts(blk', pool', sm) = InParts(blk, pool, sm) - Weigh(blk, live[c].p, sm)
<1> DEFINE p == live[c].p
           O == Out(blk, pool) \ {p}
<1>1. /\ c \in DOMAIN live /\ Old(c) = {p} /\ Out(blk', pool') = O
      /\ \A x \in O : SizeIn(blk', x) = SizeIn(blk, x)
  BY DEF Drops, Traded, Old
<1>2. Part(blk', O, sm) = Part(blk, O, sm)
  BY <1>1, SameParts
<1>3. Whole(blk) /\ p \in Out(blk, pool)
  BY <1>1 DEF OwnInv, HeapOK
<1>4. /\ InParts(blk, pool, sm) = Cardinality(Part(blk, O, sm)) + Weigh(blk, p, sm)
      /\ Cardinality(Part(blk, O, sm)) \in Nat /\ Weigh(blk, p, sm) \in Nat
  <2>. HIDE DEF p
  <2> QED
    BY <1>3, PartWith DEF InParts
<1>5. InParts(blk', pool', sm) = Cardinality(Part(blk, O, sm))
  BY <1>1, <1>2 DEF InParts
<1>. HIDE DEF p, O
<1>6. InParts(blk', pool', sm) = InParts(blk, pool, sm) - Weigh(blk, p, sm)
  BY <1>4, <1>5
<1> QED
  BY <1>6 DEF p

LEMMA BigLittle ==
  ASSUME NEW f, NEW p
  PROVE  Big(f, p) = Weigh(f, p, FALSE) /\ Little(f, p) = Weigh(f, p, TRUE)
BY DEF Big, Little, Weigh, Small

UsedInv ==
  /\ used = InParts(blk, pool, FALSE)
  /\ smallUsed = InParts(blk, pool, TRUE)

LEMMA InPartsType ==
  ASSUME NEW f, Whole(f), NEW pl, NEW sm
  PROVE  InParts(f, pl, sm) \in Nat
<1>1. \A x \in Out(f, pl) : Extent(f, x) \subseteq 0 .. HeapEnd - 1
  BY ExtentsApart
<1>2. Part(f, Out(f, pl), sm) \in SUBSET (0 .. HeapEnd - 1)
  BY <1>1 DEF Part
<1>3. IsFiniteSet(0 .. HeapEnd - 1)
  BY GoodFacts, FS_Interval DEF Whole
<1> QED
  BY <1>2, <1>3, FS_Subset, FS_CardinalityType DEF InParts

LEMMA UsedStep == OwnInv /\ UsedInv /\ [Next]_vars => UsedInv'
<1> SUFFICES ASSUME OwnInv, UsedInv, [Next]_vars PROVE UsedInv'
  OBVIOUS
<1>1. /\ used = InParts(blk, pool, FALSE) /\ smallUsed = InParts(blk, pool, TRUE)
      /\ used \in Int /\ smallUsed \in Int
  <2>1. \A sm : InParts(blk, pool, sm) \in Nat
    BY InPartsType DEF OwnInv, HeapOK
  <2>2. used = InParts(blk, pool, FALSE) /\ smallUsed = InParts(blk, pool, TRUE)
    BY Zenon DEF UsedInv
  <2>3. used \in Nat /\ smallUsed \in Nat
    BY <2>1, <2>2, Zenon
  <2>4. used \in Int /\ smallUsed \in Int
    BY <2>3
  <2> QED
    BY <2>2, <2>4, Zenon
<1>2. CASE UNCHANGED vars \/ ResetPeak
  <2>1. blk' = blk /\ pool' = pool /\ used' = used /\ smallUsed' = smallUsed
    BY <1>2 DEF vars, ResetPeak, heapVars, blockVars
  <2> QED
    BY <2>1 DEF UsedInv
<1>3. ASSUME NEW c \in Client, Free(c) PROVE UsedInv'
  <2>1. Drops(c)
    BY <1>3, FreeDrops
  <2>2. /\ used' = used - Weigh(blk, live[c].p, FALSE)
        /\ smallUsed' = smallUsed - Weigh(blk, live[c].p, TRUE)
    BY <1>1, <1>3, FreeCounts, BigLittle
  <2> QED
    BY <1>1, <2>1, <2>2, DropsParts DEF UsedInv
<1>4. ASSUME NEW c \in Client, NEW z \in Nat \ {0}, Got(c, z) PROVE UsedInv'
  <2>1. Gives(c, Place(z), z) /\ c \notin DOMAIN live
    BY <1>4, GotGives DEF Got
  <2>2. /\ used' = used + Weigh(blk', Place(z), FALSE)
        /\ smallUsed' = smallUsed + Weigh(blk', Place(z), TRUE)
    BY <1>1, <1>4, GotCounts, BigLittle
  <2> QED
    BY <1>1, <2>1, <2>2, GivesParts DEF UsedInv
<1>5. ASSUME NEW c \in Client, NEW z \in Nat \ {0}, Stayed(c, z) PROVE UsedInv'
  <2>1. Gives(c, live[c].p, z) /\ c \in DOMAIN live
    BY <1>5, StayedGives DEF Stays, Stayed
  <2>2. /\ used' = used - Weigh(blk, live[c].p, FALSE) + Weigh(blk', live[c].p, FALSE)
        /\ smallUsed' = smallUsed - Weigh(blk, live[c].p, TRUE) + Weigh(blk', live[c].p, TRUE)
    BY <1>1, <1>5, StayedCounts, BigLittle
  <2> QED
    BY <1>1, <2>1, <2>2, GivesParts DEF UsedInv
<1>6. ASSUME NEW c \in Client, NEW z \in Nat \ {0}, Left(c, z) PROVE UsedInv'
  <2>1. Gives(c, Place(z), z) /\ c \in DOMAIN live
    BY <1>6, LeftGives DEF Leaves, Left
  <2>2. /\ used' = used - Weigh(blk, live[c].p, FALSE) + Weigh(blk', Place(z), FALSE)
        /\ smallUsed' = smallUsed - Weigh(blk, live[c].p, TRUE) + Weigh(blk', Place(z), TRUE)
    BY <1>1, <1>6, LeftCounts, BigLittle
  <2> QED
    BY <1>1, <2>1, <2>2, GivesParts DEF UsedInv
<1> QED
  BY <1>2, <1>3, <1>4, <1>5, <1>6, NextIs, Zenon

-----------------------------------------------------------------------------
\* The counters of the pools.

PoolCount(pl) == \A i \in DOMAIN Pools : pl[i].used = Cardinality(SlotsOut(pl) \cap Slots(i))

LEMMA SlotsFinite ==
  ASSUME NEW pl, NEW i \in DOMAIN Pools
  PROVE  /\ IsFiniteSet(SlotsOut(pl) \cap Slots(i))
         /\ Cardinality(SlotsOut(pl) \cap Slots(i)) \in Nat
<1>1. PoolTop(Pools[i]) \in Nat /\ Pools[i].size \in Nat
  BY PoolTypes
<1>2. \A s \in Slots(i) : s \in Nat /\ s <= PoolTop(Pools[i])
  BY <1>1, SlotFacts
<1>3. SlotsOut(pl) \cap Slots(i) \in SUBSET Nat
  BY <1>2
<1> QED
  BY <1>1, <1>2, <1>3, FS_BoundedSetOfNaturals, FS_CardinalityType

LEMMA TakenCount ==
  ASSUME HeapOK(blk, pool), PoolCount(pool), NEW z, NEW ql, ql = SlotTaken(pool, z)
  PROVE  PoolCount(ql)
<1>1. CASE ~ FromPool(z)
  BY <1>1 DEF SlotTaken
<1>2. CASE FromPool(z)
  <2> DEFINE i == ThePool(z)
  <2>2. i \in DOMAIN Pools /\ pool[i].free # <<>>
    BY <1>2, ThePoolIs
  <2>3. ql = OneTaken(pool, i)
    BY <1>2 DEF SlotTaken, OneTaken
  <2>. HIDE DEF i
  <2>4. PICK h : h = Head(pool[i].free)
    OBVIOUS
  <2>5. /\ SlotsOut(ql) = SlotsOut(pool) \cup {h} /\ h \in Slots(i) /\ h \notin SlotsOut(pool)
        /\ ql[i].used = pool[i].used + 1 /\ \A j \in DOMAIN Pools \ {i} : ql[j] = pool[j]
    BY <2>2, <2>3, <2>4, SlotTakenIs DEF HeapOK
  <2>7. \A j \in DOMAIN Pools \ {i} : SlotsOut(ql) \cap Slots(j) = SlotsOut(pool) \cap Slots(j)
    <3>1. \A j \in DOMAIN Pools : h \in Slots(j) => j = i
      BY <2>2, <2>5, SlotIn
    <3> QED
      BY <2>5, <3>1
  <2>8. SlotsOut(ql) \cap Slots(i) = (SlotsOut(pool) \cap Slots(i)) \cup {h}
    BY <2>5
  <2>9. Cardinality(SlotsOut(ql) \cap Slots(i)) = Cardinality(SlotsOut(pool) \cap Slots(i)) + 1
    BY <2>2, <2>5, <2>8, SlotsFinite, FS_AddElement
  <2> QED
    BY <2>2, <2>5, <2>7, <2>9 DEF PoolCount
<1> QED
  BY <1>1, <1>2

LEMMA BackCount ==
  ASSUME NEW f, NEW pl, HeapOK(f, pl), PoolCount(pl), NEW p \in Out(f, pl),
         NEW ql, ql = SlotReturned(pl, p)
  PROVE  PoolCount(ql)
<1>1. CASE ~ Small(p)
  BY <1>1 DEF SlotReturned
<1>2. CASE Small(p)
  <2> DEFINE i == PoolOf(p)
  <2>1. i = PoolOf(p)
    OBVIOUS
  <2>2. p \in SlotsOut(pl) /\ i \in DOMAIN Pools /\ p \in Slots(i) /\ p \in Nat
        /\ p \notin Idle(pl, i)
    BY <1>2, <2>1, OutFacts, SlotOut DEF HeapOK
  <2>3. ql = OneBack(pl, i, p)
    BY <1>2 DEF SlotReturned, OneBack
  <2>. HIDE DEF i
  <2>4. /\ SlotsOut(ql) = SlotsOut(pl) \ {p}
        /\ ql[i].used = pl[i].used - 1 /\ \A j \in DOMAIN Pools \ {i} : ql[j] = pl[j]
    BY <2>1, <2>2, <2>3, SlotBackIs DEF HeapOK
  <2>6. \A j \in DOMAIN Pools \ {i} : SlotsOut(ql) \cap Slots(j) = SlotsOut(pl) \cap Slots(j)
    <3>1. \A j \in DOMAIN Pools : p \in Slots(j) => j = i
      BY <2>2, SlotIn
    <3> QED
      BY <2>4, <3>1
  <2>7. SlotsOut(ql) \cap Slots(i) = (SlotsOut(pl) \cap Slots(i)) \ {p}
    BY <2>4
  <2>8. Cardinality(SlotsOut(ql) \cap Slots(i)) = Cardinality(SlotsOut(pl) \cap Slots(i)) - 1
    BY <2>2, <2>7, SlotsFinite, FS_RemoveElement
  <2> QED
    BY <2>2, <2>4, <2>6, <2>8 DEF PoolCount
<1> QED
  BY <1>1, <1>2

LEMMA PoolStep == OwnInv /\ PoolCount(pool) /\ [Next]_vars => PoolCount(pool')
<1> SUFFICES ASSUME OwnInv, PoolCount(pool), [Next]_vars PROVE PoolCount(pool')
  OBVIOUS
<1>1. CASE UNCHANGED vars \/ ResetPeak
  <2>1. pool' = pool
    BY <1>1 DEF vars, ResetPeak, heapVars
  <2> QED
    BY <2>1
<1>2. HeapOK(blk, pool)
  BY DEF OwnInv
<1>3. ASSUME NEW c \in Client, Free(c) PROVE PoolCount(pool')
  <2>1. c \in DOMAIN live /\ pool' = SlotReturned(pool, live[c].p)
    BY <1>3 DEF Free
  <2>2. live[c].p \in Out(blk, pool)
    BY <2>1 DEF OwnInv
  <2> QED
    BY <1>2, <2>1, <2>2, BackCount
<1>4. ASSUME NEW c \in Client, NEW z \in Nat \ {0}, Got(c, z) PROVE PoolCount(pool')
  <2>1. pool' = SlotTaken(pool, z)
    BY <1>4 DEF Got, Obtain
  <2> QED
    BY <1>2, <2>1, TakenCount
<1>5. ASSUME NEW c \in Client, NEW z \in Nat \ {0}, Stayed(c, z) PROVE PoolCount(pool')
  <2>1. pool' = pool
    BY <1>5 DEF Stayed, StayInPlace, heapVars
  <2> QED
    BY <2>1
<1>6. ASSUME NEW c \in Client, NEW z \in Nat \ {0}, Left(c, z) PROVE PoolCount(pool')
  <2>1. PICK p, ql, g : /\ p = live[c].p /\ ql = SlotTaken(pool, z)
                        /\ g = IF FromPool(z) THEN blk ELSE Taken(blk, FirstFit(blk, z), z)
    OBVIOUS
  <2>2. c \in DOMAIN live /\ CanPlace(z) /\ pool' = SlotReturned(ql, p)
    BY <1>6, <2>1 DEF Left, MoveAway
  <2>3. p \in Out(blk, pool)
    BY <2>1, <2>2 DEF OwnInv
  <2>4. Traded(blk, pool, g, ql, {}, {Place(z)})
    BY ONLY <1>2, <2>1, <2>2, z \in Nat \ {0}, Placed
  <2>5. HeapOK(g, ql) /\ p \in Out(g, ql)
    BY <2>3, <2>4 DEF Traded
  <2> QED
    BY <1>2, <2>1, <2>2, <2>5, TakenCount, BackCount
<1> QED
  BY <1>1, <1>3, <1>4, <1>5, <1>6, NextIs, Zenon

LEMMA InitCounts == Init => UsedInv /\ PoolCount(pool)
<1> SUFFICES ASSUME Init PROVE UsedInv /\ PoolCount(pool)
  OBVIOUS
<1>1. OwnInv /\ DOMAIN live = {}
  BY InitOwns DEF Init
<1>2. Out(blk, pool) = {} /\ SlotsOut(pool) = {}
  BY <1>1 DEF OwnInv, Out
<1>3. \A sm : InParts(blk, pool, sm) = 0
  <2>1. \A sm : Part(blk, {}, sm) = {}
    BY DEF Part
  <2> QED
    BY <1>2, <2>1, FS_EmptySet DEF InParts
<1>4. used = 0 /\ smallUsed = 0 /\ \A i \in DOMAIN Pools : pool[i].used = 0
  BY DEF Init, BlocksInit
<1>5. UsedInv
  BY <1>3, <1>4, Zenon DEF UsedInv
<1>6. \A i \in DOMAIN Pools : SlotsOut(pool) \cap Slots(i) = {}
  BY <1>2
<1> QED
  BY <1>4, <1>5, <1>6, FS_EmptySet DEF PoolCount

(***************************************************************************)
(* used and small_used are the numbers of words of what the program owns in *)
(* blocks and in slots, blocks is the number of headers, and each pool has  *)
(* as many slots in use as are handed out, after every sequence of calls.   *)
(***************************************************************************)
CountersExact ==
  /\ used = InParts(blk, pool, FALSE) /\ smallUsed = InParts(blk, pool, TRUE)
  /\ blocks = Headers(blk)
  /\ PoolCount(pool)

THEOREM HeapCountersExact == Spec => []CountersExact
<1>1. UsedInv /\ (blocks = Headers(blk)) /\ PoolCount(pool) => CountersExact
  BY Zenon DEF UsedInv, CountersExact
<1>2. Spec => [](blocks = Headers(blk))
  BY HeapUsesBlocks, BlocksCounted, PTL DEF UsesBlocks
<1>3. OwnInv /\ PoolCount(pool) /\ [Next]_vars => PoolCount(pool)'
  BY PoolStep
<1> QED
  BY <1>1, <1>2, <1>3, InitOwns, InitCounts, OwnStep, UsedStep, PTL DEF Spec

-----------------------------------------------------------------------------
\* What SumOf is: the value at S of the function the fold defines.
SumEq(h, v, S) ==
  h = [s \in SUBSET S |-> IF s = {} THEN 0
                          ELSE v[CHOOSE x \in s : TRUE] + h[s \ {CHOOSE x \in s : TRUE}]]

LEMMA SumIs ==
  ASSUME NEW v
  PROVE  SumOf(v) = (CHOOSE h : SumEq(h, v, DOMAIN v))[DOMAIN v]
BY SMT DEF SumOf, MapThenSumSet, MapThenFoldSet, SumEq

LEMMA DisjointUnion ==
  ASSUME NEW A, NEW B, IsFiniteSet(A), IsFiniteSet(B), A \cap B = {}
  PROVE  /\ IsFiniteSet(A \cup B) /\ Cardinality(A) \in Nat /\ Cardinality(B) \in Nat
         /\ Cardinality(A \cup B) = Cardinality(A) + Cardinality(B)
<1>1. PICK a, b : a = Cardinality(A) /\ b = Cardinality(B) /\ a \in Nat /\ b \in Nat
  BY FS_CardinalityType
<1>2. /\ IsFiniteSet(A \cup B)
      /\ Cardinality(A \cup B) = Cardinality(A) + Cardinality(B) - Cardinality(A \cap B)
  BY FS_Union
<1>3. Cardinality(A \cap B) = 0
  BY FS_EmptySet
<1>4. Cardinality(A \cup B) = a + b - 0
  BY <1>1, <1>2, <1>3
<1>5. Cardinality(A \cup B) = a + b
  BY <1>1, <1>4
<1> QED
  BY <1>1, <1>2, <1>5

\* The sum over a finite set of the sizes of sets that are apart is the size
\* of their union.
LEMMA SumCounts ==
  ASSUME NEW v, NEW F, NEW E,
         LET S == DOMAIN v
         IN  /\ IsFiniteSet(S) /\ IsFiniteSet(F) /\ E \in [S -> SUBSET F]
             /\ \A x, y \in S : x # y => E[x] \cap E[y] = {}
             /\ \A x \in S : v[x] = Cardinality(E[x])
  PROVE  SumOf(v) = Cardinality(UNION {E[x] : x \in DOMAIN v})
<1> DEFINE S == DOMAIN v
           U(s) == UNION {E[x] : x \in s}
           G == [s \in SUBSET S |-> Cardinality(U(s))]
<1>1. /\ IsFiniteSet(S) /\ IsFiniteSet(F) /\ \A x \in S : E[x] \in SUBSET F
      /\ \A x, y \in S : x # y => E[x] \cap E[y] = {}
      /\ \A x \in S : v[x] = Cardinality(E[x])
  OBVIOUS
<1>. HIDE DEF S
<1>2. ASSUME NEW s \in SUBSET S, NEW x \in s
      PROVE  Cardinality(U(s)) = v[x] + Cardinality(U(s \ {x}))
  <2>1. U(s) = E[x] \cup U(s \ {x}) /\ E[x] \cap U(s \ {x}) = {}
    BY <1>1
  <2>2. E[x] \in SUBSET F /\ U(s \ {x}) \in SUBSET F
    BY <1>1
  <2>3. IsFiniteSet(E[x]) /\ IsFiniteSet(U(s \ {x}))
    BY <1>1, <2>2, FS_Subset
  <2>4. PICK A, B : A = E[x] /\ B = U(s \ {x})
    OBVIOUS
  <2>5. Cardinality(A \cup B) = Cardinality(A) + Cardinality(B)
    BY <2>1, <2>3, <2>4, DisjointUnion
  <2>6. v[x] = Cardinality(A)
    BY <1>1, <2>4
  <2> QED
    BY <2>1, <2>4, <2>5, <2>6
<1>3. Cardinality(U({})) = 0
  <2>1. U({}) = {}
    OBVIOUS
  <2> QED
    BY <2>1, FS_EmptySet
<1>4. SumEq(G, v, S)
  <2>1. ASSUME NEW s \in SUBSET S, s # {}
        PROVE  Cardinality(U(s))
                 = v[CHOOSE x \in s : TRUE] + G[s \ {CHOOSE x \in s : TRUE}]
    <3>1. PICK x : x = (CHOOSE y \in s : TRUE) /\ x \in s
      BY <2>1
    <3>2. s \ {x} \in SUBSET S
      OBVIOUS
    <3>3. G[s \ {x}] = Cardinality(U(s \ {x}))
      BY <3>2
    <3> QED
      BY <1>2, <3>1, <3>3
  <2>2. G = [s \in SUBSET S |-> IF s = {} THEN 0
                  ELSE v[CHOOSE x \in s : TRUE] + G[s \ {CHOOSE x \in s : TRUE}]]
    <3>. DEFINE R(s) == IF s = {} THEN 0
                        ELSE v[CHOOSE x \in s : TRUE] + G[s \ {CHOOSE x \in s : TRUE}]
    <3>1. \A s \in SUBSET S : Cardinality(U(s)) = R(s)
      <4> TAKE s \in SUBSET S
      <4>1. CASE s = {}
        BY <1>3, <4>1
      <4>2. CASE s # {}
        BY <2>1, <4>2
      <4> QED
        BY <4>1, <4>2
    <3>. HIDE DEF R, U
    <3>2. G = [s \in SUBSET S |-> R(s)]
      BY <3>1, Zenon
    <3> QED
      BY <3>2 DEF R
  <2> QED
    BY <2>2 DEF SumEq
<1>5. ASSUME NEW h, SumEq(h, v, S) PROVE h[S] = Cardinality(U(S))
  <2> DEFINE Bad == {s \in SUBSET S : h[s] # Cardinality(U(s))}
             Sizes == {k \in Nat : \E s \in Bad : Cardinality(s) = k}
  <2>. HIDE DEF G, U
  <2>1. \A s \in SUBSET S : IsFiniteSet(s) /\ Cardinality(s) \in Nat
    BY <1>1, FS_Subset, FS_CardinalityType
  <2>2. SUFFICES ASSUME Sizes # {} PROVE FALSE
    <3>1. Bad = {}
      BY <2>1, <2>2
    <3> QED
      BY <3>1
  <2>3. PICK k \in Sizes : \A c \in Sizes : k <= c
    <3>1. Sizes \in SUBSET Nat
      OBVIOUS
    <3> QED
      BY ONLY <2>2, <3>1, LeastNatural
  <2>4. PICK s \in Bad : Cardinality(s) = k
    BY <2>3
  <2>5. s # {}
    <3>1. CASE s = {}
      <4>1. h[s] = 0
        BY <1>5, <3>1 DEF SumEq
      <4> QED
        BY <1>3, <2>4, <3>1, <4>1
    <3> QED
      BY <3>1
  <2>6. PICK x : x = (CHOOSE y \in s : TRUE) /\ x \in s
    BY <2>5
  <2>7. h[s] = v[x] + h[s \ {x}]
    BY <1>5, <2>4, <2>5, <2>6 DEF SumEq
  <2>8. s \ {x} \in SUBSET S /\ Cardinality(s \ {x}) = k - 1
    BY <2>1, <2>4, <2>6, FS_RemoveElement
  <2>9. h[s \ {x}] = Cardinality(U(s \ {x}))
    <3>1. k - 1 \notin Sizes
      BY <2>3
    <3>2. Cardinality(s \ {x}) \in Nat
      BY <2>1, <2>8
    <3> QED
      BY <2>8, <3>1, <3>2
  <2> QED
    BY <1>2, <2>4, <2>6, <2>7, <2>9
<1>6. SumEq(CHOOSE h : SumEq(h, v, S), v, S)
  BY <1>4, Zenon
<1>7. (CHOOSE h : SumEq(h, v, S))[S] = Cardinality(U(S))
  BY <1>5, <1>6, Zenon
<1> QED
  BY <1>7, SumIs DEF S

-----------------------------------------------------------------------------
\* The walk of heap_get_stats(): what it has found from off on.
Above(off) == {b \in DOMAIN blk : b >= HeapStart + off}
UsedAbove(off) == {b \in Above(off) : blk[b].used}
FreeAbove(off) == {b \in Above(off) : ~ blk[b].used}
WordsAbove(off) == UNION {b + 1 .. b + blk[b].size : b \in UsedAbove(off)}
Bounds(off) == {m \in Nat : \A b \in FreeAbove(off) : blk[b].size <= m}
LargestAbove(off) == CHOOSE m \in Bounds(off) : \A k \in Bounds(off) : m <= k

Found(off) ==
  LET u == Cardinality(UsedAbove(off))
      f == Cardinality(FreeAbove(off))
      w == Cardinality(WordsAbove(off))
  IN  [ok |-> TRUE, used |-> w, free |-> Capacity - (off + w + u + f),
       largest |-> LargestAbove(off), usedBlocks |-> u, freeBlocks |-> f]

WalkEq(h) ==
  h = [at \in Places |->
         IF at.off = Capacity THEN NoStats
         ELSE IF ~ Sound(at.off, at.prev, at.wasFree) THEN Corrupt
         ELSE LET b == blk[HeapStart + at.off]
              IN  Seen(h[[off |-> at.off + 1 + b.size, prev |-> 1 + b.size,
                          wasFree |-> ~ b.used]], b)]

LEMMA WalkIs ==
  Walk = (CHOOSE h : WalkEq(h))[[off |-> 0, prev |-> 0, wasFree |-> FALSE]]
BY Zenon DEF Walk, WalkEq

LEMMA AboveTypes ==
  ASSUME Whole(blk), NEW off \in Nat
  PROVE  /\ IsFiniteSet(Above(off)) /\ IsFiniteSet(UsedAbove(off)) /\ IsFiniteSet(FreeAbove(off))
         /\ IsFiniteSet(WordsAbove(off))
         /\ Cardinality(UsedAbove(off)) \in Nat /\ Cardinality(FreeAbove(off)) \in Nat
         /\ Cardinality(WordsAbove(off)) \in Nat
<1>1. IsFiniteSet(DOMAIN blk)
  BY HeadersFinite DEF Whole
<1>2. /\ Above(off) \in SUBSET DOMAIN blk /\ UsedAbove(off) \in SUBSET DOMAIN blk
      /\ FreeAbove(off) \in SUBSET DOMAIN blk
  BY DEF Above, UsedAbove, FreeAbove
<1>3. /\ HeapEnd \in Nat
      /\ \A b \in DOMAIN blk : /\ b \in Nat /\ blk[b].size \in Nat /\ b + 1 + blk[b].size <= HeapEnd
  BY GoodFacts DEF Whole, NextOf
<1>4. WordsAbove(off) \in SUBSET (0 .. HeapEnd)
  BY <1>2, <1>3 DEF WordsAbove
<1>5. IsFiniteSet(0 .. HeapEnd)
  BY <1>3, FS_Interval
<1> QED
  BY <1>1, <1>2, <1>4, <1>5, FS_Subset, FS_CardinalityType

LEMMA LargestIs ==
  ASSUME Whole(blk), NEW off
  PROVE  /\ LargestAbove(off) \in Bounds(off)
         /\ \A k \in Bounds(off) : LargestAbove(off) <= k
         /\ LargestAbove(off) \in Nat
<1>1. /\ HeapEnd \in Nat
      /\ \A b \in DOMAIN blk : b \in Nat /\ blk[b].size \in Nat /\ b + 1 + blk[b].size <= HeapEnd
  BY GoodFacts DEF Whole, NextOf
<1>2. HeapEnd \in Bounds(off) /\ Bounds(off) \in SUBSET Nat
  BY <1>1 DEF Bounds, FreeAbove, Above
<1>3. \E m \in Bounds(off) : \A k \in Bounds(off) : m <= k
  BY ONLY <1>2, LeastNatural
<1> QED
  BY <1>2, <1>3 DEF LargestAbove

LEMMA AboveStep ==
  ASSUME Whole(blk), NEW b \in DOMAIN blk, NEW off \in Nat, b = HeapStart + off,
         NEW to, to = off + 1 + blk[b].size
  PROVE  /\ to \in Nat /\ to <= Capacity
         /\ Above(off) = Above(to) \cup {b} /\ b \notin Above(to)
         /\ to # Capacity => /\ HeapStart + to \in DOMAIN blk
                             /\ blk[HeapStart + to].prev = 1 + blk[b].size
                             /\ blk[b].used \/ blk[HeapStart + to].used
<1>1. /\ HeapStart \in Nat /\ Capacity \in Nat /\ HeapEnd = HeapStart + Capacity
      /\ blk[b].size \in Nat \ {0} /\ b \in Nat
      /\ NextOf(blk, b) = HeapStart + to /\ NextOf(blk, b) <= HeapEnd
      /\ NextOf(blk, b) \in DOMAIN blk \cup {HeapEnd}
  <2>1. /\ b \in Nat /\ blk[b].size \in Nat \ {0} /\ NextOf(blk, b) = b + 1 + blk[b].size
        /\ NextOf(blk, b) \in DOMAIN blk \cup {HeapEnd} /\ NextOf(blk, b) <= HeapEnd
    BY GoodFacts DEF Whole
  <2> QED
    BY <2>1, BlocksAssumption DEF HeapEnd
<1>2. to \in Nat /\ to <= Capacity
  BY <1>1
<1>3. \A a \in DOMAIN blk : a \in Nat /\ (b < a => NextOf(blk, b) <= a)
  BY GoodFacts, GoodOrder DEF Whole
<1>4. Above(off) = Above(to) \cup {b} /\ b \notin Above(to)
  BY <1>1, <1>2, <1>3 DEF Above
<1>5. ASSUME to # Capacity
      PROVE  /\ HeapStart + to \in DOMAIN blk
             /\ blk[HeapStart + to].prev = 1 + blk[b].size
             /\ blk[b].used \/ blk[HeapStart + to].used
  <2> DEFINE r == HeapStart + to
  <2>1. r \in DOMAIN blk /\ r = NextOf(blk, b) /\ r # HeapEnd /\ r # HeapStart
    BY <1>1, <1>2, <1>5
  <2>2. blk[b].used \/ blk[r].used
    BY <2>1 DEF Whole, Apart
  <2>3. blk[r].prev = r - b
    <3>1. r - blk[r].prev \in DOMAIN blk /\ NextOf(blk, r - blk[r].prev) = NextOf(blk, b)
      BY <2>1, BlockBefore DEF Whole
    <3>2. r - blk[r].prev = b
      BY <3>1, GoodOrder DEF Whole
    <3>3. r \in Nat /\ blk[r].prev \in Nat
      BY <2>1, GoodFacts DEF Whole
    <3> QED
      BY <1>1, <3>2, <3>3
  <2>4. r - b = 1 + blk[b].size
    BY <1>1, <1>2
  <2> QED
    BY <2>1, <2>2, <2>3, <2>4
<1> QED
  BY <1>2, <1>4, <1>5

LEMMA FoundStep ==
  ASSUME Whole(blk), NEW b \in DOMAIN blk, NEW off \in Nat, b = HeapStart + off,
         NEW to, to = off + 1 + blk[b].size
  PROVE  Found(off) = Seen(Found(to), blk[b])
<1>1. /\ to \in Nat /\ Above(off) = Above(to) \cup {b} /\ b \notin Above(to)
  BY AboveStep
<1>2. blk[b].size \in Nat /\ blk[b].used \in BOOLEAN /\ b \in Nat /\ Capacity \in Nat
  BY GoodFacts, BlocksAssumption DEF Whole
<1>3. /\ IsFiniteSet(UsedAbove(to)) /\ IsFiniteSet(FreeAbove(to)) /\ IsFiniteSet(WordsAbove(to))
      /\ Cardinality(UsedAbove(to)) \in Nat /\ Cardinality(FreeAbove(to)) \in Nat
      /\ Cardinality(WordsAbove(to)) \in Nat
  BY <1>1, AboveTypes
<1>4. LargestAbove(to) \in Nat /\ LargestAbove(off) \in Nat
  BY LargestIs
<1>5. CASE blk[b].used
  <2>1. /\ UsedAbove(off) = UsedAbove(to) \cup {b} /\ b \notin UsedAbove(to)
        /\ FreeAbove(off) = FreeAbove(to)
    BY <1>1, <1>5 DEF UsedAbove, FreeAbove
  <2>2. Cardinality(UsedAbove(off)) = Cardinality(UsedAbove(to)) + 1
    <3>1. PICK A : A = UsedAbove(to)
      OBVIOUS
    <3>2. Cardinality(A \cup {b}) = Cardinality(A) + 1
      BY <1>3, <2>1, <3>1, FS_AddElement
    <3> QED
      BY <2>1, <3>1, <3>2
  <2>3. Cardinality(WordsAbove(off)) = Cardinality(WordsAbove(to)) + blk[b].size
    <3> DEFINE B == b + 1 .. b + blk[b].size
    <3>1. WordsAbove(off) = WordsAbove(to) \cup B
      BY <2>1 DEF WordsAbove
    <3>2. WordsAbove(to) \cap B = {}
      <4>1. ASSUME NEW a \in UsedAbove(to) PROVE a \in DOMAIN blk /\ a \in Nat /\ a > b + blk[b].size
        <5>1. a \in DOMAIN blk /\ a >= HeapStart + to /\ HeapStart \in Nat
          BY BlocksAssumption DEF UsedAbove, Above
        <5>2. a \in Nat
          BY <5>1, GoodFacts DEF Whole
        <5> QED
          BY <1>1, <1>2, <5>1, <5>2
      <4>2. \A w \in WordsAbove(to) : w > b + blk[b].size /\ w \in Int
        <5> TAKE w \in WordsAbove(to)
        <5>1. PICK a \in UsedAbove(to) : w \in a + 1 .. a + blk[a].size
          BY DEF WordsAbove
        <5> QED
          BY <1>2, <4>1, <5>1
      <4> QED
        BY <1>2, <4>2
    <3>3. IsFiniteSet(B) /\ Cardinality(B) = blk[b].size
      <4>1. PICK n \in Nat : n = blk[b].size
        BY <1>2
      <4>2. PICK x \in Int, y \in Int : x = b + 1 /\ y = b + n
        BY <1>2, <4>1
      <4>3. (IF x > y THEN 0 ELSE y - x + 1) = n
        BY <1>2, <4>1, <4>2
      <4>4. IsFiniteSet(x .. y) /\ Cardinality(x .. y) = IF x > y THEN 0 ELSE y - x + 1
        BY FS_Interval
      <4>5. B = x .. y
        BY <4>1, <4>2
      <4> QED
        BY ONLY <4>1, <4>3, <4>4, <4>5
    <3>. HIDE DEF B
    <3>4. Cardinality(WordsAbove(to) \cup B) = Cardinality(WordsAbove(to)) + Cardinality(B)
      BY <1>3, <3>2, <3>3, DisjointUnion
    <3> QED
      BY <3>1, <3>3, <3>4
  <2>4. LargestAbove(off) = LargestAbove(to)
    BY <2>1 DEF LargestAbove, Bounds
  <2>5. PICK u, f, w, n : /\ u = Cardinality(UsedAbove(to)) /\ f = Cardinality(FreeAbove(to))
                          /\ w = Cardinality(WordsAbove(to)) /\ n = blk[b].size
                          /\ u \in Nat /\ f \in Nat /\ w \in Nat /\ n \in Nat
    BY <1>2, <1>3
  <2>6. Capacity - (off + (w + n) + (u + 1) + f) = Capacity - (to + w + u + f)
    BY <1>2, <2>5
  <2>7. Found(off) = [ok |-> TRUE, used |-> w + n, free |-> Capacity - (to + w + u + f),
                      largest |-> LargestAbove(to), usedBlocks |-> u + 1, freeBlocks |-> f]
    BY <2>1, <2>2, <2>3, <2>4, <2>5, <2>6 DEF Found
  <2>8. Found(to) = [ok |-> TRUE, used |-> w, free |-> Capacity - (to + w + u + f),
                     largest |-> LargestAbove(to), usedBlocks |-> u, freeBlocks |-> f]
    BY <2>5 DEF Found
  <2> QED
    <3>1. PICK g, h : g = Capacity - (to + w + u + f) /\ h = blk[b]
      OBVIOUS
    <3>2. Seen([ok |-> TRUE, used |-> w, free |-> g, largest |-> LargestAbove(to),
                usedBlocks |-> u, freeBlocks |-> f], h)
            = [ok |-> TRUE, used |-> w + h.size, free |-> g, largest |-> LargestAbove(to),
               usedBlocks |-> u + 1, freeBlocks |-> f]
      BY ONLY <1>5, <3>1 DEF Seen
    <3> QED
      BY ONLY <2>5, <2>7, <2>8, <3>1, <3>2
<1>6. CASE ~ blk[b].used
  <2>1. /\ FreeAbove(off) = FreeAbove(to) \cup {b} /\ b \notin FreeAbove(to)
        /\ UsedAbove(off) = UsedAbove(to)
    BY <1>1, <1>6 DEF UsedAbove, FreeAbove
  <2>2. Cardinality(FreeAbove(off)) = Cardinality(FreeAbove(to)) + 1
    <3>1. PICK A : A = FreeAbove(to)
      OBVIOUS
    <3>2. Cardinality(A \cup {b}) = Cardinality(A) + 1
      BY <1>3, <2>1, <3>1, FS_AddElement
    <3> QED
      BY <2>1, <3>1, <3>2
  <2>3. WordsAbove(off) = WordsAbove(to)
    BY <2>1 DEF WordsAbove
  <2>5. PICK u, f, w, n, m, k :
               /\ u = Cardinality(UsedAbove(to)) /\ f = Cardinality(FreeAbove(to))
               /\ w = Cardinality(WordsAbove(to)) /\ n = blk[b].size
               /\ m = LargestAbove(to) /\ k = LargestAbove(off)
               /\ u \in Nat /\ f \in Nat /\ w \in Nat /\ n \in Nat /\ m \in Nat /\ k \in Nat
    BY <1>2, <1>3, <1>4
  <2>4. k = Greater(m, n)
    <3>1. \A x \in Nat : x \in Bounds(off) <=> x \in Bounds(to) /\ n <= x
      BY <2>1, <2>5 DEF Bounds
    <3>2. \A a \in FreeAbove(to) : blk[a].size \in Nat
      BY GoodFacts DEF Whole, FreeAbove, Above
    <3>3. m \in Bounds(to) /\ k \in Bounds(off) /\ \A x \in Bounds(to) : m <= x
      BY <2>5, LargestIs
    <3>4. \A x \in Bounds(off) : k <= x
      BY <2>5, LargestIs
    <3>5. Greater(m, n) \in Nat /\ Greater(m, n) >= m /\ Greater(m, n) >= n
          /\ (Greater(m, n) = m \/ Greater(m, n) = n)
      BY <2>5 DEF Greater
    <3>6. Greater(m, n) \in Bounds(off)
      <4>1. Greater(m, n) \in Bounds(to)
        BY <2>5, <3>2, <3>3, <3>5 DEF Bounds
      <4> QED
        BY <3>1, <3>5, <4>1
    <3>7. k \in Bounds(to) /\ n <= k
      BY <2>5, <3>1, <3>3
    <3>8. k <= Greater(m, n) /\ m <= k
      BY <3>3, <3>4, <3>6, <3>7
    <3> QED
      BY <2>5, <3>5, <3>7, <3>8
  <2>6. Capacity - (off + w + u + (f + 1)) = Capacity - (to + w + u + f) + n
    BY <1>2, <2>5
  <2>7. Found(off) = [ok |-> TRUE, used |-> w, free |-> Capacity - (to + w + u + f) + n,
                      largest |-> Greater(m, n), usedBlocks |-> u, freeBlocks |-> f + 1]
    BY <2>1, <2>2, <2>3, <2>4, <2>5, <2>6 DEF Found
  <2>8. Found(to) = [ok |-> TRUE, used |-> w, free |-> Capacity - (to + w + u + f),
                     largest |-> m, usedBlocks |-> u, freeBlocks |-> f]
    BY <2>5 DEF Found
  <2> QED
    <3>1. PICK g, h : g = Capacity - (to + w + u + f) /\ h = blk[b]
      OBVIOUS
    <3>2. Seen([ok |-> TRUE, used |-> w, free |-> g, largest |-> m,
                usedBlocks |-> u, freeBlocks |-> f], h)
            = [ok |-> TRUE, used |-> w, free |-> g + h.size, largest |-> Greater(m, h.size),
               usedBlocks |-> u, freeBlocks |-> f + 1]
      BY ONLY <1>6, <3>1 DEF Seen
    <3> QED
      BY ONLY <2>5, <2>7, <2>8, <3>1, <3>2
<1> QED
  BY <1>5, <1>6

LEMMA FoundNone == ASSUME Whole(blk) PROVE Found(Capacity) = NoStats
<1>1. Capacity \in Nat /\ HeapEnd = HeapStart + Capacity /\ \A b \in DOMAIN blk : b \in Nat /\ b < HeapEnd
  BY GoodFacts, BlocksAssumption DEF Whole, HeapEnd
<1>2. Above(Capacity) = {}
  BY <1>1, BlocksAssumption DEF Above
<1>3. UsedAbove(Capacity) = {} /\ FreeAbove(Capacity) = {} /\ WordsAbove(Capacity) = {}
  BY <1>2 DEF UsedAbove, FreeAbove, WordsAbove
<1>4. Cardinality({}) = 0
  BY FS_EmptySet
<1>5. LargestAbove(Capacity) = 0
  <2>1. 0 \in Bounds(Capacity)
    BY <1>3 DEF Bounds
  <2>2. LargestAbove(Capacity) <= 0 /\ LargestAbove(Capacity) \in Nat
    BY <2>1, LargestIs
  <2> QED
    BY <2>2
<1>6. Capacity - (Capacity + 0 + 0 + 0) = 0
  BY <1>1
<1> QED
  BY <1>3, <1>4, <1>5, <1>6, Zenon DEF Found, NoStats

LEMMA SoundOn ==
  ASSUME Whole(blk), NEW at \in Places, at.off # Capacity, Sound(at.off, at.prev, at.wasFree),
         NEW b, b = HeapStart + at.off, NEW to, to = at.off + 1 + blk[b].size,
         NEW nx, nx = [off |-> to, prev |-> 1 + blk[b].size, wasFree |-> ~ blk[b].used]
  PROVE  /\ b \in DOMAIN blk /\ at.off \in Nat /\ nx \in Places /\ at.off < to
         /\ to # Capacity => Sound(nx.off, nx.prev, nx.wasFree)
<1>1. /\ at.off \in Nat /\ b \in DOMAIN blk /\ Capacity \in Nat
  BY BlocksAssumption DEF Places, Sound
<1>2. /\ blk[b].size \in Nat /\ blk[b].used \in BOOLEAN
  BY <1>1, GoodFacts DEF Whole
<1>3. /\ to \in Nat /\ to <= Capacity
      /\ to # Capacity => /\ HeapStart + to \in DOMAIN blk
                          /\ blk[HeapStart + to].prev = 1 + blk[b].size
                          /\ blk[b].used \/ blk[HeapStart + to].used
  BY <1>1, AboveStep
<1>4. nx \in Places
  <2>1. 1 + blk[b].size \in 0 .. Capacity /\ to \in 0 .. Capacity /\ (~ blk[b].used) \in BOOLEAN
    BY <1>1, <1>2, <1>3
  <2> QED
    BY <2>1 DEF Places
<1>5. ASSUME to # Capacity PROVE Sound(nx.off, nx.prev, nx.wasFree)
  <2>1. /\ HeapStart + to \in DOMAIN blk
        /\ blk[HeapStart + to].prev = 1 + blk[b].size
        /\ blk[b].used \/ blk[HeapStart + to].used
    BY <1>3, <1>5
  <2>2. blk[HeapStart + to].size <= Capacity - to - 1
    <3>1. HeapStart + to \in Nat /\ HeapStart \in Nat /\ blk[HeapStart + to].size \in Nat
          /\ HeapStart + to + 1 + blk[HeapStart + to].size <= HeapStart + Capacity
      BY <1>3, <2>1, GoodFacts, BlocksAssumption DEF Whole, NextOf, HeapEnd
    <3> QED
      BY <1>1, <1>3, <3>1
  <2>3. nx.off = to /\ nx.prev = 1 + blk[b].size /\ nx.wasFree = ~ blk[b].used
    OBVIOUS
  <2>4. ~ ((~ blk[b].used) /\ ~ blk[HeapStart + to].used)
    BY <2>1
  <2>5. Sound(to, 1 + blk[b].size, ~ blk[b].used)
    BY <2>1, <2>2, <2>4, Zenon DEF Sound
  <2> QED
    BY <2>3, <2>5
<1>6. at.off < to
  BY <1>1, <1>2
<1> QED
  BY <1>1, <1>4, <1>5, <1>6

Met(at) == IF at.off = Capacity THEN NoStats
           ELSE IF ~ Sound(at.off, at.prev, at.wasFree) THEN Corrupt ELSE Found(at.off)

On(at) == LET b == blk[HeapStart + at.off]
          IN  [off |-> at.off + 1 + b.size, prev |-> 1 + b.size, wasFree |-> ~ b.used]

LEMMA MetOn ==
  ASSUME Whole(blk), NEW at \in Places, at.off # Capacity, Sound(at.off, at.prev, at.wasFree)
  PROVE  /\ On(at) \in Places /\ at.off < On(at).off
         /\ Met(at) = Seen(Met(On(at)), blk[HeapStart + at.off])
<1>1. PICK b, to, nx : /\ b = HeapStart + at.off /\ to = at.off + 1 + blk[b].size
                       /\ nx = [off |-> to, prev |-> 1 + blk[b].size, wasFree |-> ~ blk[b].used]
  OBVIOUS
<1>2. /\ b \in DOMAIN blk /\ at.off \in Nat /\ nx \in Places /\ at.off < to
      /\ to # Capacity => Sound(nx.off, nx.prev, nx.wasFree)
  BY ONLY <1>1, SoundOn, Whole(blk), at \in Places, at.off # Capacity,
          Sound(at.off, at.prev, at.wasFree)
<1>3. On(at) = nx /\ nx.off = to
  BY <1>1 DEF On
<1>4. Met(nx) = Found(to)
  BY <1>2, <1>3, FoundNone DEF Met
<1>5. Met(at) = Found(at.off)
  BY DEF Met
<1>6. Found(at.off) = Seen(Found(to), blk[b])
  BY <1>1, <1>2, FoundStep
<1> QED
  BY <1>1, <1>2, <1>3, <1>4, <1>5, <1>6

LEMMA WalkFinds == ASSUME Whole(blk) PROVE Walk = Found(0)
<1> DEFINE W == [at \in Places |-> Met(at)]
           Rule(h, at) == IF at.off = Capacity THEN NoStats
                          ELSE IF ~ Sound(at.off, at.prev, at.wasFree) THEN Corrupt
                          ELSE Seen(h[On(at)], blk[HeapStart + at.off])
<1>1. \A h : WalkEq(h) <=> h = [at \in Places |-> Rule(h, at)]
  BY Zenon DEF WalkEq, On
<1>2. \A at \in Places : Met(at) = Rule(W, at)
  <2> TAKE at \in Places
  <2>1. CASE at.off = Capacity \/ ~ Sound(at.off, at.prev, at.wasFree)
    BY <2>1 DEF Met
  <2>2. CASE at.off # Capacity /\ Sound(at.off, at.prev, at.wasFree)
    <3>1. W[On(at)] = Met(On(at)) /\ Met(at) = Seen(Met(On(at)), blk[HeapStart + at.off])
      BY <2>2, MetOn
    <3> QED
      BY <2>2, <3>1
  <2> QED
    BY <2>1, <2>2
<1>3. WalkEq(W)
  <2>1. W = [at \in Places |-> Rule(W, at)]
    BY <1>2, Zenon
  <2> QED
    BY <1>1, <2>1, Zenon
<1>4. ASSUME NEW h, WalkEq(h), NEW x \in Places PROVE h[x] = Met(x)
  <2>1. \A at \in Places : h[at] = Rule(h, at)
    <3>1. h = [at \in Places |-> Rule(h, at)]
      BY <1>1, <1>4, Zenon
    <3> HIDE DEF Rule
    <3> QED
      BY <3>1, Zenon
  <2> DEFINE Bad == {at \in Places : h[at] # Met(at)}
             ToGo == {k \in Nat : \E at \in Bad : k = Capacity - at.off}
  <2>2. \A at \in Places : at.off \in Nat /\ Capacity - at.off \in Nat /\ Capacity \in Nat
    BY BlocksAssumption DEF Places
  <2>3. SUFFICES ASSUME ToGo # {} PROVE FALSE
    <3>1. Bad = {}
      BY <2>2, <2>3
    <3> QED
      BY <3>1
  <2>4. PICK k \in ToGo : \A c \in ToGo : k <= c
    <3>1. ToGo \in SUBSET Nat
      OBVIOUS
    <3> QED
      BY ONLY <2>3, <3>1, LeastNatural
  <2>5. PICK at \in Bad : k = Capacity - at.off
    BY <2>4
  <2>6. at \in Places /\ h[at] # Met(at)
    BY <2>5
  <2>7. at.off # Capacity /\ Sound(at.off, at.prev, at.wasFree)
    BY <2>1, <2>6 DEF Met
  <2>8. /\ On(at) \in Places /\ at.off < On(at).off
        /\ Met(at) = Seen(Met(On(at)), blk[HeapStart + at.off])
    BY <2>6, <2>7, MetOn
  <2>9. h[On(at)] = Met(On(at))
    <3>1. Capacity - On(at).off < k /\ Capacity - On(at).off \in Nat /\ k \in Nat
      BY <2>2, <2>5, <2>6, <2>8
    <3>2. Capacity - On(at).off \notin ToGo
      BY <2>4, <3>1
    <3> QED
      BY <2>8, <3>1, <3>2
  <2> QED
    BY <2>1, <2>6, <2>7, <2>8, <2>9
<1>5. WalkEq(CHOOSE h : WalkEq(h))
  BY <1>3, Zenon
<1>6. PICK x : x = [off |-> 0, prev |-> 0, wasFree |-> FALSE]
  OBVIOUS
<1>7. x \in Places
  BY <1>6, BlocksAssumption DEF Places
<1>8. Walk = Met(x)
  BY <1>4, <1>5, <1>6, <1>7, WalkIs, Zenon
<1>9. Sound(x.off, x.prev, x.wasFree) /\ x.off # Capacity /\ x.off = 0
  <2>1. /\ HeapStart \in DOMAIN blk /\ HeapStart \in Nat /\ blk[HeapStart].prev = 0
        /\ blk[HeapStart].size \in Nat /\ HeapStart + 1 + blk[HeapStart].size <= HeapStart + Capacity
        /\ Capacity \in Nat /\ Capacity >= 2
    BY GoodFacts, BlocksAssumption DEF Whole, NextOf, HeapEnd
  <2>2. HeapStart + 0 = HeapStart /\ blk[HeapStart].size <= Capacity - 0 - 1
    BY <2>1
  <2>3. Sound(0, 0, FALSE)
    BY <2>1, <2>2 DEF Sound
  <2>4. x.off = 0 /\ x.prev = 0 /\ x.wasFree = FALSE
    BY <1>6
  <2>5. 0 # Capacity
    BY <2>1
  <2> QED
    BY ONLY <2>3, <2>4, <2>5
<1> QED
  BY <1>8, <1>9 DEF Met

-----------------------------------------------------------------------------
LEMMA SameSize ==
  ASSUME NEW A, NEW B, IsFiniteSet(A), NEW f \in [A -> B],
         \A x, y \in A : f[x] = f[y] => x = y,
         \A y \in B : \E x \in A : f[x] = y
  PROVE  IsFiniteSet(B) /\ Cardinality(B) = Cardinality(A)
<1>1. f \in Bijection(A, B)
  BY Fun_IsBij
<1>2. ExistsBijection(A, B)
  BY <1>1, Zenon DEF ExistsBijection
<1> QED
  BY <1>2, FS_Bijection

\* The slots out of one pool, and the words they take.
OutOf(i) == SlotsOut(pool) \cap Slots(i)
Taking(i) == UNION {p .. p + Pools[i].size - 1 : p \in OutOf(i)}
PoolWords(i) == Pools[i].base .. PoolTop(Pools[i]) - 1

LEMMA OutOfFacts ==
  ASSUME NEW i \in DOMAIN Pools
  PROVE  /\ IsFiniteSet(OutOf(i)) /\ Cardinality(OutOf(i)) \in Nat
         /\ IsFiniteSet(PoolWords(i)) /\ Cardinality(PoolWords(i)) = Pools[i].size * Pools[i].n
         /\ Taking(i) \subseteq PoolWords(i)
         /\ PoolWords(i) \subseteq 0 .. HeapStart - 1
<1>1. /\ Pools[i].base \in Nat /\ PoolTop(Pools[i]) \in Nat
      /\ Pools[i].size \in Nat \ {0} /\ Pools[i].n \in Nat \ {0}
  BY PoolTypes
<1>2. PICK b \in Nat, t \in Nat, m \in Nat :
        /\ b = Pools[i].base /\ t = PoolTop(Pools[i]) /\ m = Pools[i].size * Pools[i].n
        /\ t = b + m
  <2>1. Pools[i].size * Pools[i].n \in Nat
    BY <1>1, Times
  <2> QED
    BY <1>1, <2>1 DEF PoolTop
<1>3. IsFiniteSet(PoolWords(i)) /\ Cardinality(PoolWords(i)) = Pools[i].size * Pools[i].n
  <2>1. PICK x \in Int, y \in Int : x = b /\ y = t - 1
    BY <1>2
  <2>2. PoolWords(i) = x .. y
    BY <1>2, <2>1 DEF PoolWords
  <2>3. IsFiniteSet(x .. y) /\ Cardinality(x .. y) = IF x > y THEN 0 ELSE y - x + 1
    BY FS_Interval
  <2>4. (IF x > y THEN 0 ELSE y - x + 1) = m
    BY <1>2, <2>1
  <2> QED
    BY <1>2, <2>2, <2>3, <2>4
<1>4. ASSUME NEW p \in OutOf(i)
      PROVE  p .. p + Pools[i].size - 1 \subseteq PoolWords(i)
  <2>1. p \in Nat /\ Pools[i].base <= p /\ p + Pools[i].size <= PoolTop(Pools[i])
    BY SlotFacts DEF OutOf
  <2> QED
    BY <1>1, <2>1 DEF PoolWords
<1>5. Taking(i) \subseteq PoolWords(i)
  BY <1>4 DEF Taking
<1>6. PoolTop(Pools[i]) <= HeapStart /\ HeapStart \in Nat
  BY PoolsBelow, BlocksAssumption
<1>7. PoolWords(i) \subseteq 0 .. HeapStart - 1
  BY <1>1, <1>6 DEF PoolWords
<1> QED
  BY <1>3, <1>5, <1>7, SlotsFinite DEF OutOf

LEMMA TakingCount ==
  ASSUME NEW i \in DOMAIN Pools
  PROVE  Cardinality(Taking(i)) = Cardinality(OutOf(i)) * Pools[i].size
<1> DEFINE z == Pools[i].size
           A == OutOf(i) \X (0 .. z - 1)
           f == [x \in A |-> x[1] + x[2]]
<1>1. z \in Nat \ {0}
  BY PoolTypes
<1>2. \A p \in OutOf(i) : p \in Nat /\ \A q \in OutOf(i) : p # q => p + z <= q \/ q + z <= p
  BY SlotFacts DEF OutOf
<1>3. Taking(i) = UNION {p .. p + z - 1 : p \in OutOf(i)}
  BY DEF Taking
<1>. HIDE DEF z
<1>4. IsFiniteSet(0 .. z - 1) /\ Cardinality(0 .. z - 1) = z
  <2>1. PICK x \in Int, y \in Int : x = 0 /\ y = z - 1
    BY <1>1
  <2>2. IsFiniteSet(x .. y) /\ Cardinality(x .. y) = IF x > y THEN 0 ELSE y - x + 1
    BY FS_Interval
  <2>3. (IF x > y THEN 0 ELSE y - x + 1) = z
    BY <1>1, <2>1
  <2> QED
    BY <2>1, <2>2, <2>3
<1>5. IsFiniteSet(A) /\ Cardinality(A) = Cardinality(OutOf(i)) * z
  <2>1. PICK T : T = 0 .. z - 1
    OBVIOUS
  <2>2. IsFiniteSet(OutOf(i))
    BY OutOfFacts
  <2>3. IsFiniteSet(OutOf(i) \X T) /\ Cardinality(OutOf(i) \X T) = Cardinality(OutOf(i)) * Cardinality(T)
    BY <1>4, <2>1, <2>2, FS_Product
  <2> QED
    BY <1>4, <2>1, <2>3
<1>6. \A x \in A : x[1] \in OutOf(i) /\ x[2] \in 0 .. z - 1 /\ x = <<x[1], x[2]>>
  OBVIOUS
<1>7. f \in [A -> Taking(i)]
  <2>1. ASSUME NEW x \in A PROVE x[1] + x[2] \in Taking(i)
    <3>1. x[1] + x[2] \in x[1] .. x[1] + z - 1
      BY <1>1, <1>2, <1>6
    <3> QED
      BY <1>3, <1>6, <3>1
  <2> QED
    BY <2>1
<1>8. ASSUME NEW x \in A, NEW y \in A, f[x] = f[y] PROVE x = y
  <2>1. PICK p \in OutOf(i), q \in OutOf(i), j \in 0 .. z - 1, k \in 0 .. z - 1 :
          x = <<p, j>> /\ y = <<q, k>>
    BY <1>6
  <2>2. p + j = q + k
    BY <1>8, <2>1
  <2>3. p \in Nat /\ q \in Nat /\ (p # q => p + z <= q \/ q + z <= p)
    BY <1>2
  <2>4. p = q /\ j = k
    BY <1>1, <2>2, <2>3
  <2> QED
    BY <2>1, <2>4
<1>9. ASSUME NEW w \in Taking(i) PROVE \E x \in A : f[x] = w
  <2>1. PICK p \in OutOf(i) : w \in p .. p + z - 1
    BY <1>3
  <2>2. p \in Nat /\ w \in Int /\ w - p \in 0 .. z - 1 /\ p + (w - p) = w
    BY <1>1, <1>2, <2>1
  <2>3. <<p, w - p>> \in A
    BY <2>2
  <2>4. f[<<p, w - p>>] = w
    BY <2>2, <2>3
  <2> QED
    BY <2>3, <2>4
<1>. HIDE DEF A, f
<1>10. Cardinality(Taking(i)) = Cardinality(A)
  BY <1>5, <1>7, <1>8, <1>9, SameSize
<1> QED
  BY <1>5, <1>10 DEF z

-----------------------------------------------------------------------------
LEMMA PoolsAndWords ==
  /\ IsFiniteSet(DOMAIN Pools)
  /\ \A i, j \in DOMAIN Pools : i # j => /\ PoolWords(i) \cap PoolWords(j) = {}
                                         /\ OutOf(i) \cap OutOf(j) = {}
  /\ UNION {PoolWords(i) : i \in DOMAIN Pools} = 0 .. HeapStart - 1
<1>1. DOMAIN Pools = 1 .. Len(Pools) /\ Len(Pools) \in Nat
  BY HeapAssumption
<1>2. IsFiniteSet(DOMAIN Pools)
  BY <1>1, FS_Interval
<1>3. ASSUME NEW i \in DOMAIN Pools, NEW j \in DOMAIN Pools, i # j
      PROVE  PoolWords(i) \cap PoolWords(j) = {} /\ OutOf(i) \cap OutOf(j) = {}
  <2>1. OutOf(i) \cap OutOf(j) = {}
    BY <1>3, SlotIn DEF OutOf
  <2>2. i < j \/ j < i
    BY <1>1, <1>3
  <2>3. PoolTop(Pools[i]) <= Pools[j].base \/ PoolTop(Pools[j]) <= Pools[i].base
    BY <2>2, PoolOrder
  <2>4. /\ PoolTop(Pools[i]) \in Nat /\ PoolTop(Pools[j]) \in Nat
        /\ Pools[i].base \in Nat /\ Pools[j].base \in Nat
    BY PoolTypes
  <2>5. PoolWords(i) \cap PoolWords(j) = {}
    BY <2>3, <2>4 DEF PoolWords
  <2> QED
    BY <2>1, <2>5
<1>4. ASSUME NEW w \in 0 .. HeapStart - 1 PROVE \E i \in DOMAIN Pools : w \in PoolWords(i)
  <2> DEFINE S == {k \in DOMAIN Pools : w < PoolTop(Pools[k])}
  <2>1. w \in Nat /\ w < HeapStart /\ HeapStart \in Nat
    BY BlocksAssumption
  <2>2. Pools # <<>> /\ Len(Pools) \in S
    <3>1. Pools # <<>>
      BY <2>1, HeapAssumption
    <3>2. Len(Pools) \in DOMAIN Pools
      BY <1>1, <3>1, HeapAssumption
    <3> QED
      BY <2>1, <3>1, <3>2, HeapAssumption
  <2>3. S \in SUBSET Nat /\ S # {}
    BY <1>1, <2>2
  <2>4. PICK k \in S : \A c \in S : k <= c
    BY ONLY <2>3, LeastNatural
  <2>5. k \in DOMAIN Pools /\ w < PoolTop(Pools[k]) /\ k \in Nat /\ k >= 1 /\ k <= Len(Pools)
    BY <1>1, <2>4
  <2>6. Pools[k].base <= w
    <3>1. CASE k = 1
      <4>1. Pools[k].base = 0
        BY <2>5, <3>1, PoolTypes
      <4> QED
        BY <2>1, <4>1
    <3>2. CASE k # 1
      <4>1. k - 1 \in DOMAIN Pools /\ k - 1 < k
        BY <1>1, <2>5, <3>2
      <4>2. k - 1 \notin S
        BY <2>4, <2>5, <4>1
      <4>3. PoolTop(Pools[k - 1]) \in Nat /\ ~ (w < PoolTop(Pools[k - 1]))
        BY <4>1, <4>2, PoolTypes
      <4>4. Pools[k].base = PoolTop(Pools[k - 1])
        BY <2>5, <3>2, PoolTypes
      <4> QED
        BY <2>1, <4>3, <4>4
    <3> QED
      BY <3>1, <3>2
  <2>7. Pools[k].base \in Nat /\ PoolTop(Pools[k]) \in Nat
    BY <2>5, PoolTypes
  <2>8. w \in PoolWords(k)
    BY <2>1, <2>5, <2>6, <2>7 DEF PoolWords
  <2> QED
    BY <2>5, <2>8
<1>5. UNION {PoolWords(i) : i \in DOMAIN Pools} = 0 .. HeapStart - 1
  BY <1>4, OutOfFacts
<1> QED
  BY <1>2, <1>3, <1>5

LEMMA BlocksAre ==
  ASSUME Whole(blk)
  PROVE  /\ Cardinality(UsedAbove(0)) + Cardinality(FreeAbove(0)) = Headers(blk)
         /\ Cardinality(UsedAbove(0)) = Cardinality(BlocksOut(blk)) /\ IsFiniteSet(BlocksOut(blk))
         /\ Cardinality(WordsAbove(0)) = InParts(blk, pool, FALSE)
<1>1. \A b \in DOMAIN blk : b \in Nat /\ b >= HeapStart + 0 /\ blk[b].size \in Nat
  <2>1. \A b \in DOMAIN blk : b \in Nat /\ b >= HeapStart /\ blk[b].size \in Nat
    BY GoodFacts DEF Whole
  <2> QED
    BY <2>1, BlocksAssumption
<1>2. /\ IsFiniteSet(UsedAbove(0)) /\ IsFiniteSet(FreeAbove(0))
  BY AboveTypes
<1>3. UsedAbove(0) = {b \in DOMAIN blk : blk[b].used} /\ FreeAbove(0) = {b \in DOMAIN blk : ~ blk[b].used}
  BY <1>1 DEF UsedAbove, FreeAbove, Above
<1>4. Cardinality(UsedAbove(0)) + Cardinality(FreeAbove(0)) = Headers(blk)
  <2>1. UsedAbove(0) \cup FreeAbove(0) = DOMAIN blk /\ UsedAbove(0) \cap FreeAbove(0) = {}
    BY <1>3
  <2>2. PICK A, B : A = UsedAbove(0) /\ B = FreeAbove(0)
    OBVIOUS
  <2>3. Cardinality(A \cup B) = Cardinality(A) + Cardinality(B)
    BY <1>2, <2>1, <2>2, DisjointUnion
  <2> QED
    BY <2>1, <2>2, <2>3 DEF Headers
<1>5. Cardinality(UsedAbove(0)) = Cardinality(BlocksOut(blk)) /\ IsFiniteSet(BlocksOut(blk))
  <2> DEFINE f == [b \in UsedAbove(0) |-> b + 1]
  <2>1. \A b \in UsedAbove(0) : b + 1 \in BlocksOut(blk)
    <3> TAKE b \in UsedAbove(0)
    <3>1. b \in DOMAIN blk /\ blk[b].used /\ b \in Nat
      BY <1>1, <1>3
    <3>2. b + 1 \in Nat /\ b + 1 - 1 = b
      BY <3>1
    <3> QED
      BY <3>1, <3>2 DEF BlocksOut
  <2>2. f \in [UsedAbove(0) -> BlocksOut(blk)]
    BY <2>1
  <2>3. \A x, y \in UsedAbove(0) : f[x] = f[y] => x = y
    BY <1>1, <1>3
  <2>4. \A y \in BlocksOut(blk) : \E x \in UsedAbove(0) : f[x] = y
    <3> TAKE y \in BlocksOut(blk)
    <3>1. y \in Nat /\ y - 1 \in DOMAIN blk /\ blk[y - 1].used
      BY DEF BlocksOut
    <3>2. y - 1 \in UsedAbove(0) /\ y - 1 + 1 = y
      BY <1>3, <3>1
    <3> QED
      BY <3>2
  <2>. HIDE DEF f
  <2> QED
    BY <1>2, <2>2, <2>3, <2>4, SameSize
<1>6. WordsAbove(0) = Part(blk, Out(blk, pool), FALSE)
  <2>1. {x \in Out(blk, pool) : Small(x) = FALSE} = BlocksOut(blk)
    <3>1. \A x \in Out(blk, pool) : ~ Small(x) <=> x \in BlocksOut(blk)
      BY OutFacts
    <3>2. \A x : Small(x) \in BOOLEAN
      BY DEF Small
    <3> QED
      BY <3>1, <3>2 DEF Out
  <2>2. \A x \in BlocksOut(blk) : x - 1 \in UsedAbove(0) /\ x \in Nat
                                  /\ Extent(blk, x) = (x - 1) + 1 .. (x - 1) + blk[x - 1].size
    <3> TAKE x \in BlocksOut(blk)
    <3>1. x \in Nat /\ x - 1 \in DOMAIN blk /\ blk[x - 1].used /\ SizeIn(blk, x) = blk[x - 1].size
      BY BlockOut
    <3>2. blk[x - 1].size \in Nat
      BY <1>1, <3>1
    <3>3. x = x - 1 + 1 /\ x + blk[x - 1].size - 1 = x - 1 + blk[x - 1].size
      BY <3>1, <3>2
    <3> QED
      BY <1>3, <3>1, <3>3 DEF Extent
  <2>3. \A b \in UsedAbove(0) : b + 1 \in BlocksOut(blk) /\ Extent(blk, b + 1) = b + 1 .. b + blk[b].size
    <3> TAKE b \in UsedAbove(0)
    <3>1. b \in DOMAIN blk /\ blk[b].used /\ b \in Nat /\ blk[b].size \in Nat
      BY <1>1, <1>3
    <3>2. b + 1 \in Nat /\ b + 1 - 1 = b
      BY <3>1
    <3>3. b + 1 \in BlocksOut(blk)
      BY <3>1, <3>2 DEF BlocksOut
    <3>4. SizeIn(blk, b + 1) = blk[b].size
      <4>1. PICK p : p = b + 1
        OBVIOUS
      <4>2. p \in BlocksOut(blk) /\ p - 1 = b
        <5>1. p \in BlocksOut(blk)
          BY ONLY <3>3, <4>1
        <5>2. p - 1 = b
          BY ONLY <3>1, <4>1
        <5> QED
          BY ONLY <5>1, <5>2
      <4>3. SizeIn(blk, p) = blk[p - 1].size
        BY <4>2, BlockOut
      <4> QED
        BY <4>1, <4>2, <4>3
    <3>5. b + 1 + blk[b].size - 1 = b + blk[b].size
      BY <3>1
    <3> QED
      BY <3>3, <3>4, <3>5 DEF Extent
  <2>4. Part(blk, Out(blk, pool), FALSE) = UNION {Extent(blk, x) : x \in BlocksOut(blk)}
    BY <2>1 DEF Part
  <2>5. WordsAbove(0) \subseteq Part(blk, Out(blk, pool), FALSE)
    BY <2>3, <2>4 DEF WordsAbove
  <2>6. Part(blk, Out(blk, pool), FALSE) \subseteq WordsAbove(0)
    BY <2>2, <2>4 DEF WordsAbove
  <2> QED
    BY <2>5, <2>6
<1> QED
  BY <1>4, <1>5, <1>6 DEF InParts

\* What the sums of heap_get_stats() come to.
LEMMA SlotsSum ==
  ASSUME PoolCount(pool)
  PROVE  /\ SumOf([i \in DOMAIN Pools |-> pool[i].used]) = Cardinality(SlotsOut(pool))
         /\ IsFiniteSet(SlotsOut(pool))
<1> DEFINE v == [i \in DOMAIN Pools |-> pool[i].used]
           E == [i \in DOMAIN Pools |-> OutOf(i)]
           F == SlotsOut(pool)
<1>1. DOMAIN v = DOMAIN Pools /\ IsFiniteSet(DOMAIN v)
  BY PoolsAndWords
<1>2. F \subseteq 0 .. HeapStart /\ IsFiniteSet(F)
  <2>1. \A p \in F : p \in Nat /\ p <= HeapStart
    <3> TAKE p \in F
    <3>1. PICK i \in DOMAIN Pools : p \in Slots(i)
      BY DEF SlotsOut
    <3>2. p \in Nat /\ p + Pools[i].size <= PoolTop(Pools[i]) /\ PoolTop(Pools[i]) <= HeapStart
      BY <3>1, SlotFacts, PoolsBelow
    <3>3. Pools[i].size \in Nat /\ PoolTop(Pools[i]) \in Nat /\ HeapStart \in Nat
      BY PoolTypes, BlocksAssumption
    <3> QED
      BY <3>2, <3>3
  <2>2. F \in SUBSET (0 .. HeapStart)
    BY <2>1, BlocksAssumption
  <2>3. IsFiniteSet(0 .. HeapStart)
    BY FS_Interval, BlocksAssumption
  <2> QED
    BY <2>2, <2>3, FS_Subset
<1>3. E \in [DOMAIN v -> SUBSET F]
  BY <1>1 DEF OutOf
<1>4. \A x, y \in DOMAIN v : x # y => E[x] \cap E[y] = {}
  BY <1>1, PoolsAndWords
<1>5. \A x \in DOMAIN v : v[x] = Cardinality(E[x])
  BY <1>1 DEF PoolCount, OutOf
<1>6. UNION {E[x] : x \in DOMAIN v} = F
  BY <1>1 DEF OutOf, SlotsOut
<1>. HIDE DEF v, E, F
<1>7. SumOf(v) = Cardinality(UNION {E[x] : x \in DOMAIN v})
  BY <1>1, <1>2, <1>3, <1>4, <1>5, SumCounts
<1> QED
  BY <1>2, <1>6, <1>7 DEF v, F

LEMMA PoolsWords ==
  ASSUME OwnInv
  PROVE  UNION {Taking(i) : i \in DOMAIN Pools} = Part(blk, Out(blk, pool), TRUE)
<1>1. {x \in Out(blk, pool) : Small(x) = TRUE} = SlotsOut(pool)
  <2>1. \A x \in Out(blk, pool) : Small(x) <=> x \in SlotsOut(pool)
    BY OutFacts DEF OwnInv, HeapOK
  <2>2. \A x : Small(x) \in BOOLEAN
    BY DEF Small
  <2> QED
    BY <2>1, <2>2 DEF Out
<1>2. \A i \in DOMAIN Pools : \A p \in OutOf(i) : Extent(blk, p) = p .. p + Pools[i].size - 1
  <2> TAKE i \in DOMAIN Pools
  <2> TAKE p \in OutOf(i)
  <2>1. p \in SlotsOut(pool) /\ p \in Slots(i)
    BY DEF OutOf
  <2>2. SizeIn(blk, p) = Pools[i].size
    <3>1. PoolOf(p) = i
      BY ONLY <2>1, i \in DOMAIN Pools, SlotIn
    <3>2. SizeIn(blk, p) = Pools[PoolOf(p)].size
      BY ONLY <2>1, SlotOut
    <3> QED
      BY ONLY <3>1, <3>2
  <2> QED
    BY <2>2 DEF Extent
<1>3. \A p \in SlotsOut(pool) : \E i \in DOMAIN Pools : p \in OutOf(i)
  BY DEF SlotsOut, OutOf
<1>4. \A i \in DOMAIN Pools : OutOf(i) \subseteq SlotsOut(pool)
  BY DEF OutOf
<1>5. Part(blk, Out(blk, pool), TRUE) = UNION {Extent(blk, x) : x \in SlotsOut(pool)}
  BY <1>1 DEF Part
<1>7. \A i \in DOMAIN Pools : Taking(i) = UNION {Extent(blk, p) : p \in OutOf(i)}
  BY <1>2 DEF Taking
<1>8. ASSUME NEW i \in DOMAIN Pools, NEW w \in Taking(i)
      PROVE  \E p \in SlotsOut(pool) : w \in Extent(blk, p)
  <2>1. PICK p \in OutOf(i) : w \in Extent(blk, p)
    BY <1>7
  <2> QED
    BY <1>4, <2>1
<1>9. ASSUME NEW p \in SlotsOut(pool), NEW w \in Extent(blk, p)
      PROVE  \E i \in DOMAIN Pools : w \in Taking(i)
  <2>1. PICK i \in DOMAIN Pools : p \in OutOf(i)
    BY <1>3
  <2> QED
    BY <1>7, <2>1
<1>10. UNION {Taking(i) : i \in DOMAIN Pools} = UNION {Extent(blk, x) : x \in SlotsOut(pool)}
  BY <1>8, <1>9
<1> QED
  BY <1>5, <1>10

LEMMA WordsInPools ==
  ASSUME OwnInv, PoolCount(pool)
  PROVE  SumOf([i \in DOMAIN Pools |-> Pools[i].size * pool[i].used]) = InParts(blk, pool, TRUE)
<1> DEFINE v == [i \in DOMAIN Pools |-> Pools[i].size * pool[i].used]
           E == [i \in DOMAIN Pools |-> Taking(i)]
           F == 0 .. HeapStart - 1
<1>1. DOMAIN v = DOMAIN Pools /\ IsFiniteSet(DOMAIN v)
  BY PoolsAndWords
<1>2. IsFiniteSet(F)
  BY FS_Interval, BlocksAssumption
<1>3. E \in [DOMAIN v -> SUBSET F]
  BY <1>1, OutOfFacts
<1>4. \A x, y \in DOMAIN v : x # y => E[x] \cap E[y] = {}
  BY <1>1, PoolsAndWords, OutOfFacts
<1>5. \A x \in DOMAIN v : v[x] = Cardinality(E[x])
  <2> TAKE i \in DOMAIN v
  <2>1. i \in DOMAIN Pools /\ pool[i].used = Cardinality(OutOf(i))
    BY <1>1 DEF PoolCount, OutOf
  <2>2. Cardinality(Taking(i)) = Cardinality(OutOf(i)) * Pools[i].size
    BY <2>1, TakingCount
  <2>3. Cardinality(OutOf(i)) \in Nat /\ Pools[i].size \in Nat
    BY <2>1, OutOfFacts, PoolTypes
  <2>4. Cardinality(OutOf(i)) * Pools[i].size = Pools[i].size * Cardinality(OutOf(i))
    BY ONLY <2>3, Times
  <2> QED
    BY <2>1, <2>2, <2>4
<1>6. UNION {E[x] : x \in DOMAIN v} = Part(blk, Out(blk, pool), TRUE)
  <2>1. UNION {E[x] : x \in DOMAIN v} = UNION {Taking(i) : i \in DOMAIN Pools}
    BY <1>1
  <2> QED
    BY <2>1, PoolsWords
<1>. HIDE DEF v, E, F
<1>7. SumOf(v) = Cardinality(UNION {E[x] : x \in DOMAIN v})
  BY <1>1, <1>2, <1>3, <1>4, <1>5, SumCounts
<1> QED
  BY <1>6, <1>7 DEF v, InParts

\* The free words of the pools are the rest of them.
LEMMA IdleWords ==
  ASSUME OwnInv, PoolCount(pool)
  PROVE  LET u == SumOf([i \in DOMAIN Pools |-> Pools[i].size * pool[i].used])
             r == SumOf([i \in DOMAIN Pools |-> Pools[i].size * (Pools[i].n - pool[i].used)])
         IN  u \in Nat /\ r \in Nat /\ u + r = HeapStart
<1> DEFINE v == [i \in DOMAIN Pools |-> Pools[i].size * (Pools[i].n - pool[i].used)]
           Rest(i) == PoolWords(i) \ Taking(i)
           E == [i \in DOMAIN Pools |-> Rest(i)]
           F == 0 .. HeapStart - 1
           T == UNION {Taking(i) : i \in DOMAIN Pools}
           R == UNION {Rest(i) : i \in DOMAIN Pools}
<1>1. DOMAIN v = DOMAIN Pools /\ IsFiniteSet(DOMAIN v)
  BY PoolsAndWords
<1>2. IsFiniteSet(F) /\ Cardinality(F) = HeapStart /\ HeapStart \in Nat
  <2>1. PICK x \in Int, y \in Int : x = 0 /\ y = HeapStart - 1
    BY BlocksAssumption
  <2>2. IsFiniteSet(x .. y) /\ Cardinality(x .. y) = IF x > y THEN 0 ELSE y - x + 1
    BY FS_Interval
  <2>3. (IF x > y THEN 0 ELSE y - x + 1) = HeapStart
    BY <2>1, BlocksAssumption
  <2> QED
    BY <2>1, <2>2, <2>3, BlocksAssumption
<1>3. E \in [DOMAIN v -> SUBSET F]
  BY <1>1, OutOfFacts
<1>4. \A x, y \in DOMAIN v : x # y => E[x] \cap E[y] = {}
  BY <1>1, PoolsAndWords
<1>5. \A x \in DOMAIN v : v[x] = Cardinality(E[x])
  <2> TAKE i \in DOMAIN v
  <2>1. i \in DOMAIN Pools /\ pool[i].used = Cardinality(OutOf(i))
    BY <1>1 DEF PoolCount, OutOf
  <2>2. Cardinality(Taking(i)) = Cardinality(OutOf(i)) * Pools[i].size
    BY <2>1, TakingCount
  <2>3. PICK z \in Nat, n \in Nat, c \in Nat :
          z = Pools[i].size /\ n = Pools[i].n /\ c = Cardinality(OutOf(i))
    BY <2>1, OutOfFacts, PoolTypes
  <2>4. /\ IsFiniteSet(PoolWords(i)) /\ Cardinality(PoolWords(i)) = z * n
        /\ PoolWords(i) \cap Taking(i) = Taking(i)
    BY <2>1, <2>3, OutOfFacts
  <2>5. Cardinality(Rest(i)) = Cardinality(PoolWords(i)) - Cardinality(PoolWords(i) \cap Taking(i))
    BY <2>4, FS_Difference
  <2>6. Cardinality(Rest(i)) = z * n - c * z
    BY <2>2, <2>3, <2>4, <2>5
  <2>7. z * (n - c) = z * n - c * z
    BY ONLY <2>3
  <2> QED
    BY <1>1, <2>1, <2>3, <2>6, <2>7
<1>6. UNION {E[x] : x \in DOMAIN v} = R
  BY <1>1
<1>7. T \cup R = F /\ T \cap R = {}
  <2>1. T \cup R = UNION {PoolWords(i) : i \in DOMAIN Pools}
    BY OutOfFacts
  <2>2. T \cap R = {}
    BY OutOfFacts, PoolsAndWords
  <2> QED
    BY <2>1, <2>2, PoolsAndWords
<1>8. Cardinality(T) = InParts(blk, pool, TRUE)
  <2>1. T = Part(blk, Out(blk, pool), TRUE)
    BY PoolsWords
  <2> QED
    BY <2>1 DEF InParts
<1>. HIDE DEF v, E, F, T, R
<1>9. SumOf(v) = Cardinality(R)
  BY <1>1, <1>2, <1>3, <1>4, <1>5, <1>6, SumCounts
<1>10. IsFiniteSet(T) /\ IsFiniteSet(R)
  <2>1. T \in SUBSET F /\ R \in SUBSET F
    BY <1>7
  <2> QED
    BY <1>2, <2>1, FS_Subset
<1>11. /\ Cardinality(T) \in Nat /\ Cardinality(R) \in Nat
       /\ Cardinality(T) + Cardinality(R) = HeapStart
  BY <1>2, <1>7, <1>10, DisjointUnion
<1> QED
  BY <1>8, <1>9, <1>11, WordsInPools DEF v

LEMMA LiveWords ==
  ASSUME OwnInv
  PROVE  /\ SumOf([c \in DOMAIN live |-> SizeAt(live[c].p)])
              = InParts(blk, pool, FALSE) + InParts(blk, pool, TRUE)
         /\ Cardinality(DOMAIN live) = Cardinality(Out(blk, pool))
         /\ IsFiniteSet(Out(blk, pool))
<1> DEFINE v == [c \in DOMAIN live |-> SizeAt(live[c].p)]
           E == [c \in DOMAIN live |-> Extent(blk, live[c].p)]
           F == 0 .. HeapEnd - 1
           O == Out(blk, pool)
           A == Part(blk, O, FALSE)
           B == Part(blk, O, TRUE)
<1>1. /\ Whole(blk) /\ \A c \in DOMAIN live : live[c].p \in O
      /\ \A c, d \in DOMAIN live : live[c].p = live[d].p => c = d
      /\ \A p \in O : \E c \in DOMAIN live : live[c].p = p
  BY DEF OwnInv, HeapOK
<1>2. IsFiniteSet(F) /\ HeapEnd \in Nat
  BY <1>1, GoodFacts, FS_Interval DEF Whole
<1>3. \A p \in O : p \in F /\ SizeIn(blk, p) \in Nat
  <2> TAKE p \in O
  <2>1. p \in Nat /\ SizeIn(blk, p) \in Nat \ {0} /\ p + SizeIn(blk, p) <= HeapEnd
    BY <1>1, OutFacts
  <2> QED
    BY <1>2, <2>1
<1>4. IsFiniteSet(O)
  <2>1. O \in SUBSET F
    BY <1>3
  <2> QED
    BY <1>2, <2>1, FS_Subset
<1>5. IsFiniteSet(DOMAIN live) /\ Cardinality(DOMAIN live) = Cardinality(O)
  <2> DEFINE owned == [c \in DOMAIN live |-> live[c].p]
             owner == [p \in O |-> CHOOSE c \in DOMAIN live : live[c].p = p]
  <2>1. \A p \in O : owner[p] \in DOMAIN live /\ live[owner[p]].p = p
    BY <1>1
  <2>2. owner \in [O -> DOMAIN live]
    BY <2>1
  <2>3. \A x, y \in O : owner[x] = owner[y] => x = y
    BY <2>1
  <2>4. \A c \in DOMAIN live : \E p \in O : owner[p] = c
    BY <1>1, <2>1
  <2>. HIDE DEF owner
  <2> QED
    BY <1>4, <2>2, <2>3, <2>4, SameSize
<1>6. DOMAIN v = DOMAIN live /\ IsFiniteSet(DOMAIN v)
  BY <1>5
<1>7. E \in [DOMAIN v -> SUBSET F]
  <2>1. \A p \in O : Extent(blk, p) \subseteq F
    BY <1>1, ExtentsApart
  <2> QED
    BY <1>1, <2>1
<1>8. \A x, y \in DOMAIN v : x # y => E[x] \cap E[y] = {}
  <2>1. \A p, q \in O : p # q => Extent(blk, p) \cap Extent(blk, q) = {}
    BY <1>1, ExtentsApart
  <2> QED
    BY <1>1, <2>1
<1>9. \A x \in DOMAIN v : v[x] = Cardinality(E[x])
  <2> TAKE c \in DOMAIN v
  <2>1. live[c].p \in O /\ v[c] = SizeIn(blk, live[c].p)
    BY <1>1, SizeAtIs
  <2>2. PICK p \in Nat, n \in Nat : p = live[c].p /\ n = SizeIn(blk, p)
    BY <1>3, <2>1, <1>2
  <2>3. PICK x \in Int, y \in Int : x = p /\ y = p + n - 1
    OBVIOUS
  <2>4. Cardinality(x .. y) = IF x > y THEN 0 ELSE y - x + 1
    BY FS_Interval
  <2>5. (IF x > y THEN 0 ELSE y - x + 1) = n
    BY <2>3
  <2>6. E[c] = x .. y
    BY <2>2, <2>3 DEF Extent
  <2>. HIDE DEF E, v
  <2> QED
    BY <2>1, <2>2, <2>4, <2>5, <2>6
<1>10. UNION {E[x] : x \in DOMAIN v} = A \cup B
  <2>1. \A x : Small(x) \in BOOLEAN
    BY DEF Small
  <2>2. A \cup B = UNION {Extent(blk, p) : p \in O}
    BY <2>1 DEF Part
  <2>3. UNION {E[x] : x \in DOMAIN v} = UNION {Extent(blk, p) : p \in O}
    <3>1. {E[x] : x \in DOMAIN v} = {Extent(blk, p) : p \in O}
      BY <1>1
    <3> QED
      BY ONLY <3>1
  <2>. HIDE DEF A, B, E, v, O
  <2> QED
    BY <2>2, <2>3, Zenon
<1>11. IsFiniteSet(A) /\ IsFiniteSet(B) /\ A \cap B = {}
  <2>1. \A p \in O : /\ Extent(blk, p) \subseteq F
                     /\ \A q \in O : p # q => Extent(blk, p) \cap Extent(blk, q) = {}
    BY <1>1, ExtentsApart
  <2>2. A \in SUBSET F /\ B \in SUBSET F
    <3>1. ASSUME NEW sm PROVE Part(blk, O, sm) \subseteq F
      BY <2>1 DEF Part
    <3> QED
      BY <3>1
  <2>3. A \cap B = {}
    <3>1. ASSUME NEW w \in A, w \in B PROVE FALSE
      <4>1. PICK p \in O : w \in Extent(blk, p) /\ Small(p) = FALSE
        BY DEF Part
      <4>2. PICK q \in O : w \in Extent(blk, q) /\ Small(q) = TRUE
        BY <3>1 DEF Part
      <4> QED
        BY <2>1, <4>1, <4>2
    <3>. HIDE DEF A, B
    <3> QED
      BY <3>1
  <2> QED
    BY <1>2, <2>2, <2>3, FS_Subset
<1>. HIDE DEF v, E, F, O, A, B
<1>12. SumOf(v) = Cardinality(UNION {E[x] : x \in DOMAIN v})
  BY <1>2, <1>6, <1>7, <1>8, <1>9, SumCounts
<1>13. SumOf(v) = Cardinality(A) + Cardinality(B)
  <2>2. Cardinality(A \cup B) = Cardinality(A) + Cardinality(B)
    BY <1>11, DisjointUnion
  <2> QED
    BY <1>10, <1>12, <2>2
<1> QED
  BY <1>4, <1>5, <1>13 DEF v, O, A, B, InParts

LEMMA StatsAre ==
  ASSUME OwnInv, CountersExact
  PROVE  StatsAgree
<1> DEFINE sizes == [c \in DOMAIN live |-> SizeAt(live[c].p)]
           inUse == [i \in DOMAIN Pools |-> Pools[i].size * pool[i].used]
           idle == [i \in DOMAIN Pools |-> Pools[i].size * (Pools[i].n - pool[i].used)]
           slots == [i \in DOMAIN Pools |-> pool[i].used]
<1>1. Whole(blk) /\ PoolCount(pool)
  BY DEF OwnInv, HeapOK, CountersExact
<1>2. PICK u, f, w, m : /\ u = Cardinality(UsedAbove(0)) /\ f = Cardinality(FreeAbove(0))
                        /\ w = Cardinality(WordsAbove(0)) /\ m = LargestAbove(0)
                        /\ u \in Nat /\ f \in Nat /\ w \in Nat
  BY <1>1, AboveTypes
<1>3. Walk = [ok |-> TRUE, used |-> w, free |-> Capacity - (0 + w + u + f),
              largest |-> m, usedBlocks |-> u, freeBlocks |-> f]
  BY <1>1, <1>2, WalkFinds DEF Found
<1>4. w = used /\ u + f = blocks
  BY <1>1, <1>2, BlocksAre DEF CountersExact
<1>5. Stats = [ok |-> TRUE, used |-> w + SumOf(inUse),
               free |-> Capacity - (0 + w + u + f) + SumOf(idle),
               largest |-> m, usedBlocks |-> u + SumOf(slots), freeBlocks |-> f]
  <2>. HIDE DEF inUse, idle, slots
  <2>1. Stats = [Walk EXCEPT !.ok = @ /\ Walk.used = used /\ Walk.usedBlocks + Walk.freeBlocks = blocks,
                             !.used = @ + SumOf(inUse),
                             !.free = @ + SumOf(idle),
                             !.usedBlocks = @ + SumOf(slots)]
    BY SMT DEF Stats, inUse, idle, slots
  <2>2. PICK a, b, c : a = SumOf(inUse) /\ b = SumOf(idle) /\ c = SumOf(slots)
    OBVIOUS
  <2> QED
    BY ONLY <1>3, <1>4, <2>1, <2>2
<1>6. /\ SumOf(sizes) = used + smallUsed /\ Cardinality(DOMAIN live) = Cardinality(Out(blk, pool))
  BY LiveWords DEF CountersExact
<1>7. SumOf(inUse) = smallUsed
  BY <1>1, WordsInPools DEF CountersExact
<1>8. SumOf(inUse) \in Nat /\ SumOf(idle) \in Nat /\ SumOf(inUse) + SumOf(idle) = HeapStart
  BY <1>1, IdleWords
<1>9. u + SumOf(slots) = Cardinality(Out(blk, pool))
  <2>1. PICK A, B : A = BlocksOut(blk) /\ B = SlotsOut(pool)
    OBVIOUS
  <2>2. u = Cardinality(A) /\ IsFiniteSet(A)
    BY <1>1, <1>2, <2>1, BlocksAre
  <2>3. SumOf(slots) = Cardinality(B) /\ IsFiniteSet(B)
    BY <1>1, <2>1, SlotsSum
  <2>4. A \cap B = {}
    BY <1>1, <2>1, SlotOut, BlockOut
  <2>5. Cardinality(A \cup B) = Cardinality(A) + Cardinality(B)
    BY <2>2, <2>3, <2>4, DisjointUnion
  <2>6. Out(blk, pool) = A \cup B
    BY <2>1 DEF Out
  <2>. HIDE DEF slots
  <2> QED
    BY <2>2, <2>3, <2>5, <2>6
<1>10. Overhead = u + f
  BY <1>3 DEF Overhead
<1>. HIDE DEF sizes, inUse, idle, slots
<1>11. /\ Stats.ok /\ Stats.usedBlocks = Cardinality(DOMAIN live)
       /\ Stats.used = SumOf(sizes) /\ Stats.used = AllUsed
  BY <1>4, <1>5, <1>6, <1>7, <1>9 DEF AllUsed
<1>12. Total = Stats.used + Stats.free + Overhead
  <2>1. PICK a \in Nat, b \in Nat : a = SumOf(inUse) /\ b = SumOf(idle) /\ a + b = HeapStart
    BY <1>8
  <2>2. /\ Stats.used = w + a /\ Stats.free = Capacity - (0 + w + u + f) + b
    BY <1>5, <2>1
  <2>3. HeapStart + Capacity = (w + a) + (Capacity - (0 + w + u + f) + b) + (u + f)
    BY <1>2, <2>1, BlocksAssumption
  <2> QED
    BY <1>10, <2>2, <2>3 DEF Total, HeapEnd
<1> QED
  BY <1>11, <1>12 DEF StatsAgree, sizes

-----------------------------------------------------------------------------
\* Types.
Held == Client \cup {Junk}

TypeInv ==
  /\ IsFunction(live)
  /\ mem \in [0 .. HeapEnd - 1 -> Held]
  /\ peakOccupied \in Nat

LEMMA FilledTyped ==
  ASSUME NEW D, NEW T, NEW m \in [D -> T], NEW p, NEW n, NEW v \in T
  PROVE  Filled(m, p, n, v) \in [D -> T]
BY DEF Filled

LEMMA CopiedTyped ==
  ASSUME NEW T, NEW m \in [0 .. HeapEnd - 1 -> T], NEW q \in Nat, NEW p \in Nat, NEW n \in Nat,
         p + n <= HeapEnd, HeapEnd \in Nat
  PROVE  Copied(m, q, p, n) \in [0 .. HeapEnd - 1 -> T]
<1>1. ASSUME NEW w \in q .. q + n - 1 PROVE p + (w - q) \in 0 .. HeapEnd - 1
  OBVIOUS
<1>2. \A w \in 0 .. HeapEnd - 1 :
        (IF w \in q .. q + n - 1 THEN m[p + (w - q)] ELSE m[w]) \in T
  BY <1>1
<1> QED
  BY <1>2 DEF Copied

LEMMA PeakNat ==
  ASSUME peakOccupied \in Nat, NEW u, NEW bs, Peak(u, bs), peakOccupied' \in Int
  PROVE  peakOccupied' \in Nat
BY DEF Peak, Greater

LEMMA CountersNat ==
  ASSUME OwnInv, CountersExact
  PROVE  used \in Nat /\ smallUsed \in Nat /\ blocks \in Nat /\ AllUsed \in Nat
<1>1. Whole(blk)
  BY DEF OwnInv, HeapOK
<1>2. \A sm : InParts(blk, pool, sm) \in Nat
  BY <1>1, InPartsType
<1>3. Headers(blk) \in Nat
  BY <1>1, HeadersFinite DEF Whole
<1>4. used = InParts(blk, pool, FALSE) /\ smallUsed = InParts(blk, pool, TRUE) /\ blocks = Headers(blk)
  BY DEF CountersExact
<1>5. used \in Nat /\ smallUsed \in Nat /\ blocks \in Nat
  BY <1>2, <1>3, <1>4, Zenon
<1> QED
  BY <1>5 DEF AllUsed

LEMMA TypeStep ==
  OwnInv /\ CountersExact /\ TypeInv /\ PeakInv' /\ [Next]_vars => TypeInv'
<1> SUFFICES ASSUME OwnInv, CountersExact, TypeInv, PeakInv', [Next]_vars PROVE TypeInv'
  OBVIOUS
<1>1. /\ IsFunction(live) /\ mem \in [0 .. HeapEnd - 1 -> Held] /\ peakOccupied \in Nat
      /\ peakOccupied' \in Int /\ HeapEnd \in Nat /\ Junk \in Held /\ Client \subseteq Held
  BY GoodFacts DEF TypeInv, PeakInv, OwnInv, HeapOK, Whole, Held
<1>2. CASE UNCHANGED vars
  BY <1>1, <1>2 DEF vars, TypeInv, IsFunction
<1>3. CASE ResetPeak
  <2>1. live' = live /\ mem' = mem /\ peakOccupied' = AllUsed + blocks
    BY <1>3 DEF ResetPeak
  <2>2. peakOccupied' \in Nat
    BY <2>1, CountersNat
  <2> QED
    BY <1>1, <2>1, <2>2 DEF TypeInv, IsFunction
<1>4. ASSUME NEW c \in Client, Free(c) PROVE TypeInv'
  <2>1. /\ live' = [x \in DOMAIN live \ {c} |-> live[x]] /\ peakOccupied' = peakOccupied
        /\ mem' = Filled(mem, live[c].p, SizeAt(live[c].p), Junk)
    BY <1>4 DEF Free
  <2>2. mem' \in [0 .. HeapEnd - 1 -> Held]
    BY <1>1, <2>1, FilledTyped
  <2>3. IsFunction(live')
    BY <2>1 DEF IsFunction
  <2> QED
    BY <1>1, <2>1, <2>2, <2>3 DEF TypeInv, IsFunction
<1>5. ASSUME NEW c \in Client, NEW q, NEW n, Owning(c, q, n) PROVE IsFunction(live')
  <2>1. live' = [x \in DOMAIN live \cup {c} |-> IF x = c THEN [p |-> q, n |-> n] ELSE live[x]]
    BY <1>5 DEF Owning
  <2> QED
    BY <2>1 DEF IsFunction
<1>6. ASSUME NEW c \in Client, NEW z \in Nat \ {0}, Got(c, z) PROVE TypeInv'
  <2>1. /\ Owning(c, Place(z), z) /\ mem' = Filled(mem, Place(z), z, c) /\ Peak(AllUsed', blocks')
    BY <1>6 DEF Got, Obtain
  <2>2. mem' \in [0 .. HeapEnd - 1 -> Held]
    BY <1>1, <2>1, FilledTyped
  <2>3. peakOccupied' \in Nat
    BY <1>1, <2>1, PeakNat
  <2> QED
    BY <1>5, <2>1, <2>2, <2>3 DEF TypeInv, IsFunction
<1>7. ASSUME NEW c \in Client, NEW z \in Nat \ {0}, Stayed(c, z) PROVE TypeInv'
  <2> DEFINE p == live[c].p
             keep == Lesser(live[c].n, z)
             m == Filled(mem, p + keep, SizeAt(p) - keep, Junk)
  <2>1. StayInPlace(c, z, z)
    BY <1>7 DEF Stayed
  <2>2. Owning(c, p, z) /\ mem' = Filled(m, p + keep, z - keep, c)
    BY <2>1 DEF StayInPlace
  <2>3. UNCHANGED peakOccupied \/ Peak(AllUsed', blocks')
    BY <2>1 DEF StayInPlace
  <2>. HIDE DEF p, keep
  <2>4. m \in [0 .. HeapEnd - 1 -> Held]
    BY <1>1, FilledTyped
  <2>. HIDE DEF m
  <2>5. mem' \in [0 .. HeapEnd - 1 -> Held]
    BY <1>1, <2>2, <2>4, FilledTyped
  <2>6. peakOccupied' \in Nat
    BY <1>1, <2>3, PeakNat
  <2> QED
    BY <1>5, <2>2, <2>5, <2>6 DEF TypeInv, IsFunction
<1>8. ASSUME NEW c \in Client, NEW z \in Nat \ {0}, Left(c, z) PROVE TypeInv'
  <2> DEFINE p == live[c].p
             q == Place(z)
             keep == Lesser(live[c].n, z)
             m == Copied(mem, q, p, SizeAt(p))
             k == Filled(m, p, SizeAt(p), Junk)
  <2>1. MoveAway(c, z, z) /\ c \in DOMAIN live
    BY <1>8 DEF Left
  <2>2. Owning(c, q, z) /\ mem' = Filled(k, q + keep, z - keep, c)
    BY <2>1 DEF MoveAway, Moved
  <2>3. \E u, bs : Peak(u, bs)
    BY <2>1 DEF MoveAway
  <2>4. q \in Nat
    BY <1>8, LeftGives DEF Leaves, Gives
  <2>5. p \in Nat /\ SizeAt(p) \in Nat /\ p + SizeAt(p) <= HeapEnd
    <3>1. Whole(blk) /\ p \in Out(blk, pool) /\ SizeAt(p) = SizeIn(blk, p)
      BY <2>1, SizeAtIs DEF OwnInv, HeapOK
    <3> QED
      BY <3>1, OutFacts
  <2>. HIDE DEF p, q, keep
  <2>6. m \in [0 .. HeapEnd - 1 -> Held]
    BY <1>1, <2>4, <2>5, CopiedTyped
  <2>. HIDE DEF m
  <2>7. k \in [0 .. HeapEnd - 1 -> Held]
    BY <1>1, <2>6, FilledTyped
  <2>. HIDE DEF k
  <2>8. mem' \in [0 .. HeapEnd - 1 -> Held]
    BY <1>1, <2>2, <2>7, FilledTyped
  <2>9. peakOccupied' \in Nat
    BY <1>1, <2>3, PeakNat
  <2> QED
    BY <1>5, <2>2, <2>8, <2>9 DEF TypeInv, IsFunction
<1> QED
  BY <1>2, <1>3, <1>4, <1>6, <1>7, <1>8, NextIs, Zenon

LEMMA TypesAre ==
  ASSUME OwnInv, CountersExact, TypeInv, PeakInv, HistInv, blk \in [DOMAIN blk -> Header]
  PROVE  TypeOK
<1>1. /\ Whole(blk) /\ Pooled(pool) /\ PoolCount(pool) /\ HeapEnd \in Nat
      /\ used \in Nat /\ smallUsed \in Nat /\ blocks \in Nat /\ AllUsed \in Nat
  BY CountersNat, GoodFacts DEF OwnInv, HeapOK, CountersExact, Whole
<1>2. pool \in [DOMAIN Pools -> [free : Seq(0 .. HeapEnd - 1), used : Nat]]
  <2>1. ASSUME NEW i \in DOMAIN Pools
        PROVE  pool[i] \in [free : Seq(0 .. HeapEnd - 1), used : Nat]
    <3>1. pool[i] \in [free : Seq(Nat), used : Int] /\ Idle(pool, i) \subseteq Slots(i)
      BY <1>1 DEF Pooled
    <3>2. pool[i].used \in Nat
      BY <1>1, SlotsFinite DEF PoolCount
    <3>3. \A s \in Slots(i) : s \in 0 .. HeapEnd - 1
      <4> TAKE s \in Slots(i)
      <4>1. s \in Nat /\ s + Pools[i].size <= PoolTop(Pools[i]) /\ PoolTop(Pools[i]) <= HeapStart
        BY SlotFacts, PoolsBelow
      <4>2. Pools[i].size \in Nat \ {0} /\ PoolTop(Pools[i]) \in Nat /\ HeapStart <= HeapEnd
            /\ HeapStart \in Nat
        BY PoolTypes, BlocksAssumption DEF HeapEnd
      <4> QED
        BY <1>1, <4>1, <4>2
    <3>4. pool[i].free \in Seq(0 .. HeapEnd - 1)
      <4>1. PICK t, n : t = pool[i].free /\ n = Len(t) /\ t \in Seq(Nat)
        BY <3>1
      <4>2. \A k \in 1 .. Len(t) : t[k] \in 0 .. HeapEnd - 1
        BY <3>1, <3>3, <4>1 DEF Idle, Listed
      <4>3. t \in [1 .. Len(t) -> Nat] /\ Len(t) \in Nat
        BY <4>1, LenProperties
      <4>4. t \in [1 .. Len(t) -> 0 .. HeapEnd - 1]
        BY <4>2, <4>3
      <4>5. t \in Seq(0 .. HeapEnd - 1)
        BY <4>3, <4>4, SeqDef
      <4> QED
        BY <4>1, <4>5
    <3> QED
      BY <3>1, <3>2, <3>4
  <2> QED
    BY <1>1, <2>1 DEF Pooled
<1>3. peakUsed \in Nat /\ peakOccupied \in Nat
  BY <1>1 DEF PeakInv, PeakSound, TypeInv
<1>4. hist \in [0 .. HistMax -> Nat]
  <2>1. /\ hist \in [0 .. HistMax -> Int] /\ IsFiniteSet(DOMAIN live)
        /\ \A i \in 0 .. HistMax : hist[i] = Cardinality(InBin(blk, live, i))
    BY DEF HistInv
  <2>2. \A i : IsFiniteSet(InBin(blk, live, i))
    <3>1. \A i : InBin(blk, live, i) \in SUBSET DOMAIN live
      BY DEF InBin
    <3> QED
      BY <2>1, <3>1, FS_Subset
  <2>3. \A i \in 0 .. HistMax : hist[i] \in Nat
    BY <2>1, <2>2, FS_CardinalityType
  <2> QED
    BY <2>1, <2>3
<1>5. DOMAIN live \subseteq Client /\ live \in [DOMAIN live -> [p : 0 .. HeapEnd - 1, n : 1 .. HeapEnd]]
  <2>1. ASSUME NEW c \in DOMAIN live PROVE live[c] \in [p : 0 .. HeapEnd - 1, n : 1 .. HeapEnd]
    <3>1. /\ live[c] \in [p : Nat, n : Nat \ {0}] /\ live[c].p \in Out(blk, pool)
          /\ live[c].n <= SizeIn(blk, live[c].p)
      BY DEF OwnInv
    <3>2. SizeIn(blk, live[c].p) \in Nat \ {0} /\ live[c].p + SizeIn(blk, live[c].p) <= HeapEnd
      BY <1>1, <3>1, OutFacts
    <3>3. live[c].p \in 0 .. HeapEnd - 1 /\ live[c].n \in 1 .. HeapEnd
      BY <1>1, <3>1, <3>2
    <3> QED
      BY <3>1, <3>3
  <2>2. live = [c \in DOMAIN live |-> live[c]]
    BY DEF TypeInv, IsFunction
  <2> QED
    BY <2>1, <2>2 DEF OwnInv
<1>6. mem \in [0 .. HeapEnd - 1 -> Client \cup {Junk}]
  BY DEF TypeInv, Held
<1> QED
  BY <1>1, <1>2, <1>3, <1>4, <1>5, <1>6 DEF TypeOK

LEMMA InitTypes == Init => TypeInv /\ PeakInv /\ HistInv
<1> SUFFICES ASSUME Init PROVE TypeInv /\ PeakInv /\ HistInv
  OBVIOUS
<1>1. TypeInv
  BY DEF Init, TypeInv, IsFunction, Held
<1>2. PeakInv
  BY DEF Init, BlocksInit, PeakInv, PeakSound, AllUsed
<1>3. HistInv
  <2>1. DOMAIN live = {} /\ hist = [z \in 0 .. HistMax |-> 0]
    BY DEF Init
  <2>2. \A i : InBin(blk, live, i) = {}
    BY <2>1 DEF InBin
  <2> QED
    BY <2>1, <2>2, FS_EmptySet DEF HistInv
<1> QED
  BY <1>1, <1>2, <1>3

(***************************************************************************)
(* The books are right after every sequence of calls: what                  *)
(* heap_get_stats() finds by walking the headers and adding the pools is     *)
(* what the counters say and what the program owns, and the peaks and the   *)
(* histogram agree with it.                                                 *)
(***************************************************************************)
THEOREM HeapInvariant == Spec => []HeapInv
<1>1. OwnInv /\ CountersExact /\ TypeInv /\ PeakInv /\ HistInv /\ (blk \in [DOMAIN blk -> Header])
        => TypeOK /\ StatsAgree
  BY TypesAre, StatsAre
<1>2. Spec => [](blk \in [DOMAIN blk -> Header])
  BY HeapUsesBlocks, BlocksTyped, PTL DEF UsesBlocks
<1>3. Spec => []OwnInv
  BY InitOwns, OwnStep, PTL DEF Spec
<1>4. Spec => []PeakInv
  BY <1>3, InitTypes, PeakStep, PTL DEF Spec
<1>5. Spec => []HistInv
  BY <1>3, InitTypes, HistStep, PTL DEF Spec
<1>6. Spec => []TypeInv
  BY <1>3, <1>4, HeapCountersExact, InitTypes, TypeStep, PTL DEF Spec
<1>7. TypeOK /\ StatsAgree /\ PeakSound /\ HistExact => HeapInv
  BY DEF HeapInv
<1> QED
  BY <1>1, <1>2, <1>3, <1>4, <1>5, <1>6, <1>7, HeapCountersExact, HeapPeakSound, HeapHistExact, PTL
=============================================================================
