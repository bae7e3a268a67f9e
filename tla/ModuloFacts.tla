---------------------------- MODULE ModuloFacts ----------------------------
(***************************************************************************)
(* Arithmetic of wrapping counters: what % returns for any positive         *)
(* modulus.  PerlOS keeps free-running unsigned counters (ring indices,     *)
(* millisecond ticks) and subtracts them after they have wrapped.           *)
(*                                                                         *)
(* And induction over the naturals without an operator parameter: the least *)
(* of a set, from which a shortest counterexample is taken; a set that is   *)
(* closed under the successor; and that a loop, given by what each of its   *)
(* turns does, has a sequence of values (Recursion, Iteration).             *)
(***************************************************************************)
EXTENDS Integers, WellFoundedInduction, TLAPS

\* Euclidean division, as the provers know it.
LEMMA Division ==
  ASSUME NEW m \in Nat \ {0}, NEW x \in Int
  PROVE  \E q \in Int : x = q * m + (x % m) /\ x % m \in 0 .. m - 1
<1>1. x % m \in 0 .. m - 1 /\ x = (x \div m) * m + (x % m) /\ (x \div m) \in Int
  OBVIOUS
<1> QED BY <1>1

\* Quotient and remainder are unique.
LEMMA DivisionUnique ==
  ASSUME NEW m \in Nat \ {0}, NEW q \in Int, NEW p \in Int,
         NEW a \in 0 .. m - 1, NEW b \in 0 .. m - 1,
         q * m + a = p * m + b
  PROVE  a = b /\ q = p
<1>1. (q - p) * m = b - a /\ (p - q) * m = a - b
  OBVIOUS
<1>2. ~ (q - p >= 1)
  <2> SUFFICES ASSUME q - p >= 1 PROVE FALSE
    OBVIOUS
  <2>1. (q - p) * m >= m
    OBVIOUS
  <2> QED BY <2>1, <1>1
<1>3. ~ (p - q >= 1)
  <2> SUFFICES ASSUME p - q >= 1 PROVE FALSE
    OBVIOUS
  <2>1. (p - q) * m >= m
    OBVIOUS
  <2> QED BY <2>1, <1>1
<1> QED BY <1>2, <1>3

\* A number written as a multiple of m plus a small remainder has that
\* remainder.
LEMMA Remainder ==
  ASSUME NEW m \in Nat \ {0}, NEW x \in Int, NEW q \in Int,
         NEW a \in 0 .. m - 1, x = q * m + a
  PROVE  x % m = a
<1>1. PICK p \in Int : x = p * m + (x % m) /\ x % m \in 0 .. m - 1
  BY Division
<1>2. q * m + a = p * m + (x % m)
  BY <1>1
<1> QED BY ONLY <1>1, <1>2, DivisionUnique, m \in Nat \ {0}, q \in Int, a \in 0 .. m - 1

\* One turn of a counter: % m is the identity on 0 .. m - 1 and adds or
\* subtracts m next to it.
LEMMA Wrap ==
  ASSUME NEW m \in Nat \ {0}, NEW x \in Int, -m <= x, x < 2 * m
  PROVE  x % m = IF x < 0 THEN x + m ELSE IF x < m THEN x ELSE x - m
<1>1. CASE x < 0
  <2>1. x = (-1) * m + (x + m) /\ x + m \in 0 .. m - 1
    BY <1>1
  <2> QED BY <2>1, <1>1, Remainder
<1>2. CASE 0 <= x /\ x < m
  <2>1. x = 0 * m + x /\ x \in 0 .. m - 1
    BY <1>2
  <2> QED BY <2>1, <1>2, Remainder
<1>3. CASE m <= x
  <2>1. x = 1 * m + (x - m) /\ x - m \in 0 .. m - 1
    BY <1>3
  <2> QED BY <2>1, <1>3, Remainder
<1> QED BY <1>1, <1>2, <1>3

\* A counter of width m, advanced by at most one turn.
LEMMA Advance ==
  ASSUME NEW m \in Nat \ {0}, NEW a \in 0 .. m - 1, NEW k \in 0 .. m
  PROVE  /\ (a + k) % m = IF a + k < m THEN a + k ELSE a + k - m
         /\ (a + k) % m \in 0 .. m - 1
<1> DEFINE x == a + k
<1>1. x \in Int /\ -m <= x /\ x < 2 * m /\ ~ (x < 0)
  OBVIOUS
<1>2. x % m = IF x < 0 THEN x + m ELSE IF x < m THEN x ELSE x - m
  <2> HIDE DEF x
  <2> QED BY <1>1, Wrap
<1> QED BY <1>1, <1>2

\* How far counter a is ahead of counter b.
LEMMA Distance ==
  ASSUME NEW m \in Nat \ {0}, NEW a \in 0 .. m - 1, NEW b \in 0 .. m - 1
  PROVE  /\ (a - b) % m = IF a < b THEN a - b + m ELSE a - b
         /\ (a - b) % m \in 0 .. m - 1
<1> DEFINE x == a - b
<1>1. x \in Int /\ -m <= x /\ x < 2 * m /\ x < m
  OBVIOUS
<1>2. x % m = IF x < 0 THEN x + m ELSE IF x < m THEN x ELSE x - m
  <2> HIDE DEF x
  <2> QED BY <1>1, Wrap
<1> QED BY <1>1, <1>2

\* Adding the modulus, or a multiple of it, does not change the remainder.
LEMMA AddMultiple ==
  ASSUME NEW n \in Nat \ {0}, NEW x \in Int, NEW c \in Int
  PROVE  (x + c * n) % n = x % n
<1>1. PICK q \in Int : x = q * n + (x % n) /\ x % n \in 0 .. n - 1
  BY Division
<1>2. (q + c) * n = q * n + c * n
  BY <1>1
<1>3. x + c * n = (q + c) * n + (x % n) /\ q + c \in Int /\ x + c * n \in Int
  BY <1>1, <1>2
<1> QED BY ONLY <1>1, <1>3, Remainder, n \in Nat \ {0}

\* Two numbers less than n apart have different remainders.
LEMMA NearbyDiffer ==
  ASSUME NEW n \in Nat \ {0}, NEW x \in Int, NEW y \in Int,
         x < y, y < x + n
  PROVE  x % n # y % n
<1> SUFFICES ASSUME x % n = y % n PROVE FALSE
  OBVIOUS
<1>1. PICK q \in Int : x = q * n + (x % n) /\ x % n \in 0 .. n - 1
  BY Division
<1>2. PICK p \in Int : y = p * n + (y % n) /\ y % n \in 0 .. n - 1
  BY Division
<1>3. p * n - q * n = (p - q) * n /\ p - q \in Int
  BY <1>1, <1>2
<1>4. (p - q) * n = y - x
  BY <1>1, <1>2, <1>3
<1>5. 0 < (p - q) * n /\ (p - q) * n < n
  BY <1>4
<1> QED BY <1>3, <1>5

\* A set of naturals has a least one.
LEMMA LeastNatural ==
  ASSUME NEW S \in SUBSET Nat, S # {}
  PROVE  \E m \in S : \A c \in S : m <= c
<1>1. PICK m \in S : \A c \in S : ~ (<<c, m>> \in OpToRel(<, Nat))
  BY NatLessThanWellFounded, WFMin, Zenon
<1>2. \A c, d \in Nat : c < d => <<c, d>> \in OpToRel(<, Nat)
  BY Zenon DEF OpToRel
<1>3. \A c \in S : ~ (c < m)
  BY <1>1, <1>2, Zenon
<1>4. \A c \in S : c \in Nat
  OBVIOUS
<1> QED
  BY <1>3, <1>4

\* Induction, for the naturals in a set.
LEMMA Induction ==
  ASSUME NEW I, 0 \in I, \A n \in Nat : n \in I => n + 1 \in I
  PROVE  \A n \in Nat : n \in I
<1> DEFINE Out == Nat \ I
<1>1. Out \in SUBSET Nat
  OBVIOUS
<1> SUFFICES ASSUME Out # {} PROVE FALSE
  OBVIOUS
<1>2. PICK m \in Out : \A c \in Out : m <= c
  BY ONLY <1>1, Out # {}, LeastNatural
<1>3. m # 0 /\ m - 1 \in Nat /\ m - 1 \notin Out
  BY <1>2
<1>4. (m - 1) + 1 = m
  BY <1>2
<1> QED
  BY <1>3, <1>4

\* A definition by recursion: a value for each place in S, and for every other
\* place a step from the value at the next one, which m shows to be smaller.
Founded(D, V, m, S, b, nx, h) ==
  /\ V # {} /\ S \in SUBSET D /\ b \in [S -> V] /\ h \in [D \ S -> [V -> V]]
  /\ nx \in [D \ S -> D] /\ m \in [D -> Nat] /\ \A x \in D \ S : m[nx[x]] < m[x]
Unfolds(f, D, S, b, nx, h) == f = [x \in D |-> IF x \in S THEN b[x] ELSE h[x][f[nx[x]]]]

\* Exactly one function is as the definition says.
LEMMA Recursion ==
  ASSUME NEW D, NEW V, NEW m, NEW S, NEW b, NEW nx, NEW h, Founded(D, V, m, S, b, nx, h)
  PROVE  \E f \in [D -> V] : /\ Unfolds(f, D, S, b, nx, h)
                            /\ \A g : Unfolds(g, D, S, b, nx, h) => g = f
<1> SUFFICES ASSUME NEW v \in V, S \in SUBSET D, b \in [S -> V], h \in [D \ S -> [V -> V]],
                    nx \in [D \ S -> D], m \in [D -> Nat], \A x \in D \ S : m[nx[x]] < m[x]
             PROVE  \E f \in [D -> V] :
                      /\ f = [x \in D |-> IF x \in S THEN b[x] ELSE h[x][f[nx[x]]]]
                      /\ \A g : g = [x \in D |-> IF x \in S THEN b[x] ELSE h[x][g[nx[x]]]] => g = f
  BY Zenon DEF Founded, Unfolds
<1> DEFINE At(f, x) == IF x \in S THEN b[x] ELSE h[x][f[nx[x]]]
           Solves(f, n) == \A x \in D : m[x] <= n => f[x] = At(f, x)
           Bad == {n \in Nat : ~ \E f \in [D -> V] : Solves(f, n)}
<1>1. \A f \in [D -> V] : \A x \in D : At(f, x) \in V
  OBVIOUS
<1>2. \A x \in D : m[x] \in Nat
  OBVIOUS
<1>3. ASSUME NEW f \in [D -> V], NEW n \in Nat, \A x \in D \ S : m[x] <= n => f[nx[x]] = At(f, nx[x])
      PROVE  \E g \in [D -> V] : Solves(g, n)
  <2> DEFINE g == [x \in D |-> At(f, x)]
  <2>1. g \in [D -> V]
    BY <1>1
  <2>2. ASSUME NEW x \in D, m[x] <= n PROVE g[x] = At(g, x)
    <3>1. CASE x \in S
      BY <3>1
    <3>2. CASE x \notin S
      <4>1. nx[x] \in D /\ f[nx[x]] = At(f, nx[x])
        BY <1>3, <2>2, <3>2
      <4>2. g[nx[x]] = f[nx[x]]
        BY <4>1
      <4>3. g[x] = h[x][f[nx[x]]]
        BY <3>2
      <4> HIDE DEF g
      <4> QED
        BY <3>2, <4>2, <4>3
    <3> QED
      BY <3>1, <3>2
  <2> HIDE DEF g
  <2> QED
    BY <2>1, <2>2
<1>4. Bad = {}
  <2> SUFFICES ASSUME Bad # {} PROVE FALSE
    OBVIOUS
  <2>0. Bad \in SUBSET Nat
    OBVIOUS
  <2>1. PICK n \in Bad : \A c \in Bad : n <= c
    BY ONLY <2>0, Bad # {}, LeastNatural
  <2>2. PICK f \in [D -> V] : \A x \in D \ S : m[x] <= n => f[nx[x]] = At(f, nx[x])
    <3>1. CASE n = 0
      <4>1. [x \in D |-> v] \in [D -> V]
        OBVIOUS
      <4>2. \A x \in D \ S : ~ (m[x] <= n)
        <5> SUFFICES ASSUME NEW x \in D \ S PROVE ~ (m[x] <= n)
          OBVIOUS
        <5>1. m[nx[x]] \in Nat /\ m[x] \in Nat /\ m[nx[x]] < m[x]
          OBVIOUS
        <5> QED
          BY <3>1, <5>1
      <4> QED
        BY <4>1, <4>2
    <3>2. CASE n # 0
      <4>1. n - 1 \in Nat /\ n - 1 \notin Bad
        BY <2>1, <3>2
      <4>2. PICK f \in [D -> V] : Solves(f, n - 1)
        BY <4>1
      <4>3. ASSUME NEW x \in D \ S, m[x] <= n PROVE f[nx[x]] = At(f, nx[x])
        <5>1. nx[x] \in D /\ m[nx[x]] \in Nat /\ m[x] \in Nat /\ m[nx[x]] < m[x]
          OBVIOUS
        <5>2. m[nx[x]] <= n - 1
          BY <4>1, <4>3, <5>1
        <5> QED
          BY <4>2, <5>1, <5>2
      <4> QED
        BY <4>3
    <3> QED
      BY <3>1, <3>2
  <2>3. \E g \in [D -> V] : Solves(g, n)
    <3>1. n \in Nat
      OBVIOUS
    <3> HIDE DEF Solves, At
    <3> QED
      BY <1>3, <2>2, <3>1
  <2> QED
    BY <2>1, <2>3
<1>5. ASSUME NEW f, NEW g, NEW n \in Nat, Solves(f, n), Solves(g, n)
      PROVE  \A x \in D : m[x] <= n => f[x] = g[x]
  <2> DEFINE Differ == {c \in Nat : \E x \in D : m[x] = c /\ m[x] <= n /\ f[x] # g[x]}
  <2>0. Differ \in SUBSET Nat
    OBVIOUS
  <2> SUFFICES ASSUME Differ # {} PROVE FALSE
    BY <1>2
  <2>1. PICK c \in Differ : \A d \in Differ : c <= d
    BY ONLY <2>0, Differ # {}, LeastNatural
  <2>2. PICK x \in D : m[x] = c /\ m[x] <= n /\ f[x] # g[x]
    OBVIOUS
  <2>3. f[x] = At(f, x) /\ g[x] = At(g, x)
    BY <1>5, <2>2
  <2>4. x \notin S
    BY <2>2, <2>3
  <2>5. nx[x] \in D /\ m[nx[x]] \in Nat /\ m[nx[x]] < m[x] /\ m[x] \in Nat
    BY <2>4
  <2>6. f[nx[x]] = g[nx[x]]
    <3>1. m[nx[x]] <= n /\ m[nx[x]] \notin Differ
      BY <2>1, <2>2, <2>5
    <3> QED
      BY <2>5, <3>1
  <2> QED
    BY <2>2, <2>3, <2>4, <2>6
<1> DEFINE F(n) == CHOOSE f \in [D -> V] : Solves(f, n)
           G == [x \in D |-> F(m[x])[x]]
<1>6. \A n \in Nat : F(n) \in [D -> V] /\ Solves(F(n), n)
  <2> TAKE n \in Nat
  <2>1. \E f \in [D -> V] : Solves(f, n)
    BY <1>4
  <2> HIDE DEF Solves
  <2> QED
    BY <2>1, Zenon
<1> HIDE DEF F
<1>7. G \in [D -> V]
  BY <1>2, <1>6
<1>8. ASSUME NEW x \in D PROVE G[x] = At(G, x)
  <2>1. m[x] \in Nat /\ Solves(F(m[x]), m[x])
    BY <1>6
  <2>2. G[x] = F(m[x])[x] /\ F(m[x])[x] = At(F(m[x]), x)
    BY <2>1
  <2>3. CASE x \in S
    BY <2>2, <2>3
  <2>4. CASE x \notin S
    <3>1. nx[x] \in D /\ m[nx[x]] \in Nat /\ m[nx[x]] < m[x]
      BY <2>4
    <3>2. PICK n, y, c, f, g : n = m[x] /\ y = nx[x] /\ c = m[nx[x]] /\ f = F(m[nx[x]]) /\ g = F(m[x])
      OBVIOUS
    <3>3. c \in Nat /\ n \in Nat /\ c < n /\ y \in D /\ m[y] = c
      BY <2>1, <3>1, <3>2
    <3>4. Solves(f, c) /\ Solves(g, n)
      BY <1>6, <2>1, <3>1, <3>2
    <3>5. Solves(g, c)
      BY <1>2, <3>3, <3>4
    <3>6. f[y] = g[y]
      <4> HIDE DEF Solves
      <4>1. \A z \in D : m[z] <= c => f[z] = g[z]
        BY <1>5, <3>3, <3>4, <3>5
      <4> QED
        BY <3>3, <4>1
    <3>7. G[y] = g[y]
      BY <3>1, <3>2, <3>6
    <3> HIDE DEF G
    <3> QED
      BY <2>2, <2>4, <3>2, <3>7
  <2> QED
    BY <2>3, <2>4
<1>9. G = [x \in D |-> At(G, x)]
  <2>1. DOMAIN G = D
    OBVIOUS
  <2> HIDE DEF G, At
  <2> QED
    BY <1>7, <1>8
<1>10. ASSUME NEW g, g = [x \in D |-> At(g, x)] PROVE g = G
  <2>1. \A x \in D : g[x] = At(g, x)
    <3> HIDE DEF At
    <3> QED
      BY <1>10, Zenon
  <2>2. \A x \in D : g[x] = G[x]
    <3> TAKE x \in D
    <3>1. m[x] \in Nat
      OBVIOUS
    <3>2. Solves(g, m[x]) /\ Solves(G, m[x])
      BY <1>8, <2>1
    <3> HIDE DEF G, Solves
    <3> QED
      BY <1>5, <3>1, <3>2
  <2>3. g = [x \in D |-> g[x]]
    <3> HIDE DEF At
    <3>1. DOMAIN g = D
      BY <1>10, Zenon
    <3> QED
      BY <1>10, <2>1
  <2>4. G = [x \in D |-> G[x]]
    BY <1>7
  <2> HIDE DEF G, At
  <2> QED
    BY <2>2, <2>3, <2>4
<1> HIDE DEF G
<1> QED
  BY <1>7, <1>9, <1>10

\* A function on 0 .. n defined by its first value and a step, which may
\* depend on the number of steps before it.
Steps(n, V) == [1 .. n -> [V -> V]]
Iterates(n, V, b, h) ==
  {f \in [0 .. n -> V] : f[0] = b /\ \A i \in 1 .. n : f[i] = h[i][f[i - 1]]}

LEMMA Iteration ==
  ASSUME NEW n \in Nat, NEW V, NEW b \in V, NEW h \in Steps(n, V)
  PROVE  \E f : f \in Iterates(n, V, b, h)
<1> DEFINE S == {0}
           nx == [i \in (0 .. n) \ S |-> i - 1]
           bs == [i \in S |-> b]
           m == [i \in 0 .. n |-> i]
<1>1. /\ S \in SUBSET (0 .. n) /\ bs \in [S -> V] /\ m \in [0 .. n -> Nat]
      /\ nx \in [(0 .. n) \ S -> 0 .. n] /\ (0 .. n) \ S = 1 .. n
      /\ \A i \in (0 .. n) \ S : m[nx[i]] < m[i]
  OBVIOUS
<1>2. h \in [(0 .. n) \ S -> [V -> V]]
  BY <1>1 DEF Steps
<1>3. PICK D : D = 0 .. n
  OBVIOUS
<1>4. PICK f \in [D -> V] : f = [i \in D |-> IF i \in S THEN bs[i] ELSE h[i][f[nx[i]]]]
  <2> HIDE DEF S, nx, bs, m
  <2>1. Founded(D, V, m, S, bs, nx, h)
    BY <1>1, <1>2, <1>3 DEF Founded
  <2>2. \E f \in [D -> V] : Unfolds(f, D, S, bs, nx, h) /\ \A g : Unfolds(g, D, S, bs, nx, h) => g = f
    BY ONLY <2>1, Recursion
  <2> QED
    BY ONLY <2>2, Zenon DEF Unfolds
<1>5. \A i \in D : f[i] = IF i \in S THEN bs[i] ELSE h[i][f[nx[i]]]
  <2> HIDE DEF S, nx, bs, m
  <2> QED
    BY ONLY <1>4, Zenon
<1>6. f[0] = b
  <2>1. 0 \in D
    BY <1>3
  <2> QED
    BY <1>5, <2>1
<1>7. ASSUME NEW i \in 1 .. n PROVE f[i] = h[i][f[i - 1]]
  <2>1. i \in D /\ i \notin S /\ nx[i] = i - 1
    BY <1>3
  <2> HIDE DEF S, nx
  <2> QED
    BY <1>5, <2>1
<1> QED
  BY <1>3, <1>6, <1>7 DEF Iterates
=============================================================================
