----------------------------- MODULE ImeProofs -----------------------------
(***************************************************************************)
(* The proofs about the input method. An array is the bytes of a text with  *)
(* the cursor in it (Holds); what cur(), prev_char(), strstr() and the      *)
(* loops over bytes find is a place between characters (Off); so each key   *)
(* makes, of the bytes of a text, the bytes of the text the editor makes.   *)
(***************************************************************************)
EXTENDS Ime, ModuloFacts, SequenceTheorems, FiniteSetTheorems

-----------------------------------------------------------------------------
\* A sequence of texts, put together.
Texts == Seq(Seq(Byte))

\* The texts put together up to each place.
Joins(cs) == {a \in [0 .. Len(cs) -> Seq(Byte)] :
                a[0] = <<>> /\ \A i \in 1 .. Len(cs) : a[i] = a[i - 1] \o cs[i]}

LEMMA SomeJoins ==
  ASSUME NEW cs \in Texts
  PROVE  \E a : a \in Joins(cs)
<1> DEFINE V == Seq(Byte)
           n == Len(cs)
           h == [i \in 1 .. n |-> [x \in V |-> x \o cs[i]]]
<1>1. n \in Nat /\ <<>> \in V
  BY DEF Texts
<1>2. h \in Steps(n, V)
  <2>1. \A i \in 1 .. n, x \in V : x \o cs[i] \in V
    BY DEF Texts
  <2> QED
    BY <2>1 DEF Steps
<1>3. PICK a : a \in Iterates(n, V, <<>>, h)
  <2>1. PICK W, b, g : W = V /\ b = <<>> /\ g = h
    OBVIOUS
  <2>2. b \in W /\ g \in Steps(n, W)
    BY <1>1, <1>2, <2>1
  <2>3. \E a : a \in Iterates(n, W, b, g)
    BY ONLY <1>1, <2>2, Iteration
  <2> QED
    BY <2>1, <2>3
<1>4. a \in [0 .. n -> V] /\ a[0] = <<>> /\ \A i \in 1 .. n : a[i] = h[i][a[i - 1]]
  BY <1>3 DEF Iterates
<1>5. \A i \in 1 .. n : a[i - 1] \in V
  BY <1>1, <1>4
<1>6. \A i \in 1 .. n : a[i] = a[i - 1] \o cs[i]
  <2> HIDE DEF V
  <2> QED
    BY <1>4, <1>5
<1> QED
  BY <1>4, <1>6 DEF Joins

LEMMA FlatIs ==
  ASSUME NEW cs \in Texts, NEW a \in Joins(cs)
  PROVE  FlattenSeq(cs) = a[Len(cs)] /\ FlattenSeq(cs) \in Seq(Byte)
<1> DEFINE n == Len(cs)
           At(f, i) == IF i = 1 THEN cs[i] ELSE f[i - 1] \o cs[i]
           F == CHOOSE f : f = [i \in 1 .. n |-> At(f, i)]
<1>1. n \in Nat /\ a \in [0 .. n -> Seq(Byte)] /\ a[0] = <<>>
      /\ \A i \in 1 .. n : a[i] = a[i - 1] \o cs[i]
  <2>1. n \in Nat
    BY DEF Texts
  <2> QED
    BY <2>1, Zenon DEF Joins
<1>2. CASE n = 0
  <2>1. cs = <<>>
    BY <1>2 DEF Texts
  <2> QED
    BY <1>1, <1>2, <2>1 DEF FlattenSeq
<1>3. CASE n # 0
  <2>0. n \in 1 .. n /\ n \in 0 .. n
    BY <1>1, <1>3
  <2>1. PICK b : b = [i \in 1 .. n |-> a[i]]
    OBVIOUS
  <2>2. \A i \in 1 .. n : b[i] = At(b, i)
    <3> SUFFICES ASSUME NEW i \in 1 .. n PROVE b[i] = At(b, i)
      OBVIOUS
    <3>1. b[i] = a[i - 1] \o cs[i]
      BY <1>1, <2>1
    <3>2. CASE i = 1
      <4>1. cs[1] \in Seq(Byte)
        BY <3>2 DEF Texts
      <4>2. <<>> \o cs[1] = cs[1]
        BY <4>1, ConcatEmptySeq
      <4>3. i - 1 = 0
        BY <3>2
      <4> QED
        BY <1>1, <3>1, <3>2, <4>2, <4>3
    <3>3. CASE i # 1
      <4>1. i - 1 \in 1 .. n
        BY <3>3
      <4> QED
        BY <2>1, <3>1, <3>3, <4>1
    <3> QED
      BY <3>2, <3>3
  <2>3. b = [i \in 1 .. n |-> At(b, i)]
    <3>1. DOMAIN b = 1 .. n /\ b = [i \in 1 .. n |-> b[i]]
      BY <2>1
    <3> HIDE DEF At
    <3> QED
      BY <2>2, <3>1
  <2>4. F = [i \in 1 .. n |-> At(F, i)]
    <3> HIDE DEF At
    <3> QED
      BY ONLY <2>3, Zenon
  <2> DEFINE I == {i \in Nat : i + 1 <= n => F[i + 1] = b[i + 1]}
  <2>5. \A i \in 1 .. n : F[i] = At(F, i)
    <3> HIDE DEF F, At
    <3> QED
      BY ONLY <2>4, Zenon
  <2> HIDE DEF F
  <2>6. 0 \in I
    <3>1. 1 \in 1 .. n
      BY <2>0
    <3>2. F[1] = cs[1] /\ b[1] = cs[1]
      BY <2>2, <2>5, <3>1
    <3> QED
      BY <3>2
  <2>7. ASSUME NEW k \in Nat, k \in I PROVE k + 1 \in I
    <3>1. k + 2 <= n => k + 2 \in 1 .. n /\ k + 2 # 1 /\ (k + 2) - 1 = k + 1 /\ k + 1 <= n
      BY <1>1
    <3>2. PICK m : m = k + 2
      OBVIOUS
    <3>3. m <= n => F[m] = b[m]
      BY <2>2, <2>5, <2>7, <3>1, <3>2
    <3>4. (k + 1) + 1 = m
      BY <3>2
    <3> QED
      BY <3>3, <3>4
  <2>8. \A k \in Nat : k \in I
    <3> HIDE DEF I
    <3> QED
      BY ONLY <2>6, <2>7, Induction
  <2>9. n - 1 \in Nat /\ (n - 1) + 1 = n
    BY <1>1, <1>3
  <2>10. F[n] = b[n]
    BY <2>8, <2>9
  <2>11. FlattenSeq(cs) = F[n]
    <3>1. Len(cs) # 0
      BY <1>3
    <3> QED
      BY <3>1 DEF FlattenSeq, F
  <2> QED
    BY <1>1, <2>0, <2>1, <2>10, <2>11
<1> QED
  BY <1>2, <1>3

LEMMA FlatEmpty == FlattenSeq(<<>>) = <<>>
BY DEF FlattenSeq

LEMMA FlatType ==
  ASSUME NEW cs \in Texts
  PROVE  FlattenSeq(cs) \in Seq(Byte)
BY SomeJoins, FlatIs

LEMMA FlatAppend ==
  ASSUME NEW cs \in Texts, NEW c \in Seq(Byte)
  PROVE  FlattenSeq(Append(cs, c)) = FlattenSeq(cs) \o c
<1>1. PICK d \in Texts : d = Append(cs, c)
  BY AppendProperties DEF Texts
<1>2. Len(cs) \in Nat /\ Len(d) = Len(cs) + 1 /\ d[Len(cs) + 1] = c
      /\ \A i \in 1 .. Len(cs) : d[i] = cs[i]
  BY <1>1 DEF Texts
<1>3. PICK a : a \in Joins(d)
  BY SomeJoins
<1>4. PICK b : b = [i \in 0 .. Len(cs) |-> a[i]]
  OBVIOUS
<1>5. b \in Joins(cs)
  <2>1. a \in [0 .. Len(cs) + 1 -> Seq(Byte)] /\ a[0] = <<>>
        /\ \A i \in 1 .. Len(cs) + 1 : a[i] = a[i - 1] \o d[i]
    BY <1>2, <1>3 DEF Joins
  <2>2. b \in [0 .. Len(cs) -> Seq(Byte)] /\ b[0] = <<>>
    BY <1>2, <1>4, <2>1
  <2>3. ASSUME NEW i \in 1 .. Len(cs) PROVE b[i] = b[i - 1] \o cs[i]
    <3>1. i \in 1 .. Len(cs) + 1 /\ i \in 0 .. Len(cs) /\ i - 1 \in 0 .. Len(cs)
      BY <1>2
    <3> QED
      BY <1>2, <1>4, <2>1, <3>1
  <2> QED
    BY <2>2, <2>3 DEF Joins
<1>6. Len(cs) \in 0 .. Len(cs) /\ Len(d) \in 1 .. Len(d) /\ Len(d) - 1 = Len(cs)
  BY <1>2
<1>7. FlattenSeq(d) = a[Len(d)] /\ FlattenSeq(cs) = b[Len(cs)]
  BY <1>3, <1>5, FlatIs
<1>8. a[Len(d)] = a[Len(cs)] \o c
  BY <1>2, <1>3, <1>6 DEF Joins
<1> QED
  BY <1>1, <1>4, <1>6, <1>7, <1>8

LEMMA FlatConcat ==
  ASSUME NEW d \in Texts, NEW e \in Texts
  PROVE  FlattenSeq(d \o e) = FlattenSeq(d) \o FlattenSeq(e)
<1> DEFINE J(j) == FlattenSeq(d \o SubSeq(e, 1, j)) = FlattenSeq(d) \o FlattenSeq(SubSeq(e, 1, j))
           I == {j \in Nat : j <= Len(e) => J(j)}
<1>0. Len(e) \in Nat /\ FlattenSeq(d) \in Seq(Byte)
  BY FlatType DEF Texts
<1>1. 0 \in I
  <2>1. SubSeq(e, 1, 0) = <<>>
    BY SubSeqEmpty
  <2>2. d \o <<>> = d /\ FlattenSeq(d) \o <<>> = FlattenSeq(d)
    BY <1>0, ConcatEmptySeq DEF Texts
  <2> QED
    BY <2>1, <2>2, FlatEmpty
<1>2. ASSUME NEW j \in Nat, j \in I PROVE j + 1 \in I
  <2> SUFFICES ASSUME j + 1 <= Len(e) PROVE J(j + 1)
    OBVIOUS
  <2>1. J(j) /\ j \in 0 .. Len(e) /\ j + 1 \in 1 .. Len(e)
    BY <1>0, <1>2
  <2>2. PICK f \in Texts, c \in Seq(Byte) :
          f = SubSeq(e, 1, j) /\ c = e[j + 1] /\ SubSeq(e, 1, j + 1) = Append(f, c)
    <3>1. SubSeq(e, 1, j) \in Texts /\ e[j + 1] \in Seq(Byte)
      BY <1>0, <2>1 DEF Texts
    <3>2. SubSeq(e, 1, j + 1) = Append(SubSeq(e, 1, j), e[j + 1])
      BY <1>0, <2>1 DEF Texts
    <3> QED
      BY <3>1, <3>2
  <2>3. d \o Append(f, c) = Append(d \o f, c) /\ d \o f \in Texts
    BY <2>2, SMTT(30) DEF Texts
  <2>4. FlattenSeq(d \o Append(f, c)) = FlattenSeq(d \o f) \o c
    BY <2>3, FlatAppend
  <2>5. FlattenSeq(Append(f, c)) = FlattenSeq(f) \o c /\ FlattenSeq(f) \in Seq(Byte)
    BY FlatAppend, FlatType
  <2>6. (FlattenSeq(d) \o FlattenSeq(f)) \o c = FlattenSeq(d) \o (FlattenSeq(f) \o c)
    BY <1>0, <2>5, ConcatAssociative, SMTT(30)
  <2>7. FlattenSeq(d \o f) = FlattenSeq(d) \o FlattenSeq(f)
    BY <2>1, <2>2
  <2> QED
    BY <2>2, <2>4, <2>5, <2>6, <2>7
<1>3. Len(e) \in I
  <2> HIDE DEF I
  <2> QED
    BY ONLY <1>0, <1>1, <1>2, Induction
<1>4. SubSeq(e, 1, Len(e)) = e
  BY SubSeqFull DEF Texts
<1>5. J(Len(e))
  <2> HIDE DEF J
  <2> QED
    BY <1>0, <1>3
<1> QED
  BY <1>4, <1>5

-----------------------------------------------------------------------------
\* Where a character starts: the length of those before it.
Off(cs, i) == Len(FlattenSeq(SubSeq(cs, 1, i)))

LEMMA CharactersAreTexts ==
  ASSUME NEW cs \in Seq(Character)
  PROVE  cs \in Texts /\ Len(cs) \in Nat /\ FlattenSeq(cs) \in Seq(Byte)
<1>1. Character \subseteq Seq(Byte)
  BY DEF Character
<1>2. cs \in Texts
  BY <1>1, SeqMonotonic DEF Texts
<1> QED
  BY <1>2, FlatType

LEMMA CharacterShape ==
  ASSUME NEW c \in Character
  PROVE  /\ c \in Seq(Byte) /\ Len(c) \in 1 .. 4 /\ Len(c) = ulen(c[1])
         /\ ~ Continues(c[1]) /\ \A j \in 2 .. Len(c) : Continues(c[j])
<1>1. c \in Seq(Byte) /\ Whole(c)
  BY DEF Character
<1>2. Len(c) \in Nat /\ c # <<>>
  BY <1>1 DEF Whole
<1>3. Len(c) # 0
  BY <1>1, <1>2
<1>4. c[1] \in Byte /\ Len(c) = ulen(c[1])
  BY <1>1, <1>2, <1>3 DEF Whole
<1>5. Len(c) \in 1 .. 4
  BY <1>4 DEF ulen, Byte
<1> QED
  BY <1>1, <1>5 DEF Whole

\* The middle of three.
LEMMA MiddlePart ==
  ASSUME NEW T, NEW d \in Seq(T), NEW e \in Seq(T), NEW f \in Seq(T)
  PROVE  SubSeq((d \o e) \o f, Len(d) + 1, Len(d) + Len(e)) = e
<1> DEFINE u == (d \o e) \o f
           w == SubSeq(u, Len(d) + 1, Len(d) + Len(e))
<1>1. Len(d) \in Nat /\ Len(e) \in Nat /\ Len(f) \in Nat
  OBVIOUS
<1>2. d \o e \in Seq(T) /\ Len(d \o e) = Len(d) + Len(e)
      /\ \A j \in 1 .. Len(e) : (d \o e)[Len(d) + j] = e[j]
  BY <1>1
<1>3. u \in Seq(T) /\ Len(u) = Len(d) + Len(e) + Len(f)
      /\ \A j \in 1 .. Len(d) + Len(e) : u[j] = (d \o e)[j]
  <2>1. PICK g \in Seq(T) : g = d \o e
    BY <1>2
  <2>2. g \o f \in Seq(T) /\ Len(g \o f) = Len(g) + Len(f) /\ \A j \in 1 .. Len(g) : (g \o f)[j] = g[j]
    BY <1>1, <2>1
  <2> QED
    BY <1>1, <1>2, <2>1, <2>2
<1>4. \A j \in 1 .. Len(e) : u[Len(d) + j] = e[j]
  BY <1>1, <1>2, <1>3
<1> HIDE DEF u
<1>5. \A j \in Len(d) + 1 .. Len(d) + Len(e) : u[j] \in T
  BY <1>1, <1>3
<1>6. w \in Seq(T) /\ Len(w) = Len(e) /\ \A j \in 1 .. Len(e) : w[j] = u[Len(d) + j]
  <2>1. PICK m \in Int, n \in Int : m = Len(d) + 1 /\ n = Len(d) + Len(e)
    BY <1>1
  <2>2. \A j \in m .. n : u[j] \in T
    BY <1>5, <2>1
  <2>3. /\ SubSeq(u, m, n) \in Seq(T)
        /\ Len(SubSeq(u, m, n)) = IF m <= n THEN n - m + 1 ELSE 0
        /\ \A j \in 1 .. n - m + 1 : SubSeq(u, m, n)[j] = u[m + j - 1]
    BY ONLY <2>2, m \in Int, n \in Int, SubSeqProperties
  <2>4. w = SubSeq(u, m, n)
    BY <2>1
  <2>5. Len(w) = Len(e)
    BY <1>1, <2>1, <2>3, <2>4
  <2>6. \A j \in 1 .. Len(e) : j \in 1 .. n - m + 1 /\ m + j - 1 = Len(d) + j
    BY <1>1, <2>1
  <2> QED
    BY <2>3, <2>4, <2>5, <2>6
<1> QED
  <2> HIDE DEF w
  <2>1. w = e
    BY <1>4, <1>6, SeqEqual
  <2> QED
    BY <2>1 DEF w, u

\* What lies between two characters.
LEMMA FlatPart ==
  ASSUME NEW cs \in Texts, NEW i \in 0 .. Len(cs), NEW j \in i .. Len(cs)
  PROVE  /\ SubSeq(FlattenSeq(cs), Off(cs, i) + 1, Off(cs, j)) = FlattenSeq(SubSeq(cs, i + 1, j))
         /\ Off(cs, i) \in Nat /\ Off(cs, j) \in Nat
         /\ Off(cs, j) = Off(cs, i) + Len(FlattenSeq(SubSeq(cs, i + 1, j)))
<1>1. Len(cs) \in Nat /\ cs \in Seq(Seq(Byte))
  BY DEF Texts
<1>2. PICK d \in Texts, e \in Texts, f \in Texts :
        d = SubSeq(cs, 1, i) /\ e = SubSeq(cs, i + 1, j) /\ f = SubSeq(cs, j + 1, Len(cs))
  <2>1. SubSeq(cs, 1, i) \in Texts /\ SubSeq(cs, i + 1, j) \in Texts
        /\ SubSeq(cs, j + 1, Len(cs)) \in Texts
    BY <1>1 DEF Texts
  <2> QED
    BY <2>1
<1>3. d \o e = SubSeq(cs, 1, j)
  <2>1. 1 \in 1 .. Len(cs) + 1 /\ i \in 1 - 1 .. Len(cs) /\ j \in i .. Len(cs)
    BY <1>1
  <2>2. SubSeq(cs, 1, i) \o SubSeq(cs, i + 1, j) = SubSeq(cs, 1, j)
    BY ONLY <1>1, <2>1, ConcatAdjacentSubSeq, SMTT(30)
  <2> QED
    BY <1>2, <2>2
<1>4. (d \o e) \o f = cs
  <2>1. 1 \in 1 .. Len(cs) + 1 /\ j \in 1 - 1 .. Len(cs) /\ Len(cs) \in j .. Len(cs)
    BY <1>1
  <2>2. SubSeq(cs, 1, j) \o SubSeq(cs, j + 1, Len(cs)) = SubSeq(cs, 1, Len(cs))
    BY ONLY <1>1, <2>1, ConcatAdjacentSubSeq
  <2>3. SubSeq(cs, 1, Len(cs)) = cs
    BY <1>1, SubSeqFull
  <2> QED
    BY <1>2, <1>3, <2>2, <2>3, ZenonT(40)
<1>5. d \o e \in Texts
  BY ConcatProperties DEF Texts
<1>6. PICK D \in Seq(Byte), G \in Seq(Byte), F \in Seq(Byte) :
        D = FlattenSeq(d) /\ G = FlattenSeq(e) /\ F = FlattenSeq(f)
  BY FlatType
<1>7. FlattenSeq(d \o e) = D \o G /\ FlattenSeq(cs) = (D \o G) \o F
  BY <1>4, <1>5, <1>6, FlatConcat
<1>8. Off(cs, i) = Len(D) /\ Off(cs, j) = Len(D \o G)
  BY <1>2, <1>3, <1>6, <1>7 DEF Off
<1>9. Len(D) \in Nat /\ Len(G) \in Nat /\ Len(D \o G) = Len(D) + Len(G)
  BY ConcatProperties, LenProperties
<1>10. SubSeq((D \o G) \o F, Len(D) + 1, Len(D) + Len(G)) = G
  BY MiddlePart
<1> QED
  BY <1>2, <1>6, <1>7, <1>8, <1>9, <1>10, SMTT(30)

LEMMA OneElement ==
  ASSUME NEW T, NEW u \in Seq(T), NEW i \in 1 .. Len(u)
  PROVE  SubSeq(u, (i - 1) + 1, i) = <<u[i]>>
<1>1. (i - 1) + 1 = i /\ i \in i .. Len(u) /\ i - 1 < i /\ i \in Int /\ i - 1 \in Int
  OBVIOUS
<1>2. SubSeq(u, i, i) = SubSeq(u, i, i - 1) \o <<u[i]>>
  BY <1>1, SubSeqRecursiveSecond
<1>3. SubSeq(u, i, i - 1) = <<>>
  BY <1>1, SubSeqEmpty
<1>4. <<>> \o <<u[i]>> = <<u[i]>>
  <2>1. <<u[i]>> \in Seq(T)
    OBVIOUS
  <2> QED
    BY <2>1, ConcatEmptySeq
<1> QED
  BY <1>1, <1>2, <1>3, <1>4

\* A part of a text.
LEMMA PartAt ==
  ASSUME NEW T, NEW u \in Seq(T), NEW p \in Nat, NEW q \in p .. Len(u)
  PROVE  /\ SubSeq(u, p + 1, q) \in Seq(T) /\ Len(SubSeq(u, p + 1, q)) = q - p
         /\ \A k \in 1 .. q - p : SubSeq(u, p + 1, q)[k] = u[p + k]
<1>0. Len(u) \in Nat
  OBVIOUS
<1>1. PICK m \in Int : m = p + 1
  OBVIOUS
<1>2. \A j \in m .. q : u[j] \in T
  BY <1>0, <1>1
<1>3. q \in Int
  BY <1>0
<1>4. /\ SubSeq(u, m, q) \in Seq(T)
      /\ Len(SubSeq(u, m, q)) = IF m <= q THEN q - m + 1 ELSE 0
      /\ \A j \in 1 .. q - m + 1 : SubSeq(u, m, q)[j] = u[m + j - 1]
  BY ONLY <1>2, <1>3, m \in Int, SubSeqProperties
<1>5. q - m + 1 = q - p /\ \A k \in Int : m + k - 1 = p + k
  BY <1>0, <1>1
<1>6. (IF m <= q THEN q - m + 1 ELSE 0) = q - p
  BY <1>0, <1>1
<1>7. \A j \in 1 .. q - p : SubSeq(u, m, q)[j] = u[p + j]
  BY <1>4, <1>5, <1>0, <1>1
<1>8. SubSeq(u, m, q) = SubSeq(u, p + 1, q)
  BY <1>1
<1> QED
  BY ONLY <1>4, <1>6, <1>7, <1>8, Zenon

LEMMA FlatOne ==
  ASSUME NEW c \in Seq(Byte)
  PROVE  FlattenSeq(<<c>>) = c
<1>1. <<>> \in Texts /\ <<c>> = Append(<<>>, c)
  BY DEF Texts
<1>2. FlattenSeq(Append(<<>>, c)) = <<>> \o c
  BY <1>1, FlatAppend, FlatEmpty
<1> QED
  BY <1>1, <1>2, ConcatEmptySeq

LEMMA Layout ==
  ASSUME NEW cs \in Seq(Character)
  PROVE  /\ Len(cs) \in Nat /\ FlattenSeq(cs) \in Seq(Byte) /\ Len(FlattenSeq(cs)) \in Nat
         /\ Off(cs, 0) = 0 /\ Off(cs, Len(cs)) = Len(FlattenSeq(cs))
         /\ \A i \in 0 .. Len(cs) : Off(cs, i) \in Nat
         /\ \A i \in 1 .. Len(cs) :
              /\ cs[i] \in Character /\ Len(cs[i]) \in 1 .. 4
              /\ Off(cs, i) = Off(cs, i - 1) + Len(cs[i])
<1>1. cs \in Texts /\ Len(cs) \in Nat /\ FlattenSeq(cs) \in Seq(Byte)
  BY CharactersAreTexts
<1>2. Off(cs, 0) = 0
  <2>1. SubSeq(cs, 1, 0) = <<>>
    BY SubSeqEmpty
  <2>2. Off(cs, 0) = Len(<<>>)
    BY ONLY <2>1, FlatEmpty, Zenon DEF Off
  <2> QED
    BY <2>2
<1>3. Off(cs, Len(cs)) = Len(FlattenSeq(cs))
  <2>1. SubSeq(cs, 1, Len(cs)) = cs
    BY SubSeqFull
  <2> QED
    BY <2>1 DEF Off
<1>4. ASSUME NEW i \in 0 .. Len(cs) PROVE Off(cs, i) \in Nat
  <2>1. i \in i .. Len(cs)
    BY <1>1
  <2> QED
    BY <1>1, <2>1, FlatPart
<1>5. ASSUME NEW i \in 1 .. Len(cs)
      PROVE  /\ cs[i] \in Character /\ Len(cs[i]) \in 1 .. 4
             /\ Off(cs, i) = Off(cs, i - 1) + Len(cs[i])
  <2>1. cs[i] \in Character
    BY ElementOfSeq
  <2>2. cs[i] \in Seq(Byte) /\ Len(cs[i]) \in 1 .. 4
    BY <2>1, CharacterShape
  <2>3. SubSeq(cs, (i - 1) + 1, i) = <<cs[i]>>
    BY OneElement
  <2>4. i - 1 \in 0 .. Len(cs) /\ i \in i - 1 .. Len(cs)
    BY <1>1
  <2>5. Off(cs, i) = Off(cs, i - 1) + Len(FlattenSeq(SubSeq(cs, (i - 1) + 1, i)))
    BY ONLY <1>1, <2>4, FlatPart
  <2> QED
    BY <2>1, <2>2, <2>3, <2>5, FlatOne
<1> QED
  BY <1>1, <1>2, <1>3, <1>4, <1>5

LEMMA OffLess ==
  ASSUME NEW cs \in Seq(Character), NEW i \in 0 .. Len(cs), NEW j \in 0 .. Len(cs)
  PROVE  i < j <=> Off(cs, i) < Off(cs, j)
<1>1. PICK n : n = Len(cs)
  OBVIOUS
<1>2. /\ n \in Nat /\ \A k \in 0 .. n : Off(cs, k) \in Nat
      /\ \A k \in 1 .. n : Off(cs, k) > Off(cs, k - 1)
  <2>1. n \in Nat /\ \A k \in 0 .. n : Off(cs, k) \in Nat
    BY <1>1, Layout
  <2>2. ASSUME NEW k \in 1 .. n PROVE Off(cs, k) > Off(cs, k - 1)
    <3>1. k - 1 \in 0 .. n
      BY <2>1
    <3>2. Len(cs[k]) \in 1 .. 4 /\ Off(cs, k) = Off(cs, k - 1) + Len(cs[k])
      BY <1>1, Layout
    <3>3. PICK x, y, l : x = Off(cs, k) /\ y = Off(cs, k - 1) /\ l = Len(cs[k])
      OBVIOUS
    <3>4. k \in 0 .. n
      BY <2>1
    <3>5. x \in Nat /\ y \in Nat /\ l \in 1 .. 4 /\ x = y + l
      BY ONLY <2>1, <3>1, <3>2, <3>3, <3>4, Zenon
    <3>6. x > y
      BY ONLY <3>5
    <3> QED
      BY <3>3, <3>6
  <2> QED
    BY <2>1, <2>2
<1>3. ASSUME NEW a \in 0 .. n, NEW b \in 0 .. n, a < b PROVE Off(cs, a) < Off(cs, b)
  <2> DEFINE I == {k \in Nat : a + k + 1 <= n => Off(cs, a) < Off(cs, a + k + 1)}
  <2>1. 0 \in I
    <3>1. a + 1 <= n => a + 1 \in 1 .. n /\ (a + 1) - 1 = a
      BY <1>2
    <3>2. a + 0 + 1 = a + 1
      OBVIOUS
    <3> QED
      BY <1>2, <3>1, <3>2
  <2>2. ASSUME NEW k \in Nat, k \in I PROVE k + 1 \in I
    <3>1. PICK m : m = a + k + 1
      OBVIOUS
    <3>2. m + 1 <= n => m \in 0 .. n /\ m + 1 \in 1 .. n /\ (m + 1) - 1 = m /\ m <= n
      BY <1>2, <3>1
    <3>3. a + (k + 1) + 1 = m + 1
      BY <3>1
    <3>4. m + 1 <= n => Off(cs, a) < Off(cs, m) /\ Off(cs, m) < Off(cs, m + 1)
      BY <1>2, <2>2, <3>1, <3>2
    <3>5. m + 1 <= n => Off(cs, a) < Off(cs, m + 1)
      BY <1>2, <3>2, <3>4, SMTT(30)
    <3> QED
      BY <3>3, <3>5
  <2>3. b - a - 1 \in Nat /\ a + (b - a - 1) + 1 = b
    BY <1>2, <1>3
  <2>4. b - a - 1 \in I
    <3> HIDE DEF I
    <3> QED
      BY ONLY <2>1, <2>2, <2>3, Induction
  <2> QED
    BY <1>2, <2>3, <2>4
<1>4. CASE i < j
  BY <1>1, <1>3, <1>4
<1>5. CASE j < i
  <2>1. Off(cs, j) < Off(cs, i) /\ Off(cs, j) \in Nat /\ Off(cs, i) \in Nat
    BY <1>1, <1>2, <1>3, <1>5
  <2> QED
    BY <1>1, <1>2, <1>5, <2>1
<1>6. CASE i = j
  BY <1>1, <1>2, <1>6
<1> QED
  BY <1>1, <1>2, <1>4, <1>5, <1>6

\* The bytes of a character are where it lies.
LEMMA FlatBytes ==
  ASSUME NEW cs \in Seq(Character), NEW i \in 1 .. Len(cs), NEW k \in 1 .. Len(cs[i])
  PROVE  FlattenSeq(cs)[Off(cs, i - 1) + k] = cs[i][k] /\ Off(cs, i - 1) + k \in 1 .. Len(FlattenSeq(cs))
<1>1. cs \in Texts /\ Len(cs) \in Nat /\ FlattenSeq(cs) \in Seq(Byte)
  BY CharactersAreTexts
<1>2. i - 1 \in 0 .. Len(cs) /\ i \in i - 1 .. Len(cs)
  BY <1>1
<1>3. /\ SubSeq(FlattenSeq(cs), Off(cs, i - 1) + 1, Off(cs, i)) = FlattenSeq(SubSeq(cs, (i - 1) + 1, i))
      /\ Off(cs, i - 1) \in Nat /\ Off(cs, i) \in Nat
  BY ONLY <1>1, <1>2, FlatPart
<1>4. SubSeq(cs, (i - 1) + 1, i) = <<cs[i]>>
  BY OneElement
<1>5. cs[i] \in Character /\ cs[i] \in Seq(Byte) /\ Len(cs[i]) \in 1 .. 4 /\ Off(cs, i) = Off(cs, i - 1) + Len(cs[i])
  BY Layout, CharacterShape
<1>6. SubSeq(FlattenSeq(cs), Off(cs, i - 1) + 1, Off(cs, i)) = cs[i]
  BY <1>3, <1>4, <1>5, FlatOne
<1>7. Off(cs, i) <= Len(FlattenSeq(cs))
  <2>1. Off(cs, Len(cs)) = Len(FlattenSeq(cs)) /\ Len(cs) \in 0 .. Len(cs) /\ i \in 0 .. Len(cs)
    BY <1>1, Layout
  <2>2. ~ (Off(cs, Len(cs)) < Off(cs, i))
    BY <1>1, <2>1, OffLess
  <2> QED
    BY <1>3, <2>1, <2>2, <1>1
<1>8. PICK p, q, l, n : p = Off(cs, i - 1) /\ q = Off(cs, i) /\ l = Len(cs[i]) /\ n = Len(FlattenSeq(cs))
  OBVIOUS
<1>9. p \in Nat /\ q \in p .. Len(FlattenSeq(cs)) /\ k \in 1 .. q - p
  <2>1. p \in Nat /\ q \in Nat /\ l \in 1 .. 4 /\ q = p + l /\ q <= n /\ k \in 1 .. l
    BY ONLY <1>3, <1>5, <1>7, <1>8, k \in 1 .. Len(cs[i]), Zenon
  <2>2. n \in Nat
    BY <1>1, <1>8
  <2>3. p \in Nat /\ q \in p .. n /\ k \in 1 .. q - p
    BY ONLY <2>1, <2>2
  <2> QED
    BY ONLY <1>8, <2>3, Zenon
<1>10. SubSeq(FlattenSeq(cs), p + 1, q)[k] = FlattenSeq(cs)[p + k]
  BY ONLY <1>1, <1>9, PartAt
<1>11. p + k \in 1 .. Len(FlattenSeq(cs))
  BY <1>1, <1>9
<1> QED
  BY ONLY <1>6, <1>8, <1>10, <1>11, Zenon

\* Every byte is a byte of some character.
LEMMA Inside ==
  ASSUME NEW cs \in Seq(Character), NEW p \in 1 .. Len(FlattenSeq(cs))
  PROVE  \E i \in 1 .. Len(cs) : /\ Off(cs, i - 1) < p /\ p <= Off(cs, i)
                                 /\ p - Off(cs, i - 1) \in 1 .. Len(cs[i])
<1>1. PICK n, z : n = Len(cs) /\ z = Len(FlattenSeq(cs))
  OBVIOUS
<1>2. n \in Nat /\ z \in Nat /\ p \in 1 .. z /\ Off(cs, n) = z /\ Off(cs, 0) = 0
      /\ \A i \in 0 .. n : Off(cs, i) \in Nat
  BY <1>1, Layout
<1> DEFINE S == {i \in Nat : i <= n /\ p <= Off(cs, i)}
<1>3. n \in S
  BY <1>2
<1>4. PICK i \in S : \A j \in S : i <= j
  <2>1. S \in SUBSET Nat /\ S # {}
    BY <1>3
  <2> QED
    BY ONLY <2>1, LeastNatural
<1>5. i \in Nat /\ i <= n /\ p <= Off(cs, i)
  OBVIOUS
<1>6. i # 0
  BY <1>2, <1>5
<1>7. i \in 1 .. n /\ i - 1 \in 0 .. n /\ i - 1 \in Nat /\ i - 1 <= n
  BY <1>2, <1>5, <1>6
<1>8. ~ (p <= Off(cs, i - 1))
  <2>1. i - 1 \notin S
    <3> HIDE DEF S
    <3> QED
      BY <1>4, <1>5
  <2> QED
    BY <2>1, <1>7
<1>9. PICK x, y, l : x = Off(cs, i) /\ y = Off(cs, i - 1) /\ l = Len(cs[i])
  OBVIOUS
<1>10. x \in Nat /\ y \in Nat /\ l \in 1 .. 4 /\ x = y + l /\ p <= x /\ ~ (p <= y)
  <2>1. l \in 1 .. 4 /\ x = y + l
    BY ONLY <1>1, <1>7, <1>9, Layout, cs \in Seq(Character)
  <2>2. i \in 0 .. n
    BY <1>2, <1>5
  <2> QED
    BY ONLY <2>1, <2>2, <1>2, <1>5, <1>7, <1>8, <1>9, Zenon
<1>11. y < p /\ p <= x /\ p - y \in 1 .. l
  BY ONLY <1>2, <1>10
<1> QED
  BY ONLY <1>1, <1>7, <1>9, <1>11, Zenon

\* The first byte of a character, which says where the next one starts.
LEMMA FirstByte ==
  ASSUME NEW cs \in Seq(Character), NEW i \in 0 .. Len(cs) - 1
  PROVE  /\ i + 1 \in 1 .. Len(cs) /\ cs[i + 1] \in Character
         /\ FlattenSeq(cs)[Off(cs, i) + 1] = cs[i + 1][1]
         /\ ~ Continues(FlattenSeq(cs)[Off(cs, i) + 1])
         /\ Off(cs, i) \in Nat /\ Off(cs, i) < Len(FlattenSeq(cs))
         /\ Step(FlattenSeq(cs), Off(cs, i)) = Off(cs, i + 1)
         /\ Off(cs, i + 1) = Off(cs, i) + Len(cs[i + 1])
<1>1. Len(cs) \in Nat /\ FlattenSeq(cs) \in Seq(Byte)
  BY Layout
<1>2. PICK j \in 1 .. Len(cs) : j = i + 1 /\ j - 1 = i
  BY <1>1
<1>3. cs[j] \in Character /\ Len(cs[j]) \in 1 .. 4 /\ Off(cs, j) = Off(cs, j - 1) + Len(cs[j])
  BY Layout
<1>4. 1 \in 1 .. Len(cs[j])
  <2>1. PICK l \in 1 .. 4 : l = Len(cs[j])
    BY <1>3
  <2>2. 1 \in 1 .. l
    OBVIOUS
  <2> QED
    BY ONLY <2>1, <2>2
<1>5. FlattenSeq(cs)[Off(cs, j - 1) + 1] = cs[j][1] /\ Off(cs, j - 1) + 1 \in 1 .. Len(FlattenSeq(cs))
  BY <1>4, FlatBytes
<1>6. ~ Continues(cs[j][1]) /\ Len(cs[j]) = ulen(cs[j][1])
  BY <1>3, CharacterShape
<1>7. Off(cs, i) \in Nat
  BY <1>1, Layout
<1>8. Off(cs, i) < Len(FlattenSeq(cs))
  BY <1>1, <1>2, <1>5, <1>7
<1>9. Step(FlattenSeq(cs), Off(cs, i)) = Off(cs, i) + Len(cs[j])
  BY <1>2, <1>5, <1>6 DEF Step
<1> QED
  BY ONLY <1>2, <1>3, <1>5, <1>6, <1>7, <1>8, <1>9, Zenon

\* Only there is a byte that does not continue a character.
LEMMA Starts ==
  ASSUME NEW cs \in Seq(Character), NEW p \in 0 .. Len(FlattenSeq(cs)) - 1,
         ~ Continues(FlattenSeq(cs)[p + 1])
  PROVE  \E i \in 0 .. Len(cs) - 1 : p = Off(cs, i)
<1>1. Len(cs) \in Nat /\ Len(FlattenSeq(cs)) \in Nat
  BY Layout
<1>2. PICK r \in 1 .. Len(FlattenSeq(cs)) : r = p + 1
  BY <1>1
<1>3. PICK i \in 1 .. Len(cs) : /\ Off(cs, i - 1) < r /\ r <= Off(cs, i)
                                /\ r - Off(cs, i - 1) \in 1 .. Len(cs[i])
  BY Inside
<1>4. PICK y, k : y = Off(cs, i - 1) /\ k = r - y
  OBVIOUS
<1>5. i - 1 \in 0 .. Len(cs) /\ i - 1 \in 0 .. Len(cs) - 1
  BY <1>1
<1>6. y \in Nat
  BY <1>4, <1>5, Layout
<1>7. k \in 1 .. Len(cs[i]) /\ k \in Int /\ y + k = r
  BY <1>3, <1>4, <1>6, <1>1
<1>8. FlattenSeq(cs)[r] = cs[i][k]
  BY <1>4, <1>7, FlatBytes
<1>9. CASE k = 1
  BY <1>2, <1>4, <1>5, <1>6, <1>7, <1>9
<1>10. CASE k # 1
  <2>1. Len(cs[i]) \in Nat /\ cs[i] \in Character
    BY Layout
  <2>2. k \in 2 .. Len(cs[i])
    BY <1>7, <1>10, <2>1
  <2>3. Continues(cs[i][k])
    BY <2>1, <2>2, CharacterShape
  <2> QED
    BY <1>2, <1>8, <2>3
<1> QED
  BY <1>9, <1>10

\* A new line is a character of its own.
LEMMA NewLines ==
  ASSUME NEW cs \in Seq(Character)
  PROVE  /\ \A p \in 1 .. Len(FlattenSeq(cs)) :
              FlattenSeq(cs)[p] = NL => \E i \in 1 .. Len(cs) : p = Off(cs, i) /\ cs[i] = <<NL>>
         /\ \A i \in 1 .. Len(cs) :
              cs[i] = <<NL>> => /\ Off(cs, i) = Off(cs, i - 1) + 1
                                /\ FlattenSeq(cs)[Off(cs, i)] = NL
<1>0. NL \in 0 .. 127
  BY ImeAssumption
<1>1. ~ Continues(NL) /\ ulen(NL) = 1
  BY <1>0 DEF Continues, ulen
<1>2. Len(cs) \in Nat /\ Len(FlattenSeq(cs)) \in Nat
  BY Layout
<1>3. ASSUME NEW p \in 1 .. Len(FlattenSeq(cs)), FlattenSeq(cs)[p] = NL
      PROVE  \E i \in 1 .. Len(cs) : p = Off(cs, i) /\ cs[i] = <<NL>>
  <2>1. PICK q \in 0 .. Len(FlattenSeq(cs)) - 1 : q + 1 = p /\ q = p - 1
    BY <1>2
  <2>2. ~ Continues(FlattenSeq(cs)[q + 1])
    BY <1>1, <1>3, <2>1
  <2>3. PICK j \in 0 .. Len(cs) - 1 : q = Off(cs, j)
    BY <2>2, Starts
  <2>4. /\ j + 1 \in 1 .. Len(cs) /\ cs[j + 1] \in Character
        /\ FlattenSeq(cs)[Off(cs, j) + 1] = cs[j + 1][1]
        /\ Off(cs, j + 1) = Off(cs, j) + Len(cs[j + 1])
    BY FirstByte
  <2>5. cs[j + 1][1] = NL
    BY <1>3, <2>1, <2>3, <2>4
  <2>6. Len(cs[j + 1]) = 1 /\ cs[j + 1] \in Seq(Byte)
    BY <1>1, <2>4, <2>5, CharacterShape
  <2>7. cs[j + 1] = <<NL>>
    <3>1. PICK c \in Seq(Byte) : c = cs[j + 1]
      BY <2>6
    <3>2. Len(c) = 1 /\ c[1] = NL
      BY <2>5, <2>6, <3>1
    <3>3. c = <<NL>>
      BY <3>2
    <3> QED
      BY <3>1, <3>3
  <2>8. p = Off(cs, j + 1)
    BY <2>1, <2>3, <2>4, <2>6
  <2> QED
    BY <2>4, <2>7, <2>8
<1>4. ASSUME NEW i \in 1 .. Len(cs), cs[i] = <<NL>>
      PROVE  Off(cs, i) = Off(cs, i - 1) + 1 /\ FlattenSeq(cs)[Off(cs, i)] = NL
  <2>1. Len(cs[i]) = 1 /\ 1 \in 1 .. Len(cs[i]) /\ cs[i][1] = NL
    BY <1>4
  <2>2. Off(cs, i) = Off(cs, i - 1) + Len(cs[i])
    BY Layout
  <2>3. FlattenSeq(cs)[Off(cs, i - 1) + 1] = cs[i][1]
    BY <2>1, FlatBytes
  <2> QED
    BY ONLY <2>1, <2>2, <2>3, Zenon
<1> QED
  BY <1>3, <1>4

-----------------------------------------------------------------------------
\* Bytes that match are characters that match.
LEMMA Matches ==
  ASSUME NEW cs \in Seq(Character), NEW f \in Seq(Character), NEW i \in 0 .. Len(cs),
         Off(cs, i) + Len(FlattenSeq(f)) <= Len(FlattenSeq(cs)),
         \A p \in 1 .. Len(FlattenSeq(f)) : FlattenSeq(cs)[Off(cs, i) + p] = FlattenSeq(f)[p]
  PROVE  i + Len(f) <= Len(cs) /\ \A k \in 1 .. Len(f) : cs[i + k] = f[k]
<1>1. PICK n, m, t, u, z, y, a : /\ n = Len(cs) /\ m = Len(f) /\ t = FlattenSeq(cs)
                                 /\ u = FlattenSeq(f) /\ z = Len(t) /\ y = Len(u) /\ a = Off(cs, i)
  OBVIOUS
<1>2. /\ n \in Nat /\ m \in Nat /\ z \in Nat /\ y \in Nat /\ a \in Nat /\ a + y <= z
      /\ i \in 0 .. n /\ Off(cs, n) = z /\ Off(f, m) = y /\ Off(f, 0) = 0
      /\ \A j \in 0 .. n : Off(cs, j) \in Nat
      /\ \A j \in 0 .. m : Off(f, j) \in Nat
      /\ \A p \in 1 .. y : t[a + p] = u[p]
  <2>1. /\ n \in Nat /\ z \in Nat /\ Off(cs, n) = z /\ \A j \in 0 .. n : Off(cs, j) \in Nat
    BY <1>1, Layout
  <2>2. /\ m \in Nat /\ y \in Nat /\ Off(f, m) = y /\ Off(f, 0) = 0
        /\ \A j \in 0 .. m : Off(f, j) \in Nat
    BY <1>1, Layout
  <2> QED
    BY <1>1, <2>1, <2>2
<1> DEFINE J == {j \in Nat : j <= m => /\ i + j <= n /\ Off(cs, i + j) = a + Off(f, j)
                                       /\ \A k \in 1 .. j : cs[i + k] = f[k]}
<1>3. 0 \in J
  <2>1. i + 0 = i /\ a + Off(f, 0) = a
    BY <1>2
  <2> QED
    BY <1>1, <1>2, <2>1
<1>4. ASSUME NEW j \in Nat, j \in J PROVE j + 1 \in J
  <2> SUFFICES ASSUME j + 1 <= m
               PROVE  /\ i + (j + 1) <= n /\ Off(cs, i + (j + 1)) = a + Off(f, j + 1)
                      /\ \A k \in 1 .. j + 1 : cs[i + k] = f[k]
    OBVIOUS
  <2>1. /\ i + j <= n /\ Off(cs, i + j) = a + Off(f, j) /\ \A k \in 1 .. j : cs[i + k] = f[k]
        /\ j \in 0 .. m - 1 /\ i + j \in 0 .. n /\ j \in 0 .. m
    BY <1>2, <1>4
  <2>2. PICK b : b = i + j
    OBVIOUS
  <2>3. PICK q, r : q = Off(f, j) /\ r = Off(cs, b)
    OBVIOUS
  <2>4. /\ j + 1 \in 1 .. m /\ f[j + 1] \in Character /\ u[q + 1] = f[j + 1][1]
        /\ q \in Nat /\ q < y /\ Off(f, j + 1) = q + Len(f[j + 1])
    <3>1. j \in 0 .. Len(f) - 1
      BY <1>1, <2>1
    <3> QED
      BY ONLY <1>1, <2>3, <3>1, f \in Seq(Character), FirstByte
  <2>5. r \in Nat /\ r = a + q /\ r < z /\ b \in 0 .. n
    BY <1>2, <2>1, <2>2, <2>3, <2>4, SMTT(30)
  <2>6. b \in 0 .. n - 1
    <3>1. ASSUME b = n PROVE FALSE
      <4>1. r = z
        BY ONLY <1>2, <2>3, <3>1, Zenon
      <4> QED
        BY ONLY <1>2, <2>5, <4>1
    <3> QED
      BY ONLY <1>2, <2>5, <3>1
  <2>7. /\ b + 1 \in 1 .. n /\ cs[b + 1] \in Character /\ t[r + 1] = cs[b + 1][1]
        /\ Off(cs, b + 1) = r + Len(cs[b + 1])
    <3>1. b \in 0 .. Len(cs) - 1
      BY <1>1, <2>6
    <3> QED
      BY ONLY <1>1, <2>3, <3>1, cs \in Seq(Character), FirstByte
  <2>8. PICK c \in Seq(Byte), d \in Seq(Byte) : c = cs[b + 1] /\ d = f[j + 1]
    BY <2>4, <2>7, CharacterShape
  <2>9. c[1] = d[1]
    <3>1. q + 1 \in 1 .. y /\ a + (q + 1) = r + 1
      BY <1>2, <2>4, <2>5
    <3> QED
      BY <1>2, <2>4, <2>7, <2>8, <3>1
  <2>10. Len(c) = Len(d) /\ Len(c) \in 1 .. 4
    BY <2>4, <2>7, <2>8, <2>9, CharacterShape
  <2>11. ASSUME NEW k \in 1 .. Len(c) PROVE c[k] = d[k]
    <3>1. k \in 1 .. Len(cs[b + 1]) /\ k \in 1 .. Len(f[j + 1])
      BY <2>8, <2>10
    <3>2. (b + 1) - 1 = b /\ (j + 1) - 1 = j
      BY <2>5
    <3>3. t[r + k] = c[k]
      BY ONLY <1>1, <2>3, <2>7, <2>8, <3>1, <3>2, cs \in Seq(Character), FlatBytes
    <3>4. u[q + k] = d[k] /\ q + k \in 1 .. y
      BY ONLY <1>1, <2>3, <2>4, <2>8, <3>1, <3>2, f \in Seq(Character), FlatBytes
    <3>5. a + (q + k) = r + k
      BY <1>2, <2>4, <2>5, <2>10
    <3> QED
      BY <1>2, <3>3, <3>4, <3>5
  <2>12. c = d
    BY ONLY <2>8, <2>10, <2>11, SeqEqual
  <2>13. i + (j + 1) = b + 1 /\ b + 1 <= n
    BY <1>2, <2>2, <2>6, SMTT(30)
  <2>14. Off(cs, b + 1) = a + Off(f, j + 1)
    <3>1. PICK l : l = Len(c)
      OBVIOUS
    <3>2. Off(cs, b + 1) = r + l /\ Off(f, j + 1) = q + l /\ l \in 1 .. 4
      BY <2>4, <2>7, <2>8, <2>10, <2>12, <3>1
    <3> QED
      BY <1>2, <2>4, <2>5, <3>2
  <2>15. ASSUME NEW k \in 1 .. j + 1 PROVE cs[i + k] = f[k]
    <3>1. CASE k = j + 1
      BY <2>8, <2>12, <2>13, <3>1
    <3>2. CASE k # j + 1
      BY <2>1, <3>2
    <3> QED
      BY <3>1, <3>2
  <2> QED
    BY <2>13, <2>14, <2>15
<1>5. m \in J
  <2> HIDE DEF J
  <2> QED
    BY ONLY <1>2, <1>3, <1>4, Induction
<1> QED
  BY <1>1, <1>2, <1>5

\* Where a text is found in another.
LEMMA Hits ==
  ASSUME NEW cs \in Seq(Character), NEW f \in Seq(Character), f # <<>>, NEW q \in Nat,
         q + Len(FlattenSeq(f)) <= Len(FlattenSeq(cs)),
         Part(FlattenSeq(cs), q, q + Len(FlattenSeq(f))) = FlattenSeq(f)
  PROVE  \E i \in 0 .. Len(cs) - Len(f) : q = Off(cs, i) /\ SubSeq(cs, i + 1, i + Len(f)) = f
<1>1. PICK n, m, t, u, z, y : /\ n = Len(cs) /\ m = Len(f) /\ t = FlattenSeq(cs)
                              /\ u = FlattenSeq(f) /\ z = Len(t) /\ y = Len(u)
  OBVIOUS
<1>2. /\ n \in Nat /\ m \in Nat /\ z \in Nat /\ y \in Nat /\ q + y <= z
      /\ t \in Seq(Byte) /\ u \in Seq(Byte) /\ m # 0
  <2>1. n \in Nat /\ z \in Nat /\ t \in Seq(Byte)
    BY <1>1, Layout
  <2>2. m \in Nat /\ y \in Nat /\ u \in Seq(Byte)
    BY <1>1, Layout
  <2>3. m # 0
    BY <1>1
  <2> QED
    BY <1>1, <2>1, <2>2, <2>3
<1>3. \A p \in 1 .. y : t[q + p] = u[p]
  <2>1. PICK r : r = q + y
    OBVIOUS
  <2>2. r \in q .. z /\ r - q = y
    BY <1>2, <2>1
  <2>3. \A p \in 1 .. r - q : SubSeq(t, q + 1, r)[p] = t[q + p]
    BY ONLY <1>1, <1>2, <2>2, q \in Nat, PartAt, SMTT(30)
  <2>4. SubSeq(t, q + 1, r) = u
    BY <1>1, <2>1 DEF Part
  <2> QED
    BY <2>2, <2>3, <2>4
<1>4. 0 \in 0 .. m - 1
  BY <1>2
<1>5. u[1] = f[1][1] /\ ~ Continues(u[1]) /\ 0 < y
  <2>1. /\ FlattenSeq(f)[Off(f, 0) + 1] = f[0 + 1][1]
        /\ ~ Continues(FlattenSeq(f)[Off(f, 0) + 1])
        /\ Off(f, 0) < Len(FlattenSeq(f))
    BY ONLY <1>1, <1>4, f \in Seq(Character), FirstByte
  <2>2. Off(f, 0) = 0 /\ 0 + 1 = 1
    BY Layout
  <2> QED
    BY <1>1, <2>1, <2>2
<1>6. q \in 0 .. z - 1 /\ ~ Continues(t[q + 1])
  BY <1>2, <1>3, <1>5
<1>7. PICK i \in 0 .. n - 1 : q = Off(cs, i)
  BY <1>1, <1>6, Starts
<1>8. i \in 0 .. n
  BY <1>2
<1>9. i + m <= n /\ \A k \in 1 .. m : cs[i + k] = f[k]
  BY <1>1, <1>2, <1>3, <1>7, <1>8, Matches
<1>10. SubSeq(cs, i + 1, i + m) = f
  <2>1. PICK r : r = i + m
    OBVIOUS
  <2>2. r \in i .. n /\ r - i = m /\ i \in Nat
    BY <1>2, <1>9, <2>1
  <2>3. /\ SubSeq(cs, i + 1, r) \in Seq(Character) /\ Len(SubSeq(cs, i + 1, r)) = r - i
        /\ \A k \in 1 .. r - i : SubSeq(cs, i + 1, r)[k] = cs[i + k]
    BY ONLY <1>1, <2>2, cs \in Seq(Character), PartAt
  <2>4. PICK w : w = SubSeq(cs, i + 1, r)
    OBVIOUS
  <2>5. w \in Seq(Character) /\ Len(w) = Len(f) /\ \A k \in 1 .. Len(w) : w[k] = f[k]
    BY <1>1, <1>9, <2>2, <2>3, <2>4
  <2>6. w = f
    BY ONLY <2>5, f \in Seq(Character), SeqEqual
  <2> QED
    BY <2>1, <2>4, <2>6
<1>11. i \in 0 .. n - m
  BY <1>2, <1>9
<1> QED
  BY <1>1, <1>7, <1>10, <1>11

LEMMA SetMin ==
  ASSUME NEW H \in SUBSET Int, NEW x \in H, \A y \in H : x <= y
  PROVE  Min(H) = x
<1>1. Min(H) \in H /\ \A y \in H : Min(H) <= y
  BY Zenon DEF Min
<1>2. PICK m : m = Min(H)
  OBVIOUS
<1>3. m \in Int /\ x \in Int /\ m <= x /\ x <= m
  BY <1>1, <1>2
<1>4. m = x
  BY ONLY <1>3
<1> QED
  BY <1>2, <1>4

LEMMA SetMax ==
  ASSUME NEW H \in SUBSET Int, NEW x \in H, \A y \in H : x >= y
  PROVE  Max(H) = x
<1>1. Max(H) \in H /\ \A y \in H : Max(H) >= y
  BY Zenon DEF Max
<1>2. PICK m : m = Max(H)
  OBVIOUS
<1>3. m \in Int /\ x \in Int /\ m >= x /\ x >= m
  BY <1>1, <1>2
<1>4. m = x
  BY ONLY <1>3
<1> QED
  BY <1>2, <1>4

\* The places of a text of characters where another starts.
Found(cs, f) == {i \in 0 .. Len(cs) - Len(f) : SubSeq(cs, i + 1, i + Len(f)) = f}

LEMMA Finds ==
  ASSUME NEW cs \in Seq(Character), NEW f \in Seq(Character), f # <<>>
  PROVE  /\ Found(cs, f) = {} => strstr(FlattenSeq(cs), FlattenSeq(f)) = Null
         /\ \A i \in Found(cs, f) : (\A j \in Found(cs, f) : i <= j) =>
              strstr(FlattenSeq(cs), FlattenSeq(f)) = Off(cs, i)
<1>1. PICK n, m, t, u, z, y : /\ n = Len(cs) /\ m = Len(f) /\ t = FlattenSeq(cs)
                              /\ u = FlattenSeq(f) /\ z = Len(t) /\ y = Len(u)
  OBVIOUS
<1>2. /\ n \in Nat /\ m \in Nat /\ z \in Nat /\ y \in Nat /\ cs \in Texts
      /\ \A i \in 0 .. n : Off(cs, i) \in Nat
  <2>1. n \in Nat /\ z \in Nat /\ \A i \in 0 .. n : Off(cs, i) \in Nat
    BY <1>1, Layout
  <2>2. m \in Nat /\ y \in Nat
    BY <1>1, Layout
  <2> QED
    BY <2>1, <2>2, CharactersAreTexts
<1> DEFINE H == {q \in 0 .. z - y : Part(t, q, q + y) = u}
<1>3. ASSUME NEW q \in H PROVE \E i \in Found(cs, f) : q = Off(cs, i)
  <2>1. q \in Nat /\ q + y <= z /\ Part(t, q, q + y) = u
    BY <1>2
  <2>2. \E i \in 0 .. Len(cs) - Len(f) : q = Off(cs, i) /\ SubSeq(cs, i + 1, i + Len(f)) = f
    BY <1>1, <2>1, Hits
  <2> QED
    BY <2>2 DEF Found
<1>4. ASSUME NEW i \in Found(cs, f) PROVE Off(cs, i) \in H
  <2>1. i \in 0 .. n - m /\ SubSeq(cs, i + 1, i + m) = f
    BY <1>1 DEF Found
  <2>2. PICK j : j = i + m
    OBVIOUS
  <2>3. i \in 0 .. n /\ j \in i .. n /\ j \in 0 .. n
    BY <1>2, <2>1, <2>2
  <2>4. /\ SubSeq(t, Off(cs, i) + 1, Off(cs, j)) = FlattenSeq(SubSeq(cs, i + 1, j))
        /\ Off(cs, i) \in Nat /\ Off(cs, j) \in Nat
        /\ Off(cs, j) = Off(cs, i) + Len(FlattenSeq(SubSeq(cs, i + 1, j)))
    BY ONLY <1>1, <1>2, <2>3, FlatPart
  <2>5. Off(cs, j) = Off(cs, i) + y /\ Part(t, Off(cs, i), Off(cs, i) + y) = u
    BY <1>1, <2>1, <2>2, <2>4 DEF Part
  <2>6. Off(cs, j) <= z
    <3>1. Off(cs, n) = z /\ n \in 0 .. n
      BY <1>1, <1>2, Layout
    <3>2. ~ (Off(cs, n) < Off(cs, j))
      BY <1>1, <1>2, <2>3, <3>1, OffLess
    <3> QED
      BY <1>2, <2>4, <3>1, <3>2
  <2>7. PICK q : q = Off(cs, i)
    OBVIOUS
  <2>8. q \in 0 .. z - y
    BY <1>2, <2>4, <2>5, <2>6, <2>7
  <2> QED
    BY <2>5, <2>7, <2>8
<1>5. strstr(t, u) = IF H = {} THEN Null ELSE Min(H)
  BY <1>1 DEF strstr
<1>6. CASE Found(cs, f) = {}
  <2>1. H = {}
    BY <1>3, <1>6
  <2> QED
    BY <1>1, <1>5, <1>6, <2>1
<1>7. ASSUME NEW i \in Found(cs, f), \A j \in Found(cs, f) : i <= j
      PROVE  strstr(t, u) = Off(cs, i)
  <2>1. H \in SUBSET Int /\ Off(cs, i) \in H
    BY <1>2, <1>4
  <2>2. ASSUME NEW q \in H PROVE Off(cs, i) <= q
    <3>1. PICK j \in Found(cs, f) : q = Off(cs, j)
      BY <1>3
    <3>2. i <= j /\ i \in 0 .. n /\ j \in 0 .. n
      BY <1>1, <1>2, <1>7 DEF Found
    <3>3. ~ (Off(cs, j) < Off(cs, i))
      BY <1>1, <3>2, <1>2, OffLess
    <3> QED
      BY <1>2, <3>1, <3>2, <3>3
  <2>3. Min(H) = Off(cs, i)
    <3> HIDE DEF H
    <3> QED
      BY ONLY <2>1, <2>2, SetMin
  <2> QED
    BY <1>5, <2>1, <2>3
<1> QED
  BY <1>1, <1>6, <1>7

-----------------------------------------------------------------------------
\* The cursor is one of the two shapes.
Shape(k) == IF k = 1 THEN CURSOR1 ELSE CURSOR2

\* A text with the cursor in it, and that it is in the array.
Line == [before : Seq(Plain), after : Seq(Plain), shape : {1, 2}]
Held(v) == v.before \o <<Shape(v.shape)>> \o v.after
Holds(t, v) == v \in Line /\ t = FlattenSeq(Held(v))

LEMMA ShapeIs ==
  ASSUME NEW k \in {1, 2}
  PROVE  /\ Shape(k) \in Character /\ Shape(k) \in Seq(Byte) /\ Len(Shape(k)) = CLEN
         /\ IsCursor(Shape(k)) /\ Shape(k) \notin Plain /\ (Shape(k) = CURSOR1 <=> k = 1)
<1>1. Shape(k) \in Character /\ Len(Shape(k)) = CLEN /\ IsCursor(Shape(k)) /\ (Shape(k) = CURSOR1 <=> k = 1)
  BY ImeAssumption DEF Shape, IsCursor
<1> QED
  BY <1>1, CharacterShape DEF Plain

\* The characters of a text with the cursor.
LEMMA HeldIs ==
  ASSUME NEW v \in Line
  PROVE  /\ v.before \in Seq(Plain) /\ v.after \in Seq(Plain) /\ v.shape \in {1, 2}
         /\ v.before \in Seq(Character) /\ v.after \in Seq(Character)
         /\ Held(v) \in Seq(Character) /\ Len(v.before) \in Nat /\ Len(v.after) \in Nat
         /\ Len(Held(v)) = Len(v.before) + 1 + Len(v.after)
         /\ \A i \in 1 .. Len(v.before) : Held(v)[i] = v.before[i]
         /\ Held(v)[Len(v.before) + 1] = Shape(v.shape)
         /\ \A i \in 1 .. Len(v.after) : Held(v)[Len(v.before) + 1 + i] = v.after[i]
<1>1. v.before \in Seq(Plain) /\ v.after \in Seq(Plain) /\ v.shape \in {1, 2}
  BY DEF Line
<1>2. Plain \subseteq Character
  BY DEF Plain
<1>3. PICK d \in Seq(Character), e \in Seq(Character), c \in Character :
        d = v.before /\ e = v.after /\ c = Shape(v.shape)
  BY <1>1, <1>2, ShapeIs, SeqMonotonic
<1>4. Held(v) = (d \o <<c>>) \o e
  BY <1>3 DEF Held
<1>5. Len(d) \in Nat /\ Len(e) \in Nat
  OBVIOUS
<1>6. PICK g \in Seq(Character) : g = d \o <<c>>
  <2>1. <<c>> \in Seq(Character)
    OBVIOUS
  <2> QED
    BY <2>1, ConcatProperties
<1>7. Len(g) = Len(d) + 1 /\ g[Len(d) + 1] = c /\ \A i \in 1 .. Len(d) : g[i] = d[i]
  BY <1>6
<1>8. /\ g \o e \in Seq(Character) /\ Len(g \o e) = Len(g) + Len(e)
      /\ \A i \in 1 .. Len(g) : (g \o e)[i] = g[i]
      /\ \A i \in 1 .. Len(e) : (g \o e)[Len(g) + i] = e[i]
  OBVIOUS
<1>9. \A i \in 1 .. Len(d) : i \in 1 .. Len(g)
  BY <1>5, <1>7
<1>10. Len(d) + 1 \in 1 .. Len(g)
  BY <1>5, <1>7
<1>11. PICK w : w = g \o e
  OBVIOUS
<1>12. /\ w \in Seq(Character) /\ Len(w) = Len(d) + 1 + Len(e)
       /\ \A i \in 1 .. Len(d) : w[i] = d[i]
       /\ w[Len(d) + 1] = c
       /\ \A i \in 1 .. Len(e) : w[Len(d) + 1 + i] = e[i]
  <2>1. w \in Seq(Character) /\ Len(w) = Len(d) + 1 + Len(e)
    BY <1>5, <1>7, <1>8, <1>11
  <2>2. \A i \in 1 .. Len(d) : w[i] = d[i]
    BY <1>7, <1>8, <1>9, <1>11
  <2>3. w[Len(d) + 1] = c
    BY <1>7, <1>8, <1>10, <1>11
  <2>4. \A i \in 1 .. Len(e) : w[Len(d) + 1 + i] = e[i]
    BY <1>7, <1>8, <1>11
  <2> QED
    BY <2>1, <2>2, <2>3, <2>4
<1>13. w = Held(v)
  BY <1>4, <1>6, <1>11
<1> QED
  BY ONLY <1>1, <1>3, <1>5, <1>12, <1>13, Zenon

\* The two parts of a concatenation.
LEMMA HeadAndRest ==
  ASSUME NEW T, NEW d \in Seq(T), NEW e \in Seq(T)
  PROVE  SubSeq(d \o e, 1, Len(d)) = d /\ SubSeq(d \o e, Len(d) + 1, Len(d \o e)) = e
<1>1. <<>> \in Seq(T) /\ Len(<<>>) = 0
  OBVIOUS
<1>2. SubSeq((<<>> \o d) \o e, Len(<<>>) + 1, Len(<<>>) + Len(d)) = d
  BY ONLY <1>1, MiddlePart, d \in Seq(T), e \in Seq(T)
<1>3. SubSeq((d \o e) \o <<>>, Len(d) + 1, Len(d) + Len(e)) = e
  BY ONLY <1>1, MiddlePart, d \in Seq(T), e \in Seq(T)
<1>4. <<>> \o d = d /\ d \o e \in Seq(T) /\ Len(d \o e) = Len(d) + Len(e)
  BY ConcatEmptySeq, ConcatProperties
<1>5. (d \o e) \o <<>> = d \o e
  BY <1>4, ConcatEmptySeq
<1>6. Len(d) \in Nat /\ Len(<<>>) + 1 = 1 /\ Len(<<>>) + Len(d) = Len(d)
  BY <1>1
<1> QED
  BY ONLY <1>2, <1>3, <1>4, <1>5, <1>6, Zenon

\* The bytes before, between and behind characters.
LEMMA Cuts ==
  ASSUME NEW cs \in Seq(Character), NEW i \in 0 .. Len(cs)
  PROVE  /\ Upto(FlattenSeq(cs), Off(cs, i)) = FlattenSeq(SubSeq(cs, 1, i))
         /\ From(FlattenSeq(cs), Off(cs, i)) = FlattenSeq(SubSeq(cs, i + 1, Len(cs)))
         /\ \A j \in i .. Len(cs) :
              Part(FlattenSeq(cs), Off(cs, i), Off(cs, j)) = FlattenSeq(SubSeq(cs, i + 1, j))
<1>1. Len(cs) \in Nat /\ Off(cs, 0) = 0 /\ Off(cs, Len(cs)) = Len(FlattenSeq(cs)) /\ cs \in Texts
  BY Layout, CharactersAreTexts
<1>2. ASSUME NEW j \in i .. Len(cs)
      PROVE  Part(FlattenSeq(cs), Off(cs, i), Off(cs, j)) = FlattenSeq(SubSeq(cs, i + 1, j))
  BY <1>1, FlatPart DEF Part
<1>3. From(FlattenSeq(cs), Off(cs, i)) = FlattenSeq(SubSeq(cs, i + 1, Len(cs)))
  <2>1. Len(cs) \in i .. Len(cs)
    BY <1>1
  <2> QED
    BY <1>1, <1>2, <2>1 DEF Part, From
<1>4. Upto(FlattenSeq(cs), Off(cs, i)) = FlattenSeq(SubSeq(cs, 1, i))
  <2>1. 0 \in 0 .. Len(cs) /\ i \in 0 .. Len(cs) /\ 0 + 1 = 1
    BY <1>1
  <2>2. SubSeq(FlattenSeq(cs), Off(cs, 0) + 1, Off(cs, i)) = FlattenSeq(SubSeq(cs, 0 + 1, i))
    BY ONLY <1>1, <2>1, FlatPart
  <2> QED
    BY <1>1, <2>1, <2>2 DEF Upto
<1> QED
  BY <1>2, <1>3, <1>4

\* The text with the cursor in it, put together.
LEMMA HeldFlat ==
  ASSUME NEW v \in Line
  PROVE  /\ FlattenSeq(Held(v)) = (FlattenSeq(v.before) \o Shape(v.shape)) \o FlattenSeq(v.after)
         /\ FlattenSeq(v.before) \in Seq(Byte) /\ FlattenSeq(v.after) \in Seq(Byte)
         /\ Shape(v.shape) \in Seq(Byte) /\ Len(Shape(v.shape)) = CLEN
         /\ Len(FlattenSeq(v.before)) \in Nat /\ Len(FlattenSeq(v.after)) \in Nat
         /\ Len(FlattenSeq(Held(v))) = Len(FlattenSeq(v.before)) + CLEN + Len(FlattenSeq(v.after))
<1>1. v.before \in Texts /\ v.after \in Texts /\ v.shape \in {1, 2}
  BY HeldIs, CharactersAreTexts
<1>2. PICK c \in Seq(Byte) : c = Shape(v.shape) /\ Len(c) = CLEN
  BY <1>1, ShapeIs
<1>3. <<c>> \in Texts /\ v.before \o <<c>> \in Texts
  BY <1>1 DEF Texts
<1>4. FlattenSeq(v.before \o <<c>>) = FlattenSeq(v.before) \o c
  <2>1. FlattenSeq(<<c>>) = c
    BY FlatOne
  <2>2. FlattenSeq(v.before \o <<c>>) = FlattenSeq(v.before) \o FlattenSeq(<<c>>)
    BY ONLY <1>1, <1>3, FlatConcat
  <2> QED
    BY ONLY <2>1, <2>2, Zenon
<1>5. FlattenSeq((v.before \o <<c>>) \o v.after) = FlattenSeq(v.before \o <<c>>) \o FlattenSeq(v.after)
  BY <1>1, <1>3, FlatConcat
<1>6. FlattenSeq(Held(v)) = (FlattenSeq(v.before) \o c) \o FlattenSeq(v.after)
  BY <1>2, <1>4, <1>5 DEF Held
<1>7. PICK d \in Seq(Byte), e \in Seq(Byte) : d = FlattenSeq(v.before) /\ e = FlattenSeq(v.after)
  BY <1>1, FlatType
<1>8. Len((d \o c) \o e) = Len(d) + Len(c) + Len(e)
  <2>1. d \o c \in Seq(Byte) /\ Len(d \o c) = Len(d) + Len(c)
    BY ConcatProperties
  <2>2. Len((d \o c) \o e) = Len(d \o c) + Len(e)
    BY <2>1, ConcatProperties
  <2> QED
    BY <2>1, <2>2
<1>9. Len(d) \in Nat /\ Len(e) \in Nat
  OBVIOUS
<1> QED
  BY ONLY <1>2, <1>6, <1>7, <1>8, <1>9, Zenon

\* Only one character is the cursor.
LEMMA OneCursor ==
  ASSUME NEW v \in Line, NEW i \in 1 .. Len(Held(v)), IsCursor(Held(v)[i])
  PROVE  i = Len(v.before) + 1
<1>1. PICK b, a : b = Len(v.before) /\ a = Len(v.after)
  OBVIOUS
<1>2. b \in Nat /\ a \in Nat /\ Len(Held(v)) = b + 1 + a /\ v.before \in Seq(Plain) /\ v.after \in Seq(Plain)
  BY <1>1, HeldIs
<1>3. Held(v)[i] \notin Plain
  BY DEF Plain
<1>4. ~ (i <= b)
  <2>1. ASSUME i <= b PROVE FALSE
    <3>1. i \in 1 .. Len(v.before)
      BY <1>1, <1>2, <2>1
    <3>2. Held(v)[i] = v.before[i] /\ v.before[i] \in Plain
      BY <1>2, <3>1, HeldIs, ElementOfSeq
    <3> QED
      BY <1>3, <3>2
  <2> QED
    BY <2>1
<1>5. ~ (i > b + 1)
  <2>1. ASSUME i > b + 1 PROVE FALSE
    <3>0. PICK k : k = i - b - 1
      OBVIOUS
    <3>a. i \in 1 .. b + 1 + a
      BY <1>2
    <3>b. k \in 1 .. a /\ i = b + 1 + k
      BY ONLY <1>2, <2>1, <3>0, <3>a
    <3>1. k \in 1 .. Len(v.after) /\ i = b + 1 + k
      BY ONLY <1>1, <3>b, Zenon
    <3>2. Held(v)[i] = v.after[k] /\ v.after[k] \in Plain
      <4>1. Held(v)[b + 1 + k] = v.after[k]
        BY <1>1, <3>1, HeldIs
      <4> QED
        BY <1>2, <3>1, <4>1, ElementOfSeq
    <3> QED
      BY <1>3, <3>2
  <2> QED
    BY <2>1
<1> QED
  BY <1>1, <1>2, <1>4, <1>5

\* cur() finds the cursor, and what is before and behind it is the text.
LEMMA CursorFound ==
  ASSUME NEW v \in Line, NEW k \in {1, 2}
  PROVE  strstr(FlattenSeq(Held(v)), Shape(k)) =
           IF k = v.shape THEN Off(Held(v), Len(v.before)) ELSE Null
<1>1. PICK cs \in Seq(Character), b \in Nat, f \in Seq(Character) :
        /\ cs = Held(v) /\ b = Len(v.before) /\ f = <<Shape(k)>>
  <2>1. <<Shape(k)>> \in Seq(Character)
    BY ShapeIs
  <2> QED
    BY <2>1, HeldIs
<1>2. Len(f) = 1 /\ f # <<>> /\ f[1] = Shape(k) /\ FlattenSeq(f) = Shape(k)
  BY <1>1, ShapeIs, FlatOne
<1>3. Len(cs) \in Nat /\ b + 1 \in 1 .. Len(cs) /\ cs[b + 1] = Shape(v.shape)
  <2>1. PICK a \in Nat : Len(cs) = b + 1 + a
    BY <1>1, HeldIs
  <2>2. cs[b + 1] = Shape(v.shape)
    BY <1>1, HeldIs
  <2>3. Len(cs) \in Nat /\ b + 1 \in 1 .. Len(cs)
    BY ONLY <2>1, b \in Nat
  <2> QED
    BY <2>2, <2>3
<1>4. ASSUME NEW i \in Found(cs, f) PROVE i = b /\ k = v.shape
  <2>1. i \in 0 .. Len(cs) - 1 /\ SubSeq(cs, i + 1, i + 1) = f
    BY <1>2 DEF Found
  <2>2. PICK j \in 1 .. Len(cs) : j = i + 1 /\ (j - 1) + 1 = i + 1
    BY <1>3, <2>1
  <2>3. SubSeq(cs, (j - 1) + 1, j) = <<cs[j]>>
    BY OneElement
  <2>4. cs[j] = Shape(k)
    <3>1. f = <<cs[j]>>
      BY <2>1, <2>2, <2>3
    <3> QED
      BY <1>2, <3>1
  <2>5. IsCursor(cs[j])
    BY <2>4, ShapeIs
  <2>6. j = b + 1
    BY <1>1, <2>5, OneCursor
  <2>7. Shape(k) = Shape(v.shape) /\ v.shape \in {1, 2}
    BY <1>3, <2>4, <2>6, HeldIs
  <2>8. k = v.shape
    BY <2>7, ShapeIs
  <2> QED
    BY <1>3, <2>1, <2>2, <2>6, <2>8
<1>5. CASE k = v.shape
  <2>1. b \in Found(cs, f)
    <3>1. (b + 1) - 1 + 1 = b + 1
      BY <1>3
    <3>2. SubSeq(cs, ((b + 1) - 1) + 1, b + 1) = <<cs[b + 1]>>
      BY ONLY <1>1, <1>3, OneElement
    <3>3. ((b + 1) - 1) + 1 = b + 1
      BY <1>3
    <3>4. SubSeq(cs, b + 1, b + 1) = f
      BY <1>1, <1>3, <1>5, <3>2, <3>3
    <3>5. b \in 0 .. Len(cs) - 1
      BY <1>3
    <3> QED
      BY <1>2, <3>4, <3>5 DEF Found
  <2>2. \A j \in Found(cs, f) : b <= j
    BY <1>4
  <2>3. strstr(FlattenSeq(cs), FlattenSeq(f)) = Off(cs, b)
    BY <1>2, <2>1, <2>2, Finds
  <2> QED
    BY <1>1, <1>2, <1>5, <2>3
<1>6. CASE k # v.shape
  <2>1. Found(cs, f) = {}
    BY <1>4, <1>6
  <2>2. strstr(FlattenSeq(cs), FlattenSeq(f)) = Null
    BY <1>2, <2>1, Finds
  <2> QED
    BY <1>1, <1>2, <1>6, <2>2
<1> QED
  BY <1>5, <1>6

LEMMA CursorAt ==
  ASSUME NEW v \in Line, NEW t, Holds(t, v)
  PROVE  /\ cur(t) = Off(Held(v), Len(v.before)) /\ cur(t) = Len(FlattenSeq(v.before))
         /\ cur(t) \in Nat /\ cur(t) # Null
         /\ cur(t) + CLEN = Off(Held(v), Len(v.before) + 1)
         /\ cur(t) + CLEN <= Len(t) /\ Len(t) \in Nat
         /\ Upto(t, cur(t)) = FlattenSeq(v.before)
         /\ Part(t, cur(t), cur(t) + CLEN) = Shape(v.shape)
         /\ From(t, cur(t) + CLEN) = FlattenSeq(v.after)
         /\ Upto(t, cur(t) + CLEN) = FlattenSeq(v.before) \o Shape(v.shape)
         /\ From(t, cur(t)) = Shape(v.shape) \o FlattenSeq(v.after)
<1>1. PICK d \in Seq(Byte), c \in Seq(Byte), e \in Seq(Byte) :
        d = FlattenSeq(v.before) /\ c = Shape(v.shape) /\ e = FlattenSeq(v.after)
  BY HeldFlat
<1>2. t = (d \o c) \o e /\ Len(c) = CLEN /\ v.shape \in {1, 2}
  BY <1>1, HeldFlat, HeldIs DEF Holds
<1>3. Off(Held(v), Len(v.before)) = Len(d)
  <2>1. SubSeq(Held(v), 1, Len(v.before)) = v.before
    <3>1. PICK g \in Seq(Character), h \in Seq(Character) :
            g = v.before /\ Held(v) = g \o h
      <4>1. v.before \in Seq(Character) /\ <<Shape(v.shape)>> \o v.after \in Seq(Character)
            /\ <<Shape(v.shape)>> \in Seq(Character) /\ v.after \in Seq(Character)
        <5>1. <<Shape(v.shape)>> \in Seq(Character)
          BY <1>2, ShapeIs
        <5> QED
          BY <5>1, HeldIs, ConcatProperties
      <4>2. Held(v) = v.before \o (<<Shape(v.shape)>> \o v.after)
        <5>1. PICK x \in Seq(Character), y \in Seq(Character), z \in Seq(Character) :
                x = v.before /\ y = <<Shape(v.shape)>> /\ z = v.after
          BY <4>1
        <5>2. (x \o y) \o z = x \o (y \o z)
          BY ONLY x \in Seq(Character), y \in Seq(Character), z \in Seq(Character), ConcatAssociative, SMTT(30)
        <5>3. Held(v) = (x \o y) \o z
          BY <5>1 DEF Held
        <5> QED
          BY ONLY <5>1, <5>2, <5>3, Zenon
      <4> QED
        BY <4>1, <4>2
    <3>2. SubSeq(g \o h, 1, Len(g)) = g
      OBVIOUS
    <3> QED
      BY <3>1, <3>2
  <2> QED
    BY <1>1, <2>1 DEF Off
<1>4. cur(t) = Len(d)
  <2>1. strstr(t, CURSOR1) = IF 1 = v.shape THEN Off(Held(v), Len(v.before)) ELSE Null
    BY CursorFound DEF Holds, Shape
  <2>2. strstr(t, CURSOR2) = IF 2 = v.shape THEN Off(Held(v), Len(v.before)) ELSE Null
    BY CursorFound DEF Holds, Shape
  <2>3. Len(d) # Null
    BY DEF Null
  <2> QED
    BY <1>2, <1>3, <2>1, <2>2, <2>3 DEF cur
<1>5. Off(Held(v), Len(v.before) + 1) = Len(d) + CLEN
  <2>0. PICK b \in Nat, a \in Nat : b = Len(v.before) /\ a = Len(v.after) /\ Len(Held(v)) = b + 1 + a
    BY HeldIs
  <2>a. b + 1 \in 1 .. b + 1 + a /\ (b + 1) - 1 = b
    OBVIOUS
  <2>1. PICK i \in 1 .. Len(Held(v)) : i = Len(v.before) + 1 /\ i - 1 = Len(v.before)
    BY ONLY <2>0, <2>a, Zenon
  <2>2. Off(Held(v), i) = Off(Held(v), i - 1) + Len(Held(v)[i])
    BY Layout, HeldIs
  <2> QED
    BY <1>1, <1>2, <1>3, <2>1, <2>2, HeldIs
<1>6. Len(d) \in Nat /\ Len(c) \in Nat /\ Len(e) \in Nat
  OBVIOUS
<1>7. PICK g \in Seq(Byte) : g = d \o c /\ Len(g) = Len(d) + CLEN
  BY <1>2, ConcatProperties
<1>8. Len(t) = Len(g) + Len(e) /\ t = g \o e /\ t \in Seq(Byte)
  BY <1>2, <1>7, ConcatProperties
<1>9. t = d \o (c \o e) /\ c \o e \in Seq(Byte)
  BY <1>2, ConcatAssociative, ConcatProperties, SMTT(30)
<1>10. Upto(t, Len(d)) = d /\ From(t, Len(d)) = c \o e
  <2>1. PICK h \in Seq(Byte) : h = c \o e
    BY <1>9
  <2>2. SubSeq(d \o h, 1, Len(d)) = d /\ SubSeq(d \o h, Len(d) + 1, Len(d \o h)) = h
    BY HeadAndRest
  <2> QED
    BY <1>9, <2>1, <2>2 DEF Upto, From
<1>11. Upto(t, Len(d) + CLEN) = g /\ From(t, Len(d) + CLEN) = e
  <2>1. SubSeq(g \o e, 1, Len(g)) = g /\ SubSeq(g \o e, Len(g) + 1, Len(g \o e)) = e
    BY HeadAndRest
  <2> QED
    BY <1>7, <1>8, <2>1 DEF Upto, From
<1>12. Part(t, Len(d), Len(d) + CLEN) = c
  BY <1>2, MiddlePart DEF Part
<1>13. Len(d) + CLEN <= Len(t) /\ Len(t) \in Nat
  BY <1>6, <1>7, <1>8 DEF CLEN
<1>14. Len(d) # Null
  BY <1>6 DEF Null
<1> QED
  BY ONLY <1>1, <1>3, <1>4, <1>5, <1>6, <1>7, <1>10, <1>11, <1>12, <1>13, <1>14, Zenon

-----------------------------------------------------------------------------
\* The bytes t in four parts.
Quarters(t, w, x, y, z) ==
  /\ Len(t) = (Len(w) + Len(x)) + (Len(y) + Len(z)) /\ t \in Seq(Byte)
  /\ Upto(t, Len(w)) = w /\ From(t, Len(w)) = x \o (y \o z)
  /\ Upto(t, Len(w) + Len(x)) = w \o x /\ From(t, Len(w) + Len(x)) = y \o z
  /\ Upto(t, (Len(w) + Len(x)) + Len(y)) = (w \o x) \o y
  /\ From(t, (Len(w) + Len(x)) + Len(y)) = z
  /\ Part(t, Len(w), Len(w) + Len(x)) = x
  /\ Part(t, Len(w) + Len(x), (Len(w) + Len(x)) + Len(y)) = y

LEMMA FourParts ==
  ASSUME NEW w \in Seq(Byte), NEW x \in Seq(Byte), NEW y \in Seq(Byte), NEW z \in Seq(Byte)
  PROVE  Quarters(((w \o x) \o y) \o z, w, x, y, z)
<1>0. PICK t : t = ((w \o x) \o y) \o z
  OBVIOUS
<1>1. PICK wx \in Seq(Byte), yz \in Seq(Byte) : wx = w \o x /\ yz = y \o z
  BY ConcatProperties
<1>2. Len(wx) = Len(w) + Len(x) /\ Len(yz) = Len(y) + Len(z)
  BY <1>1, ConcatProperties
<1>3. PICK wxy \in Seq(Byte), xyz \in Seq(Byte) : wxy = wx \o y /\ xyz = x \o yz
  BY ConcatProperties
<1>4. Len(wxy) = (Len(w) + Len(x)) + Len(y)
  <2>1. Len(wxy) = Len(wx) + Len(y)
    BY <1>3, ConcatProperties
  <2> QED
    BY ONLY <1>2, <2>1, Zenon
<1>5. t = wxy \o z
  BY ONLY <1>0, <1>1, <1>3, Zenon
<1>6. t = wx \o yz
  <2>1. (wx \o y) \o z = wx \o (y \o z)
    BY ONLY wx \in Seq(Byte), y \in Seq(Byte), z \in Seq(Byte), SMTT(30)
  <2> QED
    BY ONLY <1>1, <1>3, <1>5, <2>1, Zenon
<1>7. t = w \o xyz
  <2>1. (w \o x) \o yz = w \o (x \o yz)
    BY ONLY w \in Seq(Byte), x \in Seq(Byte), yz \in Seq(Byte), SMTT(30)
  <2> QED
    BY ONLY <1>1, <1>3, <1>6, <2>1, Zenon
<1>8. t \in Seq(Byte) /\ Len(t) = Len(wx) + Len(yz)
  BY <1>6, ConcatProperties
<1>9. Upto(t, Len(w)) = w /\ From(t, Len(w)) = xyz
  <2>1. SubSeq(w \o xyz, 1, Len(w)) = w /\ SubSeq(w \o xyz, Len(w) + 1, Len(w \o xyz)) = xyz
    BY ONLY w \in Seq(Byte), xyz \in Seq(Byte), HeadAndRest
  <2> QED
    BY ONLY <1>7, <2>1, Zenon DEF Upto, From
<1>10. Upto(t, Len(wx)) = wx /\ From(t, Len(wx)) = yz
  <2>1. SubSeq(wx \o yz, 1, Len(wx)) = wx /\ SubSeq(wx \o yz, Len(wx) + 1, Len(wx \o yz)) = yz
    BY ONLY wx \in Seq(Byte), yz \in Seq(Byte), HeadAndRest
  <2> QED
    BY ONLY <1>6, <2>1, Zenon DEF Upto, From
<1>11. Upto(t, Len(wxy)) = wxy /\ From(t, Len(wxy)) = z
  <2>1. SubSeq(wxy \o z, 1, Len(wxy)) = wxy /\ SubSeq(wxy \o z, Len(wxy) + 1, Len(wxy \o z)) = z
    BY ONLY wxy \in Seq(Byte), z \in Seq(Byte), HeadAndRest
  <2> QED
    BY ONLY <1>5, <2>1, Zenon DEF Upto, From
<1>12. Part(t, Len(wx), Len(wx) + Len(y)) = y
  <2>1. SubSeq((wx \o y) \o z, Len(wx) + 1, Len(wx) + Len(y)) = y
    BY ONLY wx \in Seq(Byte), y \in Seq(Byte), z \in Seq(Byte), MiddlePart
  <2> QED
    BY ONLY <1>3, <1>5, <2>1, Zenon DEF Part
<1>13. Part(t, Len(w), Len(w) + Len(x)) = x
  <2>1. SubSeq((w \o x) \o yz, Len(w) + 1, Len(w) + Len(x)) = x
    BY ONLY w \in Seq(Byte), x \in Seq(Byte), yz \in Seq(Byte), MiddlePart
  <2> QED
    BY ONLY <1>1, <1>6, <2>1, Zenon DEF Part
<1> QED
  BY ONLY <1>0, <1>1, <1>2, <1>3, <1>4, <1>8, <1>9, <1>10, <1>11, <1>12, <1>13, Zenon DEF Quarters

Regrouped(w, x, y, z) == (w \o x) \o (y \o z) = ((w \o x) \o y) \o z
LEMMA Regroup ==
  ASSUME NEW w \in Seq(Byte), NEW x \in Seq(Byte), NEW y \in Seq(Byte), NEW z \in Seq(Byte)
  PROVE  Regrouped(w, x, y, z)
<1>1. PICK u \in Seq(Byte) : u = w \o x
  BY ConcatProperties
<1>2. u \o (y \o z) = (u \o y) \o z
  BY ONLY u \in Seq(Byte), y \in Seq(Byte), z \in Seq(Byte), SMTT(30)
<1> QED
  BY ONLY <1>1, <1>2, Zenon DEF Regrouped

\* The text b, the cursor, the text a: as what someone sees, and as bytes.
Row(b, a, k) == [before |-> b, after |-> a, shape |-> k]
Text(b, a, k) == (FlattenSeq(b) \o Shape(k)) \o FlattenSeq(a)

LEMMA PlainTexts ==
  ASSUME NEW b \in Seq(Plain)
  PROVE  /\ b \in Seq(Character) /\ b \in Texts /\ FlattenSeq(b) \in Seq(Byte)
         /\ Len(b) \in Nat /\ Len(FlattenSeq(b)) \in Nat
<1>1. Plain \subseteq Character
  BY DEF Plain
<1>2. b \in Seq(Character)
  BY <1>1, SeqMonotonic
<1> QED
  BY <1>2, CharactersAreTexts, LenProperties

LEMMA Rows ==
  ASSUME NEW b \in Seq(Plain), NEW a \in Seq(Plain), NEW k \in {1, 2}
  PROVE  /\ Row(b, a, k) \in Line
         /\ Row(b, a, k).before = b /\ Row(b, a, k).after = a /\ Row(b, a, k).shape = k
         /\ Held(Row(b, a, k)) = (b \o <<Shape(k)>>) \o a
         /\ FlattenSeq(Held(Row(b, a, k))) = Text(b, a, k)
         /\ Holds(Text(b, a, k), Row(b, a, k))
         /\ Text(b, a, k) \in Seq(Byte)
         /\ Len(Text(b, a, k)) = (Len(FlattenSeq(b)) + CLEN) + Len(FlattenSeq(a))
<1>1. Row(b, a, k) \in Line
  BY DEF Row, Line
<1>2. Row(b, a, k).before = b /\ Row(b, a, k).after = a /\ Row(b, a, k).shape = k
  BY DEF Row
<1>3. Held(Row(b, a, k)) = (b \o <<Shape(k)>>) \o a
  BY <1>2, Zenon DEF Held
<1>4. /\ FlattenSeq(Held(Row(b, a, k))) = Text(b, a, k)
      /\ Len(FlattenSeq(Held(Row(b, a, k)))) = (Len(FlattenSeq(b)) + CLEN) + Len(FlattenSeq(a))
  <2>1. PICK v \in Line : v = Row(b, a, k)
    BY <1>1
  <2>2. /\ FlattenSeq(Held(v)) = (FlattenSeq(v.before) \o Shape(v.shape)) \o FlattenSeq(v.after)
        /\ Len(FlattenSeq(Held(v))) = (Len(FlattenSeq(v.before)) + CLEN) + Len(FlattenSeq(v.after))
    BY HeldFlat
  <2>3. v.before = b /\ v.after = a /\ v.shape = k
    BY ONLY <1>2, <2>1, Zenon
  <2> QED
    BY ONLY <2>1, <2>2, <2>3, Zenon DEF Text
<1>5. Held(Row(b, a, k)) \in Seq(Character)
  BY <1>1, HeldIs
<1>6. Text(b, a, k) \in Seq(Byte)
  BY <1>4, <1>5, CharactersAreTexts
<1> QED
  BY ONLY <1>1, <1>2, <1>3, <1>4, <1>6, Zenon DEF Holds

LEMMA LineIsRow ==
  ASSUME NEW v \in Line
  PROVE  \E b \in Seq(Plain), a \in Seq(Plain), k \in {1, 2} : v = Row(b, a, k)
BY DEF Line, Row

LEMMA OffHead ==
  ASSUME NEW d \in Seq(Character), NEW e \in Seq(Character)
  PROVE  Off(d \o e, Len(d)) = Len(FlattenSeq(d))
<1>1. SubSeq(d \o e, 1, Len(d)) = d
  BY ONLY d \in Seq(Character), e \in Seq(Character), HeadAndRest
<1> QED
  BY ONLY <1>1, Zenon DEF Off

\* The bytes before a character, when the text before or after the cursor is cut there.
LEMMA Offsets ==
  ASSUME NEW b \in Seq(Plain), NEW c \in Seq(Plain), NEW a \in Seq(Plain), NEW k \in {1, 2}
  PROVE  /\ Off(Held(Row(b \o c, a, k)), Len(b)) = Len(FlattenSeq(b))
         /\ Off(Held(Row(b, c \o a, k)), (Len(b) + 1) + Len(c))
              = (Len(FlattenSeq(b)) + CLEN) + Len(FlattenSeq(c))
<1>1. PICK o \in Seq(Character) : o = <<Shape(k)>> /\ Len(o) = 1 /\ FlattenSeq(o) = Shape(k)
  <2>1. Shape(k) \in Character /\ Shape(k) \in Seq(Byte)
    BY ShapeIs
  <2>2. FlattenSeq(<<Shape(k)>>) = Shape(k)
    BY <2>1, FlatOne
  <2>3. <<Shape(k)>> \in Seq(Character) /\ Len(<<Shape(k)>>) = 1
    BY <2>1
  <2> QED
    BY <2>2, <2>3
<1>2. b \in Seq(Character) /\ c \in Seq(Character) /\ a \in Seq(Character)
  BY PlainTexts
<1>3. b \o c \in Seq(Plain) /\ c \o a \in Seq(Plain)
  BY ConcatProperties
<1>4. Off(Held(Row(b \o c, a, k)), Len(b)) = Len(FlattenSeq(b))
  <2>1. PICK t : t = ((b \o c) \o o) \o a
    OBVIOUS
  <2>2. Held(Row(b \o c, a, k)) = t
    BY <1>1, <2>1 DEF Held, Row
  <2>3. Upto(t, Len(b)) = b
    <3>0. ((b \o c) \o o) \o a = b \o ((c \o o) \o a) /\ (c \o o) \o a \in Seq(Character)
      BY ONLY <1>2, o \in Seq(Character), SMTT(30)
    <3>1. PICK x \in Seq(Character) : x = (c \o o) \o a /\ t = b \o x
      BY ONLY <2>1, <3>0, Zenon
    <3>2. SubSeq(b \o x, 1, Len(b)) = b
      BY ONLY <1>2, x \in Seq(Character), SMTT(30)
    <3> QED
      BY ONLY <3>1, <3>2, Zenon DEF Upto
  <2> QED
    BY ONLY <2>2, <2>3, Zenon DEF Off, Upto
<1>5. Off(Held(Row(b, c \o a, k)), (Len(b) + 1) + Len(c))
        = (Len(FlattenSeq(b)) + CLEN) + Len(FlattenSeq(c))
  <2>1. PICK bo \in Seq(Character) : bo = b \o o
    BY <1>1, <1>2, ConcatProperties
  <2>2. Held(Row(b, c \o a, k)) = bo \o (c \o a)
    BY <1>1, <2>1 DEF Held, Row
  <2>3. bo \o (c \o a) = (bo \o c) \o a
    BY ONLY <1>2, bo \in Seq(Character), SMTT(30)
  <2>4. PICK t : t = ((b \o o) \o c) \o a
    OBVIOUS
  <2>5. Upto(t, (Len(b) + Len(o)) + Len(c)) = (b \o o) \o c
    <3>0. (b \o o) \o c \in Seq(Character) /\ Len((b \o o) \o c) = (Len(b) + Len(o)) + Len(c)
      BY ONLY <1>2, o \in Seq(Character), SMTT(30)
    <3>1. PICK x \in Seq(Character) :
            x = (b \o o) \o c /\ Len(x) = (Len(b) + Len(o)) + Len(c) /\ t = x \o a
      BY ONLY <2>4, <3>0, Zenon
    <3>2. SubSeq(x \o a, 1, Len(x)) = x
      BY ONLY <1>2, x \in Seq(Character), SMTT(30)
    <3> QED
      BY ONLY <3>1, <3>2, Zenon DEF Upto
  <2>6. Held(Row(b, c \o a, k)) = t
    BY ONLY <2>1, <2>2, <2>3, <2>4, Zenon
  <2>7. Off(t, (Len(b) + 1) + Len(c)) = Len(FlattenSeq((b \o o) \o c))
    BY ONLY <1>1, <2>5, Zenon DEF Off, Upto
  <2>8. (b \o o) \o c = Held(Row(b, c, k))
    BY ONLY <1>1 DEF Held, Row
  <2>9. /\ FlattenSeq(Held(Row(b, c, k))) = Text(b, c, k)
        /\ Len(Text(b, c, k)) = (Len(FlattenSeq(b)) + CLEN) + Len(FlattenSeq(c))
    BY Rows, ZenonT(40)
  <2> QED
    BY ONLY <2>6, <2>7, <2>8, <2>9, Zenon
<1> QED
  BY <1>4, <1>5

\* prev_char, from the start of one character to the start of the one before.
LEMMA Previous ==
  ASSUME NEW cs \in Seq(Character), NEW i \in 1 .. Len(cs)
  PROVE  /\ prev_char(FlattenSeq(cs), Off(cs, i)) = Off(cs, i - 1)
         /\ Off(cs, i) > 0 /\ Off(cs, i) - Off(cs, i - 1) <= 4
<1>1. PICK t, p, r, n : t = FlattenSeq(cs) /\ p = Off(cs, i) /\ r = Off(cs, i - 1) /\ n = Len(cs)
  OBVIOUS
<1>2. /\ n \in Nat /\ p \in Nat /\ r \in Nat /\ i \in 1 .. n /\ i - 1 \in 0 .. n /\ i \in 0 .. n
      /\ \A j \in 0 .. n : Off(cs, j) \in Nat
  <2>1. n \in Nat /\ \A j \in 0 .. n : Off(cs, j) \in Nat
    BY <1>1, Layout
  <2>2. i \in 1 .. n /\ i - 1 \in 0 .. n /\ i \in 0 .. n
    BY <1>1, <2>1
  <2> QED
    BY <1>1, <2>1, <2>2
<1>3. p = r + Len(cs[i]) /\ Len(cs[i]) \in 1 .. 4
  BY <1>1, Layout
<1>4. r < p /\ p > 0 /\ p - r <= 4
  <2>1. PICK l \in 1 .. 4 : p = r + l
    BY <1>3
  <2> QED
    BY ONLY <1>2, <2>1
<1>5. i - 1 \in 0 .. n - 1 /\ (i - 1) + 1 = i
  BY <1>2
<1>6. ~ Continues(t[r + 1]) /\ p <= Len(t) /\ Len(t) \in Nat
  <2>1. ~ Continues(t[r + 1])
    BY <1>1, <1>5, FirstByte
  <2>2. p <= Len(t) /\ Len(t) \in Nat
    <3>1. PICK z \in Nat : z = Len(t) /\ Off(cs, n) = z
      BY <1>1, Layout
    <3>2. n \in 0 .. n
      BY <1>2
    <3>3. ~ (Off(cs, n) < Off(cs, i))
      BY <1>1, <1>2, <3>2, OffLess
    <3> QED
      BY <1>1, <1>2, <3>1, <3>3
  <2> QED
    BY <2>1, <2>2
<1> DEFINE H == {q \in 0 .. p - 1 : q = 0 \/ ~ Continues(t[q + 1])}
<1>7. H \in SUBSET Int /\ r \in H
  BY <1>2, <1>4, <1>6
<1>8. ASSUME NEW q \in H PROVE r >= q
  <2>1. q \in 0 .. p - 1 /\ (q = 0 \/ ~ Continues(t[q + 1]))
    OBVIOUS
  <2>2. CASE q = 0
    BY <1>2, <2>2
  <2>3. CASE ~ Continues(t[q + 1])
    <3>1. q \in 0 .. Len(t) - 1
      BY <1>2, <1>6, <2>1
    <3>2. PICK j \in 0 .. n - 1 : q = Off(cs, j)
      BY <1>1, <2>3, <3>1, Starts
    <3>3. j \in 0 .. n /\ q < p
      BY <1>2, <2>1
    <3>4. j < i
      BY <1>1, <1>2, <3>2, <3>3, OffLess
    <3>5. ~ (i - 1 < j)
      BY <1>2, <3>3, <3>4
    <3>6. ~ (Off(cs, i - 1) < Off(cs, j))
      BY <1>1, <1>2, <3>3, <3>5, OffLess
    <3> QED
      BY <1>1, <1>2, <2>1, <3>2, <3>6
  <2> QED
    BY <2>1, <2>2, <2>3
<1>9. Max(H) = r
  <2> HIDE DEF H
  <2> QED
    BY ONLY <1>7, <1>8, SetMax
<1>10. prev_char(t, p) = r
  <2>1. ~ (p <= 0)
    BY <1>2, <1>4
  <2> QED
    BY ONLY <1>9, <2>1, Zenon DEF prev_char
<1> QED
  BY <1>1, <1>4, <1>10

-----------------------------------------------------------------------------
\* The bytes t are the text b, the cursor and the text a.
Around(t, b, a, k) ==
  /\ FlattenSeq(b) \in Seq(Byte) /\ Shape(k) \in Seq(Byte) /\ FlattenSeq(a) \in Seq(Byte)
  /\ t = (FlattenSeq(b) \o Shape(k)) \o FlattenSeq(a) /\ Len(Shape(k)) = CLEN
  /\ Len(FlattenSeq(b)) \in Nat /\ Len(FlattenSeq(a)) \in Nat /\ Len(FlattenSeq(b)) # Null
  /\ cur(t) = Len(FlattenSeq(b))
  /\ Upto(t, cur(t)) = FlattenSeq(b) /\ From(t, cur(t)) = Shape(k) \o FlattenSeq(a)
  /\ Upto(t, cur(t) + CLEN) = FlattenSeq(b) \o Shape(k)
  /\ Part(t, cur(t), cur(t) + CLEN) = Shape(k) /\ From(t, cur(t) + CLEN) = FlattenSeq(a)

LEMMA AroundCursor ==
  ASSUME NEW b \in Seq(Plain), NEW a \in Seq(Plain), NEW k \in {1, 2}
  PROVE  Around(Text(b, a, k), b, a, k)
<1>1. PICK v, t : v = Row(b, a, k) /\ t = Text(b, a, k)
  OBVIOUS
<1>2. v \in Line /\ Holds(t, v) /\ v.before = b /\ v.after = a /\ v.shape = k
  <2>1. /\ Row(b, a, k) \in Line /\ Holds(Text(b, a, k), Row(b, a, k))
        /\ Row(b, a, k).before = b /\ Row(b, a, k).after = a /\ Row(b, a, k).shape = k
    BY Rows, SMTT(30)
  <2> QED
    BY ONLY <1>1, <2>1, Zenon
<1>3. /\ cur(t) = Len(FlattenSeq(v.before)) /\ cur(t) # Null
      /\ Upto(t, cur(t)) = FlattenSeq(v.before) /\ From(t, cur(t)) = Shape(v.shape) \o FlattenSeq(v.after)
      /\ Upto(t, cur(t) + CLEN) = FlattenSeq(v.before) \o Shape(v.shape)
      /\ Part(t, cur(t), cur(t) + CLEN) = Shape(v.shape) /\ From(t, cur(t) + CLEN) = FlattenSeq(v.after)
  BY ONLY <1>2, CursorAt
<1>4. Shape(k) \in Seq(Byte) /\ Len(Shape(k)) = CLEN
  BY ShapeIs
<1>5. FlattenSeq(b) \in Seq(Byte) /\ FlattenSeq(a) \in Seq(Byte)
      /\ Len(FlattenSeq(b)) \in Nat /\ Len(FlattenSeq(a)) \in Nat
  BY PlainTexts
<1> QED
  BY ONLY <1>1, <1>2, <1>3, <1>4, <1>5, Zenon DEF Text, Around

LEMMA FlatTwo ==
  ASSUME NEW b \in Seq(Plain), NEW c \in Seq(Plain)
  PROVE  b \o c \in Seq(Plain) /\ FlattenSeq(b \o c) = FlattenSeq(b) \o FlattenSeq(c)
<1>1. b \in Texts /\ c \in Texts
  BY PlainTexts
<1> QED
  BY <1>1, FlatConcat, ConcatProperties

LEMMA BlinkIs ==
  ASSUME NEW b \in Seq(Plain), NEW a \in Seq(Plain), NEW k \in {1, 2}
  PROVE  blink(Text(b, a, k)) = Text(b, a, 3 - k)
<1>1. PICK t, d, o, e : t = Text(b, a, k) /\ d = FlattenSeq(b) /\ o = Shape(k) /\ e = FlattenSeq(a)
  OBVIOUS
<1>2. Upto(t, cur(t)) = d /\ Part(t, cur(t), cur(t) + CLEN) = o /\ From(t, cur(t) + CLEN) = e
  <2>1. Around(Text(b, a, k), b, a, k)
    BY AroundCursor
  <2> QED
    BY ONLY <1>1, <2>1, Zenon DEF Around
<1>3. blink(t) = (d \o (IF o = CURSOR1 THEN CURSOR2 ELSE CURSOR1)) \o e
  BY ONLY <1>2, Zenon DEF blink
<1>4. (IF o = CURSOR1 THEN CURSOR2 ELSE CURSOR1) = Shape(3 - k)
  <2>1. CASE k = 1
    BY <1>1, <2>1 DEF Shape
  <2>2. CASE k = 2
    <3>1. o # CURSOR1
      BY <1>1, <2>2, ShapeIs
    <3> QED
      BY <2>2, <3>1 DEF Shape
  <2> QED
    BY <2>1, <2>2
<1> QED
  BY ONLY <1>1, <1>3, <1>4, Zenon DEF Text

\* A character of one byte, as the keys type.
LEMMA TypedIsPlain ==
  ASSUME NEW c \in 0 .. 127
  PROVE  <<c>> \in Plain /\ <<c>> \in Seq(Byte) /\ Len(<<c>>) = 1
<1>1. <<c>> \in Seq(Byte) /\ Len(<<c>>) = 1 /\ <<c>>[1] = c
  BY DEF Byte
<1>2. Whole(<<c>>)
  BY <1>1 DEF Whole, Continues, ulen
<1>3. ~ IsCursor(<<c>>)
  <2>1. Len(CURSOR1) = 3 /\ Len(CURSOR2) = 3
    BY ImeAssumption, Zenon DEF CLEN
  <2>2. <<c>> # CURSOR1 /\ <<c>> # CURSOR2
    BY <1>1, <2>1
  <2> QED
    BY <2>2 DEF IsCursor
<1> QED
  BY <1>1, <1>2, <1>3 DEF Plain, Character

LEMMA InsertIs ==
  ASSUME NEW b \in Seq(Plain), NEW a \in Seq(Plain), NEW k \in {1, 2}, NEW c \in 0 .. 127
  PROVE  insert_char(Text(b, a, k), c) =
           IF Len(Text(b, a, k)) + 1 >= SIZE THEN Text(b, a, k) ELSE Text(Append(b, <<c>>), a, k)
<1>1. PICK t, d, o, e, x : /\ t = Text(b, a, k) /\ d = FlattenSeq(b) /\ o = Shape(k)
                           /\ e = FlattenSeq(a) /\ x = <<c>>
  OBVIOUS
<1>2. /\ Upto(t, cur(t)) = d /\ From(t, cur(t)) = o \o e /\ cur(t) # Null
      /\ d \in Seq(Byte) /\ o \in Seq(Byte) /\ e \in Seq(Byte)
  <2>1. Around(Text(b, a, k), b, a, k)
    BY AroundCursor
  <2> QED
    BY ONLY <1>1, <2>1, Zenon DEF Around
<1>3. x \in Seq(Byte)
  BY <1>1, TypedIsPlain
<1>4. insert_char(t, c) = IF Len(t) + 1 >= SIZE THEN t ELSE (d \o x) \o (o \o e)
  BY ONLY <1>1, <1>2, Zenon DEF insert_char
<1>5. Text(Append(b, <<c>>), a, k) = ((d \o x) \o o) \o e
  <2>1. b \in Texts
    BY PlainTexts
  <2>2. FlattenSeq(Append(b, x)) = FlattenSeq(b) \o x
    BY ONLY <2>1, <1>3, FlatAppend
  <2> QED
    BY ONLY <1>1, <2>2, Zenon DEF Text
<1>6. Regrouped(d, x, o, e)
  BY ONLY <1>2, <1>3, Regroup
<1> QED
  BY ONLY <1>1, <1>4, <1>5, <1>6, Zenon DEF Regrouped

\* The cursor moves over what is before it, or over what is after it.
LEMMA MoveBack ==
  ASSUME NEW b \in Seq(Plain), NEW c \in Seq(Plain), NEW a \in Seq(Plain), NEW k \in {1, 2}
  PROVE  move_cursor(Text(b \o c, a, k), Len(FlattenSeq(b))) = Text(b, c \o a, k)
<1>1. PICK t, d, f, o, e, g : /\ t = Text(b \o c, a, k) /\ d = FlattenSeq(b) /\ f = FlattenSeq(c)
                              /\ o = Shape(k) /\ e = FlattenSeq(a) /\ g = FlattenSeq(b \o c)
  OBVIOUS
<1>2. b \o c \in Seq(Plain) /\ g = d \o f
  BY ONLY <1>1, b \in Seq(Plain), c \in Seq(Plain), FlatTwo, Zenon
<1>3. /\ d \in Seq(Byte) /\ f \in Seq(Byte) /\ o \in Seq(Byte) /\ e \in Seq(Byte)
      /\ FlattenSeq(c \o a) = f \o e
  <2>1. d \in Seq(Byte) /\ f \in Seq(Byte) /\ e \in Seq(Byte)
    BY <1>1, PlainTexts
  <2>2. o \in Seq(Byte)
    BY <1>1, ShapeIs
  <2>3. FlattenSeq(c \o a) = f \o e
    BY ONLY <1>1, a \in Seq(Plain), c \in Seq(Plain), FlatTwo, Zenon
  <2> QED
    BY <2>1, <2>2, <2>3
<1>4. /\ cur(t) = Len(g) /\ Len(g) # Null /\ Part(t, cur(t), cur(t) + CLEN) = o
      /\ From(t, cur(t) + CLEN) = e /\ t = (g \o o) \o e
  <2>1. PICK bc \in Seq(Plain) : bc = b \o c
    BY <1>2
  <2>2. Around(Text(bc, a, k), bc, a, k)
    BY AroundCursor
  <2> QED
    BY ONLY <1>1, <2>1, <2>2, Zenon DEF Around
<1>5. Len(g) = Len(d) + Len(f) /\ Len(d) \in Nat /\ Len(f) \in Nat
  BY ONLY <1>2, <1>3, SMTT(30)
<1>6. t = ((d \o f) \o o) \o e
  BY ONLY <1>2, <1>4, Zenon
<1>7. Upto(t, Len(d)) = d /\ Part(t, Len(d), Len(d) + Len(f)) = f
  <2>1. Quarters(((d \o f) \o o) \o e, d, f, o, e)
    BY ONLY <1>3, FourParts
  <2> QED
    BY ONLY <1>6, <2>1, Zenon DEF Quarters
<1>8. Text(b, c \o a, k) = (d \o o) \o (f \o e)
  BY ONLY <1>1, <1>3, Zenon DEF Text
<1>9. CASE Len(f) = 0
  <2>1. Len(d) = Len(g)
    BY ONLY <1>5, <1>9
  <2>2. move_cursor(t, Len(d)) = t
    BY ONLY <1>4, <2>1, Zenon DEF move_cursor
  <2>3. f = <<>>
    BY ONLY <1>3, <1>9, SMTT(30)
  <2>4. (d \o o) \o (f \o e) = ((d \o f) \o o) \o e
    <3>1. f \o e = e /\ d \o f = d
      BY ONLY <1>3, <2>3, ConcatEmptySeq, SMTT(30)
    <3> QED
      BY ONLY <3>1, Zenon
  <2> QED
    BY ONLY <1>1, <1>6, <1>8, <2>2, <2>4, Zenon
<1>10. CASE Len(f) # 0
  <2>1. Len(d) < Len(g) /\ Len(d) # Len(g)
    BY ONLY <1>5, <1>10
  <2>2. move_cursor(t, Len(d)) = ((d \o o) \o f) \o e
    BY ONLY <1>4, <1>5, <1>7, <2>1, Zenon DEF move_cursor
  <2>3. Regrouped(d, o, f, e)
    BY ONLY <1>3, Regroup
  <2> QED
    BY ONLY <1>1, <1>8, <2>2, <2>3, Zenon DEF Regrouped
<1> QED
  BY <1>9, <1>10

LEMMA MoveOn ==
  ASSUME NEW b \in Seq(Plain), NEW c \in Seq(Plain), NEW a \in Seq(Plain), NEW k \in {1, 2}
  PROVE  move_cursor(Text(b, c \o a, k), (Len(FlattenSeq(b)) + CLEN) + Len(FlattenSeq(c)))
           = Text(b \o c, a, k)
<1>1. PICK t, d, f, o, e, g : /\ t = Text(b, c \o a, k) /\ d = FlattenSeq(b) /\ f = FlattenSeq(c)
                              /\ o = Shape(k) /\ e = FlattenSeq(a) /\ g = FlattenSeq(c \o a)
  OBVIOUS
<1>2. c \o a \in Seq(Plain) /\ g = f \o e
  BY ONLY <1>1, c \in Seq(Plain), a \in Seq(Plain), FlatTwo, Zenon
<1>3. /\ d \in Seq(Byte) /\ f \in Seq(Byte) /\ o \in Seq(Byte) /\ e \in Seq(Byte)
      /\ FlattenSeq(b \o c) = d \o f /\ Len(o) = CLEN
  <2>1. d \in Seq(Byte) /\ f \in Seq(Byte) /\ e \in Seq(Byte)
    BY <1>1, PlainTexts
  <2>2. o \in Seq(Byte) /\ Len(o) = CLEN
    BY <1>1, ShapeIs
  <2>3. FlattenSeq(b \o c) = d \o f
    BY ONLY <1>1, b \in Seq(Plain), c \in Seq(Plain), FlatTwo, Zenon
  <2> QED
    BY <2>1, <2>2, <2>3
<1>4. /\ cur(t) = Len(d) /\ Len(d) # Null /\ Upto(t, cur(t)) = d
      /\ Part(t, cur(t), cur(t) + CLEN) = o /\ t = (d \o o) \o g
  <2>1. PICK ca \in Seq(Plain) : ca = c \o a
    BY <1>2
  <2>2. Around(Text(b, ca, k), b, ca, k)
    BY AroundCursor
  <2> QED
    BY ONLY <1>1, <2>1, <2>2, Zenon DEF Around
<1>5. Len(d) \in Nat /\ Len(f) \in Nat
  BY ONLY <1>3, SMTT(30)
<1>6. t = ((d \o o) \o f) \o e
  <2>1. Regrouped(d, o, f, e)
    BY ONLY <1>3, Regroup
  <2> QED
    BY ONLY <1>2, <1>4, <2>1, Zenon DEF Regrouped
<1>7. /\ Part(t, Len(d) + Len(o), (Len(d) + Len(o)) + Len(f)) = f
      /\ From(t, (Len(d) + Len(o)) + Len(f)) = e
  <2>1. Quarters(((d \o o) \o f) \o e, d, o, f, e)
    BY ONLY <1>3, FourParts
  <2> QED
    BY ONLY <1>6, <2>1, Zenon DEF Quarters
<1>8. PICK p, q : p = Len(d) /\ q = (Len(d) + CLEN) + Len(f)
  OBVIOUS
<1>9. q # p /\ ~ (q < p)
  BY ONLY <1>5, <1>8 DEF CLEN
<1>10. Part(t, p + CLEN, q) = f /\ From(t, q) = e
  BY ONLY <1>3, <1>7, <1>8, Zenon
<1>11. move_cursor(t, q) = ((d \o f) \o o) \o e
  BY ONLY <1>4, <1>8, <1>9, <1>10, Zenon DEF move_cursor
<1>12. Text(b \o c, a, k) = ((d \o f) \o o) \o e
  BY ONLY <1>1, <1>3, Zenon DEF Text
<1> QED
  BY ONLY <1>1, <1>8, <1>11, <1>12, Zenon

-----------------------------------------------------------------------------
\* A text cut in two, its last character and its first one.
LEMMA CutAt ==
  ASSUME NEW b \in Seq(Plain), NEW i \in 0 .. Len(b)
  PROVE  \E d \in Seq(Plain), e \in Seq(Plain) :
           /\ b = d \o e /\ Len(d) = i /\ Len(e) = Len(b) - i
           /\ d = SubSeq(b, 1, i) /\ e = SubSeq(b, i + 1, Len(b))
           /\ (\A j \in 1 .. i : d[j] = b[j]) /\ (\A j \in 1 .. Len(e) : e[j] = b[i + j])
<1>1. PICK n : n = Len(b)
  OBVIOUS
<1>2. n \in Nat /\ i \in 0 .. n /\ 0 \in Nat /\ i \in Nat /\ n \in i .. n /\ 0 + 1 = 1 /\ i - 0 = i
  BY <1>1, PlainTexts
<1>3. SubSeq(b, 1, i) \in Seq(Plain) /\ Len(SubSeq(b, 1, i)) = i
      /\ \A j \in 1 .. i : SubSeq(b, 1, i)[j] = b[j]
  <2>1. /\ SubSeq(b, 0 + 1, i) \in Seq(Plain) /\ Len(SubSeq(b, 0 + 1, i)) = i - 0
        /\ \A j \in 1 .. i - 0 : SubSeq(b, 0 + 1, i)[j] = b[0 + j]
    BY ONLY <1>1, <1>2, b \in Seq(Plain), PartAt
  <2> QED
    BY <1>2, <2>1
<1>4. SubSeq(b, i + 1, n) \in Seq(Plain) /\ Len(SubSeq(b, i + 1, n)) = n - i
      /\ \A j \in 1 .. n - i : SubSeq(b, i + 1, n)[j] = b[i + j]
  BY ONLY <1>1, <1>2, b \in Seq(Plain), PartAt
<1>5. b = SubSeq(b, 1, i) \o SubSeq(b, i + 1, n)
  <2>1. PICK d \in Seq(Plain), e \in Seq(Plain) : d = SubSeq(b, 1, i) /\ e = SubSeq(b, i + 1, n)
    BY <1>3, <1>4
  <2>2. Len(d) = i /\ Len(e) = n - i /\ (\A j \in 1 .. i : d[j] = b[j])
        /\ \A j \in 1 .. n - i : e[j] = b[i + j]
    BY ONLY <1>3, <1>4, <2>1, Zenon
  <2>3. PICK u \in Seq(Plain) : u = d \o e
    BY ConcatProperties
  <2>4. Len(u) = n
    <3>1. Len(u) = Len(d) + Len(e)
      BY <2>3, ConcatProperties
    <3> QED
      BY ONLY <1>2, <2>2, <3>1
  <2>5. ASSUME NEW j \in 1 .. n PROVE u[j] = b[j]
    <3>1. CASE j <= i
      <4>1. j \in 1 .. Len(d) /\ j \in 1 .. i
        BY <1>2, <2>2, <3>1
      <4> QED
        BY <2>2, <2>3, <4>1
    <3>2. CASE j > i
      <4>1. PICK m : m = j - i
        OBVIOUS
      <4>2. m \in 1 .. n - i /\ i + m = j
        BY <1>2, <3>2, <4>1
      <4>3. u[Len(d) + m] = e[m]
        <5>1. m \in 1 .. Len(e)
          BY <2>2, <4>2
        <5> QED
          BY <2>3, <5>1
      <4> QED
        BY <2>2, <4>2, <4>3
    <3> QED
      BY <1>2, <3>1, <3>2
  <2>6. u = b
    BY ONLY <1>1, <2>4, <2>5, b \in Seq(Plain), u \in Seq(Plain), SeqEqual
  <2> QED
    BY <2>1, <2>3, <2>6
<1> QED
  BY ONLY <1>1, <1>3, <1>4, <1>5, Zenon

LEMMA LastOne ==
  ASSUME NEW b \in Seq(Plain), b # <<>>
  PROVE  \E d \in Seq(Plain), x \in Plain :
           /\ b = d \o <<x>> /\ d = SubSeq(b, 1, Len(b) - 1) /\ Len(b) = Len(d) + 1 /\ x = b[Len(b)]
           /\ <<x>> \in Seq(Plain)
<1>1. PICK n : n = Len(b)
  OBVIOUS
<1>2. n \in Nat /\ n # 0 /\ n - 1 \in 0 .. n /\ n \in 1 .. n /\ (n - 1) + 1 = n
  BY <1>1
<1>3. PICK d \in Seq(Plain), e \in Seq(Plain) :
        b = d \o e /\ Len(d) = n - 1 /\ d = SubSeq(b, 1, n - 1) /\ e = SubSeq(b, (n - 1) + 1, n)
  BY <1>1, <1>2, CutAt, ZenonT(40)
<1>4. e = <<b[n]>> /\ b[n] \in Plain /\ <<b[n]>> \in Seq(Plain)
  <2>1. SubSeq(b, (n - 1) + 1, n) = <<b[n]>>
    BY ONLY <1>1, <1>2, b \in Seq(Plain), OneElement
  <2>2. b[n] \in Plain
    BY <1>1, <1>2, ElementOfSeq
  <2> QED
    BY <1>3, <2>1, <2>2
<1>5. n = Len(d) + 1
  BY <1>2, <1>3
<1> QED
  BY ONLY <1>1, <1>3, <1>4, <1>5, Zenon

LEMMA FirstOne ==
  ASSUME NEW a \in Seq(Plain), a # <<>>
  PROVE  \E x \in Plain, r \in Seq(Plain) :
           /\ a = <<x>> \o r /\ r = Tail(a) /\ <<x>> \in Seq(Plain) /\ x = a[1] /\ Len(a) = Len(r) + 1
<1>1. PICK n : n = Len(a)
  OBVIOUS
<1>2. n \in Nat /\ n # 0 /\ 1 \in 0 .. n /\ 1 \in 1 .. n /\ (1 - 1) + 1 = 1
  BY <1>1
<1>3. PICK d \in Seq(Plain), r \in Seq(Plain) :
        /\ a = d \o r /\ d = SubSeq(a, 1, 1) /\ r = SubSeq(a, 1 + 1, n) /\ Len(r) = n - 1
  BY <1>1, <1>2, CutAt, ZenonT(40)
<1>4. d = <<a[1]>> /\ a[1] \in Plain /\ <<a[1]>> \in Seq(Plain)
  <2>1. SubSeq(a, (1 - 1) + 1, 1) = <<a[1]>>
    BY ONLY <1>1, <1>2, a \in Seq(Plain), OneElement
  <2>2. a[1] \in Plain
    BY <1>1, <1>2, ElementOfSeq
  <2> QED
    BY <1>2, <1>3, <2>1, <2>2
<1>5. Tail(a) = r
  <2>1. PICK w \in Seq(Plain) : w = Tail(a) /\ Len(w) = n - 1 /\ \A j \in 1 .. n - 1 : w[j] = a[j + 1]
    <3>1. /\ Tail(a) \in Seq(Plain) /\ Len(Tail(a)) = Len(a) - 1
          /\ \A j \in 1 .. Len(Tail(a)) : Tail(a)[j] = a[j + 1]
      BY HeadTailProperties
    <3> QED
      BY ONLY <1>1, <3>1, Zenon
  <2>2. \A j \in 1 .. n - 1 : r[j] = a[j + 1]
    <3>1. \A j \in 1 .. n - 1 : SubSeq(a, 1 + 1, n)[j] = a[1 + j]
      <4>1. 1 \in Nat /\ n \in 1 .. n
        BY <1>2
      <4> QED
        BY ONLY <1>1, <4>1, a \in Seq(Plain), PartAt
    <3>2. \A j \in 1 .. n - 1 : 1 + j = j + 1
      OBVIOUS
    <3> QED
      BY ONLY <1>3, <3>1, <3>2, Zenon
  <2>3. w = r
    BY ONLY <1>3, <2>1, <2>2, w \in Seq(Plain), r \in Seq(Plain), SeqEqual, SMTT(30)
  <2> QED
    BY <2>1, <2>3
<1>6. n = Len(r) + 1
  BY <1>2, <1>3
<1> QED
  BY ONLY <1>1, <1>3, <1>4, <1>5, <1>6, Zenon

\* What the keys ask of the editor.
LEMMA RowChanges ==
  ASSUME NEW b, NEW a, NEW k, NEW x
  PROVE  /\ [Row(b, a, k) EXCEPT !.before = x] = Row(x, a, k)
         /\ [Row(b, a, k) EXCEPT !.after = x] = Row(b, x, k)
         /\ [Row(b, a, k) EXCEPT !.shape = x] = Row(b, a, x)
         /\ Row(b, a, k).before = b /\ Row(b, a, k).after = a /\ Row(b, a, k).shape = k
BY DEF Row

\* MoveTo cuts the whole text at a place.
MovedTo(u, w, k, i) == E!MoveTo(u, i) = Row(SubSeq(w, 1, i), SubSeq(w, i + 1, Len(w)), k)
LEMMA MoveToCuts ==
  ASSUME NEW b, NEW a, NEW k, NEW i
  PROVE  MovedTo(Row(b, a, k), b \o a, k, i)
<1>0. PICK w, x, y : w = b \o a /\ x = SubSeq(w, 1, i) /\ y = SubSeq(w, i + 1, Len(w))
  OBVIOUS
<1>1. PICK r, v : r = Row(b, a, k) /\ v = Row(x, a, k)
  OBVIOUS
<1>2. r.before = b /\ r.after = a
  BY <1>1, RowChanges
<1>3. E!MoveTo(r, i) = [r EXCEPT !.before = x, !.after = y]
  BY ONLY <1>0, <1>2, Zenon DEF E!MoveTo
<1>4. [r EXCEPT !.before = x] = v
  BY ONLY <1>1 DEF Row
<1>5. [v EXCEPT !.after = y] = Row(x, y, k)
  BY ONLY <1>1 DEF Row
<1>6. [r EXCEPT !.before = x, !.after = y] = [[r EXCEPT !.before = x] EXCEPT !.after = y]
  OBVIOUS
<1> QED
  BY ONLY <1>0, <1>1, <1>3, <1>4, <1>5, <1>6, Zenon DEF MovedTo

LEMMA MoveToIs ==
  ASSUME NEW b \in Seq(Plain), NEW c \in Seq(Plain), NEW a \in Seq(Plain), NEW k \in {1, 2}
  PROVE  /\ E!MoveTo(Row(b \o c, a, k), Len(b)) = Row(b, c \o a, k)
         /\ E!MoveTo(Row(b, c \o a, k), Len(b) + Len(c)) = Row(b \o c, a, k)
<1>2. PICK g, h, w : /\ g \in Seq(Plain) /\ h \in Seq(Plain) /\ g = b \o c /\ h = c \o a /\ w = g \o a
  BY ConcatProperties
<1>3. w = b \o h /\ Len(g) = Len(b) + Len(c)
  BY ONLY <1>2, b \in Seq(Plain), c \in Seq(Plain), a \in Seq(Plain), SMTT(30)
<1>4. SubSeq(w, 1, Len(b)) = b /\ SubSeq(w, Len(b) + 1, Len(w)) = h
  <2>1. h \in Seq(Plain)
    BY <1>2
  <2>2. SubSeq(b \o h, 1, Len(b)) = b /\ SubSeq(b \o h, Len(b) + 1, Len(b \o h)) = h
    BY ONLY <2>1, b \in Seq(Plain), HeadAndRest
  <2> QED
    BY ONLY <1>3, <2>2, Zenon
<1>5. SubSeq(w, 1, Len(g)) = g /\ SubSeq(w, Len(g) + 1, Len(w)) = a
  BY ONLY <1>2, g \in Seq(Plain), a \in Seq(Plain), HeadAndRest
<1>6. MovedTo(Row(g, a, k), g \o a, k, Len(b)) /\ MovedTo(Row(b, h, k), b \o h, k, Len(g))
  BY ONLY MoveToCuts
<1>7. /\ E!MoveTo(Row(g, a, k), Len(b)) = Row(b, h, k)
      /\ E!MoveTo(Row(b, h, k), Len(g)) = Row(g, a, k)
  BY ONLY <1>2, <1>3, <1>4, <1>5, <1>6, Zenon DEF MovedTo
<1> QED
  BY ONLY <1>2, <1>3, <1>7, Zenon

Longer(b, c, a, k) ==
  /\ Len(Text(b \o c, a, k)) = Len(Text(b, c \o a, k))
  /\ Len(Text(b, a, k)) <= Len(Text(b \o c, a, k))
  /\ Len(Text(b \o c, a, k)) = Len(Text(b, a, k)) + Len(FlattenSeq(c))
  /\ Len(Text(b, a, k)) \in Nat

LEMMA Lengths ==
  ASSUME NEW b \in Seq(Plain), NEW c \in Seq(Plain), NEW a \in Seq(Plain), NEW k \in {1, 2}
  PROVE  Longer(b, c, a, k)
<1>1. PICK d, e, f, x, y : /\ d = Len(FlattenSeq(b)) /\ e = Len(FlattenSeq(c)) /\ f = Len(FlattenSeq(a))
                           /\ x = b \o c /\ y = c \o a
  OBVIOUS
<1>2. d \in Nat /\ e \in Nat /\ f \in Nat
  BY <1>1, PlainTexts
<1>3. /\ x \in Seq(Plain) /\ FlattenSeq(x) = FlattenSeq(b) \o FlattenSeq(c)
      /\ y \in Seq(Plain) /\ FlattenSeq(y) = FlattenSeq(c) \o FlattenSeq(a)
  BY ONLY <1>1, b \in Seq(Plain), c \in Seq(Plain), a \in Seq(Plain), FlatTwo, Zenon
<1>4. Len(FlattenSeq(x)) = d + e /\ Len(FlattenSeq(y)) = e + f
  <2>1. FlattenSeq(b) \in Seq(Byte) /\ FlattenSeq(c) \in Seq(Byte) /\ FlattenSeq(a) \in Seq(Byte)
    BY PlainTexts
  <2> QED
    BY ONLY <1>1, <1>3, <2>1, ConcatProperties
<1>5. Len(Text(x, a, k)) = ((d + e) + CLEN) + f
  <2>1. Len(Text(x, a, k)) = (Len(FlattenSeq(x)) + CLEN) + Len(FlattenSeq(a))
    BY <1>3, Rows, ZenonT(40)
  <2> QED
    BY ONLY <1>1, <1>4, <2>1, Zenon
<1>6. Len(Text(b, y, k)) = (d + CLEN) + (e + f)
  <2>1. Len(Text(b, y, k)) = (Len(FlattenSeq(b)) + CLEN) + Len(FlattenSeq(y))
    BY <1>3, Rows, ZenonT(40)
  <2> QED
    BY ONLY <1>1, <1>4, <2>1, Zenon
<1>7. Len(Text(b, a, k)) = (d + CLEN) + f
  <2>1. Len(Text(b, a, k)) = (Len(FlattenSeq(b)) + CLEN) + Len(FlattenSeq(a))
    BY Rows
  <2> QED
    BY ONLY <1>1, <2>1, Zenon
<1>8. /\ ((d + e) + CLEN) + f = (d + CLEN) + (e + f) /\ (d + CLEN) + f <= ((d + e) + CLEN) + f
      /\ ((d + e) + CLEN) + f = ((d + CLEN) + f) + e /\ (d + CLEN) + f \in Nat
  BY ONLY <1>2 DEF CLEN
<1> QED
  BY ONLY <1>1, <1>5, <1>6, <1>7, <1>8, Zenon DEF Longer

\* The text v is in the array t.
InRow(v, t, b, a, k) ==
  /\ v \in Line /\ Holds(t, v) /\ FlattenSeq(Held(v)) = t
  /\ v.before = b /\ v.after = a /\ v.shape = k

LEMMA RowHolds ==
  ASSUME NEW b \in Seq(Plain), NEW a \in Seq(Plain), NEW k \in {1, 2}
  PROVE  InRow(Row(b, a, k), Text(b, a, k), b, a, k)
BY Rows, SMTT(30) DEF InRow

\* The place before the last character before the cursor, and the one after
\* the first character after it.
LEMMA LeftPlace ==
  ASSUME NEW d \in Seq(Plain), NEW x \in Plain, NEW a \in Seq(Plain), NEW k \in {1, 2}
  PROVE  /\ prev_char(Text(d \o <<x>>, a, k), cur(Text(d \o <<x>>, a, k))) = Len(FlattenSeq(d))
         /\ cur(Text(d \o <<x>>, a, k)) # 0 /\ cur(Text(d \o <<x>>, a, k)) # Null
         /\ cur(Text(d \o <<x>>, a, k)) - Len(FlattenSeq(d)) <= 4
<1>0. <<x>> \in Seq(Plain) /\ Len(<<x>>) = 1
  OBVIOUS
<1>1. PICK c \in Seq(Plain) : c = <<x>> /\ Len(c) = 1
  BY <1>0
<1>2. PICK b, n : b \in Seq(Plain) /\ b = d \o c /\ n = Len(d) /\ Len(b) = n + 1 /\ n \in Nat
  <2>1. d \o c \in Seq(Plain) /\ Len(d \o c) = Len(d) + Len(c) /\ Len(d) \in Nat
    BY ConcatProperties, LenProperties
  <2> QED
    BY ONLY <1>1, <2>1, Zenon
<1>3. PICK v, cs, t : v = Row(b, a, k) /\ cs = Held(v) /\ t = Text(b, a, k)
  OBVIOUS
<1>4. v \in Line /\ Holds(t, v) /\ v.before = b /\ FlattenSeq(cs) = t
  <2>1. InRow(Row(b, a, k), Text(b, a, k), b, a, k)
    BY <1>2, RowHolds
  <2> QED
    BY ONLY <1>3, <2>1, Zenon DEF InRow
<1>5. cs \in Seq(Character) /\ n + 1 \in 1 .. Len(cs)
  <2>1. PICK z \in Nat : Len(cs) = (n + 1) + 1 + z
    <3>1. Len(Held(v)) = Len(v.before) + 1 + Len(v.after) /\ Len(v.after) \in Nat
      BY <1>4, HeldIs
    <3> QED
      BY ONLY <1>2, <1>3, <1>4, <3>1, Zenon
  <2>2. cs \in Seq(Character)
    BY <1>3, <1>4, HeldIs
  <2>3. n + 1 \in 1 .. Len(cs)
    BY ONLY <1>2, <2>1
  <2> QED
    BY <2>2, <2>3
<1>6. cur(t) = Off(cs, n + 1) /\ cur(t) # Null
  BY <1>2, <1>3, <1>4, CursorAt
<1>7. /\ prev_char(t, Off(cs, n + 1)) = Off(cs, (n + 1) - 1) /\ Off(cs, n + 1) > 0
      /\ Off(cs, n + 1) - Off(cs, (n + 1) - 1) <= 4
  BY ONLY <1>4, <1>5, Previous
<1>8. (n + 1) - 1 = n
  BY <1>2
<1>9. Off(cs, n) = Len(FlattenSeq(d))
  <2>1. Off(Held(Row(d \o c, a, k)), Len(d)) = Len(FlattenSeq(d))
    BY Offsets, ZenonT(40)
  <2> QED
    BY ONLY <1>2, <1>3, <2>1, Zenon
<1>10. Off(cs, n + 1) # 0
  BY <1>7
<1> QED
  BY ONLY <1>1, <1>2, <1>3, <1>6, <1>7, <1>8, <1>9, <1>10, Zenon

RightOf(t, b, x) ==
  /\ Step(t, cur(t) + CLEN) = (Len(FlattenSeq(b)) + CLEN) + Len(FlattenSeq(<<x>>))
  /\ cur(t) + CLEN # Len(t)
  /\ cur(t) # Null

LEMMA RightPlace ==
  ASSUME NEW b \in Seq(Plain), NEW x \in Plain, NEW r \in Seq(Plain), NEW k \in {1, 2}
  PROVE  RightOf(Text(b, <<x>> \o r, k), b, x)
<1>0. <<x>> \in Seq(Plain) /\ Len(<<x>>) = 1
  OBVIOUS
<1>1. PICK c \in Seq(Plain) : c = <<x>> /\ Len(c) = 1
  BY <1>0
<1>2. PICK a, n, m : /\ a \in Seq(Plain) /\ a = c \o r /\ n = Len(b) /\ m = Len(r) /\ Len(a) = 1 + m
                                    /\ n \in Nat /\ m \in Nat
  <2>1. c \o r \in Seq(Plain) /\ Len(c \o r) = Len(c) + Len(r) /\ Len(b) \in Nat /\ Len(r) \in Nat
    BY ConcatProperties, LenProperties
  <2> QED
    BY ONLY <1>1, <2>1, Zenon
<1>3. PICK v, cs, t : v = Row(b, a, k) /\ cs = Held(v) /\ t = Text(b, a, k)
  OBVIOUS
<1>4. v \in Line /\ Holds(t, v) /\ v.before = b /\ v.after = a /\ FlattenSeq(cs) = t
  <2>1. InRow(Row(b, a, k), Text(b, a, k), b, a, k)
    BY <1>2, RowHolds
  <2> QED
    BY ONLY <1>3, <2>1, Zenon DEF InRow
<1>5. cs \in Seq(Character) /\ n + 1 \in 0 .. Len(cs) - 1
  <2>1. Len(cs) = n + 1 + (1 + m)
    <3>1. Len(cs) = Len(v.before) + 1 + Len(v.after)
      BY <1>3, <1>4, HeldIs
    <3> QED
      BY ONLY <1>2, <1>4, <3>1, Zenon
  <2>2. cs \in Seq(Character)
    BY <1>3, <1>4, HeldIs
  <2>3. n + 1 \in 0 .. Len(cs) - 1
    BY ONLY <1>2, <2>1
  <2> QED
    BY <2>2, <2>3
<1>6. cur(t) + CLEN = Off(cs, n + 1) /\ cur(t) # Null
  BY <1>2, <1>3, <1>4, CursorAt
<1>7. /\ Step(t, Off(cs, n + 1)) = Off(cs, (n + 1) + 1) /\ Off(cs, n + 1) < Len(t)
      /\ Off(cs, n + 1) \in Nat
  BY ONLY <1>4, <1>5, FirstByte
<1>8. Off(cs, (n + 1) + Len(c)) = (Len(FlattenSeq(b)) + CLEN) + Len(FlattenSeq(c))
  <2>1. Off(Held(Row(b, c \o r, k)), (Len(b) + 1) + Len(c)) = (Len(FlattenSeq(b)) + CLEN) + Len(FlattenSeq(c))
    BY Offsets, ZenonT(40)
  <2> QED
    BY ONLY <1>2, <1>3, <2>1, Zenon
<1>9. Off(cs, n + 1) # Len(t)
  BY <1>7
<1> QED
  BY ONLY <1>1, <1>2, <1>3, <1>6, <1>7, <1>8, <1>9, Zenon DEF RightOf

-----------------------------------------------------------------------------
\* A key does to the bytes t what the editor does to the text v.
Does(t1, t, u) == Holds(t1, u) /\ Len(t1) <= Len(t)

LEMMA DoesText ==
  ASSUME NEW b \in Seq(Plain), NEW a \in Seq(Plain), NEW k \in {1, 2}, NEW t,
         Len(Text(b, a, k)) <= Len(t)
  PROVE  Does(Text(b, a, k), t, Row(b, a, k))
BY Rows DEF Does

LEMMA BlinkDoes ==
  ASSUME NEW b \in Seq(Plain), NEW a \in Seq(Plain), NEW k \in {1, 2}
  PROVE  Does(blink(Text(b, a, k)), Text(b, a, k), E!Edit(Row(b, a, k), "blink"))
<1>1. blink(Text(b, a, k)) = Text(b, a, 3 - k)
  BY BlinkIs
<1>2. E!Edit(Row(b, a, k), "blink") = Row(b, a, 3 - k)
  BY DEF E!Edit, Row
<1>3. PICK j \in {1, 2} : j = 3 - k
  OBVIOUS
<1>4. Len(Text(b, a, j)) = Len(Text(b, a, k)) /\ Len(Text(b, a, k)) \in Nat
  <2>1. Len(Text(b, a, j)) = (Len(FlattenSeq(b)) + CLEN) + Len(FlattenSeq(a))
    BY ONLY b \in Seq(Plain), a \in Seq(Plain), j \in {1, 2}, Rows
  <2>2. Len(Text(b, a, k)) = (Len(FlattenSeq(b)) + CLEN) + Len(FlattenSeq(a))
    BY ONLY b \in Seq(Plain), a \in Seq(Plain), k \in {1, 2}, Rows
  <2>3. Len(Text(b, a, k)) \in Nat
    BY ONLY b \in Seq(Plain), a \in Seq(Plain), k \in {1, 2}, Lengths DEF Longer
  <2> QED
    BY ONLY <2>1, <2>2, <2>3, Zenon
<1>5. Len(Text(b, a, j)) <= Len(Text(b, a, k))
  BY ONLY <1>4
<1>6. Does(Text(b, a, j), Text(b, a, k), Row(b, a, j))
  BY ONLY <1>5, b \in Seq(Plain), a \in Seq(Plain), j \in {1, 2}, DoesText
<1> QED
  BY ONLY <1>1, <1>2, <1>3, <1>6, Zenon

LEMMA LeftDoes ==
  ASSUME NEW b \in Seq(Plain), NEW a \in Seq(Plain), NEW k \in {1, 2}
  PROVE  /\ Does(left(Text(b, a, k)), Text(b, a, k), E!Edit(Row(b, a, k), "left"))
         /\ Does(backspace(Text(b, a, k)), Text(b, a, k), E!Edit(Row(b, a, k), "backspace"))
<1>1. PICK t : t = Text(b, a, k)
  OBVIOUS
<1>2. CASE b = <<>>
  <2>1. cur(t) = 0
    <3>1. Around(Text(b, a, k), b, a, k)
      BY AroundCursor
    <3>2. Len(FlattenSeq(b)) = 0
      BY <1>2, FlatEmpty
    <3> QED
      BY ONLY <1>1, <3>1, <3>2, Zenon DEF Around
  <2>2. left(t) = t /\ backspace(t) = t
    BY <2>1 DEF left, backspace
  <2>3. Len(b) = 0
    BY <1>2
  <2>4. E!Edit(Row(b, a, k), "backspace") = Row(b, a, k)
    BY <2>3 DEF E!Edit, Row
  <2>5. E!Edit(Row(b, a, k), "left") = E!MoveTo(Row(b, a, k), 0)
    BY <2>3 DEF E!Edit, Row
  <2>6. E!MoveTo(Row(b \o b, a, k), Len(b)) = Row(b, b \o a, k)
    BY ONLY b \in Seq(Plain), a \in Seq(Plain), k \in {1, 2}, MoveToIs
  <2>7. b \o b = b /\ b \o a = a
    BY <1>2, ConcatEmptySeq
  <2>8. Does(t, t, Row(b, a, k))
    <3>1. Len(t) <= Len(t)
      BY <1>1, Lengths DEF Longer
    <3> QED
      BY <1>1, <3>1, DoesText
  <2> QED
    BY ONLY <1>1, <2>2, <2>3, <2>4, <2>5, <2>6, <2>7, <2>8, Zenon
<1>3. CASE b # <<>>
  <2>1. PICK d \in Seq(Plain), x \in Plain :
          b = d \o <<x>> /\ d = SubSeq(b, 1, Len(b) - 1) /\ Len(b) = Len(d) + 1 /\ <<x>> \in Seq(Plain)
    BY <1>3, LastOne
  <2>2. PICK c \in Seq(Plain) : c = <<x>>
    BY <2>1
  <2>3. prev_char(t, cur(t)) = Len(FlattenSeq(d)) /\ cur(t) # 0 /\ cur(t) # Null
    BY <1>1, <2>1, LeftPlace, ZenonT(40)
  <2>4. Len(d) \in Nat /\ Len(b) # 0 /\ Len(b) - 1 = Len(d)
    <3>1. PICK n \in Nat : n = Len(d)
      BY PlainTexts
    <3> QED
      BY <2>1, <3>1
  <2>5. left(t) = Text(d, c \o a, k)
    <3>1. move_cursor(Text(d \o c, a, k), Len(FlattenSeq(d))) = Text(d, c \o a, k)
      BY MoveBack
    <3>2. left(t) = move_cursor(t, prev_char(t, cur(t)))
      BY ONLY <2>3, Zenon DEF left
    <3> QED
      BY ONLY <1>1, <2>1, <2>2, <2>3, <3>1, <3>2, Zenon
  <2>6. E!Edit(Row(b, a, k), "left") = Row(d, c \o a, k)
    <3>1. E!MoveTo(Row(d \o c, a, k), Len(d)) = Row(d, c \o a, k)
      BY MoveToIs, SMTT(30)
    <3>2. E!Edit(Row(b, a, k), "left") = E!MoveTo(Row(b, a, k), Len(b) - 1)
      BY <2>4 DEF E!Edit, Row
    <3> QED
      BY ONLY <2>1, <2>2, <2>4, <3>1, <3>2, Zenon
  <2>7. c \o a \in Seq(Plain)
    BY ConcatProperties
  <2>8. Does(Text(d, c \o a, k), t, Row(d, c \o a, k))
    <3>1. Len(Text(d \o c, a, k)) = Len(Text(d, c \o a, k)) /\ Len(Text(b, a, k)) \in Nat
      <4>1. Longer(d, c, a, k) /\ Longer(b, a, a, k)
        BY Lengths
      <4> QED
        BY ONLY <4>1, Zenon DEF Longer
    <3>2. Len(Text(d, c \o a, k)) <= Len(t)
      BY ONLY <1>1, <2>1, <2>2, <3>1
    <3> QED
      BY ONLY <2>7, <3>2, d \in Seq(Plain), k \in {1, 2}, DoesText
  <2>9. backspace(t) = Text(d, a, k)
    <3>1. PICK f, h, o, e : f = FlattenSeq(d) /\ h = FlattenSeq(c) /\ o = Shape(k) /\ e = FlattenSeq(a)
      OBVIOUS
    <3>2. /\ f \in Seq(Byte) /\ h \in Seq(Byte) /\ o \in Seq(Byte) /\ e \in Seq(Byte)
          /\ FlattenSeq(d \o c) = f \o h
      <4>1. f \in Seq(Byte) /\ h \in Seq(Byte) /\ e \in Seq(Byte)
        BY <3>1, PlainTexts
      <4>2. o \in Seq(Byte)
        BY <3>1, ShapeIs
      <4>3. FlattenSeq(d \o c) = f \o h
        BY <3>1, FlatTwo
      <4> QED
        BY <4>1, <4>2, <4>3
    <3>3. t = ((f \o h) \o o) \o e
      BY ONLY <1>1, <2>1, <2>2, <3>1, <3>2, Zenon DEF Text
    <3>4. Upto(t, Len(f)) = f
      <4>1. Quarters(((f \o h) \o o) \o e, f, h, o, e)
        BY ONLY <3>2, FourParts
      <4> QED
        BY ONLY <3>3, <4>1, Zenon DEF Quarters
    <3>5. From(t, cur(t)) = o \o e
      <4>1. Around(Text(b, a, k), b, a, k)
        BY AroundCursor
      <4> QED
        BY ONLY <1>1, <3>1, <4>1, Zenon DEF Around
    <3>6. backspace(t) = f \o (o \o e)
      BY ONLY <2>3, <3>1, <3>4, <3>5, Zenon DEF backspace
    <3>7. f \o (o \o e) = (f \o o) \o e
      BY ONLY <3>2, SMTT(30)
    <3> QED
      BY ONLY <3>1, <3>6, <3>7, Zenon DEF Text
  <2>10. E!Edit(Row(b, a, k), "backspace") = Row(d, a, k)
    BY <2>1, <2>4 DEF E!Edit, Row, E!Front
  <2>11. Does(Text(d, a, k), t, Row(d, a, k))
    <3>1. Len(Text(d, a, k)) <= Len(Text(d \o c, a, k))
      <4>1. Longer(d, c, a, k)
        BY Lengths
      <4> QED
        BY ONLY <4>1, Zenon DEF Longer
    <3>2. Len(Text(d, a, k)) <= Len(t)
      BY ONLY <1>1, <2>1, <2>2, <3>1, Zenon
    <3> QED
      BY ONLY <3>2, d \in Seq(Plain), a \in Seq(Plain), k \in {1, 2}, DoesText
  <2> QED
    BY ONLY <1>1, <2>5, <2>6, <2>8, <2>9, <2>10, <2>11, Zenon
<1> QED
  BY <1>2, <1>3

LEMMA RightDoes ==
  ASSUME NEW b \in Seq(Plain), NEW a \in Seq(Plain), NEW k \in {1, 2}
  PROVE  /\ Does(right(Text(b, a, k)), Text(b, a, k), E!Edit(Row(b, a, k), "right"))
         /\ Does(delete_char(Text(b, a, k)), Text(b, a, k), E!Edit(Row(b, a, k), "delete"))
<1>1. PICK t : t = Text(b, a, k)
  OBVIOUS
<1>2. Len(t) \in Nat /\ Len(t) = (Len(FlattenSeq(b)) + CLEN) + Len(FlattenSeq(a))
  <2>1. Len(Text(b, a, k)) = (Len(FlattenSeq(b)) + CLEN) + Len(FlattenSeq(a))
    BY Rows
  <2>2. Len(Text(b, a, k)) \in Nat
    <3>1. Longer(b, a, a, k)
      BY Lengths
    <3> QED
      BY ONLY <3>1, Zenon DEF Longer
  <2> QED
    BY ONLY <1>1, <2>1, <2>2, Zenon
<1>3. CASE a = <<>>
  <2>1. cur(t) + CLEN = Len(t)
    <3>1. Around(Text(b, a, k), b, a, k)
      BY AroundCursor
    <3>2. Len(FlattenSeq(a)) = 0
      BY <1>3, FlatEmpty
    <3>3. PICK n \in Nat : n = Len(FlattenSeq(b)) /\ cur(t) = n
      BY ONLY <1>1, <3>1, Zenon DEF Around
    <3>4. (n + CLEN) + 0 = n + CLEN
      BY DEF CLEN
    <3> QED
      BY ONLY <1>2, <3>2, <3>3, <3>4, Zenon
  <2>2. right(t) = t /\ delete_char(t) = t
    BY <2>1 DEF right, delete_char
  <2>3. E!Edit(Row(b, a, k), "delete") = Row(b, a, k)
    BY <1>3 DEF E!Edit, Row
  <2>4. E!Edit(Row(b, a, k), "right") = E!MoveTo(Row(b, a, k), Len(b))
    BY <1>3 DEF E!Edit, Row
  <2>5. E!MoveTo(Row(b \o a, a, k), Len(b)) = Row(b, a \o a, k)
    BY ONLY b \in Seq(Plain), a \in Seq(Plain), k \in {1, 2}, MoveToIs
  <2>6. b \o a = b /\ a \o a = a
    BY <1>3, ConcatEmptySeq
  <2>7. Does(t, t, Row(b, a, k))
    <3>1. Len(t) <= Len(t)
      BY <1>2
    <3> QED
      BY <1>1, <3>1, DoesText
  <2> QED
    BY ONLY <1>1, <2>2, <2>3, <2>4, <2>5, <2>6, <2>7, Zenon
<1>4. CASE a # <<>>
  <2>1. PICK x \in Plain, r \in Seq(Plain) : a = <<x>> \o r /\ r = Tail(a) /\ <<x>> \in Seq(Plain)
    BY <1>4, FirstOne
  <2>2. PICK c \in Seq(Plain) : c = <<x>> /\ Len(c) = 1
    <3>1. Len(<<x>>) = 1
      OBVIOUS
    <3> QED
      BY <2>1, <3>1
  <2>3. /\ Step(t, cur(t) + CLEN) = (Len(FlattenSeq(b)) + CLEN) + Len(FlattenSeq(c))
        /\ cur(t) + CLEN # Len(t) /\ cur(t) # Null
    <3>1. RightOf(Text(b, <<x>> \o r, k), b, x)
      BY ONLY b \in Seq(Plain), x \in Plain, r \in Seq(Plain), k \in {1, 2}, RightPlace
    <3> QED
      BY ONLY <1>1, <2>1, <2>2, <3>1, Zenon DEF RightOf
  <2>4. right(t) = Text(b \o c, r, k)
    <3>1. move_cursor(Text(b, c \o r, k), (Len(FlattenSeq(b)) + CLEN) + Len(FlattenSeq(c))) = Text(b \o c, r, k)
      BY MoveOn
    <3>2. right(t) = move_cursor(t, Step(t, cur(t) + CLEN))
      BY ONLY <2>3, Zenon DEF right
    <3> QED
      BY ONLY <1>1, <2>1, <2>2, <2>3, <3>1, <3>2, Zenon
  <2>5. E!Edit(Row(b, a, k), "right") = Row(b \o c, r, k)
    <3>1. E!MoveTo(Row(b, c \o r, k), Len(b) + Len(c)) = Row(b \o c, r, k)
      BY MoveToIs, SMTT(30)
    <3>2. E!Edit(Row(b, a, k), "right") = E!MoveTo(Row(b, a, k), Len(b) + 1)
      BY <1>4 DEF E!Edit, Row
    <3> QED
      BY ONLY <2>1, <2>2, <3>1, <3>2, Zenon
  <2>6. b \o c \in Seq(Plain)
    BY ConcatProperties
  <2>7. Len(Text(b \o c, r, k)) = Len(Text(b, c \o r, k))
        /\ Len(Text(b, r, k)) <= Len(Text(b \o c, r, k))
    <3>1. Longer(b, c, r, k)
      BY Lengths
    <3> QED
      BY ONLY <3>1, Zenon DEF Longer
  <2>8. Len(Text(b \o c, r, k)) <= Len(t) /\ Len(Text(b, r, k)) <= Len(t)
    BY ONLY <1>1, <1>2, <2>1, <2>2, <2>7
  <2>9. Does(Text(b \o c, r, k), t, Row(b \o c, r, k))
    BY ONLY <2>6, <2>8, r \in Seq(Plain), k \in {1, 2}, DoesText
  <2>10. delete_char(t) = Text(b, r, k)
    <3>1. PICK f, h, o, e : f = FlattenSeq(b) /\ h = FlattenSeq(c) /\ o = Shape(k) /\ e = FlattenSeq(r)
      OBVIOUS
    <3>2. /\ f \in Seq(Byte) /\ h \in Seq(Byte) /\ o \in Seq(Byte) /\ e \in Seq(Byte)
          /\ FlattenSeq(c \o r) = h \o e /\ Len(o) = CLEN
      <4>1. f \in Seq(Byte) /\ h \in Seq(Byte) /\ e \in Seq(Byte)
        BY <3>1, PlainTexts
      <4>2. o \in Seq(Byte) /\ Len(o) = CLEN
        BY <3>1, ShapeIs
      <4>3. FlattenSeq(c \o r) = h \o e
        BY <3>1, FlatTwo
      <4> QED
        BY <4>1, <4>2, <4>3
    <3>3. t = ((f \o o) \o h) \o e
      <4>1. Regrouped(f, o, h, e)
        BY ONLY <3>2, Regroup
      <4> QED
        BY ONLY <1>1, <2>1, <2>2, <3>1, <3>2, <4>1, Zenon DEF Text, Regrouped
    <3>4. From(t, (Len(f) + CLEN) + Len(h)) = e
      <4>1. Quarters(((f \o o) \o h) \o e, f, o, h, e)
        BY ONLY <3>2, FourParts
      <4> QED
        BY ONLY <3>2, <3>3, <4>1, Zenon DEF Quarters
    <3>5. Upto(t, cur(t) + CLEN) = f \o o
      <4>1. Around(Text(b, a, k), b, a, k)
        BY AroundCursor
      <4> QED
        BY ONLY <1>1, <3>1, <4>1, Zenon DEF Around
    <3>6. delete_char(t) = (f \o o) \o e
      BY ONLY <2>3, <3>1, <3>4, <3>5, Zenon DEF delete_char
    <3> QED
      BY ONLY <3>1, <3>6, Zenon DEF Text
  <2>11. E!Edit(Row(b, a, k), "delete") = Row(b, r, k)
    BY <1>4, <2>1 DEF E!Edit, Row
  <2>12. Does(Text(b, r, k), t, Row(b, r, k))
    BY ONLY <2>8, b \in Seq(Plain), r \in Seq(Plain), k \in {1, 2}, DoesText
  <2> QED
    BY ONLY <1>1, <2>4, <2>5, <2>9, <2>10, <2>11, <2>12, Zenon
<1> QED
  BY <1>3, <1>4

-----------------------------------------------------------------------------
\* The start of the line that a character is in, as a number of characters.
StartsLine(cs, j, i) ==
  /\ j \in 0 .. i /\ (j = 0 \/ cs[j] = <<NL>>)
  /\ \A l \in j + 1 .. i : cs[l] # <<NL>>

LEMMA LineStartIs ==
  ASSUME NEW cs \in Seq(Character), NEW i \in 0 .. Len(cs), NEW j, StartsLine(cs, j, i)
  PROVE  LineStart(FlattenSeq(cs), Off(cs, i)) = Off(cs, j)
<1>1. PICK t, p, r, n : t = FlattenSeq(cs) /\ p = Off(cs, i) /\ r = Off(cs, j) /\ n = Len(cs)
  OBVIOUS
<1>2. /\ n \in Nat /\ i \in 0 .. n /\ j \in 0 .. n /\ j <= i /\ Len(t) \in Nat
      /\ \A l \in 0 .. n : Off(cs, l) \in Nat
  <2>1. n \in Nat /\ Len(t) \in Nat /\ \A l \in 0 .. n : Off(cs, l) \in Nat
    BY <1>1, Layout
  <2> QED
    BY <1>1, <2>1 DEF StartsLine
<1>3. p \in Nat /\ r \in Nat /\ r <= p /\ p <= Len(t)
  <2>1. p \in Nat /\ r \in Nat
    BY <1>1, <1>2
  <2>2. ~ (Off(cs, i) < Off(cs, j))
    BY <1>1, <1>2, OffLess
  <2>3. Off(cs, n) = Len(t) /\ n \in 0 .. n
    BY <1>1, <1>2, Layout
  <2>4. ~ (Off(cs, n) < Off(cs, i))
    BY <1>1, <1>2, <2>3, OffLess
  <2> QED
    BY ONLY <1>1, <1>2, <2>1, <2>2, <2>3, <2>4
<1> DEFINE H == {x \in 0 .. p : x = 0 \/ t[x] = NL}
<1>4. r \in H
  <2>1. CASE j = 0
    <3>1. r = 0
      BY <1>1, <2>1, Layout
    <3> QED
      BY <1>3, <3>1
  <2>2. CASE j # 0
    <3>1. j \in 1 .. n /\ cs[j] = <<NL>>
      BY <1>2, <2>2 DEF StartsLine
    <3>2. t[r] = NL
      BY <1>1, <3>1, NewLines
    <3> QED
      BY <1>3, <3>2
  <2> QED
    BY <2>1, <2>2
<1>5. ASSUME NEW x \in H PROVE r >= x
  <2>1. x \in 0 .. p /\ (x = 0 \/ t[x] = NL)
    OBVIOUS
  <2>2. CASE x = 0
    BY <1>3, <2>2
  <2>3. CASE x # 0
    <3>1. x \in 1 .. Len(t) /\ t[x] = NL
      BY <1>3, <2>1, <2>3
    <3>2. PICK l \in 1 .. n : x = Off(cs, l) /\ cs[l] = <<NL>>
      BY <1>1, <3>1, NewLines
    <3>3. l \in 0 .. n
      BY <1>2
    <3>4. ~ (i < l)
      <4>1. ~ (Off(cs, i) < Off(cs, l))
        BY <1>1, <1>3, <2>1, <3>2
      <4> QED
        BY <1>1, <1>2, <3>3, <4>1, OffLess
    <3>5. ~ (j < l)
      <4>1. ASSUME j < l PROVE FALSE
        <5>1. l \in j + 1 .. i
          BY <1>2, <3>3, <3>4, <4>1
        <5> QED
          BY <3>2, <5>1 DEF StartsLine
      <4> QED
        BY <4>1
    <3>6. ~ (Off(cs, j) < Off(cs, l))
      BY <1>1, <1>2, <3>3, <3>5, OffLess
    <3> QED
      BY <1>1, <1>2, <1>3, <2>1, <3>2, <3>6
  <2> QED
    BY <2>2, <2>3
<1>6. Max(H) = r
  <2>1. H \in SUBSET Int
    BY <1>3
  <2> HIDE DEF H
  <2> QED
    BY ONLY <1>4, <1>5, <2>1, SetMax
<1> QED
  BY ONLY <1>1, <1>6, Zenon DEF LineStart

-----------------------------------------------------------------------------
\* A text that can be walked through has a last place in a part of it.
LEMMA Greatest ==
  ASSUME NEW n \in Nat, NEW S \in SUBSET (0 .. n), S # {}
  PROVE  \E m \in S : \A c \in S : c <= m
<1> DEFINE R == {n - x : x \in S}
<1>1. R \in SUBSET Nat /\ R # {}
  <2>1. \A x \in S : n - x \in Nat
    OBVIOUS
  <2>2. PICK y \in S : TRUE
    OBVIOUS
  <2>3. n - y \in R
    OBVIOUS
  <2> QED
    BY <2>1, <2>3
<1>2. PICK r \in R : \A c \in R : r <= c
  <2> HIDE DEF R
  <2> QED
    BY ONLY <1>1, LeastNatural
<1>3. PICK m \in S : r = n - m
  OBVIOUS
<1>4. ASSUME NEW c \in S PROVE c <= m
  <2>1. r <= n - c
    BY <1>2
  <2> QED
    BY <1>3, <2>1
<1> QED
  BY <1>4

LEMMA StepLength ==
  ASSUME NEW t, NEW q \in Nat
  PROVE  Step(t, q) \in q + 1 .. q + 4
<1>1. PICK u : u = ulen(t[q + 1])
  OBVIOUS
<1>2. u \in 1 .. 4
  BY <1>1 DEF ulen
<1> QED
  BY <1>1, <1>2 DEF Step

-----------------------------------------------------------------------------
\* The characters between two places, counted.
LEMMA ColumnFunction ==
  ASSUME NEW t, NEW p \in Nat
  PROVE  \E f \in [0 .. p + 3 -> Nat] :
           f = [i \in 0 .. p + 3 |-> IF i < p THEN 1 + f[Step(t, i)] ELSE 0]
<1> DEFINE D == 0 .. p + 3
           S == p .. p + 3
           m == [i \in D |-> p + 3 - i]
           b == [i \in S |-> 0]
           nx == [i \in D \ S |-> Step(t, i)]
           h == [i \in D \ S |-> [x \in Nat |-> 1 + x]]
<1>1. \A i \in D : (i \in S <=> ~ (i < p)) /\ i \in Nat
  OBVIOUS
<1>2. \A i \in D \ S : Step(t, i) \in D /\ i < Step(t, i)
  <2> TAKE i \in D \ S
  <2>1. i \in Nat /\ i < p
    OBVIOUS
  <2>2. Step(t, i) \in i + 1 .. i + 4
    BY <2>1, StepLength
  <2> QED
    BY <2>1, <2>2
<1>3. Founded(D, Nat, m, S, b, nx, h)
  <2>1. Nat # {} /\ S \in SUBSET D /\ b \in [S -> Nat] /\ m \in [D -> Nat]
    OBVIOUS
  <2>2. h \in [D \ S -> [Nat -> Nat]]
    OBVIOUS
  <2>3. nx \in [D \ S -> D]
    <3> HIDE DEF D, S
    <3> QED
      BY <1>2
  <2>4. \A i \in D \ S : m[nx[i]] < m[i]
    <3> TAKE i \in D \ S
    <3>1. nx[i] = Step(t, i) /\ Step(t, i) \in D /\ i < Step(t, i)
      BY <1>2
    <3>2. m[Step(t, i)] = p + 3 - Step(t, i) /\ m[i] = p + 3 - i
      BY <3>1
    <3>3. i \in Nat /\ Step(t, i) \in Nat
      BY <3>1
    <3> HIDE DEF m, nx
    <3> QED
      BY ONLY <3>1, <3>2, <3>3, p \in Nat
  <2> HIDE DEF D, S, m, b, nx, h
  <2> QED
    BY ONLY <2>1, <2>2, <2>3, <2>4, Zenon DEF Founded
<1>4. PICK f \in [D -> Nat] : Unfolds(f, D, S, b, nx, h)
  <2> HIDE DEF D, S, m, b, nx, h
  <2>1. PICK V : V = Nat
    OBVIOUS
  <2>2. \E f \in [D -> V] : Unfolds(f, D, S, b, nx, h) /\ \A g : Unfolds(g, D, S, b, nx, h) => g = f
    BY ONLY <1>3, <2>1, Recursion
  <2> QED
    BY ONLY <2>1, <2>2, Zenon
<1>5. \A i \in D : (IF i \in S THEN b[i] ELSE h[i][f[nx[i]]]) = IF i < p THEN 1 + f[Step(t, i)] ELSE 0
  <2> TAKE i \in D
  <2>1. CASE i \in S
    BY <1>1, <2>1
  <2>2. CASE i \notin S
    <3>1. i \in D \ S /\ i < p
      BY <1>1, <2>2
    <3>2. f[Step(t, i)] \in Nat
      <4> HIDE DEF D
      <4> QED
        BY <1>2, <3>1
    <3>3. nx[i] = Step(t, i) /\ \A x \in Nat : h[i][x] = 1 + x
      <4> HIDE DEF D, S
      <4> QED
        BY <3>1
    <3> HIDE DEF S, nx, h, b
    <3> QED
      BY ONLY <2>2, <3>1, <3>2, <3>3, Zenon
  <2> QED
    BY <2>1, <2>2
<1>6. f = [i \in D |-> IF i < p THEN 1 + f[Step(t, i)] ELSE 0]
  <2> HIDE DEF D, S, nx, h, b
  <2> QED
    BY ONLY <1>4, <1>5, Zenon DEF Unfolds
<1> QED
  BY <1>6

LEMMA ColumnIs ==
  ASSUME NEW cs \in Seq(Character), NEW j \in 0 .. Len(cs), NEW i \in 0 .. j
  PROVE  column(FlattenSeq(cs), Off(cs, i), Off(cs, j)) = j - i
<1>1. PICK t, p, n : t = FlattenSeq(cs) /\ p = Off(cs, j) /\ n = Len(cs)
  OBVIOUS
<1>2. n \in Nat /\ i \in 0 .. n /\ j \in 0 .. n /\ i <= j /\ \A l \in 0 .. n : Off(cs, l) \in Nat
  <2>1. n \in Nat /\ \A l \in 0 .. n : Off(cs, l) \in Nat
    BY <1>1, Layout
  <2> QED
    BY <1>1, <2>1
<1>3. p \in Nat
  BY <1>1, <1>2
<1> DEFINE G(f) == [q \in 0 .. p + 3 |-> IF q < p THEN 1 + f[Step(t, q)] ELSE 0]
           F == CHOOSE f : f = G(f)
<1>4. F = G(F)
  <2>1. \E f : f = G(f)
    <3>1. PICK f \in [0 .. p + 3 -> Nat] :
            f = [q \in 0 .. p + 3 |-> IF q < p THEN 1 + f[Step(t, q)] ELSE 0]
      BY ONLY <1>3, ColumnFunction
    <3> QED
      BY ONLY <3>1, Zenon
  <2> HIDE DEF G
  <2> QED
    BY ONLY <2>1, Zenon
<1>5. column(t, Off(cs, i), p) = F[Off(cs, i)]
  BY ONLY Zenon DEF column
<1>6. F[p] = 0
  <2>1. p \in 0 .. p + 3
    BY <1>3
  <2>2. G(F)[p] = IF p < p THEN 1 + F[Step(t, p)] ELSE 0
    <3> HIDE DEF F
    <3> QED
      BY <2>1
  <2> HIDE DEF F, G
  <2> QED
    BY <1>3, <1>4, <2>2
<1>7. ASSUME NEW l \in 0 .. n, l < j
      PROVE  F[Off(cs, l)] = 1 + F[Off(cs, l + 1)]
  <2>1. l \in 0 .. Len(cs) - 1
    BY <1>1, <1>2, <1>7
  <2>2. Step(t, Off(cs, l)) = Off(cs, l + 1) /\ Off(cs, l) \in Nat
    BY <1>1, <2>1, FirstByte
  <2>3. Off(cs, l) < p
    BY <1>1, <1>7, OffLess
  <2>4. Off(cs, l) \in 0 .. p + 3
    BY <1>3, <2>2, <2>3
  <2>5. G(F)[Off(cs, l)] = IF Off(cs, l) < p THEN 1 + F[Step(t, Off(cs, l))] ELSE 0
    <3> HIDE DEF F
    <3> QED
      BY <2>4
  <2> HIDE DEF F, G
  <2> QED
    BY ONLY <1>4, <2>2, <2>3, <2>5, Zenon
<1> DEFINE I == {d \in Nat : d <= j => F[Off(cs, j - d)] = d}
<1>8. 0 \in I
  <2>1. j - 0 = j
    BY <1>2
  <2> HIDE DEF F
  <2> QED
    BY <1>1, <1>6, <2>1
<1>9. ASSUME NEW d \in Nat, d \in I PROVE d + 1 \in I
  <2> SUFFICES ASSUME d + 1 <= j PROVE F[Off(cs, j - (d + 1))] = d + 1
    OBVIOUS
  <2>1. PICK l \in 0 .. n : l = j - (d + 1) /\ l < j /\ l + 1 = j - d
    BY <1>2
  <2>2. F[Off(cs, l)] = 1 + F[Off(cs, l + 1)]
    BY <1>7, <2>1
  <2>3. F[Off(cs, j - d)] = d
    BY <1>2, <1>9
  <2> HIDE DEF F
  <2> QED
    BY <2>1, <2>2, <2>3
<1>10. \A d \in Nat : d \in I
  <2> HIDE DEF I
  <2> QED
    BY ONLY <1>8, <1>9, Induction
<1>11. F[Off(cs, i)] = j - i
  <2>1. PICK d \in Nat : d = j - i /\ d <= j /\ j - d = i
    BY <1>2
  <2>2. F[Off(cs, j - d)] = d
    BY <1>10, <2>1
  <2> HIDE DEF F
  <2> QED
    BY <2>1, <2>2
<1> HIDE DEF F
<1> QED
  BY <1>1, <1>5, <1>11

-----------------------------------------------------------------------------
\* The end of the line that a character is in, as a number of characters.
Stops(cs, j, i, e) ==
  /\ j \in i .. e /\ (j = e \/ cs[j + 1] = <<NL>>)
  /\ \A l \in i + 1 .. j : cs[l] # <<NL>>
EndsLine(cs, j, i) == Stops(cs, j, i, Len(cs))

\* The first byte of a character tells whether it is a line's end.
LEMMA EndByte ==
  ASSUME NEW cs \in Seq(Character), NEW i \in 0 .. Len(cs) - 1
  PROVE  FlattenSeq(cs)[Off(cs, i) + 1] = NL <=> cs[i + 1] = <<NL>>
<1>1. PICK t, n : t = FlattenSeq(cs) /\ n = Len(cs)
  OBVIOUS
<1>2. n \in Nat /\ i \in 0 .. n - 1 /\ i + 1 \in 1 .. n /\ (i + 1) - 1 = i
  <2>1. n \in Nat
    BY <1>1, Layout
  <2> QED
    BY <1>1, <2>1
<1>3. /\ t[Off(cs, i) + 1] = cs[i + 1][1] /\ Off(cs, i) \in Nat /\ Off(cs, i) < Len(t)
      /\ Len(t) \in Nat
  BY <1>1, FirstByte, Layout
<1>4. ASSUME cs[i + 1] = <<NL>> PROVE t[Off(cs, i) + 1] = NL
  BY <1>3, <1>4
<1>5. ASSUME t[Off(cs, i) + 1] = NL PROVE cs[i + 1] = <<NL>>
  <2>1. Off(cs, i) + 1 \in 1 .. Len(t)
    BY <1>3
  <2>2. PICK l \in 1 .. n : Off(cs, i) + 1 = Off(cs, l) /\ cs[l] = <<NL>>
    BY <1>1, <1>5, <2>1, NewLines
  <2>3. Off(cs, l) = Off(cs, l - 1) + 1 /\ l - 1 \in 0 .. n /\ Off(cs, l - 1) \in Nat
    <3>1. Off(cs, l) = Off(cs, l - 1) + 1
      BY <1>1, <2>2, NewLines
    <3>2. l - 1 \in 0 .. n
      BY <1>2
    <3>3. Off(cs, l - 1) \in Nat
      BY <1>1, <3>2, Layout
    <3> QED
      BY <3>1, <3>2, <3>3
  <2>4. Off(cs, i) = Off(cs, l - 1) /\ i \in 0 .. n
    BY <1>2, <1>3, <2>2, <2>3
  <2>5. ~ (i < l - 1) /\ ~ (l - 1 < i)
    <3>1. i < l - 1 <=> Off(cs, i) < Off(cs, l - 1)
      BY <1>1, <2>3, <2>4, OffLess
    <3>2. l - 1 < i <=> Off(cs, l - 1) < Off(cs, i)
      BY <1>1, <2>3, <2>4, OffLess
    <3> QED
      BY <2>3, <2>4, <3>1, <3>2
  <2>6. l = i + 1
    BY <1>2, <2>3, <2>5
  <2> QED
    BY <2>2, <2>6
<1> QED
  BY <1>1, <1>4, <1>5

LEMMA LineEndFunction ==
  ASSUME NEW t, NEW n \in Nat
  PROVE  \E f \in [0 .. n + 3 -> Nat] :
           f = [i \in 0 .. n + 3 |-> IF i < n /\ t[i + 1] # NL THEN f[Step(t, i)] ELSE i]
<1> DEFINE D == 0 .. n + 3
           S == {i \in D : ~ (i < n /\ t[i + 1] # NL)}
           m == [i \in D |-> n + 3 - i]
           b == [i \in S |-> i]
           nx == [i \in D \ S |-> Step(t, i)]
           h == [i \in D \ S |-> [x \in Nat |-> x]]
<1>1. \A i \in D : (i \in S <=> ~ (i < n /\ t[i + 1] # NL)) /\ i \in Nat
  OBVIOUS
<1>2. \A i \in D \ S : Step(t, i) \in D /\ i < Step(t, i)
  <2> TAKE i \in D \ S
  <2>1. i \in Nat /\ i < n
    OBVIOUS
  <2>2. Step(t, i) \in i + 1 .. i + 4
    BY <2>1, StepLength
  <2> QED
    BY <2>1, <2>2
<1>3. Founded(D, Nat, m, S, b, nx, h)
  <2>1. Nat # {} /\ S \in SUBSET D /\ b \in [S -> Nat] /\ m \in [D -> Nat]
    OBVIOUS
  <2>2. h \in [D \ S -> [Nat -> Nat]]
    OBVIOUS
  <2>3. nx \in [D \ S -> D]
    <3> HIDE DEF D, S
    <3> QED
      BY <1>2
  <2>4. \A i \in D \ S : m[nx[i]] < m[i]
    <3> TAKE i \in D \ S
    <3>1. nx[i] = Step(t, i) /\ Step(t, i) \in D /\ i < Step(t, i)
      BY <1>2
    <3>2. m[Step(t, i)] = n + 3 - Step(t, i) /\ m[i] = n + 3 - i
      BY <3>1
    <3>3. i \in Nat /\ Step(t, i) \in Nat
      BY <3>1
    <3> HIDE DEF m, nx
    <3> QED
      BY ONLY <3>1, <3>2, <3>3, n \in Nat
  <2> HIDE DEF D, S, m, b, nx, h
  <2> QED
    BY ONLY <2>1, <2>2, <2>3, <2>4, Zenon DEF Founded
<1>4. PICK f \in [D -> Nat] : Unfolds(f, D, S, b, nx, h)
  <2> HIDE DEF D, S, m, b, nx, h
  <2>1. PICK V : V = Nat
    OBVIOUS
  <2>2. \E f \in [D -> V] : Unfolds(f, D, S, b, nx, h) /\ \A g : Unfolds(g, D, S, b, nx, h) => g = f
    BY ONLY <1>3, <2>1, Recursion
  <2> QED
    BY ONLY <2>1, <2>2, Zenon
<1>5. \A i \in D : (IF i \in S THEN b[i] ELSE h[i][f[nx[i]]])
                     = IF i < n /\ t[i + 1] # NL THEN f[Step(t, i)] ELSE i
  <2> TAKE i \in D
  <2>1. CASE i \in S
    BY <1>1, <2>1
  <2>2. CASE i \notin S
    <3>1. i \in D \ S /\ i < n /\ t[i + 1] # NL
      BY <1>1, <2>2
    <3>2. f[Step(t, i)] \in Nat
      <4> HIDE DEF D
      <4> QED
        BY <1>2, <3>1
    <3>3. nx[i] = Step(t, i) /\ \A x \in Nat : h[i][x] = x
      <4> HIDE DEF D, S
      <4> QED
        BY <3>1
    <3> HIDE DEF S, nx, h, b
    <3> QED
      BY ONLY <2>2, <3>1, <3>2, <3>3, Zenon
  <2> QED
    BY <2>1, <2>2
<1>6. f = [i \in D |-> IF i < n /\ t[i + 1] # NL THEN f[Step(t, i)] ELSE i]
  <2> HIDE DEF D, S, nx, h, b
  <2> QED
    BY ONLY <1>4, <1>5, Zenon DEF Unfolds
<1> QED
  BY <1>6

LEMMA LineEndIs ==
  ASSUME NEW cs \in Seq(Character), NEW i \in 0 .. Len(cs), NEW j, EndsLine(cs, j, i)
  PROVE  LineEnd(FlattenSeq(cs), Off(cs, i)) = Off(cs, j)
<1>1. PICK t, z, n : t = FlattenSeq(cs) /\ z = Len(t) /\ n = Len(cs)
  OBVIOUS
<1>2. /\ n \in Nat /\ z \in Nat /\ i \in 0 .. n /\ j \in 0 .. n /\ i <= j
      /\ (\A l \in 0 .. n : Off(cs, l) \in Nat) /\ Off(cs, n) = z
  <2>1. n \in Nat /\ z \in Nat /\ (\A l \in 0 .. n : Off(cs, l) \in Nat) /\ Off(cs, n) = z
    BY <1>1, Layout
  <2> QED
    BY <1>1, <2>1 DEF EndsLine, Stops
<1> DEFINE G(f) == [q \in 0 .. Len(t) + 3 |->
                      IF q < Len(t) /\ t[q + 1] # NL THEN f[Step(t, q)] ELSE q]
           F == CHOOSE f : f = G(f)
<1>4. F = G(F)
  <2>1. \E f : f = G(f)
    <3>0. Len(t) \in Nat
      BY <1>1, <1>2
    <3>1. PICK f \in [0 .. Len(t) + 3 -> Nat] :
            f = [q \in 0 .. Len(t) + 3 |-> IF q < Len(t) /\ t[q + 1] # NL THEN f[Step(t, q)] ELSE q]
      BY ONLY <3>0, LineEndFunction, SMTT(30)
    <3> QED
      BY ONLY <3>1, Zenon
  <2> HIDE DEF G
  <2> QED
    BY ONLY <2>1, Zenon
<1>5. LineEnd(t, Off(cs, i)) = F[Off(cs, i)]
  BY ONLY Zenon DEF LineEnd
<1>6. ASSUME NEW l \in 0 .. n
      PROVE  F[Off(cs, l)] = IF Off(cs, l) < Len(t) /\ t[Off(cs, l) + 1] # NL
                             THEN F[Step(t, Off(cs, l))] ELSE Off(cs, l)
  <2>1. Off(cs, l) \in 0 .. Len(t) + 3
    <3>1. ~ (Off(cs, n) < Off(cs, l))
      BY <1>1, <1>2, OffLess
    <3> QED
      BY <1>1, <1>2, <3>1
  <2> HIDE DEF F
  <2>2. G(F)[Off(cs, l)] = IF Off(cs, l) < Len(t) /\ t[Off(cs, l) + 1] # NL
                           THEN F[Step(t, Off(cs, l))] ELSE Off(cs, l)
    BY <2>1
  <2> HIDE DEF G
  <2> QED
    BY ONLY <1>4, <2>2, Zenon
<1>7. F[Off(cs, j)] = Off(cs, j)
  <2>1. CASE j = n
    <3>1. ~ (Off(cs, j) < Len(t))
      BY <1>1, <1>2, <2>1
    <3> HIDE DEF F
    <3> QED
      BY <1>2, <1>6, <3>1
  <2>2. CASE j # n
    <3>1. j \in 0 .. Len(cs) - 1
      BY <1>1, <1>2, <2>2
    <3>2. t[Off(cs, j) + 1] = NL
      BY <1>1, <2>2, <3>1, EndByte DEF EndsLine, Stops
    <3> HIDE DEF F
    <3> QED
      BY <1>2, <1>6, <3>2
  <2> QED
    BY <2>1, <2>2
<1>8. ASSUME NEW l \in 0 .. n, i <= l, l < j
      PROVE  F[Off(cs, l)] = F[Off(cs, l + 1)]
  <2>1. l \in 0 .. Len(cs) - 1
    BY <1>1, <1>2, <1>8
  <2>2. Step(t, Off(cs, l)) = Off(cs, l + 1) /\ Off(cs, l) < Len(t)
    BY <1>1, <2>1, FirstByte
  <2>3. t[Off(cs, l) + 1] # NL
    <3>1. l + 1 \in i + 1 .. j
      BY <1>2, <1>8
    <3> QED
      BY <1>1, <2>1, <3>1, EndByte DEF EndsLine, Stops
  <2> HIDE DEF F
  <2> QED
    BY <1>6, <2>2, <2>3
<1> DEFINE I == {d \in Nat : d <= j - i => F[Off(cs, j - d)] = Off(cs, j)}
<1>9. 0 \in I
  <2>1. j - 0 = j
    BY <1>2
  <2> HIDE DEF F
  <2> QED
    BY <1>7, <2>1
<1>10. ASSUME NEW d \in Nat, d \in I PROVE d + 1 \in I
  <2> SUFFICES ASSUME d + 1 <= j - i PROVE F[Off(cs, j - (d + 1))] = Off(cs, j)
    OBVIOUS
  <2>1. PICK l \in 0 .. n : l = j - (d + 1) /\ i <= l /\ l < j /\ l + 1 = j - d
    BY <1>2
  <2>2. F[Off(cs, l)] = F[Off(cs, l + 1)]
    BY <1>8, <2>1
  <2>3. F[Off(cs, j - d)] = Off(cs, j)
    BY <1>2, <1>10
  <2> HIDE DEF F
  <2> QED
    BY <2>1, <2>2, <2>3
<1>11. \A d \in Nat : d \in I
  <2> HIDE DEF I
  <2> QED
    BY ONLY <1>9, <1>10, Induction
<1>12. F[Off(cs, i)] = Off(cs, j)
  <2>1. PICK d \in Nat : d = j - i /\ d <= j - i /\ j - d = i
    BY <1>2
  <2>2. F[Off(cs, j - d)] = Off(cs, j)
    BY <1>11, <2>1
  <2> HIDE DEF F
  <2> QED
    BY <2>1, <2>2
<1> HIDE DEF F
<1> QED
  BY <1>1, <1>5, <1>12

-----------------------------------------------------------------------------
\* Characters of a line are walked over until there are no more.
Crosses(f, t, q, d, end) ==
  f = [k \in 0 .. d |->
        IF k = 0 THEN q
        ELSE IF f[k - 1] < end /\ t[f[k - 1] + 1] # NL THEN Step(t, f[k - 1]) ELSE f[k - 1]]

LEMMA AcrossFunction ==
  ASSUME NEW t, NEW q \in Nat, NEW d \in Nat, NEW end
  PROVE  \E f \in [0 .. d -> Nat] : Crosses(f, t, q, d, end)
<1> DEFINE Go(r) == IF r < end /\ t[r + 1] # NL THEN Step(t, r) ELSE r
           h == [k \in 1 .. d |-> [x \in Nat |-> Go(x)]]
<1>1. \A x \in Nat : Go(x) \in Nat
  <2> TAKE x \in Nat
  <2>1. Step(t, x) \in x + 1 .. x + 4
    BY StepLength
  <2>2. Step(t, x) \in Nat
    BY <2>1
  <2> QED
    BY <2>2
<1>2. h \in Steps(d, Nat)
  <2> HIDE DEF Go
  <2> QED
    BY <1>1 DEF Steps
<1>3. PICK f : f \in Iterates(d, Nat, q, h)
  <2> HIDE DEF h
  <2>1. PICK V : V = Nat
    OBVIOUS
  <2>2. \E f : f \in Iterates(d, V, q, h)
    <3>1. q \in V /\ h \in Steps(d, V)
      BY <1>2, <2>1
    <3> QED
      BY ONLY <3>1, d \in Nat, Iteration
  <2> QED
    BY ONLY <2>1, <2>2, Zenon
<1>4. f \in [0 .. d -> Nat] /\ f[0] = q /\ \A k \in 1 .. d : f[k] = h[k][f[k - 1]]
  <2> HIDE DEF h
  <2> QED
    BY <1>3 DEF Iterates
<1>5. \A k \in 0 .. d : f[k] = IF k = 0 THEN q ELSE Go(f[k - 1])
  <2> TAKE k \in 0 .. d
  <2>1. CASE k = 0
    BY <1>4, <2>1
  <2>2. CASE k # 0
    <3>1. k \in 1 .. d /\ k - 1 \in 0 .. d
      BY <2>2
    <3>2. f[k - 1] \in Nat
      BY <1>4, <3>1
    <3>3. h[k][f[k - 1]] = Go(f[k - 1])
      <4> HIDE DEF Go
      <4> QED
        BY <3>1, <3>2
    <3> HIDE DEF h, Go
    <3> QED
      BY <1>4, <2>2, <3>1, <3>3
  <2> QED
    BY <2>1, <2>2
<1>6. f = [k \in 0 .. d |-> IF k = 0 THEN q ELSE Go(f[k - 1])]
  <2> HIDE DEF h, Go
  <2>1. f = [k \in 0 .. d |-> f[k]]
    BY ONLY <1>4
  <2> QED
    BY ONLY <1>5, <2>1, Zenon
<1> QED
  BY <1>4, <1>6 DEF Crosses

Reaches(cs, i, d, e, j) ==
  Across(FlattenSeq(cs), Off(cs, i), d, Off(cs, e)) = Off(cs, IF i + d <= j THEN i + d ELSE j)

LEMMA AcrossIs ==
  ASSUME NEW cs \in Seq(Character), NEW i \in 0 .. Len(cs), NEW e \in i .. Len(cs),
         NEW j, Stops(cs, j, i, e), NEW d \in Nat
  PROVE  Reaches(cs, i, d, e, j)
<1>1. PICK t, n, q, end : t = FlattenSeq(cs) /\ n = Len(cs) /\ q = Off(cs, i) /\ end = Off(cs, e)
  OBVIOUS
<1>2. /\ n \in Nat /\ i \in 0 .. n /\ e \in 0 .. n /\ j \in 0 .. n /\ i <= j /\ j <= e
      /\ (\A l \in 0 .. n : Off(cs, l) \in Nat) /\ q \in Nat
  <2>1. n \in Nat /\ \A l \in 0 .. n : Off(cs, l) \in Nat
    BY <1>1, Layout
  <2>2. i \in 0 .. n /\ e \in 0 .. n /\ j \in 0 .. n /\ i <= j /\ j <= e
    BY <1>1, <2>1 DEF Stops
  <2> QED
    BY <1>1, <2>1, <2>2
<1> DEFINE Go(r) == IF r < end /\ t[r + 1] # NL THEN Step(t, r) ELSE r
           G(f) == [k \in 0 .. d |-> IF k = 0 THEN q ELSE Go(f[k - 1])]
           F == CHOOSE f : f = G(f)
<1>3. F = G(F)
  <2>1. \E f : f = G(f)
    <3>1. PICK f \in [0 .. d -> Nat] : Crosses(f, t, q, d, end)
      <4>1. q \in Nat
        BY <1>2
      <4> QED
        BY ONLY <4>1, d \in Nat, AcrossFunction, Zenon
    <3> QED
      BY ONLY <3>1, Zenon DEF Crosses
  <2> HIDE DEF G
  <2> QED
    BY ONLY <2>1, Zenon
<1>4. Across(t, q, d, end) = F[d]
  BY ONLY Zenon DEF Across
<1>5. \A k \in 0 .. d : F[k] = IF k = 0 THEN q ELSE Go(F[k - 1])
  <2> TAKE k \in 0 .. d
  <2> HIDE DEF F
  <2>1. G(F)[k] = IF k = 0 THEN q ELSE Go(F[k - 1])
    <3> HIDE DEF Go
    <3> QED
      OBVIOUS
  <2> HIDE DEF G, Go
  <2> QED
    BY ONLY <1>3, <2>1, Zenon
<1>6. ASSUME NEW l \in 0 .. n, i <= l, l < j PROVE Go(Off(cs, l)) = Off(cs, l + 1)
  <2>1. l \in 0 .. Len(cs) - 1
    BY <1>1, <1>2, <1>6
  <2>2. Step(t, Off(cs, l)) = Off(cs, l + 1)
    BY <1>1, <2>1, FirstByte
  <2>3. Off(cs, l) < end
    <3>1. l < e
      BY <1>2, <1>6
    <3> QED
      BY <1>1, <1>2, <3>1, OffLess
  <2>4. t[Off(cs, l) + 1] # NL
    <3>1. l + 1 \in i + 1 .. j
      BY <1>2, <1>6
    <3> QED
      BY <1>1, <2>1, <3>1, EndByte DEF Stops
  <2> QED
    BY <2>2, <2>3, <2>4
<1>7. Go(Off(cs, j)) = Off(cs, j)
  <2>1. CASE j = e
    <3>1. ~ (Off(cs, j) < end)
      BY <1>1, <1>2, <2>1
    <3> QED
      BY <3>1
  <2>2. CASE j # e
    <3>1. j \in 0 .. Len(cs) - 1
      BY <1>1, <1>2, <2>2
    <3>2. t[Off(cs, j) + 1] = NL
      BY <1>1, <2>2, <3>1, EndByte DEF Stops
    <3> QED
      BY <3>2
  <2> QED
    BY <2>1, <2>2
<1> DEFINE P(k) == IF i + k <= j THEN i + k ELSE j
           I == {k \in Nat : k <= d => F[k] = Off(cs, P(k))}
<1> HIDE DEF F, Go
<1>8. 0 \in I
  <2>1. P(0) = i
    BY <1>2
  <2>2. F[0] = q
    BY <1>5
  <2> HIDE DEF P
  <2> QED
    BY <1>1, <2>1, <2>2
<1>9. ASSUME NEW k \in Nat, k \in I PROVE k + 1 \in I
  <2> SUFFICES ASSUME k + 1 <= d PROVE F[k + 1] = Off(cs, P(k + 1))
    OBVIOUS
  <2>1. F[k + 1] = Go(F[k])
    <3>1. k + 1 \in 0 .. d /\ k + 1 # 0 /\ (k + 1) - 1 = k
      OBVIOUS
    <3> QED
      BY <1>5, <3>1
  <2>2. F[k] = Off(cs, P(k))
    <3> HIDE DEF P
    <3> QED
      BY <1>9
  <2>3. CASE i + k < j
    <3>1. P(k) = i + k /\ P(k + 1) = (i + k) + 1 /\ i + k \in 0 .. n /\ i <= i + k
      BY <1>2, <2>3
    <3> HIDE DEF P
    <3> QED
      BY <1>6, <2>1, <2>2, <2>3, <3>1
  <2>4. CASE ~ (i + k < j)
    <3>1. P(k) = j /\ P(k + 1) = j
      BY <1>2, <2>4
    <3> HIDE DEF P
    <3> QED
      BY <1>7, <2>1, <2>2, <3>1
  <2> QED
    BY <2>3, <2>4
<1>10. \A k \in Nat : k \in I
  <2> HIDE DEF I
  <2> QED
    BY ONLY <1>8, <1>9, Induction
<1>11. F[d] = Off(cs, P(d))
  <2> HIDE DEF P
  <2> QED
    BY <1>10
<1> QED
  BY <1>1, <1>4, <1>11 DEF Reaches

-----------------------------------------------------------------------------
\* The cursor moved before a character of the text, in the array and in the
\* editor. In the array, the characters after the cursor count one more.
Goes(u, v, p, i) == Does(move_cursor(u, Off(Held(v), p)), u, E!MoveTo(v, i))

LEMMA GoesBack ==
  ASSUME NEW b \in Seq(Plain), NEW c \in Seq(Plain), NEW a \in Seq(Plain), NEW k \in {1, 2}
  PROVE  Goes(Text(b \o c, a, k), Row(b \o c, a, k), Len(b), Len(b))
<1>1. PICK x \in Seq(Plain) : x = c \o a
  BY ConcatProperties
<1>2. Off(Held(Row(b \o c, a, k)), Len(b)) = Len(FlattenSeq(b))
  BY Offsets, ZenonT(40)
<1>3. move_cursor(Text(b \o c, a, k), Len(FlattenSeq(b))) = Text(b, c \o a, k)
  BY MoveBack
<1>4. E!MoveTo(Row(b \o c, a, k), Len(b)) = Row(b, c \o a, k)
  BY MoveToIs, SMTT(30)
<1>5. Len(Text(b, x, k)) <= Len(Text(b \o c, a, k))
  <2>1. Longer(b, c, a, k) /\ Longer(b, a, a, k) /\ Longer(b, x, x, k)
    BY Lengths
  <2>2. Len(Text(b \o c, a, k)) = Len(Text(b, x, k)) /\ Len(Text(b, x, k)) \in Nat
    BY ONLY <1>1, <2>1, Zenon DEF Longer
  <2> QED
    BY ONLY <2>2
<1>6. PICK u : u = Text(b \o c, a, k)
  OBVIOUS
<1>7. Does(Text(b, x, k), u, Row(b, x, k))
  <2>1. Len(Text(b, x, k)) <= Len(u)
    BY ONLY <1>5, <1>6, Zenon
  <2> QED
    BY ONLY <2>1, x \in Seq(Plain), b \in Seq(Plain), k \in {1, 2}, DoesText
<1> QED
  BY ONLY <1>1, <1>2, <1>3, <1>4, <1>6, <1>7, Zenon DEF Goes

LEMMA GoesOn ==
  ASSUME NEW b \in Seq(Plain), NEW c \in Seq(Plain), NEW a \in Seq(Plain), NEW k \in {1, 2}
  PROVE  Goes(Text(b, c \o a, k), Row(b, c \o a, k), (Len(b) + 1) + Len(c), Len(b) + Len(c))
<1>1. PICK x \in Seq(Plain) : x = b \o c
  BY ConcatProperties
<1>2. Off(Held(Row(b, c \o a, k)), (Len(b) + 1) + Len(c)) = (Len(FlattenSeq(b)) + CLEN) + Len(FlattenSeq(c))
  BY Offsets, ZenonT(40)
<1>3. move_cursor(Text(b, c \o a, k), (Len(FlattenSeq(b)) + CLEN) + Len(FlattenSeq(c))) = Text(b \o c, a, k)
  BY MoveOn
<1>4. E!MoveTo(Row(b, c \o a, k), Len(b) + Len(c)) = Row(b \o c, a, k)
  BY MoveToIs
<1>5. Len(Text(x, a, k)) <= Len(Text(b, c \o a, k))
  <2>1. Longer(b, c, a, k) /\ Longer(x, a, a, k)
    BY Lengths
  <2>2. Len(Text(x, a, k)) = Len(Text(b, c \o a, k)) /\ Len(Text(x, a, k)) \in Nat
    BY ONLY <1>1, <2>1, Zenon DEF Longer
  <2> QED
    BY ONLY <2>2
<1>6. PICK u : u = Text(b, c \o a, k)
  OBVIOUS
<1>7. Does(Text(x, a, k), u, Row(x, a, k))
  <2>1. Len(Text(x, a, k)) <= Len(u)
    BY ONLY <1>5, <1>6, Zenon
  <2> QED
    BY ONLY <2>1, x \in Seq(Plain), a \in Seq(Plain), k \in {1, 2}, DoesText
<1> QED
  BY ONLY <1>1, <1>2, <1>3, <1>4, <1>6, <1>7, Zenon DEF Goes

LEMMA GoesTo ==
  ASSUME NEW b \in Seq(Plain), NEW a \in Seq(Plain), NEW k \in {1, 2}, NEW i \in 0 .. Len(b) + Len(a)
  PROVE  Goes(Text(b, a, k), Row(b, a, k), IF i <= Len(b) THEN i ELSE i + 1, i)
<1>1. PICK n, m : n = Len(b) /\ m = Len(a) /\ n \in Nat /\ m \in Nat /\ i \in 0 .. n + m
  BY PlainTexts
<1>2. CASE i <= n
  <2>1. i \in 0 .. Len(b)
    BY <1>1, <1>2
  <2>2. PICK d \in Seq(Plain), e \in Seq(Plain) : b = d \o e /\ Len(d) = i
    <3>1. PICK j : j = i
      OBVIOUS
    <3>2. j \in 0 .. Len(b)
      BY <2>1, <3>1
    <3>3. PICK d \in Seq(Plain), e \in Seq(Plain) :
            /\ b = d \o e /\ Len(d) = j /\ Len(e) = Len(b) - j
            /\ d = SubSeq(b, 1, j) /\ e = SubSeq(b, j + 1, Len(b))
            /\ (\A l \in 1 .. j : d[l] = b[l]) /\ (\A l \in 1 .. Len(e) : e[l] = b[j + l])
      BY ONLY b \in Seq(Plain), <3>2, CutAt
    <3> QED
      BY ONLY <3>1, <3>3, Zenon
  <2>3. Goes(Text(d \o e, a, k), Row(d \o e, a, k), Len(d), Len(d))
    BY GoesBack
  <2> QED
    BY ONLY <1>1, <1>2, <2>2, <2>3, Zenon
<1>3. CASE ~ (i <= n)
  <2>1. i - n \in 0 .. Len(a)
    BY <1>1, <1>3
  <2>2. PICK d \in Seq(Plain), e \in Seq(Plain) : a = d \o e /\ Len(d) = i - n
    BY ONLY a \in Seq(Plain), <2>1, CutAt
  <2>3. Goes(Text(b, d \o e, k), Row(b, d \o e, k), (Len(b) + 1) + Len(d), Len(b) + Len(d))
    BY GoesOn
  <2>4. (n + 1) + (i - n) = i + 1 /\ n + (i - n) = i
    BY ONLY <1>1
  <2> QED
    BY ONLY <1>1, <1>3, <2>2, <2>3, <2>4, Zenon
<1> QED
  BY <1>2, <1>3

-----------------------------------------------------------------------------
\* Every place is in a line.
LEMMA SomeStart ==
  ASSUME NEW cs, NEW i \in Nat
  PROVE  \E j : StartsLine(cs, j, i)
<1> DEFINE S == {x \in 0 .. i : x = 0 \/ cs[x] = <<NL>>}
<1>1. S \in SUBSET (0 .. i) /\ S # {}
  <2>1. 0 \in S
    OBVIOUS
  <2> QED
    BY <2>1
<1>2. PICK j \in S : \A c \in S : c <= j
  <2> HIDE DEF S
  <2> QED
    BY ONLY <1>1, i \in Nat, Greatest
<1>3. ASSUME NEW l \in j + 1 .. i PROVE cs[l] # <<NL>>
  <2>1. l \in 0 .. i /\ ~ (l <= j)
    OBVIOUS
  <2>2. l \notin S
    <3> HIDE DEF S
    <3> QED
      BY <1>2, <2>1
  <2> QED
    BY <2>1, <2>2
<1>4. j \in 0 .. i /\ (j = 0 \/ cs[j] = <<NL>>)
  OBVIOUS
<1> QED
  BY <1>3, <1>4 DEF StartsLine

LEMMA SomeStop ==
  ASSUME NEW cs, NEW i \in Nat, NEW e \in Nat, i <= e
  PROVE  \E j : Stops(cs, j, i, e)
<1> DEFINE S == {x \in i .. e : x = e \/ cs[x + 1] = <<NL>>}
<1>1. S \in SUBSET Nat /\ S # {}
  <2>1. e \in S
    OBVIOUS
  <2> QED
    BY <2>1
<1>2. PICK j \in S : \A c \in S : j <= c
  <2> HIDE DEF S
  <2> QED
    BY ONLY <1>1, LeastNatural
<1>3. ASSUME NEW l \in i + 1 .. j PROVE cs[l] # <<NL>>
  <2>0. j \in i .. e
    OBVIOUS
  <2>1. PICK x \in i .. e : x + 1 = l /\ ~ (j <= x)
    BY <2>0
  <2>2. x \notin S
    <3> HIDE DEF S
    <3> QED
      BY <1>2, <2>1
  <2> QED
    BY <2>1, <2>2
<1>4. j \in i .. e /\ (j = e \/ cs[j + 1] = <<NL>>)
  OBVIOUS
<1> QED
  BY <1>3, <1>4 DEF Stops

\* The editor's least and greatest.
LEMMA EditorMin ==
  ASSUME NEW H \in SUBSET Int, NEW x \in H, \A y \in H : x <= y
  PROVE  E!Min(H) = x
BY SetMin DEF E!Min, Min

LEMMA EditorMax ==
  ASSUME NEW H \in SUBSET Int, NEW x \in H, \A y \in H : x >= y
  PROVE  E!Max(H) = x
BY SetMax DEF E!Max, Max

LEMMA Lesser ==
  ASSUME NEW x \in Int, NEW y \in Int
  PROVE  E!Min({x, y}) = IF x <= y THEN x ELSE y
<1> DEFINE H == {x, y}
<1>1. H \in SUBSET Int
  OBVIOUS
<1>2. CASE x <= y
  <2>1. x \in H /\ \A z \in H : x <= z
    BY <1>2
  <2> HIDE DEF H
  <2>2. E!Min(H) = x
    BY ONLY <1>1, <2>1, EditorMin
  <2> QED
    BY <1>2, <2>2 DEF H
<1>3. CASE ~ (x <= y)
  <2>1. y \in H /\ \A z \in H : y <= z
    BY <1>3
  <2> HIDE DEF H
  <2>2. E!Min(H) = y
    BY ONLY <1>1, <2>1, EditorMin
  <2> QED
    BY <1>3, <2>2 DEF H
<1> QED
  BY <1>2, <1>3

\* The line above in the editor.
LEMMA AboveNone ==
  ASSUME NEW b, NEW a, NEW k, \A i \in DOMAIN b : b[i] # <<NL>>
  PROVE  E!Above(Row(b, a, k)) = Len(b)
<1>1. Row(b, a, k).before = b
  BY RowChanges
<1>2. {i \in DOMAIN b : b[i] = <<NL>>} = {}
  OBVIOUS
<1> QED
  BY ONLY <1>1, <1>2, Zenon DEF E!Above

LEMMA AboveIs ==
  ASSUME NEW b \in Seq(Plain), NEW a, NEW k, NEW j, NEW i,
         StartsLine(b, j, Len(b)), j # 0, StartsLine(b, i, j - 1)
  PROVE  E!Above(Row(b, a, k)) =
           IF i + (Len(b) - j) <= j - 1 THEN i + (Len(b) - j) ELSE j - 1
<1>1. PICK n : n = Len(b) /\ n \in Nat /\ DOMAIN b = 1 .. n
  OBVIOUS
<1>2. /\ j \in 1 .. n /\ b[j] = <<NL>> /\ (\A l \in j + 1 .. n : b[l] # <<NL>>)
      /\ i \in 0 .. j - 1 /\ (i = 0 \/ b[i] = <<NL>>) /\ (\A l \in i + 1 .. j - 1 : b[l] # <<NL>>)
  BY <1>1 DEF StartsLine
<1> DEFINE H == {l \in DOMAIN b : b[l] = <<NL>>}
           L == (H \ {j}) \cup {0}
<1>3. H \in SUBSET Int /\ j \in H /\ \A y \in H : j >= y
  BY <1>1, <1>2
<1>4. L \in SUBSET Int /\ i \in L /\ \A y \in L : i >= y
  <2>1. L \in SUBSET Int
    BY <1>3
  <2>2. i \in L
    <3>1. CASE i = 0
      BY <3>1
    <3>2. CASE i # 0
      <4>1. i \in 1 .. n /\ i # j /\ b[i] = <<NL>>
        BY <1>1, <1>2, <3>2
      <4> QED
        BY <1>1, <4>1
    <3> QED
      BY <3>1, <3>2
  <2>3. ASSUME NEW y \in L PROVE i >= y
    <3>1. CASE y = 0
      BY <1>2, <3>1
    <3>2. CASE y # 0
      <4>1. y \in 1 .. n /\ b[y] = <<NL>> /\ y # j
        BY <1>1, <3>2
      <4>2. ~ (y > j) /\ ~ (y \in i + 1 .. j - 1)
        BY <1>1, <1>2, <4>1
      <4> QED
        BY <1>1, <1>2, <4>1, <4>2
    <3> QED
      BY <3>1, <3>2
  <2> QED
    BY <2>1, <2>2, <2>3
<1>5. E!Max(H) = j /\ H # {}
  <2> HIDE DEF H
  <2> QED
    BY ONLY <1>3, EditorMax
<1>6. E!Max(L) = i
  <2> HIDE DEF H, L
  <2> QED
    BY ONLY <1>4, EditorMax
<1>7. E!Above(Row(b, a, k)) = E!Min({i + n - j, j - 1})
  <2>1. Row(b, a, k).before = b
    BY RowChanges
  <2>2. PICK h : h = H
    OBVIOUS
  <2>3. E!Max(h) = j /\ h # {} /\ E!Max((h \ {j}) \cup {0}) = i
    <3> HIDE DEF H
    <3> QED
      BY ONLY <1>5, <1>6, <2>2, Zenon DEF L
  <2> QED
    BY ONLY <1>1, <2>1, <2>2, <2>3, Zenon DEF E!Above
<1>8. PICK x, y : x = i + n - j /\ y = j - 1 /\ x \in Int /\ y \in Int /\ i + (n - j) = x
  BY <1>1, <1>2
<1>9. E!Min({x, y}) = IF x <= y THEN x ELSE y
  BY ONLY <1>8, Lesser
<1> QED
  BY ONLY <1>1, <1>7, <1>8, <1>9, Zenon

\* The line below in the editor, with w all of its text.
BelowIn(w, n) ==
  LET breaks == {i \in DOMAIN w : w[i] = <<NL>>} \cup {Len(w) + 1}
      start == E!Max({i \in breaks : i <= n} \cup {0})
      below == E!Min({i \in breaks : i > n})
      end == E!Min({i \in breaks : i > below})
  IN  IF below > Len(w) THEN n ELSE E!Min({below + n - start, end - 1})

LEMMA BelowUnfolded ==
  ASSUME NEW b, NEW a, NEW k
  PROVE  E!Below(Row(b, a, k)) = BelowIn(b \o a, Len(b))
BY DEF E!Below, Row, BelowIn
BelowOf(u, n, w, j, p, q) ==
  E!Below(u) = IF p = Len(w) THEN n ELSE IF (p + 1) + (n - j) <= q THEN (p + 1) + (n - j) ELSE q

LEMMA BelowIs ==
  ASSUME NEW b, NEW a, NEW k, NEW w \in Seq(Plain), w = b \o a, NEW n \in 0 .. Len(w), n = Len(b),
         NEW j, NEW p, NEW q, StartsLine(w, j, n), EndsLine(w, p, n),
         p # Len(w) => EndsLine(w, q, p + 1)
  PROVE  BelowOf(Row(b, a, k), n, w, j, p, q)
<1>1. PICK z : z = Len(w) /\ z \in Nat /\ DOMAIN w = 1 .. z /\ n \in 0 .. z
  OBVIOUS
<1>2. /\ j \in 0 .. n /\ (j = 0 \/ w[j] = <<NL>>) /\ (\A l \in j + 1 .. n : w[l] # <<NL>>)
      /\ p \in n .. z /\ (p = z \/ w[p + 1] = <<NL>>) /\ (\A l \in n + 1 .. p : w[l] # <<NL>>)
  BY <1>1 DEF StartsLine, EndsLine, Stops
<1> DEFINE B == {i \in DOMAIN w : w[i] = <<NL>>} \cup {z + 1}
           H == {i \in B : i <= n} \cup {0}
           L == {i \in B : i > n}
           M == {i \in B : i > p + 1}
<1>3. \A i : i \in B <=> (i \in 1 .. z /\ w[i] = <<NL>>) \/ i = z + 1
  BY <1>1
<1>4. B \in SUBSET Int
  BY <1>1
<1>5. E!Max(H) = j
  <2>1. H \in SUBSET Int
    BY <1>4
  <2>2. j \in H
    <3>1. CASE j = 0
      BY <3>1
    <3>2. CASE j # 0
      <4>1. j \in 1 .. z /\ w[j] = <<NL>> /\ j <= n
        BY <1>1, <1>2, <3>2
      <4> QED
        BY <1>3, <4>1
    <3> QED
      BY <3>1, <3>2
  <2>3. ASSUME NEW y \in H PROVE j >= y
    <3>1. CASE y = 0
      BY <1>2, <3>1
    <3>2. CASE y # 0
      <4>1. y \in B /\ y <= n
        BY <3>2
      <4>2. y \in 1 .. z /\ w[y] = <<NL>>
        <5> HIDE DEF B
        <5> QED
          BY <1>1, <1>3, <4>1
      <4>3. ~ (y \in j + 1 .. n)
        BY <1>2, <4>2
      <4> QED
        BY <1>1, <1>2, <4>1, <4>2, <4>3
    <3> QED
      BY <3>1, <3>2
  <2> HIDE DEF H
  <2> QED
    BY ONLY <2>1, <2>2, <2>3, EditorMax
<1>6. E!Min(L) = p + 1
  <2>1. L \in SUBSET Int
    BY <1>4
  <2>2. p + 1 \in L
    <3>1. p + 1 \in B
      <4>1. CASE p = z
        BY <4>1
      <4>2. CASE p # z
        <5>1. p + 1 \in 1 .. z /\ w[p + 1] = <<NL>>
          BY <1>1, <1>2, <4>2
        <5> QED
          BY <1>3, <5>1
      <4> QED
        BY <4>1, <4>2
    <3>2. p + 1 > n
      BY <1>1, <1>2
    <3> QED
      BY <3>1, <3>2
  <2>3. ASSUME NEW y \in L PROVE p + 1 <= y
    <3>1. y \in B /\ y > n
      OBVIOUS
    <3>2. CASE y = z + 1
      BY <1>1, <1>2, <3>2
    <3>3. CASE y # z + 1
      <4>1. y \in 1 .. z /\ w[y] = <<NL>>
        <5> HIDE DEF B
        <5> QED
          BY <1>3, <3>1, <3>3
      <4>2. ~ (y \in n + 1 .. p)
        BY <1>2, <4>1
      <4> QED
        BY <1>1, <1>2, <3>1, <4>1, <4>2
    <3> QED
      BY <3>2, <3>3
  <2> HIDE DEF L
  <2> QED
    BY ONLY <2>1, <2>2, <2>3, EditorMin
<1>7. ASSUME p # z PROVE E!Min(M) = q + 1 /\ q \in p + 1 .. z
  <2>0. q \in p + 1 .. z /\ (q = z \/ w[q + 1] = <<NL>>) /\ (\A l \in p + 2 .. q : w[l] # <<NL>>)
    <3>1. EndsLine(w, q, p + 1) /\ (p + 1) + 1 = p + 2
      BY <1>1, <1>2, <1>7
    <3> QED
      BY ONLY <1>1, <3>1 DEF EndsLine, Stops
  <2>1. M \in SUBSET Int
    BY <1>4
  <2>2. q + 1 \in M
    <3>1. q + 1 \in B
      <4>1. CASE q = z
        BY <4>1
      <4>2. CASE q # z
        <5>1. q + 1 \in 1 .. z /\ w[q + 1] = <<NL>>
          BY <1>1, <1>2, <2>0, <4>2
        <5> QED
          BY <1>3, <5>1
      <4> QED
        BY <4>1, <4>2
    <3>2. q + 1 > p + 1
      BY <1>1, <1>2, <2>0
    <3> QED
      BY <3>1, <3>2
  <2>3. ASSUME NEW y \in M PROVE q + 1 <= y
    <3>1. y \in B /\ y > p + 1
      OBVIOUS
    <3>2. CASE y = z + 1
      BY <1>1, <1>2, <2>0, <3>2
    <3>3. CASE y # z + 1
      <4>1. y \in 1 .. z /\ w[y] = <<NL>>
        <5> HIDE DEF B
        <5> QED
          BY <1>3, <3>1, <3>3
      <4>2. ~ (y \in p + 2 .. q)
        BY <2>0, <4>1
      <4> QED
        BY <1>1, <1>2, <2>0, <3>1, <4>1, <4>2
    <3> QED
      BY <3>2, <3>3
  <2> HIDE DEF M
  <2> QED
    BY ONLY <2>0, <2>1, <2>2, <2>3, EditorMin
<1>8. E!Below(Row(b, a, k)) = IF p + 1 > z THEN n ELSE E!Min({(p + 1) + n - j, E!Min(M) - 1})
  <2>1. Row(b, a, k).before = b /\ Row(b, a, k).after = a
    BY RowChanges
  <2>2. PICK h : h = B
    OBVIOUS
  <2>3. /\ h = {i \in DOMAIN w : w[i] = <<NL>>} \cup {z + 1}
        /\ E!Max({i \in h : i <= n} \cup {0}) = j /\ E!Min({i \in h : i > n}) = p + 1
        /\ {i \in h : i > p + 1} = M
    BY ONLY <1>5, <1>6, <2>2, Zenon
  <2> HIDE DEF B, H, L, M
  <2>4. E!Below(Row(b, a, k)) = BelowIn(b \o a, Len(b))
    BY BelowUnfolded
  <2>5. BelowIn(w, n) = IF p + 1 > z THEN n ELSE E!Min({(p + 1) + n - j, E!Min(M) - 1})
    BY ONLY <1>1, <2>3, Zenon DEF BelowIn
  <2> QED
    BY ONLY <2>4, <2>5, w = b \o a, n = Len(b), Zenon
<1>9. CASE p = z
  <2>1. p + 1 > z
    BY <1>1, <1>9
  <2> QED
    BY ONLY <1>1, <1>8, <1>9, <2>1, Zenon DEF BelowOf
<1>10. CASE p # z
  <2>1. PICK x \in Int : x = (p + 1) + n - j /\ (p + 1) + (n - j) = x
    BY <1>1, <1>2
  <2>2. q \in Int /\ (q + 1) - 1 = q /\ ~ (p + 1 > z)
    BY <1>1, <1>2, <1>7, <1>10
  <2>3. E!Min({x, q}) = IF x <= q THEN x ELSE q
    BY ONLY <2>1, <2>2, Lesser
  <2> HIDE DEF M
  <2> QED
    BY ONLY <1>1, <1>7, <1>8, <1>10, <2>1, <2>2, <2>3, Zenon DEF BelowOf
<1> QED
  BY <1>9, <1>10

-----------------------------------------------------------------------------
\* The lines of the text, with the cursor in it and without.
SameLines(cs, b, w, n, m) ==
  /\ cs \in Seq(Character) /\ w \in Seq(Plain) /\ Len(w) = n + m /\ Len(cs) = (n + m) + 1
  /\ \A i \in 0 .. n : \A j : StartsLine(b, j, i) => StartsLine(cs, j, i) /\ StartsLine(w, j, i)
  /\ \A i \in n .. n + m : \A p : EndsLine(w, p, i) => EndsLine(cs, p + 1, i + 1)

LEMMA LinesIn ==
  ASSUME NEW b \in Seq(Plain), NEW a \in Seq(Plain), NEW k \in {1, 2}
  PROVE  SameLines(Held(Row(b, a, k)), b, b \o a, Len(b), Len(a))
<1>1. PICK v, cs, w, n, m : /\ v = Row(b, a, k) /\ cs = Held(v) /\ w = b \o a
                            /\ n = Len(b) /\ m = Len(a)
  OBVIOUS
<1>2. /\ n \in Nat /\ m \in Nat /\ w \in Seq(Plain) /\ Len(w) = n + m
      /\ (\A i \in 1 .. n : w[i] = b[i]) /\ (\A i \in 1 .. m : w[n + i] = a[i])
  <2>1. n \in Nat /\ m \in Nat
    BY <1>1, PlainTexts
  <2>2. w \in Seq(Plain) /\ Len(w) = n + m
    BY <1>1, ConcatProperties
  <2>3. (\A i \in 1 .. n : w[i] = b[i]) /\ (\A i \in 1 .. m : w[n + i] = a[i])
    BY ONLY <1>1, <2>1, b \in Seq(Plain), a \in Seq(Plain)
  <2> QED
    BY <2>1, <2>2, <2>3
<1>3. /\ cs \in Seq(Character) /\ Len(cs) = (n + m) + 1
      /\ (\A i \in 1 .. n : cs[i] = b[i]) /\ (\A i \in 1 .. m : cs[(n + 1) + i] = a[i])
  <2>1. v \in Line /\ v.before = b /\ v.after = a
    <3>1. InRow(Row(b, a, k), Text(b, a, k), b, a, k)
      BY RowHolds
    <3> QED
      BY ONLY <1>1, <3>1, Zenon DEF InRow
  <2>2. /\ cs \in Seq(Character) /\ Len(cs) = Len(v.before) + 1 + Len(v.after)
        /\ (\A i \in 1 .. Len(v.before) : cs[i] = v.before[i])
        /\ (\A i \in 1 .. Len(v.after) : cs[Len(v.before) + 1 + i] = v.after[i])
    BY ONLY <1>1, <2>1, HeldIs
  <2>3. /\ Len(cs) = (n + 1) + m
        /\ (\A i \in 1 .. n : cs[i] = b[i]) /\ (\A i \in 1 .. m : cs[(n + 1) + i] = a[i])
    BY ONLY <1>1, <2>1, <2>2, ZenonT(40)
  <2>4. (n + 1) + m = (n + m) + 1
    BY <1>2
  <2> QED
    BY ONLY <2>2, <2>3, <2>4, Zenon
<1>4. ASSUME NEW i \in 0 .. n, NEW j, StartsLine(b, j, i)
      PROVE  StartsLine(cs, j, i) /\ StartsLine(w, j, i)
  <2>1. j \in 0 .. i /\ (j = 0 \/ b[j] = <<NL>>) /\ \A l \in j + 1 .. i : b[l] # <<NL>>
    BY <1>4 DEF StartsLine
  <2>2. j = 0 \/ (cs[j] = <<NL>> /\ w[j] = <<NL>>)
    <3>1. CASE j # 0
      <4>1. j \in 1 .. n
        BY <1>2, <2>1, <3>1
      <4> QED
        BY <1>2, <1>3, <2>1, <3>1, <4>1
    <3> QED
      BY <3>1
  <2>3. \A l \in j + 1 .. i : cs[l] # <<NL>> /\ w[l] # <<NL>>
    <3> TAKE l \in j + 1 .. i
    <3>1. l \in 1 .. n
      BY <1>2, <2>1
    <3> QED
      BY <1>2, <1>3, <2>1, <3>1
  <2> QED
    BY <2>1, <2>2, <2>3 DEF StartsLine
<1>5. \A x \in n + 1 .. n + m : cs[x + 1] = w[x]
  <2> TAKE x \in n + 1 .. n + m
  <2>1. PICK i \in 1 .. m : x = n + i /\ (n + 1) + i = x + 1
    <3>1. x - n \in 1 .. m /\ x = n + (x - n) /\ (n + 1) + (x - n) = x + 1
      BY <1>2
    <3> QED
      BY <3>1
  <2>2. w[n + i] = a[i] /\ cs[(n + 1) + i] = a[i]
    BY <1>2, <1>3
  <2> QED
    BY ONLY <2>1, <2>2, Zenon
<1>6. ASSUME NEW i \in n .. n + m, NEW p, EndsLine(w, p, i)
      PROVE  EndsLine(cs, p + 1, i + 1)
  <2>1. p \in i .. n + m /\ (p = n + m \/ w[p + 1] = <<NL>>) /\ \A l \in i + 1 .. p : w[l] # <<NL>>
    BY <1>2, <1>6 DEF EndsLine, Stops
  <2>2. p + 1 \in i + 1 .. Len(cs)
    BY <1>2, <1>3, <2>1
  <2>3. p + 1 = Len(cs) \/ cs[(p + 1) + 1] = <<NL>>
    <3>1. CASE p = n + m
      BY <1>2, <1>3, <3>1
    <3>2. CASE p # n + m
      <4>1. p + 1 \in n + 1 .. n + m
        BY <1>2, <2>1, <3>2
      <4> QED
        BY <1>5, <2>1, <3>2, <4>1
    <3> QED
      BY <3>1, <3>2
  <2>4. \A l \in (i + 1) + 1 .. p + 1 : cs[l] # <<NL>>
    <3> TAKE l \in (i + 1) + 1 .. p + 1
    <3>1. PICK x : x \in n + 1 .. n + m /\ x + 1 = l /\ x \in i + 1 .. p
      <4>1. l - 1 \in n + 1 .. n + m /\ (l - 1) + 1 = l /\ l - 1 \in i + 1 .. p
        BY <1>2, <2>1
      <4> QED
        BY <4>1
    <3>2. w[x] # <<NL>> /\ cs[x + 1] = w[x]
      BY <1>5, <2>1, <3>1
    <3> QED
      BY ONLY <3>1, <3>2, Zenon
  <2> QED
    BY <2>2, <2>3, <2>4 DEF EndsLine, Stops
<1>7. SameLines(cs, b, w, n, m)
  BY <1>2, <1>3, <1>4, <1>6, Zenon DEF SameLines
<1> QED
  BY ONLY <1>1, <1>7, Zenon

LEMMA UpDoes ==
  ASSUME NEW b \in Seq(Plain), NEW a \in Seq(Plain), NEW k \in {1, 2}
  PROVE  Does(up(Text(b, a, k)), Text(b, a, k), E!Edit(Row(b, a, k), "up"))
<1>1. PICK t, v, cs, n, m : /\ t = Text(b, a, k) /\ v = Row(b, a, k) /\ cs = Held(v)
                            /\ n = Len(b) /\ m = Len(a) /\ n \in Nat /\ m \in Nat
  BY PlainTexts
<1>2. SameLines(cs, b, b \o a, n, m)
  BY ONLY <1>1, b \in Seq(Plain), a \in Seq(Plain), k \in {1, 2}, LinesIn
<1>3. /\ cs \in Seq(Character) /\ Len(cs) = (n + m) + 1 /\ n \in 0 .. Len(cs)
      /\ \A i \in 0 .. n : \A j : StartsLine(b, j, i) => StartsLine(cs, j, i)
  <2>1. /\ cs \in Seq(Character) /\ Len(cs) = (n + m) + 1
        /\ \A i \in 0 .. n : \A j : StartsLine(b, j, i) => StartsLine(cs, j, i)
    BY ONLY <1>2, Zenon DEF SameLines
  <2>2. n \in 0 .. Len(cs)
    BY ONLY <1>1, <2>1
  <2> QED
    BY ONLY <2>1, <2>2, Zenon
<1>4. t = FlattenSeq(cs) /\ cur(t) = Off(cs, n) /\ cur(t) # Null
  <2>1. v \in Line /\ Holds(t, v) /\ FlattenSeq(cs) = t /\ v.before = b
    <3>1. InRow(Row(b, a, k), Text(b, a, k), b, a, k)
      BY RowHolds
    <3> QED
      BY ONLY <1>1, <3>1, Zenon DEF InRow
  <2> QED
    BY <1>1, <2>1, CursorAt
<1>5. E!Edit(v, "up") = E!MoveTo(v, E!Above(v))
  BY DEF E!Edit
<1>6. PICK j : StartsLine(b, j, n)
  BY ONLY <1>1, SomeStart
<1>7. LineStart(t, cur(t)) = Off(cs, j) /\ j \in 0 .. n /\ StartsLine(cs, j, n)
  <2>1. StartsLine(cs, j, n) /\ n \in 0 .. n
    BY <1>1, <1>3, <1>6
  <2>2. LineStart(FlattenSeq(cs), Off(cs, n)) = Off(cs, j)
    BY ONLY <1>3, <2>1, LineStartIs
  <2> QED
    BY <1>4, <1>6, <2>1, <2>2 DEF StartsLine
<1>8. ASSUME NEW i \in 0 .. n
      PROVE  Does(move_cursor(t, Off(cs, i)), t, E!MoveTo(v, i))
  <2>1. i \in 0 .. Len(b) + Len(a) /\ i <= Len(b)
    BY <1>1
  <2>2. Goes(Text(b, a, k), Row(b, a, k), IF i <= Len(b) THEN i ELSE i + 1, i)
    BY ONLY <2>1, b \in Seq(Plain), a \in Seq(Plain), k \in {1, 2}, GoesTo
  <2> QED
    BY ONLY <1>1, <2>1, <2>2, Zenon DEF Goes
<1>9. CASE j = 0
  <2>1. up(t) = t /\ move_cursor(t, Off(cs, n)) = t
    <3>1. Off(cs, j) = 0
      BY <1>3, <1>9, Layout
    <3> QED
      BY ONLY <1>4, <1>7, <3>1, Zenon DEF up, move_cursor
  <2>2. E!Above(v) = n
    <3>1. \A i \in DOMAIN b : b[i] # <<NL>>
      BY <1>1, <1>6, <1>9 DEF StartsLine
    <3> QED
      BY ONLY <1>1, <3>1, AboveNone
  <2>3. n \in 0 .. n
    BY <1>1
  <2>4. Does(move_cursor(t, Off(cs, n)), t, E!MoveTo(v, n))
    BY <1>8, <2>3
  <2> QED
    BY ONLY <1>1, <1>5, <2>1, <2>2, <2>4, Zenon
<1>10. CASE j # 0
  <2>1. j \in 1 .. n /\ j - 1 \in Nat /\ j - 1 \in 0 .. n /\ j \in 1 .. Len(cs) /\ cs[j] = <<NL>>
    BY <1>1, <1>3, <1>7, <1>10 DEF StartsLine
  <2>2. Off(cs, j) # 0 /\ Off(cs, j) - 1 = Off(cs, j - 1)
    <3>1. Off(cs, j) = Off(cs, j - 1) + 1
      BY ONLY <1>3, <2>1, NewLines
    <3>2. j - 1 \in 0 .. Len(cs)
      BY <1>1, <1>3, <2>1
    <3>3. Off(cs, j - 1) \in Nat
      BY ONLY <1>3, <3>2, Layout
    <3> QED
      BY ONLY <3>1, <3>3
  <2>3. PICK i : StartsLine(b, i, j - 1)
    BY ONLY <2>1, SomeStart
  <2>4. StartsLine(cs, i, j - 1) /\ i \in 0 .. j - 1
    <3>1. StartsLine(cs, i, j - 1)
      BY <1>3, <2>1, <2>3
    <3> QED
      BY <3>1 DEF StartsLine
  <2>5. LineStart(t, Off(cs, j) - 1) = Off(cs, i)
    <3>1. j - 1 \in 0 .. Len(cs)
      BY <1>1, <1>3, <2>1
    <3>2. LineStart(FlattenSeq(cs), Off(cs, j - 1)) = Off(cs, i)
      BY ONLY <1>3, <2>4, <3>1, LineStartIs
    <3> QED
      BY ONLY <1>4, <2>2, <3>2, Zenon
  <2>6. column(t, Off(cs, j), cur(t)) = n - j
    <3>1. j \in 0 .. n
      BY <2>1
    <3>2. column(FlattenSeq(cs), Off(cs, j), Off(cs, n)) = n - j
      BY ONLY <1>3, <3>1, ColumnIs
    <3> QED
      BY ONLY <1>4, <3>2, Zenon
  <2>7. PICK d \in Nat : d = n - j
    <3>1. n - j \in Nat
      BY <1>1, <2>1
    <3> QED
      BY <3>1
  <2>8. PICK i2 \in 0 .. n : i2 = IF i + d <= j - 1 THEN i + d ELSE j - 1
    <3>1. (IF i + d <= j - 1 THEN i + d ELSE j - 1) \in 0 .. n
      BY <1>1, <2>1, <2>4, <2>7
    <3> QED
      BY <3>1
  <2>9. Across(t, Off(cs, i), d, Off(cs, j) - 1) = Off(cs, i2)
    <3>1. i \in 0 .. Len(cs) /\ j - 1 \in i .. Len(cs)
      BY <1>1, <1>3, <2>1, <2>4
    <3>2. Stops(cs, j - 1, i, j - 1)
      BY <2>1, <2>4 DEF Stops, StartsLine
    <3>3. PICK e : e = j - 1
      OBVIOUS
    <3>4. e \in i .. Len(cs) /\ Stops(cs, e, i, e)
      BY ONLY <3>1, <3>2, <3>3, Zenon
    <3>5. Reaches(cs, i, d, e, e)
      BY ONLY <1>3, <3>1, <3>4, d \in Nat, AcrossIs
    <3> QED
      BY ONLY <1>4, <2>2, <2>8, <3>3, <3>5, Zenon DEF Reaches
  <2>10. up(t) = move_cursor(t, Off(cs, i2))
    BY ONLY <1>4, <1>7, <2>2, <2>5, <2>6, <2>7, <2>9, Zenon DEF up
  <2>11. E!Above(v) = i2
    <3>1. StartsLine(b, j, Len(b)) /\ j # 0 /\ StartsLine(b, i, j - 1)
      BY <1>1, <1>6, <1>10, <2>3
    <3>2. E!Above(Row(b, a, k)) =
           IF i + (Len(b) - j) <= j - 1 THEN i + (Len(b) - j) ELSE j - 1
      BY ONLY <3>1, b \in Seq(Plain), AboveIs
    <3> QED
      BY ONLY <1>1, <2>7, <2>8, <3>2, Zenon
  <2>12. Does(move_cursor(t, Off(cs, i2)), t, E!MoveTo(v, i2))
    BY <1>8
  <2> QED
    BY ONLY <1>1, <1>5, <2>10, <2>11, <2>12, Zenon
<1> QED
  BY <1>9, <1>10

LEMMA DownDoes ==
  ASSUME NEW b \in Seq(Plain), NEW a \in Seq(Plain), NEW k \in {1, 2}
  PROVE  Does(down(Text(b, a, k)), Text(b, a, k), E!Edit(Row(b, a, k), "down"))
<1>1. PICK t, v, cs, w, n, m : /\ t = Text(b, a, k) /\ v = Row(b, a, k) /\ cs = Held(v) /\ w = b \o a
                               /\ n = Len(b) /\ m = Len(a) /\ n \in Nat /\ m \in Nat
  BY PlainTexts
<1>2. SameLines(cs, b, w, n, m)
  <2>1. SameLines(Held(Row(b, a, k)), b, b \o a, Len(b), Len(a))
    BY ONLY b \in Seq(Plain), a \in Seq(Plain), k \in {1, 2}, LinesIn
  <2> QED
    BY ONLY <1>1, <2>1, Zenon
<1>3. /\ cs \in Seq(Character) /\ Len(cs) = (n + m) + 1 /\ n \in 0 .. Len(cs)
      /\ w \in Seq(Plain) /\ Len(w) = n + m /\ n \in 0 .. n /\ n + 1 \in 0 .. Len(cs)
      /\ (\A j : StartsLine(b, j, n) => StartsLine(cs, j, n) /\ StartsLine(w, j, n))
      /\ \A i \in n .. n + m : \A p : EndsLine(w, p, i) => EndsLine(cs, p + 1, i + 1)
  <2>1. /\ cs \in Seq(Character) /\ Len(cs) = (n + m) + 1 /\ w \in Seq(Plain) /\ Len(w) = n + m
        /\ \A i \in 0 .. n : \A j : StartsLine(b, j, i) => StartsLine(cs, j, i) /\ StartsLine(w, j, i)
        /\ \A i \in n .. n + m : \A p : EndsLine(w, p, i) => EndsLine(cs, p + 1, i + 1)
    BY ONLY <1>2, Zenon DEF SameLines
  <2>2. n \in 0 .. Len(cs) /\ n \in 0 .. n /\ n + 1 \in 0 .. Len(cs)
    BY ONLY <1>1, <2>1
  <2> QED
    BY ONLY <2>1, <2>2, Zenon
<1>4. /\ t = FlattenSeq(cs) /\ cur(t) = Off(cs, n) /\ cur(t) # Null
      /\ cur(t) + CLEN = Off(cs, n + 1) /\ Len(t) = Off(cs, Len(cs))
  <2>1. v \in Line /\ Holds(t, v) /\ FlattenSeq(cs) = t /\ v.before = b
    <3>1. InRow(Row(b, a, k), Text(b, a, k), b, a, k)
      BY RowHolds
    <3> QED
      BY ONLY <1>1, <3>1, Zenon DEF InRow
  <2>2. cur(t) = Off(Held(v), Len(v.before)) /\ cur(t) + CLEN = Off(Held(v), Len(v.before) + 1) /\ cur(t) # Null
    BY ONLY <2>1, CursorAt
  <2>3. Len(FlattenSeq(cs)) = Off(cs, Len(cs))
    BY ONLY <1>3, Layout
  <2> QED
    BY ONLY <1>1, <2>1, <2>2, <2>3, Zenon
<1>5. E!Edit(v, "down") = E!MoveTo(v, E!Below(v))
  BY DEF E!Edit
<1>6. PICK j : StartsLine(b, j, n)
  BY ONLY <1>1, SomeStart
<1>7. /\ LineStart(t, cur(t)) = Off(cs, j) /\ j \in 0 .. n
      /\ StartsLine(cs, j, n) /\ StartsLine(w, j, n)
  <2>1. StartsLine(cs, j, n) /\ StartsLine(w, j, n)
    BY ONLY <1>3, <1>6, Zenon
  <2>2. LineStart(FlattenSeq(cs), Off(cs, n)) = Off(cs, j)
    BY ONLY <1>3, <2>1, LineStartIs
  <2> QED
    BY <1>4, <1>6, <2>1, <2>2 DEF StartsLine
<1>8. ASSUME NEW i \in n .. n + m
      PROVE  Does(move_cursor(t, Off(cs, IF i <= n THEN i ELSE i + 1)), t, E!MoveTo(v, i))
  <2>1. i \in 0 .. Len(b) + Len(a)
    BY <1>1
  <2>2. Goes(Text(b, a, k), Row(b, a, k), IF i <= Len(b) THEN i ELSE i + 1, i)
    BY ONLY <2>1, b \in Seq(Plain), a \in Seq(Plain), k \in {1, 2}, GoesTo
  <2> QED
    BY ONLY <1>1, <2>2, Zenon DEF Goes
<1>9. PICK p : EndsLine(w, p, n) /\ p \in n .. n + m
  <2>1. n + m \in Nat /\ n <= n + m
    BY <1>1
  <2>2. PICK p : Stops(w, p, n, n + m)
    BY ONLY <1>1, <2>1, SomeStop
  <2> QED
    BY <1>3, <2>2 DEF EndsLine, Stops
<1>10. LineEnd(t, cur(t) + CLEN) = Off(cs, p + 1) /\ EndsLine(cs, p + 1, n + 1)
  <2>1. EndsLine(cs, p + 1, n + 1)
    <3>1. n \in n .. n + m
      BY <1>1
    <3> QED
      BY ONLY <1>3, <1>9, <3>1, Zenon
  <2>2. LineEnd(FlattenSeq(cs), Off(cs, n + 1)) = Off(cs, p + 1)
    BY ONLY <1>3, <2>1, LineEndIs
  <2> QED
    BY ONLY <1>4, <2>1, <2>2, Zenon
<1>11. ASSUME NEW q, p # n + m => EndsLine(w, q, p + 1)
       PROVE  E!Below(v) = IF p = n + m THEN n ELSE IF (p + 1) + (n - j) <= q THEN (p + 1) + (n - j) ELSE q
  <2>1. w = b \o a /\ n \in 0 .. Len(w) /\ n = Len(b) /\ (p # Len(w) => EndsLine(w, q, p + 1))
    BY <1>1, <1>3, <1>11
  <2>2. BelowOf(Row(b, a, k), n, w, j, p, q)
    BY ONLY <1>3, <1>7, <1>9, <2>1, BelowIs
  <2> QED
    BY ONLY <1>1, <1>3, <2>2, Zenon DEF BelowOf
<1>12. CASE p = n + m
  <2>1. down(t) = t /\ move_cursor(t, Off(cs, n)) = t
    <3>1. p + 1 = Len(cs)
      BY <1>3, <1>12
    <3> QED
      BY ONLY <1>4, <1>10, <3>1, Zenon DEF down, move_cursor
  <2>2. E!Below(v) = n
    BY <1>11, <1>12
  <2>3. n \in n .. n + m /\ n <= n
    BY <1>1
  <2>4. Does(move_cursor(t, Off(cs, n)), t, E!MoveTo(v, n))
    <3>1. Does(move_cursor(t, Off(cs, IF n <= n THEN n ELSE n + 1)), t, E!MoveTo(v, n))
      BY <1>8, <2>3
    <3> QED
      BY ONLY <2>3, <3>1, Zenon
  <2> QED
    BY ONLY <1>1, <1>5, <2>1, <2>2, <2>4, Zenon
<1>13. CASE p # n + m
  <2>1. p \in n .. (n + m) - 1 /\ p + 1 \in Nat /\ p + 1 \in n .. n + m /\ p + 1 <= n + m
    BY <1>1, <1>9, <1>13
  <2>2. PICK q : EndsLine(w, q, p + 1) /\ q \in p + 1 .. n + m
    <3>1. n + m \in Nat
      BY <1>1
    <3>2. PICK q : Stops(w, q, p + 1, n + m)
      BY ONLY <2>1, <3>1, SomeStop
    <3> QED
      BY <1>3, <3>2 DEF EndsLine, Stops
  <2>3. EndsLine(cs, q + 1, (p + 1) + 1)
    BY ONLY <1>3, <2>1, <2>2, Zenon
  <2>4. Off(cs, p + 1) # Len(t) /\ Off(cs, p + 1) + 1 = Off(cs, (p + 1) + 1)
    <3>1. (p + 1) + 1 \in 1 .. Len(cs) /\ cs[(p + 1) + 1] = <<NL>> /\ ((p + 1) + 1) - 1 = p + 1
      <4>1. w[p + 1] = <<NL>>
        BY <1>3, <1>9, <1>13 DEF EndsLine, Stops
      <4>2. p + 1 # Len(cs) /\ (p + 1) + 1 \in 1 .. Len(cs) /\ ((p + 1) + 1) - 1 = p + 1
        BY <1>1, <1>3, <2>1
      <4>3. cs[(p + 1) + 1] = <<NL>>
        BY <1>10, <4>2 DEF EndsLine, Stops
      <4> QED
        BY <4>2, <4>3
    <3>2. PICK l \in 1 .. Len(cs) : l = (p + 1) + 1 /\ cs[l] = <<NL>> /\ l - 1 = p + 1
      BY <3>1
    <3>3. Off(cs, l) = Off(cs, l - 1) + 1
      BY ONLY <1>3, <3>2, NewLines
    <3>4. Off(cs, p + 1) # Len(t)
      <4>1. p + 1 \in 0 .. Len(cs) /\ Len(cs) \in 0 .. Len(cs) /\ p + 1 < Len(cs)
        BY <1>1, <1>3, <2>1
      <4>2. Off(cs, p + 1) < Off(cs, Len(cs))
        BY ONLY <1>3, <4>1, OffLess
      <4>3. Off(cs, p + 1) \in Nat /\ Off(cs, Len(cs)) \in Nat
        BY ONLY <1>3, <4>1, Layout
      <4> QED
        BY <1>4, <4>2, <4>3
    <3> QED
      BY ONLY <3>2, <3>3, <3>4, Zenon
  <2>5. column(t, Off(cs, j), cur(t)) = n - j
    <3>2. column(FlattenSeq(cs), Off(cs, j), Off(cs, n)) = n - j
      BY ONLY <1>3, <1>7, ColumnIs
    <3> QED
      BY ONLY <1>4, <3>2, Zenon
  <2>6. PICK d \in Nat : d = n - j
    <3>1. n - j \in Nat
      BY <1>1, <1>7
    <3> QED
      BY <3>1
  <2>7. PICK i2 \in n .. n + m : /\ i2 = (IF (p + 1) + d <= q THEN (p + 1) + d ELSE q)
                                 /\ i2 + 1 = (IF ((p + 1) + 1) + d <= q + 1 THEN ((p + 1) + 1) + d ELSE q + 1)
                                 /\ ~ (i2 <= n)
    <3>1. PICK x : x = IF (p + 1) + d <= q THEN (p + 1) + d ELSE q
      OBVIOUS
    <3>2. /\ x \in n .. n + m /\ ~ (x <= n)
          /\ x + 1 = IF ((p + 1) + 1) + d <= q + 1 THEN ((p + 1) + 1) + d ELSE q + 1
      BY ONLY <1>1, <2>1, <2>2, <3>1, d \in Nat
    <3> QED
      BY <3>1, <3>2
  <2>8. Across(t, Off(cs, p + 1) + 1, d, Len(t)) = Off(cs, i2 + 1)
    <3>1. PICK i, e, l : i = (p + 1) + 1 /\ e = Len(cs) /\ l = q + 1
      OBVIOUS
    <3>2. i \in 0 .. Len(cs) /\ e \in i .. Len(cs) /\ Stops(cs, l, i, e)
      <4>1. Stops(cs, l, i, e)
        BY ONLY <2>3, <3>1, Zenon DEF EndsLine
      <4>2. i \in 0 .. Len(cs) /\ e \in i .. Len(cs)
        BY <1>1, <1>3, <2>1, <3>1
      <4> QED
        BY <4>1, <4>2
    <3>3. Reaches(cs, i, d, e, l)
      BY ONLY <1>3, <3>2, d \in Nat, AcrossIs
    <3> QED
      BY ONLY <1>4, <2>4, <2>7, <3>1, <3>3, Zenon DEF Reaches
  <2>9. down(t) = move_cursor(t, Off(cs, i2 + 1))
    BY ONLY <1>4, <1>7, <1>10, <2>4, <2>5, <2>6, <2>8, Zenon DEF down
  <2>10. E!Below(v) = i2
    <3>1. E!Below(v) = IF p = n + m THEN n ELSE IF (p + 1) + (n - j) <= q THEN (p + 1) + (n - j) ELSE q
      BY <1>11, <2>2
    <3> QED
      BY ONLY <1>13, <2>6, <2>7, <3>1, Zenon
  <2>11. Does(move_cursor(t, Off(cs, i2 + 1)), t, E!MoveTo(v, i2))
    <3>1. Does(move_cursor(t, Off(cs, IF i2 <= n THEN i2 ELSE i2 + 1)), t, E!MoveTo(v, i2))
      BY <1>8
    <3> QED
      BY ONLY <2>7, <3>1, Zenon
  <2> QED
    BY ONLY <1>1, <1>5, <2>9, <2>10, <2>11, Zenon
<1> QED
  BY <1>12, <1>13

-----------------------------------------------------------------------------
\* A text f is in the text u from the place i on.
Match(u, f, i) == i \in 0 .. Len(u) - Len(f) /\ \A l \in 1 .. Len(f) : u[i + l] = f[l]

LEMMA PartMatches ==
  ASSUME NEW u \in Seq(Character), NEW f \in Seq(Character), NEW i \in 0 .. Len(u) - Len(f)
  PROVE  SubSeq(u, i + 1, i + Len(f)) = f <=> Match(u, f, i)
<1>1. PICK p, q : p = i /\ q = i + Len(f) /\ q - p = Len(f) /\ p \in Nat /\ q \in p .. Len(u)
  <2>1. Len(f) \in Nat /\ Len(u) \in Nat
    OBVIOUS
  <2> QED
    BY <2>1
<1>2. /\ SubSeq(u, p + 1, q) \in Seq(Character) /\ Len(SubSeq(u, p + 1, q)) = q - p
      /\ \A l \in 1 .. q - p : SubSeq(u, p + 1, q)[l] = u[p + l]
  BY ONLY <1>1, u \in Seq(Character), PartAt, SMTT(30)
<1>3. PICK x \in Seq(Character) : x = SubSeq(u, i + 1, i + Len(f))
  BY ONLY <1>1, <1>2, Zenon
<1>4. Len(x) = Len(f) /\ \A l \in 1 .. Len(f) : x[l] = u[i + l]
  BY ONLY <1>1, <1>2, <1>3, Zenon
<1>5. x = f <=> \A l \in 1 .. Len(f) : x[l] = f[l]
  BY ONLY <1>4, x \in Seq(Character), f \in Seq(Character), SeqEqual
<1>6. (\A l \in 1 .. Len(f) : x[l] = f[l]) <=> (\A l \in 1 .. Len(f) : u[i + l] = f[l])
  BY ONLY <1>4, Zenon
<1> QED
  BY <1>3, <1>5, <1>6 DEF Match

\* A text that someone types is in the array before the cursor or after it.
MatchesIn(cs, b, a, n, f) ==
  \A i : Match(cs, f, i) <=> Match(b, f, i) \/ \E l : Match(a, f, l) /\ i = (n + 1) + l

LEMMA MatchesAround ==
  ASSUME NEW b \in Seq(Plain), NEW a \in Seq(Plain), NEW k \in {1, 2}, NEW f \in Seq(Plain), f # <<>>
  PROVE  MatchesIn(Held(Row(b, a, k)), b, a, Len(b), f)
<1>1. PICK v, cs, n, m, d : /\ v = Row(b, a, k) /\ cs = Held(v) /\ n = Len(b) /\ m = Len(a) /\ d = Len(f)
                            /\ n \in Nat /\ m \in Nat /\ d \in Nat /\ d > 0
  <2>1. Len(b) \in Nat /\ Len(a) \in Nat /\ Len(f) \in Nat /\ Len(f) > 0
    BY PlainTexts
  <2> QED
    BY <2>1
<1>2. /\ Len(cs) = (n + m) + 1 /\ cs[n + 1] \notin Plain
      /\ (\A i \in 1 .. n : cs[i] = b[i]) /\ (\A i \in 1 .. m : cs[(n + 1) + i] = a[i])
  <2>1. v \in Line /\ v.before = b /\ v.after = a
    <3>1. InRow(Row(b, a, k), Text(b, a, k), b, a, k)
      BY RowHolds
    <3> QED
      BY ONLY <1>1, <3>1, Zenon DEF InRow
  <2>2. /\ Len(cs) = Len(v.before) + 1 + Len(v.after) /\ v.shape \in {1, 2}
        /\ cs[Len(v.before) + 1] = Shape(v.shape)
        /\ (\A i \in 1 .. Len(v.before) : cs[i] = v.before[i])
        /\ (\A i \in 1 .. Len(v.after) : cs[Len(v.before) + 1 + i] = v.after[i])
    BY ONLY <1>1, <2>1, HeldIs
  <2>3. Shape(v.shape) \notin Plain
    BY ONLY <2>2, ShapeIs
  <2>4. /\ Len(cs) = (n + 1) + m /\ cs[n + 1] \notin Plain
        /\ (\A i \in 1 .. n : cs[i] = b[i]) /\ (\A i \in 1 .. m : cs[(n + 1) + i] = a[i])
    BY ONLY <1>1, <2>1, <2>2, <2>3, ZenonT(40)
  <2>5. (n + 1) + m = (n + m) + 1
    BY <1>1
  <2> QED
    BY ONLY <2>4, <2>5, Zenon
<1>3. ASSUME NEW i, Match(b, f, i) PROVE Match(cs, f, i)
  <2>1. i \in 0 .. n - d /\ \A l \in 1 .. d : b[i + l] = f[l]
    BY <1>1, <1>3 DEF Match
  <2>2. i \in 0 .. Len(cs) - d
    BY <1>1, <1>2, <2>1
  <2>3. \A l \in 1 .. d : cs[i + l] = f[l]
    <3> TAKE l \in 1 .. d
    <3>1. i + l \in 1 .. n
      BY <1>1, <2>1
    <3> QED
      BY <1>2, <2>1, <3>1
  <2> QED
    BY <1>1, <2>2, <2>3 DEF Match
<1>4. ASSUME NEW i, NEW l, Match(a, f, l), i = (n + 1) + l PROVE Match(cs, f, i)
  <2>1. l \in 0 .. m - d /\ \A x \in 1 .. d : a[l + x] = f[x]
    BY <1>1, <1>4 DEF Match
  <2>2. i \in 0 .. Len(cs) - d
    BY <1>1, <1>2, <1>4, <2>1
  <2>3. \A x \in 1 .. d : cs[i + x] = f[x]
    <3> TAKE x \in 1 .. d
    <3>1. l + x \in 1 .. m /\ i + x = (n + 1) + (l + x)
      BY <1>1, <1>4, <2>1
    <3> QED
      BY <1>2, <2>1, <3>1
  <2> QED
    BY <1>1, <2>2, <2>3 DEF Match
<1>5. ASSUME NEW i, Match(cs, f, i)
      PROVE  Match(b, f, i) \/ \E l : Match(a, f, l) /\ i = (n + 1) + l
  <2>1. i \in 0 .. ((n + m) + 1) - d /\ \A l \in 1 .. d : cs[i + l] = f[l]
    BY <1>1, <1>2, <1>5 DEF Match
  <2>2. CASE i + d <= n
    <3>1. i \in 0 .. n - d
      BY <1>1, <2>1, <2>2
    <3>2. \A l \in 1 .. d : b[i + l] = f[l]
      <4> TAKE l \in 1 .. d
      <4>1. i + l \in 1 .. n
        BY <1>1, <2>1, <2>2
      <4> QED
        BY <1>2, <2>1, <4>1
    <3> QED
      BY <1>1, <3>1, <3>2 DEF Match
  <2>3. CASE i >= n + 1
    <3>1. PICK l : l = i - (n + 1) /\ i = (n + 1) + l /\ l \in 0 .. m - d
      <4>1. i = (n + 1) + (i - (n + 1)) /\ i - (n + 1) \in 0 .. m - d
        BY <1>1, <2>1, <2>3
      <4> QED
        BY <4>1
    <3>2. \A x \in 1 .. d : a[l + x] = f[x]
      <4> TAKE x \in 1 .. d
      <4>1. l + x \in 1 .. m /\ i + x = (n + 1) + (l + x)
        BY <1>1, <3>1
      <4>2. cs[(n + 1) + (l + x)] = a[l + x]
        BY <1>2, <4>1
      <4> QED
        BY <2>1, <4>1, <4>2
    <3> QED
      BY <1>1, <3>1, <3>2 DEF Match
  <2>4. CASE ~ (i + d <= n) /\ ~ (i >= n + 1)
    <3>1. PICK l \in 1 .. d : i + l = n + 1
      <4>1. (n + 1) - i \in 1 .. d /\ i + ((n + 1) - i) = n + 1
        BY <1>1, <2>1, <2>4
      <4> QED
        BY <4>1
    <3>2. f[l] \in Plain
      BY <1>1
    <3> QED
      BY <1>2, <2>1, <3>1, <3>2
  <2> QED
    BY <2>2, <2>3, <2>4
<1>6. MatchesIn(cs, b, a, n, f)
  BY <1>3, <1>4, <1>5, Zenon DEF MatchesIn
<1> QED
  BY ONLY <1>1, <1>6, Zenon

\* The first place of a text in another, found by the array's search and by
\* the editor's.
FirstMatch(u, f, i) == Match(u, f, i) /\ \A j : Match(u, f, j) => i <= j

LEMMA SomeFirst ==
  ASSUME NEW u, NEW f, NEW j, Match(u, f, j)
  PROVE  \E i : FirstMatch(u, f, i)
<1> DEFINE S == {i \in Nat : Match(u, f, i)}
<1>1. \A i : Match(u, f, i) => i \in Nat
  BY DEF Match
<1>2. S \in SUBSET Nat /\ S # {} /\ \A i : i \in S <=> Match(u, f, i)
  BY <1>1
<1>3. PICK i \in S : \A c \in S : i <= c
  <2> HIDE DEF S
  <2> QED
    BY ONLY <1>2, LeastNatural
<1> HIDE DEF S
<1> QED
  BY ONLY <1>2, <1>3, Zenon DEF FirstMatch

LEMMA FindsMatch ==
  ASSUME NEW cs \in Seq(Character), NEW f \in Seq(Character), f # <<>>
  PROVE  /\ (\A i : ~ Match(cs, f, i)) => strstr(FlattenSeq(cs), FlattenSeq(f)) = Null
         /\ \A i : FirstMatch(cs, f, i) => strstr(FlattenSeq(cs), FlattenSeq(f)) = Off(cs, i)
<1>1. \A i : i \in Found(cs, f) <=> Match(cs, f, i)
  <2> TAKE i
  <2>1. CASE i \in 0 .. Len(cs) - Len(f)
    <3>1. SubSeq(cs, i + 1, i + Len(f)) = f <=> Match(cs, f, i)
      BY <2>1, PartMatches
    <3> QED
      BY <2>1, <3>1 DEF Found
  <2>2. CASE i \notin 0 .. Len(cs) - Len(f)
    BY <2>2 DEF Found, Match
  <2> QED
    BY <2>1, <2>2
<1>2. PICK H : H = Found(cs, f)
  OBVIOUS
<1>3. /\ H = {} => strstr(FlattenSeq(cs), FlattenSeq(f)) = Null
      /\ \A i \in H : (\A j \in H : i <= j) => strstr(FlattenSeq(cs), FlattenSeq(f)) = Off(cs, i)
  <2>1. /\ Found(cs, f) = {} => strstr(FlattenSeq(cs), FlattenSeq(f)) = Null
        /\ \A i \in Found(cs, f) : (\A j \in Found(cs, f) : i <= j) =>
             strstr(FlattenSeq(cs), FlattenSeq(f)) = Off(cs, i)
    BY Finds
  <2> QED
    BY ONLY <1>2, <2>1, Zenon
<1> QED
  BY ONLY <1>1, <1>2, <1>3, Zenon DEF FirstMatch

LEMMA PlacesMatch ==
  ASSUME NEW w \in Seq(Plain), NEW f \in Seq(Plain)
  PROVE  /\ (\A i : ~ Match(w, f, i)) => E!Places(w, f) = {}
         /\ \A i : FirstMatch(w, f, i) => E!Places(w, f) # {} /\ E!Min(E!Places(w, f)) = i + 1
<1>1. PICK z, d : z = Len(w) /\ d = Len(f) /\ z \in Nat /\ d \in Nat
  BY PlainTexts
<1>2. w \in Seq(Character) /\ f \in Seq(Character)
  BY PlainTexts
<1>3. ASSUME NEW i \in 0 .. z - d
      PROVE  i + 1 \in E!Places(w, f) <=> Match(w, f, i)
  <2>1. i \in 0 .. Len(w) - Len(f)
    BY <1>1
  <2>2. SubSeq(w, i + 1, i + Len(f)) = f <=> Match(w, f, i)
    BY ONLY <1>2, <2>1, PartMatches
  <2>3. i + 1 \in 1 .. (z - d) + 1 /\ (i + 1) + d - 1 = i + d
    BY <1>1
  <2>4. i + 1 \in E!Places(w, f) <=> SubSeq(w, i + 1, i + Len(f)) = f
    <3>1. PICK x : x = i + 1
      OBVIOUS
    <3>2. x \in 1 .. (z - d) + 1 /\ x + d - 1 = i + d
      BY <2>3, <3>1
    <3>3. x \in E!Places(w, f) <=> SubSeq(w, x, i + d) = f
      BY ONLY <1>1, <3>2, Zenon DEF E!Places
    <3> QED
      BY <1>1, <3>1, <3>3
  <2> QED
    BY <2>2, <2>4
<1>4. \A x \in E!Places(w, f) : x \in Int /\ \E i \in 0 .. z - d : x = i + 1
  <2> TAKE x \in E!Places(w, f)
  <2>1. x \in 1 .. (z - d) + 1
    BY <1>1 DEF E!Places
  <2>2. x - 1 \in 0 .. z - d /\ x = (x - 1) + 1
    BY <1>1, <2>1
  <2> QED
    BY <2>1, <2>2
<1>5. PICK H : H = E!Places(w, f)
  OBVIOUS
<1>6. ASSUME \A i : ~ Match(w, f, i) PROVE H = {}
  BY <1>3, <1>4, <1>5, <1>6
<1>7. ASSUME NEW i, FirstMatch(w, f, i) PROVE H # {} /\ E!Min(H) = i + 1
  <2>1. i \in 0 .. z - d /\ Match(w, f, i)
    BY <1>1, <1>7 DEF FirstMatch, Match
  <2>2. i + 1 \in H
    BY <1>3, <1>5, <2>1
  <2>3. \A y \in H : i + 1 <= y
    <3> TAKE y \in H
    <3>1. PICK l \in 0 .. z - d : y = l + 1
      BY <1>4, <1>5
    <3>2. Match(w, f, l)
      BY <1>3, <1>5, <3>1
    <3>3. i <= l
      BY <1>7, <3>2 DEF FirstMatch
    <3> QED
      BY <1>1, <2>1, <3>1, <3>3
  <2>4. H \in SUBSET Int
    BY <1>4, <1>5
  <2>5. PICK x \in H : x = i + 1
    BY <2>2
  <2>6. E!Min(H) = x
    <3>1. \A y \in H : x <= y
      BY <2>3, <2>5
    <3> QED
      BY ONLY <2>4, <2>5, <3>1, EditorMin
  <2> QED
    BY <2>5, <2>6
<1> QED
  BY <1>5, <1>6, <1>7

\* A text cut around a part of it.
CutsAt(w, f, i) == \E x \in Seq(Plain), y \in Seq(Plain) : w = (x \o f) \o y /\ Len(x) = i
LEMMA CutAround ==
  ASSUME NEW w \in Seq(Plain), NEW f \in Seq(Plain), NEW i, Match(w, f, i)
  PROVE  CutsAt(w, f, i)
<1>1. PICK z, d : z = Len(w) /\ d = Len(f) /\ z \in Nat /\ d \in Nat
  BY PlainTexts
<1>2. i \in 0 .. Len(w) /\ i + d <= z /\ i \in Nat /\ \A l \in 1 .. d : w[i + l] = f[l]
  BY <1>1 DEF Match
<1>3. PICK x \in Seq(Plain), r \in Seq(Plain) :
        /\ w = x \o r /\ Len(x) = i /\ Len(r) = Len(w) - i
        /\ x = SubSeq(w, 1, i) /\ r = SubSeq(w, i + 1, Len(w))
        /\ (\A l \in 1 .. i : x[l] = w[l]) /\ (\A l \in 1 .. Len(r) : r[l] = w[i + l])
  BY ONLY w \in Seq(Plain), <1>2, CutAt
<1>4. d \in 0 .. Len(r) /\ Len(r) \in Nat
  <2>1. Len(r) = z - i
    BY <1>1, <1>3
  <2> QED
    BY ONLY <1>1, <1>2, <2>1
<1>5. PICK e \in Seq(Plain), y \in Seq(Plain) :
        /\ r = e \o y /\ Len(e) = d /\ Len(y) = Len(r) - d
        /\ e = SubSeq(r, 1, d) /\ y = SubSeq(r, d + 1, Len(r))
        /\ (\A l \in 1 .. d : e[l] = r[l]) /\ (\A l \in 1 .. Len(y) : y[l] = r[d + l])
  BY ONLY r \in Seq(Plain), <1>4, CutAt
<1>6. \A l \in 1 .. d : e[l] = f[l]
  <2> TAKE l \in 1 .. d
  <2>1. e[l] = r[l] /\ l \in 1 .. Len(r)
    <3>1. e[l] = r[l]
      BY ONLY <1>5, l \in 1 .. d, Zenon
    <3>2. l \in 1 .. Len(r)
      BY ONLY <1>1, <1>4, l \in 1 .. d, SMTT(30)
    <3> QED
      BY <3>1, <3>2
  <2>2. r[l] = w[i + l]
    BY <1>3, <2>1
  <2>3. w[i + l] = f[l]
    BY <1>2
  <2> QED
    BY ONLY <2>1, <2>2, <2>3, Zenon
<1>7. e = f
  BY ONLY <1>1, <1>5, <1>6, e \in Seq(Plain), f \in Seq(Plain), SeqEqual
<1>8. w = (x \o e) \o y
  <2>1. x \o (e \o y) = (x \o e) \o y
    BY ONLY x \in Seq(Plain), e \in Seq(Plain), y \in Seq(Plain), SMTT(30)
  <2> QED
    BY ONLY <1>3, <1>5, <2>1, Zenon
<1> QED
  BY ONLY <1>3, <1>7, <1>8, y \in Seq(Plain), Zenon DEF CutsAt

-----------------------------------------------------------------------------
\* Bytes exchanged for others before the cursor and after it.
Together(w, x, y) == w \o (x \o y) = (w \o x) \o y
LEMMA Associates ==
  ASSUME NEW w \in Seq(Byte), NEW x \in Seq(Byte), NEW y \in Seq(Byte)
  PROVE  Together(w, x, y)
<1>1. w \o (x \o y) = (w \o x) \o y
  BY ONLY w \in Seq(Byte), x \in Seq(Byte), y \in Seq(Byte), SMTT(30)
<1> QED
  BY <1>1 DEF Together

Spliced(t, p, f, g, u) ==
  /\ (Upto(t, p) \o FlattenSeq(g)) \o From(t, p + Len(FlattenSeq(f))) = u
  /\ Len(u) = (Len(t) - Len(FlattenSeq(f))) + Len(FlattenSeq(g))

LEMMA SpliceBefore ==
  ASSUME NEW x \in Seq(Plain), NEW f \in Seq(Plain), NEW y \in Seq(Plain), NEW g \in Seq(Plain),
         NEW a \in Seq(Plain), NEW k \in {1, 2}
  PROVE  Spliced(Text((x \o f) \o y, a, k), Len(FlattenSeq(x)), f, g, Text((x \o g) \o y, a, k))
<1>1. PICK w, h, i, z, o, e : /\ w = FlattenSeq(x) /\ h = FlattenSeq(f) /\ i = FlattenSeq(g)
                              /\ z = FlattenSeq(y) /\ o = Shape(k) /\ e = FlattenSeq(a)
  OBVIOUS
<1>2. /\ w \in Seq(Byte) /\ h \in Seq(Byte) /\ i \in Seq(Byte) /\ z \in Seq(Byte)
      /\ o \in Seq(Byte) /\ e \in Seq(Byte)
  <2>1. w \in Seq(Byte) /\ h \in Seq(Byte) /\ i \in Seq(Byte) /\ z \in Seq(Byte) /\ e \in Seq(Byte)
    BY <1>1, PlainTexts
  <2>2. o \in Seq(Byte)
    BY <1>1, ShapeIs
  <2> QED
    BY <2>1, <2>2
<1>3. PICK c, t, u : c = o \o e /\ t = Text((x \o f) \o y, a, k) /\ u = Text((x \o g) \o y, a, k)
  OBVIOUS
<1>4. c \in Seq(Byte)
  BY ONLY <1>2, <1>3, ConcatProperties
<1>5. FlattenSeq((x \o f) \o y) = (w \o h) \o z /\ FlattenSeq((x \o g) \o y) = (w \o i) \o z
  <2>1. PICK d \in Seq(Plain) : d = x \o f /\ FlattenSeq(d) = w \o h
    BY <1>1, FlatTwo
  <2>2. PICK d2 \in Seq(Plain) : d2 = x \o g /\ FlattenSeq(d2) = w \o i
    BY <1>1, FlatTwo
  <2>3. FlattenSeq(d \o y) = FlattenSeq(d) \o FlattenSeq(y)
    BY FlatTwo
  <2>4. FlattenSeq(d2 \o y) = FlattenSeq(d2) \o FlattenSeq(y)
    BY FlatTwo
  <2> QED
    BY ONLY <1>1, <2>1, <2>2, <2>3, <2>4, Zenon
<1>6. t = ((w \o h) \o z) \o c /\ u = ((w \o i) \o z) \o c
  <2>1. PICK p, q : p = (w \o h) \o z /\ q = (w \o i) \o z
    OBVIOUS
  <2>2. p \in Seq(Byte) /\ q \in Seq(Byte)
    <3>1. w \o h \in Seq(Byte) /\ w \o i \in Seq(Byte)
      BY ONLY <1>2, ConcatProperties
    <3> QED
      BY ONLY <1>2, <2>1, <3>1, ConcatProperties
  <2>3. Together(p, o, e)
    BY ONLY <1>2, <2>2, Associates
  <2>4. Together(q, o, e)
    BY ONLY <1>2, <2>2, Associates
  <2> QED
    BY ONLY <1>1, <1>3, <1>5, <2>1, <2>3, <2>4, Zenon DEF Text, Together
<1>7. Upto(t, Len(w)) = w /\ From(t, Len(w) + Len(h)) = z \o c
      /\ Len(t) = (Len(w) + Len(h)) + (Len(z) + Len(c))
  <2>1. Quarters(((w \o h) \o z) \o c, w, h, z, c)
    BY ONLY <1>2, <1>4, FourParts
  <2> QED
    BY ONLY <1>6, <2>1, Zenon DEF Quarters
<1>8. Len(u) = (Len(w) + Len(i)) + (Len(z) + Len(c)) /\ (w \o i) \o (z \o c) = u
  <2>1. Quarters(((w \o i) \o z) \o c, w, i, z, c)
    BY ONLY <1>2, <1>4, FourParts
  <2>2. Regrouped(w, i, z, c)
    BY ONLY <1>2, <1>4, Regroup
  <2> QED
    BY ONLY <1>6, <2>1, <2>2, Zenon DEF Quarters, Regrouped
<1>9. Len(u) = (Len(t) - Len(h)) + Len(i)
  <2>1. Len(w) \in Nat /\ Len(h) \in Nat /\ Len(i) \in Nat /\ Len(z) \in Nat /\ Len(c) \in Nat
    BY <1>2, <1>4
  <2> QED
    BY ONLY <1>7, <1>8, <2>1
<1> QED
  BY ONLY <1>1, <1>3, <1>7, <1>8, <1>9, Zenon DEF Spliced

LEMMA SpliceAfter ==
  ASSUME NEW x \in Seq(Plain), NEW f \in Seq(Plain), NEW y \in Seq(Plain), NEW g \in Seq(Plain),
         NEW b \in Seq(Plain), NEW k \in {1, 2}
  PROVE  Spliced(Text(b, (x \o f) \o y, k), (Len(FlattenSeq(b)) + CLEN) + Len(FlattenSeq(x)), f, g,
                 Text(b, (x \o g) \o y, k))
<1>1. PICK w, h, i, z, o, e : /\ w = FlattenSeq(x) /\ h = FlattenSeq(f) /\ i = FlattenSeq(g)
                              /\ z = FlattenSeq(y) /\ o = Shape(k) /\ e = FlattenSeq(b)
  OBVIOUS
<1>2. /\ w \in Seq(Byte) /\ h \in Seq(Byte) /\ i \in Seq(Byte) /\ z \in Seq(Byte)
      /\ o \in Seq(Byte) /\ e \in Seq(Byte) /\ Len(o) = CLEN
  <2>1. w \in Seq(Byte) /\ h \in Seq(Byte) /\ i \in Seq(Byte) /\ z \in Seq(Byte) /\ e \in Seq(Byte)
    BY <1>1, PlainTexts
  <2>2. o \in Seq(Byte) /\ Len(o) = CLEN
    BY <1>1, ShapeIs
  <2> QED
    BY <2>1, <2>2
<1>3. PICK c, t, u : c = e \o o /\ t = Text(b, (x \o f) \o y, k) /\ u = Text(b, (x \o g) \o y, k)
  OBVIOUS
<1>4. c \in Seq(Byte) /\ Len(c) = Len(e) + CLEN
  BY ONLY <1>2, <1>3, ConcatProperties
<1>5. FlattenSeq((x \o f) \o y) = (w \o h) \o z /\ FlattenSeq((x \o g) \o y) = (w \o i) \o z
  <2>1. PICK d \in Seq(Plain) : d = x \o f /\ FlattenSeq(d) = w \o h
    BY <1>1, FlatTwo
  <2>2. PICK d2 \in Seq(Plain) : d2 = x \o g /\ FlattenSeq(d2) = w \o i
    BY <1>1, FlatTwo
  <2>3. FlattenSeq(d \o y) = FlattenSeq(d) \o FlattenSeq(y)
    BY FlatTwo
  <2>4. FlattenSeq(d2 \o y) = FlattenSeq(d2) \o FlattenSeq(y)
    BY FlatTwo
  <2> QED
    BY ONLY <1>1, <2>1, <2>2, <2>3, <2>4, Zenon
<1>6. t = ((c \o w) \o h) \o z /\ u = ((c \o w) \o i) \o z
  <2>1. PICK p, q : p = w \o h /\ q = w \o i
    OBVIOUS
  <2>2. p \in Seq(Byte) /\ q \in Seq(Byte)
    BY ONLY <1>2, <2>1, ConcatProperties
  <2>3. Together(c, p, z)
    BY ONLY <1>2, <1>4, <2>2, Associates
  <2>4. Together(c, q, z)
    BY ONLY <1>2, <1>4, <2>2, Associates
  <2>5. Together(c, w, h)
    BY ONLY <1>2, <1>4, Associates
  <2>6. Together(c, w, i)
    BY ONLY <1>2, <1>4, Associates
  <2> QED
    BY ONLY <1>1, <1>3, <1>5, <2>1, <2>3, <2>4, <2>5, <2>6, Zenon DEF Text, Together
<1>7. Upto(t, Len(c) + Len(w)) = c \o w /\ From(t, (Len(c) + Len(w)) + Len(h)) = z
      /\ Len(t) = (Len(c) + Len(w)) + (Len(h) + Len(z))
  <2>1. Quarters(((c \o w) \o h) \o z, c, w, h, z)
    BY ONLY <1>2, <1>4, FourParts
  <2> QED
    BY ONLY <1>6, <2>1, Zenon DEF Quarters
<1>8. Len(u) = (Len(c) + Len(w)) + (Len(i) + Len(z))
  <2>1. Quarters(((c \o w) \o i) \o z, c, w, i, z)
    BY ONLY <1>2, <1>4, FourParts
  <2> QED
    BY ONLY <1>6, <2>1, Zenon DEF Quarters
<1>9. Len(u) = (Len(t) - Len(h)) + Len(i)
  <2>1. Len(w) \in Nat /\ Len(h) \in Nat /\ Len(i) \in Nat /\ Len(z) \in Nat /\ Len(c) \in Nat
    BY <1>2, <1>4, SMTT(30)
  <2> QED
    BY ONLY <1>7, <1>8, <2>1
<1> QED
  BY ONLY <1>1, <1>3, <1>4, <1>6, <1>7, <1>9, Zenon DEF Spliced

\* The same in the editor.
PutsAt(x, f, y, g) ==
  /\ E!Put((x \o f) \o y, Len(x) + 1, f, g) = (x \o g) \o y
  /\ (x \o g) \o y \in Seq(Plain)
LEMMA PutIs ==
  ASSUME NEW x \in Seq(Plain), NEW f \in Seq(Plain), NEW y \in Seq(Plain), NEW g \in Seq(Plain)
  PROVE  PutsAt(x, f, y, g)
<1>1. PICK d, e, w, n, m : /\ d = x \o f /\ e = f \o y /\ w = d \o y /\ n = Len(x) /\ m = Len(f)
  OBVIOUS
<1>2. /\ d \in Seq(Plain) /\ e \in Seq(Plain) /\ n \in Nat /\ m \in Nat /\ Len(d) = n + m
      /\ w = x \o e /\ x \o g \in Seq(Plain)
  <2>1. d \in Seq(Plain) /\ e \in Seq(Plain) /\ n \in Nat /\ m \in Nat /\ Len(d) = n + m /\ x \o g \in Seq(Plain)
    BY <1>1, ConcatProperties, LenProperties
  <2>2. (x \o f) \o y = x \o (f \o y)
    BY ONLY x \in Seq(Plain), f \in Seq(Plain), y \in Seq(Plain), SMTT(30)
  <2> QED
    BY ONLY <1>1, <2>1, <2>2, Zenon
<1>3. SubSeq(w, 1, n) = x
  <2>1. SubSeq(x \o e, 1, Len(x)) = x
    BY ONLY <1>2, x \in Seq(Plain), HeadAndRest
  <2> QED
    BY ONLY <1>1, <1>2, <2>1, Zenon
<1>4. SubSeq(w, (n + m) + 1, Len(w)) = y
  <2>1. SubSeq(d \o y, Len(d) + 1, Len(d \o y)) = y
    BY ONLY <1>2, y \in Seq(Plain), HeadAndRest
  <2> QED
    BY ONLY <1>1, <1>2, <2>1, Zenon
<1>5. (n + 1) - 1 = n /\ (n + 1) + m = (n + m) + 1
  BY <1>2
<1>6. E!Put(w, n + 1, f, g) = (x \o g) \o y
  BY ONLY <1>1, <1>3, <1>4, <1>5, Zenon DEF E!Put
<1>7. (x \o g) \o y \in Seq(Plain)
  BY <1>2, ConcatProperties
<1> QED
  BY ONLY <1>1, <1>6, <1>7, Zenon DEF PutsAt

-----------------------------------------------------------------------------
\* A rule applied to the array and to the text.
Applies(b, a, k, r, e) ==
  /\ e[1] \in Seq(Plain) /\ e[2] \in Seq(Plain) /\ e = <<e[1], e[2]>>
  /\ replace(Text(b, a, k), r) = Text(e[1], e[2], k)
  /\ Len(Text(b, a, k)) < SIZE => Len(Text(e[1], e[2], k)) < SIZE

\* A rule that does not apply.
LEMMA NotApplied ==
  ASSUME NEW b \in Seq(Plain), NEW a \in Seq(Plain), NEW k, NEW r,
         replace(Text(b, a, k), r) = Text(b, a, k)
  PROVE  Applies(b, a, k, r, <<b, a>>)
BY DEF Applies

\* A rule that puts the text u in place of t at p.
LEMMA IsApplied ==
  ASSUME NEW t, NEW u, NEW p, NEW r, NEW f, NEW g, r[1] = f, r[2] = g,
         strstr(t, FlattenSeq(f)) = p, p # Null, Spliced(t, p, f, g, u),
         ~ ((Len(t) - Len(FlattenSeq(f))) + Len(FlattenSeq(g)) >= SIZE)
  PROVE  replace(t, r) = u
BY Zenon DEF replace, Spliced

LEMMA RoomUsed ==
  ASSUME NEW b \in Seq(Plain), NEW a \in Seq(Plain), NEW k \in {1, 2}
  PROVE  /\ E!Used(b, a) = Len(Text(b, a, k))
         /\ \A f : E!Bytes(f) = Len(FlattenSeq(f))
<1>1. \A f : E!Bytes(f) = Len(FlattenSeq(f))
  BY DEF E!Bytes, E!FlattenSeq, FlattenSeq
<1>2. Len(Text(b, a, k)) = (Len(FlattenSeq(b)) + CLEN) + Len(FlattenSeq(a))
  BY Rows
<1> QED
  BY <1>1, <1>2 DEF E!Used

PlacedBefore(b, c, a, k) == Off(Held(Row(b \o c, a, k)), Len(b)) = Len(FlattenSeq(b))
LEMMA PlaceBefore ==
  ASSUME NEW b \in Seq(Plain), NEW c \in Seq(Plain), NEW a \in Seq(Plain), NEW k \in {1, 2}
  PROVE  PlacedBefore(b, c, a, k)
<1>1. Off(Held(Row(b \o c, a, k)), Len(b)) = Len(FlattenSeq(b))
  BY Offsets, ZenonT(40)
<1> QED
  BY ONLY <1>1, Zenon DEF PlacedBefore

LEMMA ReplaceBefore ==
  ASSUME NEW b \in Seq(Plain), NEW a \in Seq(Plain), NEW k \in {1, 2},
         NEW r, NEW f \in Seq(Plain), f # <<>>, NEW g \in Seq(Plain), r[1] = f, r[2] = g,
         NEW i, FirstMatch(b, f, i),
         ~ ((Len(Text(b, a, k)) - Len(FlattenSeq(f))) + Len(FlattenSeq(g)) >= SIZE)
  PROVE  Applies(b, a, k, r, E!Apply(<<b, a>>, r))
<1>1. PICK t, cs, n : t = Text(b, a, k) /\ cs = Held(Row(b, a, k)) /\ n = Len(b) /\ n \in Nat
  BY PlainTexts
<1>2. PICK x \in Seq(Plain), y \in Seq(Plain) : b = (x \o f) \o y /\ Len(x) = i
  <2>1. Match(b, f, i)
    BY DEF FirstMatch
  <2>2. CutsAt(b, f, i)
    BY ONLY <2>1, b \in Seq(Plain), f \in Seq(Plain), CutAround
  <2> QED
    BY ONLY <2>2, Zenon DEF CutsAt
<1>3. PICK u : u = Text((x \o g) \o y, a, k)
  OBVIOUS
<1>4. Spliced(t, Len(FlattenSeq(x)), f, g, u)
  <2>1. Spliced(Text((x \o f) \o y, a, k), Len(FlattenSeq(x)), f, g, Text((x \o g) \o y, a, k))
    BY SpliceBefore
  <2> QED
    BY ONLY <1>1, <1>2, <1>3, <2>1, Zenon
<1>5. cs \in Seq(Character) /\ FlattenSeq(cs) = t
  <2>1. InRow(Row(b, a, k), Text(b, a, k), b, a, k)
    BY RowHolds
  <2>2. Row(b, a, k) \in Line
    BY ONLY <2>1, Zenon DEF InRow
  <2>3. Held(Row(b, a, k)) \in Seq(Character)
    BY ONLY <2>2, HeldIs
  <2> QED
    BY ONLY <1>1, <2>1, <2>3, Zenon DEF InRow
<1>6. FirstMatch(cs, f, i)
  <2>1. MatchesIn(cs, b, a, n, f)
    BY <1>1, MatchesAround
  <2>2. Match(cs, f, i)
    BY ONLY <2>1, FirstMatch(b, f, i), Zenon DEF MatchesIn, FirstMatch
  <2>3. i \in Nat /\ i <= n
    <3>1. Len(f) \in Nat /\ i \in 0 .. n - Len(f)
      BY <1>1, PlainTexts DEF FirstMatch, Match
    <3> QED
      BY <1>1, <3>1
  <2>4. ASSUME NEW j, Match(cs, f, j) PROVE i <= j
    <3>1. CASE Match(b, f, j)
      BY <3>1 DEF FirstMatch
    <3>2. CASE \E l : Match(a, f, l) /\ j = (n + 1) + l
      <4>1. PICK l : Match(a, f, l) /\ j = (n + 1) + l
        BY <3>2
      <4>2. l \in Nat
        BY <4>1 DEF Match
      <4> QED
        BY <1>1, <2>3, <4>1, <4>2
    <3> QED
      BY <2>1, <2>4, <3>1, <3>2 DEF MatchesIn
  <2> QED
    BY <2>2, <2>4, Zenon DEF FirstMatch
<1>7. strstr(t, FlattenSeq(f)) = Len(FlattenSeq(x)) /\ Len(FlattenSeq(x)) # Null
  <2>1. strstr(FlattenSeq(cs), FlattenSeq(f)) = Off(cs, i)
    <3>1. f \in Seq(Character)
      BY PlainTexts
    <3> QED
      BY ONLY <1>5, <1>6, <3>1, f # <<>>, FindsMatch
  <2>2. Off(cs, i) = Len(FlattenSeq(x))
    <3>1. PICK c \in Seq(Plain) : c = f \o y
      BY ConcatProperties
    <3>2. PlacedBefore(x, c, a, k)
      BY PlaceBefore
    <3>3. x \o (f \o y) = (x \o f) \o y
      BY ONLY x \in Seq(Plain), f \in Seq(Plain), y \in Seq(Plain), SMTT(30)
    <3> QED
      BY ONLY <1>1, <1>2, <3>1, <3>2, <3>3, Zenon DEF PlacedBefore
  <2>3. Len(FlattenSeq(x)) # Null
    BY PlainTexts DEF Null
  <2> QED
    BY ONLY <1>5, <2>1, <2>2, <2>3, Zenon
<1>8. replace(t, r) = u
  <2>1. ~ ((Len(t) - Len(FlattenSeq(f))) + Len(FlattenSeq(g)) >= SIZE)
    BY <1>1
  <2> QED
    BY ONLY <1>4, <1>7, <2>1, r[1] = f, r[2] = g, IsApplied
<1>9. E!Apply(<<b, a>>, r) = <<(x \o g) \o y, a>>
  <2>1. E!Places(b, f) # {} /\ E!Min(E!Places(b, f)) = i + 1
    BY ONLY b \in Seq(Plain), f \in Seq(Plain), FirstMatch(b, f, i), PlacesMatch
  <2>2. PutsAt(x, f, y, g)
    BY PutIs
  <2>3. E!Put(b, i + 1, f, g) = (x \o g) \o y
    BY ONLY <1>2, <2>2, Zenon DEF PutsAt
  <2>4. ~ ((E!Used(b, a) - E!Bytes(f)) + E!Bytes(g) >= SIZE)
    <3>1. E!Used(b, a) = Len(Text(b, a, k)) /\ \A h : E!Bytes(h) = Len(FlattenSeq(h))
      BY RoomUsed
    <3>2. E!Bytes(f) = Len(FlattenSeq(f)) /\ E!Bytes(g) = Len(FlattenSeq(g))
      BY <3>1
    <3> QED
      BY ONLY <3>1, <3>2, ~ ((Len(Text(b, a, k)) - Len(FlattenSeq(f))) + Len(FlattenSeq(g)) >= SIZE), Zenon
  <2>5. PICK e : e = <<b, a>> /\ e[1] = b /\ e[2] = a
    <3>1. <<b, a>>[1] = b /\ <<b, a>>[2] = a
      OBVIOUS
    <3> QED
      BY ONLY <3>1, Zenon
  <2> QED
    BY ONLY <2>1, <2>3, <2>4, <2>5, r[1] = f, r[2] = g, Zenon DEF E!Apply
<1>10. PICK c, e : c \in Seq(Plain) /\ c = (x \o g) \o y /\ e = <<c, a>> /\ e[1] = c /\ e[2] = a
  <2>1. PutsAt(x, f, y, g)
    BY PutIs
  <2>2. PICK c \in Seq(Plain) : c = (x \o g) \o y
    BY ONLY <2>1, Zenon DEF PutsAt
  <2>3. <<c, a>>[1] = c /\ <<c, a>>[2] = a
    OBVIOUS
  <2> QED
    BY ONLY <2>2, <2>3, Zenon
<1>11. Len(u) < SIZE
  <2>1. Len(u) = (Len(t) - Len(FlattenSeq(f))) + Len(FlattenSeq(g))
    BY ONLY <1>4, Zenon DEF Spliced
  <2>2. PICK z \in Int : z = Len(u)
    <3>1. Longer(c, a, a, k)
      BY <1>10, Lengths
    <3>2. Len(u) \in Nat
      BY ONLY <1>3, <1>10, <3>1, Zenon DEF Longer
    <3> QED
      BY ONLY <3>2
  <2>3. ~ (z >= SIZE) /\ SIZE \in Nat
    BY <1>1, <2>1, <2>2, ImeAssumption
  <2> QED
    BY ONLY <2>2, <2>3
<1> QED
  BY ONLY <1>1, <1>3, <1>8, <1>9, <1>10, <1>11, a \in Seq(Plain), Zenon DEF Applies

PlacedAfter(b, c, a, k) ==
  Off(Held(Row(b, c \o a, k)), (Len(b) + 1) + Len(c)) = (Len(FlattenSeq(b)) + CLEN) + Len(FlattenSeq(c))
LEMMA PlaceAfter ==
  ASSUME NEW b \in Seq(Plain), NEW c \in Seq(Plain), NEW a \in Seq(Plain), NEW k \in {1, 2}
  PROVE  PlacedAfter(b, c, a, k)
<1>1. Off(Held(Row(b, c \o a, k)), (Len(b) + 1) + Len(c)) = (Len(FlattenSeq(b)) + CLEN) + Len(FlattenSeq(c))
  BY Offsets, ZenonT(40)
<1> QED
  BY ONLY <1>1, Zenon DEF PlacedAfter

LEMMA ReplaceAfter ==
  ASSUME NEW b \in Seq(Plain), NEW a \in Seq(Plain), NEW k \in {1, 2},
         NEW r, NEW f \in Seq(Plain), f # <<>>, NEW g \in Seq(Plain), r[1] = f, r[2] = g,
         \A j : ~ Match(b, f, j), NEW i, FirstMatch(a, f, i),
         ~ ((Len(Text(b, a, k)) - Len(FlattenSeq(f))) + Len(FlattenSeq(g)) >= SIZE)
  PROVE  Applies(b, a, k, r, E!Apply(<<b, a>>, r))
<1>1. PICK t, cs, n : t = Text(b, a, k) /\ cs = Held(Row(b, a, k)) /\ n = Len(b) /\ n \in Nat
  BY PlainTexts
<1>2. PICK x \in Seq(Plain), y \in Seq(Plain) : a = (x \o f) \o y /\ Len(x) = i
  <2>1. Match(a, f, i)
    BY DEF FirstMatch
  <2>2. CutsAt(a, f, i)
    BY ONLY <2>1, a \in Seq(Plain), f \in Seq(Plain), CutAround
  <2> QED
    BY ONLY <2>2, Zenon DEF CutsAt
<1>3. PICK u, p : u = Text(b, (x \o g) \o y, k) /\ p = (Len(FlattenSeq(b)) + CLEN) + Len(FlattenSeq(x))
  OBVIOUS
<1>4. Spliced(t, p, f, g, u)
  <2>1. Spliced(Text(b, (x \o f) \o y, k), (Len(FlattenSeq(b)) + CLEN) + Len(FlattenSeq(x)), f, g,
                Text(b, (x \o g) \o y, k))
    BY SpliceAfter
  <2> QED
    BY ONLY <1>1, <1>2, <1>3, <2>1, Zenon
<1>5. cs \in Seq(Character) /\ FlattenSeq(cs) = t
  <2>1. InRow(Row(b, a, k), Text(b, a, k), b, a, k)
    BY RowHolds
  <2>2. Row(b, a, k) \in Line
    BY ONLY <2>1, Zenon DEF InRow
  <2>3. Held(Row(b, a, k)) \in Seq(Character)
    BY ONLY <2>2, HeldIs
  <2> QED
    BY ONLY <1>1, <2>1, <2>3, Zenon DEF InRow
<1>6. FirstMatch(cs, f, (n + 1) + i)
  <2>1. MatchesIn(cs, b, a, n, f)
    BY <1>1, MatchesAround
  <2>2. Match(cs, f, (n + 1) + i)
    BY ONLY <2>1, FirstMatch(a, f, i), Zenon DEF MatchesIn, FirstMatch
  <2>3. i \in Nat
    BY DEF FirstMatch, Match
  <2>4. ASSUME NEW j, Match(cs, f, j) PROVE (n + 1) + i <= j
    <3>1. PICK l : Match(a, f, l) /\ j = (n + 1) + l
      BY ONLY <2>1, <2>4, \A h : ~ Match(b, f, h), Zenon DEF MatchesIn
    <3>2. l \in Nat /\ i <= l
      <4>1. l \in Nat
        BY <3>1 DEF Match
      <4>2. i <= l
        BY ONLY <3>1, FirstMatch(a, f, i), Zenon DEF FirstMatch
      <4> QED
        BY <4>1, <4>2
    <3> QED
      BY ONLY <1>1, <2>3, <3>1, <3>2
  <2> QED
    BY <2>2, <2>4, Zenon DEF FirstMatch
<1>7. strstr(t, FlattenSeq(f)) = p /\ p # Null
  <2>1. strstr(FlattenSeq(cs), FlattenSeq(f)) = Off(cs, (n + 1) + i)
    <3>1. f \in Seq(Character)
      BY PlainTexts
    <3> QED
      BY ONLY <1>5, <1>6, <3>1, f # <<>>, FindsMatch
  <2>2. Off(cs, (n + 1) + i) = p
    <3>1. PICK c \in Seq(Plain) : c = f \o y
      BY ConcatProperties
    <3>2. PlacedAfter(b, x, c, k)
      BY PlaceAfter
    <3>3. x \o (f \o y) = (x \o f) \o y
      BY ONLY x \in Seq(Plain), f \in Seq(Plain), y \in Seq(Plain), SMTT(30)
    <3> QED
      BY ONLY <1>1, <1>2, <1>3, <3>1, <3>2, <3>3, Zenon DEF PlacedAfter
  <2>3. p # Null
    <3>1. Len(FlattenSeq(b)) \in Nat /\ Len(FlattenSeq(x)) \in Nat
      BY PlainTexts
    <3> QED
      BY ONLY <1>3, <3>1 DEF Null, CLEN
  <2> QED
    BY ONLY <1>5, <2>1, <2>2, <2>3, Zenon
<1>8. replace(t, r) = u
  <2>1. ~ ((Len(t) - Len(FlattenSeq(f))) + Len(FlattenSeq(g)) >= SIZE)
    BY <1>1
  <2> QED
    BY ONLY <1>4, <1>7, <2>1, r[1] = f, r[2] = g, IsApplied
<1>9. E!Apply(<<b, a>>, r) = <<b, (x \o g) \o y>>
  <2>1. E!Places(a, f) # {} /\ E!Min(E!Places(a, f)) = i + 1
    BY ONLY a \in Seq(Plain), f \in Seq(Plain), FirstMatch(a, f, i), PlacesMatch
  <2>2. E!Places(b, f) = {}
    BY ONLY b \in Seq(Plain), f \in Seq(Plain), \A h : ~ Match(b, f, h), PlacesMatch
  <2>3. E!Put(a, i + 1, f, g) = (x \o g) \o y
    <3>1. PutsAt(x, f, y, g)
      BY PutIs
    <3> QED
      BY ONLY <1>2, <3>1, Zenon DEF PutsAt
  <2>4. ~ ((E!Used(b, a) - E!Bytes(f)) + E!Bytes(g) >= SIZE)
    <3>1. E!Used(b, a) = Len(Text(b, a, k)) /\ \A h : E!Bytes(h) = Len(FlattenSeq(h))
      BY RoomUsed
    <3>2. E!Bytes(f) = Len(FlattenSeq(f)) /\ E!Bytes(g) = Len(FlattenSeq(g))
      BY <3>1
    <3> QED
      BY ONLY <3>1, <3>2, ~ ((Len(Text(b, a, k)) - Len(FlattenSeq(f))) + Len(FlattenSeq(g)) >= SIZE), Zenon
  <2>5. PICK e : e = <<b, a>> /\ e[1] = b /\ e[2] = a
    <3>1. <<b, a>>[1] = b /\ <<b, a>>[2] = a
      OBVIOUS
    <3> QED
      BY ONLY <3>1, Zenon
  <2> QED
    BY ONLY <2>1, <2>2, <2>3, <2>4, <2>5, r[1] = f, r[2] = g, Zenon DEF E!Apply
<1>10. PICK c, e : c \in Seq(Plain) /\ c = (x \o g) \o y /\ e = <<b, c>> /\ e[1] = b /\ e[2] = c
  <2>1. PutsAt(x, f, y, g)
    BY PutIs
  <2>2. PICK c \in Seq(Plain) : c = (x \o g) \o y
    BY ONLY <2>1, Zenon DEF PutsAt
  <2>3. <<b, c>>[1] = b /\ <<b, c>>[2] = c
    OBVIOUS
  <2> QED
    BY ONLY <2>2, <2>3, Zenon
<1>11. Len(u) < SIZE
  <2>1. Len(u) = (Len(t) - Len(FlattenSeq(f))) + Len(FlattenSeq(g))
    BY ONLY <1>4, Zenon DEF Spliced
  <2>2. PICK z \in Int : z = Len(u)
    <3>1. Longer(b, b, c, k)
      BY <1>10, Lengths
    <3>2. Len(u) \in Nat
      BY ONLY <1>3, <1>10, <3>1, Zenon DEF Longer
    <3> QED
      BY ONLY <3>2
  <2>3. ~ (z >= SIZE) /\ SIZE \in Nat
    BY <1>1, <2>1, <2>2, ImeAssumption
  <2> QED
    BY ONLY <2>2, <2>3
<1> QED
  BY ONLY <1>1, <1>3, <1>8, <1>9, <1>10, <1>11, b \in Seq(Plain), Zenon DEF Applies

LEMMA RuleApplies ==
  ASSUME NEW b \in Seq(Plain), NEW a \in Seq(Plain), NEW k \in {1, 2},
         NEW r \in (Seq(Plain) \ {<<>>}) \X Seq(Plain)
  PROVE  Applies(b, a, k, r, E!Apply(<<b, a>>, r))
<1>1. PICK f \in Seq(Plain), g \in Seq(Plain) : f # <<>> /\ r[1] = f /\ r[2] = g
  OBVIOUS
<1>2. PICK t : t = Text(b, a, k)
  OBVIOUS
<1>3. PICK e : e = <<b, a>> /\ e[1] = b /\ e[2] = a
  <2>1. <<b, a>>[1] = b /\ <<b, a>>[2] = a
    OBVIOUS
  <2> QED
    BY ONLY <2>1, Zenon
<1>4. E!Used(b, a) = Len(t) /\ E!Bytes(f) = Len(FlattenSeq(f)) /\ E!Bytes(g) = Len(FlattenSeq(g))
  <2>1. E!Used(b, a) = Len(Text(b, a, k)) /\ \A h : E!Bytes(h) = Len(FlattenSeq(h))
    BY RoomUsed
  <2> QED
    BY ONLY <1>2, <2>1, Zenon
<1>5. CASE (Len(t) - Len(FlattenSeq(f))) + Len(FlattenSeq(g)) >= SIZE
  <2>1. replace(t, r) = t
    BY ONLY <1>1, <1>5, Zenon DEF replace
  <2>2. E!Apply(e, r) = e
    BY ONLY <1>1, <1>3, <1>4, <1>5, Zenon DEF E!Apply
  <2>3. Applies(b, a, k, r, <<b, a>>)
    BY <1>2, <2>1, NotApplied
  <2> QED
    BY ONLY <1>3, <2>2, <2>3, Zenon
<1>6. CASE ~ ((Len(t) - Len(FlattenSeq(f))) + Len(FlattenSeq(g)) >= SIZE)
  <2>0. ~ ((Len(Text(b, a, k)) - Len(FlattenSeq(f))) + Len(FlattenSeq(g)) >= SIZE)
    BY <1>2, <1>6
  <2>1. CASE \E j : Match(b, f, j)
    <3>1. PICK j : Match(b, f, j)
      BY <2>1
    <3>2. PICK i : FirstMatch(b, f, i)
      BY ONLY <3>1, SomeFirst
    <3> QED
      BY <1>1, <2>0, <3>2, ReplaceBefore
  <2>2. CASE (\A j : ~ Match(b, f, j)) /\ \E j : Match(a, f, j)
    <3>1. PICK j : Match(a, f, j)
      BY <2>2
    <3>2. PICK i : FirstMatch(a, f, i)
      BY ONLY <3>1, SomeFirst
    <3> QED
      BY <1>1, <2>0, <2>2, <3>2, ReplaceAfter
  <2>3. CASE (\A j : ~ Match(b, f, j)) /\ \A j : ~ Match(a, f, j)
    <3>1. strstr(t, FlattenSeq(f)) = Null
      <4>1. PICK cs, n : cs = Held(Row(b, a, k)) /\ n = Len(b)
        OBVIOUS
      <4>2. cs \in Seq(Character) /\ FlattenSeq(cs) = t
        <5>1. InRow(Row(b, a, k), Text(b, a, k), b, a, k)
          BY RowHolds
        <5>2. Row(b, a, k) \in Line
          BY ONLY <5>1, Zenon DEF InRow
        <5>3. Held(Row(b, a, k)) \in Seq(Character)
          BY ONLY <5>2, HeldIs
        <5> QED
          BY ONLY <1>2, <4>1, <5>1, <5>3, Zenon DEF InRow
      <4>3. MatchesIn(cs, b, a, n, f)
        BY <1>1, <4>1, MatchesAround
      <4>4. \A i : ~ Match(cs, f, i)
        BY ONLY <2>3, <4>3, Zenon DEF MatchesIn
      <4>5. f \in Seq(Character) /\ f # <<>>
        BY <1>1, PlainTexts
      <4>6. strstr(FlattenSeq(cs), FlattenSeq(f)) = Null
        BY ONLY <4>2, <4>4, <4>5, FindsMatch
      <4> QED
        BY ONLY <4>2, <4>6, Zenon
    <3>2. replace(t, r) = t
      BY ONLY <1>1, <3>1, Zenon DEF replace
    <3>3. E!Places(b, f) = {} /\ E!Places(a, f) = {}
      <4>1. E!Places(b, f) = {}
        BY ONLY b \in Seq(Plain), f \in Seq(Plain), <2>3, PlacesMatch
      <4>2. E!Places(a, f) = {}
        BY ONLY a \in Seq(Plain), f \in Seq(Plain), <2>3, PlacesMatch
      <4> QED
        BY <4>1, <4>2
    <3>4. E!Apply(e, r) = e
      BY ONLY <1>1, <1>3, <3>3, Zenon DEF E!Apply
    <3>5. Applies(b, a, k, r, <<b, a>>)
      BY <1>2, <3>2, NotApplied
    <3> QED
      BY ONLY <1>3, <3>4, <3>5, Zenon
  <2> QED
    BY <2>1, <2>2, <2>3, Zenon
<1> QED
  BY <1>5, <1>6

-----------------------------------------------------------------------------
\* Rules applied one after the other, from the texts of e to the next.
Pairs == Seq(Plain) \X Seq(Plain)
RuleSet == (Seq(Plain) \ {<<>>}) \X Seq(Plain)
TextOf(e, k) == Text(e[1], e[2], k)
OneRule(e, k, r, d) ==
  /\ d \in Pairs /\ replace(TextOf(e, k), r) = TextOf(d, k)
  /\ Len(TextOf(e, k)) < SIZE => Len(TextOf(d, k)) < SIZE

LEMMA OneApplies ==
  ASSUME NEW e \in Pairs, NEW k \in {1, 2}, NEW r \in RuleSet
  PROVE  OneRule(e, k, r, E!Apply(e, r))
<1>1. PICK b \in Seq(Plain), a \in Seq(Plain) : e = <<b, a>> /\ e[1] = b /\ e[2] = a
  BY DEF Pairs
<1>2. Applies(b, a, k, r, E!Apply(<<b, a>>, r))
  BY RuleApplies DEF RuleSet
<1>3. PICK d : d = E!Apply(e, r)
  OBVIOUS
<1>4. Applies(b, a, k, r, d)
  BY ONLY <1>1, <1>2, <1>3, Zenon
<1>5. d \in Pairs
  <2>1. d[1] \in Seq(Plain) /\ d[2] \in Seq(Plain) /\ d = <<d[1], d[2]>>
    BY ONLY <1>4, Zenon DEF Applies
  <2>2. <<d[1], d[2]>> \in Pairs
    BY ONLY <2>1 DEF Pairs
  <2> QED
    BY ONLY <2>1, <2>2, Zenon
<1> QED
  BY ONLY <1>1, <1>3, <1>4, <1>5, Zenon DEF Applies, OneRule, TextOf

Chain(e, rules) ==
  /\ e[0] \in Pairs
  /\ \A i \in 1 .. Len(rules) : e[i] = E!Apply(e[i - 1], rules[i])
Converts(e, rules, k) ==
  /\ e[Len(rules)] \in Pairs
  /\ convert(TextOf(e[0], k), rules) = TextOf(e[Len(rules)], k)
  /\ Len(TextOf(e[0], k)) < SIZE => Len(TextOf(e[Len(rules)], k)) < SIZE

LEMMA ChainConverts ==
  ASSUME NEW e, NEW rules \in Seq(RuleSet), NEW k \in {1, 2}, Chain(e, rules)
  PROVE  Converts(e, rules, k)
<1>1. PICK n \in Nat : n = Len(rules)
  OBVIOUS
<1>2. e[0] \in Pairs /\ \A i \in 1 .. n : e[i] = E!Apply(e[i - 1], rules[i]) /\ rules[i] \in RuleSet
  BY <1>1 DEF Chain
<1> DEFINE Fine(i) == e[i] \in Pairs /\ (Len(TextOf(e[0], k)) < SIZE => Len(TextOf(e[i], k)) < SIZE)
           I == {i \in Nat : i <= n => Fine(i)}
<1>3. ASSUME NEW i \in 1 .. n, e[i - 1] \in Pairs
      PROVE  OneRule(e[i - 1], k, rules[i], e[i])
  <2>1. PICK d, r : d = e[i - 1] /\ r = rules[i]
    OBVIOUS
  <2>2. d \in Pairs /\ r \in RuleSet /\ e[i] = E!Apply(d, r)
    BY ONLY <1>2, <1>3, <2>1, i \in 1 .. n, Zenon
  <2>3. OneRule(d, k, r, E!Apply(d, r))
    BY <2>2, OneApplies
  <2> QED
    BY ONLY <2>1, <2>2, <2>3, Zenon
<1>4. 0 \in I
  BY <1>2
<1>5. ASSUME NEW i \in Nat, i \in I PROVE i + 1 \in I
  <2> SUFFICES ASSUME i + 1 <= n
               PROVE  Fine(i + 1)
    OBVIOUS
  <2>1. PICK j \in 1 .. n : j = i + 1 /\ j - 1 = i
    BY <1>1
  <2>2. e[i] \in Pairs /\ (Len(TextOf(e[0], k)) < SIZE => Len(TextOf(e[i], k)) < SIZE)
    BY <1>1, <1>5
  <2>3. OneRule(e[j - 1], k, rules[j], e[j])
    BY <1>3, <2>1, <2>2
  <2> QED
    BY ONLY <2>1, <2>2, <2>3, Zenon DEF OneRule
<1>6. \A i \in Nat : i \in I
  <2> HIDE DEF I
  <2> QED
    BY ONLY <1>4, <1>5, Induction
<1>7. \A i \in 0 .. n : Fine(i)
  <2> HIDE DEF Fine
  <2> QED
    BY <1>1, <1>6
<1>8. \A i \in 1 .. n : replace(TextOf(e[i - 1], k), rules[i]) = TextOf(e[i], k)
  <2> TAKE i \in 1 .. n
  <2>1. i - 1 \in 0 .. n
    OBVIOUS
  <2>2. e[i - 1] \in Pairs
    BY <1>7, <2>1
  <2>3. OneRule(e[i - 1], k, rules[i], e[i])
    BY <1>3, <2>2
  <2> QED
    BY ONLY <2>3, Zenon DEF OneRule
<1> HIDE DEF I
<1> DEFINE t == TextOf(e[0], k)
           At(f, i) == IF i = 0 THEN t ELSE replace(f[i - 1], rules[i])
           G(f) == [i \in 0 .. Len(rules) |-> At(f, i)]
           F == CHOOSE f : f = G(f)
           W == [i \in 0 .. n |-> TextOf(e[i], k)]
<1>9. W = G(W)
  <2>1. ASSUME NEW i \in 0 .. n PROVE W[i] = At(W, i)
    <3>1. CASE i = 0
      BY <1>1, <3>1
    <3>2. CASE i # 0
      <4>1. i \in 1 .. n /\ i - 1 \in 0 .. n
        BY <3>2
      <4>2. W[i - 1] = TextOf(e[i - 1], k) /\ W[i] = TextOf(e[i], k)
        BY <4>1
      <4> HIDE DEF W
      <4> QED
        BY <1>8, <3>2, <4>1, <4>2
    <3> QED
      BY <3>1, <3>2
  <2>2. W = [i \in 0 .. n |-> W[i]]
    OBVIOUS
  <2> HIDE DEF W, At
  <2> QED
    BY ONLY <1>1, <2>1, <2>2, Zenon
<1>10. F = G(F)
  <2> HIDE DEF G, W
  <2> QED
    BY ONLY <1>9, Zenon
<1>11. convert(t, rules) = F[n]
  BY ONLY <1>1, Zenon DEF convert
<1>12. \A i \in 0 .. n : F[i] = At(F, i)
  <2> TAKE i \in 0 .. n
  <2> HIDE DEF F
  <2>1. G(F)[i] = At(F, i)
    <3> HIDE DEF At
    <3> QED
      BY <1>1
  <2> HIDE DEF G, At
  <2> QED
    BY ONLY <1>10, <2>1, Zenon
<1> DEFINE J == {i \in Nat : i <= n => F[i] = TextOf(e[i], k)}
<1> HIDE DEF F, W, G
<1>13. 0 \in J
  BY <1>1, <1>12
<1>14. ASSUME NEW i \in Nat, i \in J PROVE i + 1 \in J
  <2> SUFFICES ASSUME i + 1 <= n PROVE F[i + 1] = TextOf(e[i + 1], k)
    OBVIOUS
  <2>1. PICK j \in 1 .. n : j = i + 1 /\ j - 1 = i /\ j # 0 /\ j \in 0 .. n
    BY <1>1
  <2>2. F[i] = TextOf(e[i], k)
    BY <1>1, <1>14
  <2>3. F[j] = replace(F[j - 1], rules[j])
    BY <1>12, <2>1
  <2> QED
    BY ONLY <1>8, <2>1, <2>2, <2>3, Zenon
<1>15. \A i \in Nat : i \in J
  <2> HIDE DEF J
  <2> QED
    BY ONLY <1>13, <1>14, Induction
<1>16. F[n] = TextOf(e[n], k)
  BY <1>1, <1>15
<1>17. n \in 0 .. n
  BY <1>1
<1> QED
  BY ONLY <1>1, <1>7, <1>11, <1>16, <1>17, Zenon DEF Converts

-----------------------------------------------------------------------------
\* The rules that are tried, in the order of both tables.
Tries(f, b, a, R) ==
  f = [i \in 0 .. Len(R) |-> IF i = 0 THEN <<b, a>> ELSE E!Apply(f[i - 1], R[i])]

LEMMA SomeTries ==
  ASSUME NEW b \in Seq(Plain), NEW a \in Seq(Plain), NEW R \in Seq(RuleSet)
  PROVE  \E f : Tries(f, b, a, R)
<1>1. PICK n \in Nat : n = Len(R)
  OBVIOUS
<1>2. \A i \in 1 .. n, e \in Pairs : E!Apply(e, R[i]) \in Pairs
  <2> TAKE i \in 1 .. n, e \in Pairs
  <2>1. PICK r \in RuleSet : r = R[i]
    BY <1>1
  <2>2. OneRule(e, 1, r, E!Apply(e, r))
    BY OneApplies
  <2> QED
    BY ONLY <2>1, <2>2, Zenon DEF OneRule
<1> DEFINE h == [i \in 1 .. n |-> [e \in Pairs |-> E!Apply(e, R[i])]]
<1>3. h \in Steps(n, Pairs)
  BY <1>2, Zenon DEF Steps
<1>4. PICK f : f \in Iterates(n, Pairs, <<b, a>>, h)
  <2> HIDE DEF h
  <2>1. PICK V, p : V = Pairs /\ p = <<b, a>>
    OBVIOUS
  <2>2. p \in V /\ h \in Steps(n, V)
    BY <1>3, <2>1 DEF Pairs
  <2>3. \E f : f \in Iterates(n, V, p, h)
    BY ONLY <2>2, n \in Nat, Iteration
  <2> QED
    BY ONLY <2>1, <2>3, Zenon
<1>5. f \in [0 .. n -> Pairs] /\ f[0] = <<b, a>> /\ \A i \in 1 .. n : f[i] = h[i][f[i - 1]]
  <2> HIDE DEF h
  <2> QED
    BY <1>4, Zenon DEF Iterates
<1> DEFINE At(i) == IF i = 0 THEN <<b, a>> ELSE E!Apply(f[i - 1], R[i])
<1>6. ASSUME NEW i \in 0 .. n PROVE f[i] = At(i)
  <2>1. CASE i = 0
    BY <1>5, <2>1
  <2>2. CASE i # 0
    <3>1. i \in 1 .. n /\ i - 1 \in 0 .. n
      BY <2>2
    <3>2. PICK e \in Pairs : e = f[i - 1]
      BY <1>5, <3>1
    <3>3. h[i][e] = E!Apply(e, R[i])
      BY <3>1
    <3> HIDE DEF h
    <3> QED
      BY ONLY <1>5, <2>2, <3>1, <3>2, <3>3, Zenon
  <2> QED
    BY <2>1, <2>2
<1>7. f = [i \in 0 .. n |-> f[i]]
  BY ONLY <1>5
<1> HIDE DEF At
<1>8. f = [i \in 0 .. n |-> At(i)]
  BY ONLY <1>6, <1>7, Zenon
<1> QED
  BY ONLY <1>1, <1>8, Zenon DEF At, Tries

\* What the rules of both tables do to the array and to the text.
LEMMA TablesConvert ==
  ASSUME NEW b \in Seq(Plain), NEW a \in Seq(Plain), NEW k \in {1, 2}, NEW f,
         Tries(f, b, a, Romaji \o Kanji)
  PROVE  /\ f[0] = <<b, a>> /\ f[Len(Romaji \o Kanji)] \in Pairs
         /\ convert(convert(Text(b, a, k), Romaji), Kanji) = TextOf(f[Len(Romaji \o Kanji)], k)
         /\ Len(Text(b, a, k)) < SIZE => Len(TextOf(f[Len(Romaji \o Kanji)], k)) < SIZE
<1>1. PICK R, n, m : /\ R = Romaji \o Kanji /\ n = Len(Romaji) /\ m = Len(Kanji) /\ n \in Nat /\ m \in Nat
                     /\ Len(R) = n + m /\ R \in Seq(RuleSet)
                     /\ Romaji \in Seq(RuleSet) /\ Kanji \in Seq(RuleSet)
  <2>1. Romaji \in Seq(RuleSet) /\ Kanji \in Seq(RuleSet)
    BY ImeAssumption DEF RuleSet
  <2>2. PICK X, Y : X \in Seq(RuleSet) /\ Y \in Seq(RuleSet) /\ X = Romaji /\ Y = Kanji
    BY ONLY <2>1, Zenon
  <2>3. X \o Y \in Seq(RuleSet) /\ Len(X \o Y) = Len(X) + Len(Y) /\ Len(X) \in Nat /\ Len(Y) \in Nat
    BY ONLY <2>2
  <2> QED
    BY ONLY <2>1, <2>2, <2>3, Zenon
<1>2. (\A i \in 1 .. n : R[i] = Romaji[i]) /\ (\A i \in 1 .. m : R[n + i] = Kanji[i])
  BY ONLY <1>1
<1>3. \A i \in 0 .. n + m : f[i] = IF i = 0 THEN <<b, a>> ELSE E!Apply(f[i - 1], R[i])
  <2> TAKE i \in 0 .. n + m
  <2> DEFINE At(g, j) == IF j = 0 THEN <<b, a>> ELSE E!Apply(g[j - 1], R[j])
  <2>1. f = [j \in 0 .. n + m |-> At(f, j)]
    BY ONLY <1>1, Tries(f, b, a, Romaji \o Kanji), Zenon DEF Tries
  <2>2. [j \in 0 .. n + m |-> At(f, j)][i] = At(f, i)
    <3> HIDE DEF At
    <3> QED
      OBVIOUS
  <2> HIDE DEF At
  <2>3. f[i] = At(f, i)
    BY ONLY <2>1, <2>2, Zenon
  <2> QED
    BY <2>3 DEF At
<1>4. f[0] = <<b, a>>
  <2>1. 0 \in 0 .. n + m
    BY <1>1
  <2> QED
    BY ONLY <1>3, <2>1, Zenon
<1>5. Converts(f, Romaji, k)
  <2>1. \A i \in 1 .. Len(Romaji) : f[i] = E!Apply(f[i - 1], Romaji[i])
    <3> TAKE i \in 1 .. Len(Romaji)
    <3>1. i \in 0 .. n + m /\ i # 0 /\ i \in 1 .. n
      BY <1>1
    <3> QED
      BY ONLY <1>2, <1>3, <3>1, Zenon
  <2>2. f[0] \in Pairs
    BY <1>4 DEF Pairs
  <2>3. Chain(f, Romaji)
    BY ONLY <2>1, <2>2, Zenon DEF Chain
  <2> QED
    BY ONLY <1>1, <2>3, k \in {1, 2}, ChainConverts
<1>6. PICK d : d = [i \in 0 .. m |-> f[n + i]]
  OBVIOUS
<1>7. d[0] = f[n] /\ d[m] = f[n + m] /\ \A i \in 0 .. m : d[i] = f[n + i]
  BY <1>1, <1>6
<1>8. Converts(d, Kanji, k)
  <2>1. \A i \in 1 .. Len(Kanji) : d[i] = E!Apply(d[i - 1], Kanji[i])
    <3> TAKE i \in 1 .. Len(Kanji)
    <3>1. /\ n + i \in 0 .. n + m /\ n + i # 0 /\ i \in 1 .. m /\ i \in 0 .. m /\ i - 1 \in 0 .. m
          /\ (n + i) - 1 = n + (i - 1)
      BY <1>1
    <3>2. PICK j : j = n + i
      OBVIOUS
    <3>3. f[j] = E!Apply(f[j - 1], R[j])
      BY ONLY <1>3, <3>1, <3>2, Zenon
    <3> QED
      BY ONLY <1>2, <1>7, <3>1, <3>2, <3>3, Zenon
  <2>2. d[0] \in Pairs
    BY ONLY <1>1, <1>5, <1>7, Zenon DEF Converts
  <2>3. Chain(d, Kanji)
    BY ONLY <2>1, <2>2, Zenon DEF Chain
  <2> QED
    BY ONLY <1>1, <2>3, k \in {1, 2}, ChainConverts
<1>9. TextOf(f[0], k) = Text(b, a, k)
  <2>1. <<b, a>>[1] = b /\ <<b, a>>[2] = a
    OBVIOUS
  <2> QED
    BY ONLY <1>4, <2>1, Zenon DEF TextOf
<1> QED
  BY ONLY <1>1, <1>4, <1>5, <1>7, <1>8, <1>9, Zenon DEF Converts

-----------------------------------------------------------------------------
\* Typing in the editor: what fits is put before the cursor and the rules are tried.
Accepted(b, x, a) == IF E!Used(b, a) + Len(x) < SIZE THEN Append(b, x) ELSE b
TypeAs(b, x, a, f) == IF x = <<NL>> THEN f[0] ELSE f[Len(Romaji \o Kanji)]
Both(v, x, y) == [v EXCEPT !.before = x, !.after = y]
TypeBy(v, b, x, a) ==
  LET e == TypeAs(b, x, a, CHOOSE f : Tries(f, Accepted(b, x, a), a, Romaji \o Kanji))
  IN  Both(v, e[1], e[2])

LEMMA TypeUnfolds ==
  ASSUME NEW v, NEW x
  PROVE  E!Type(v, x) = TypeBy(v, v.before, x, v.after)
BY DEF E!Type, TypeBy, Both, TypeAs, Accepted, Tries

LEMMA TypeIs ==
  ASSUME NEW b \in Seq(Plain), NEW a \in Seq(Plain), NEW k \in {1, 2}, NEW x
  PROVE  E!Type(Row(b, a, k), x) = TypeBy(Row(b, a, k), b, x, a)
<1>1. Row(b, a, k).before = b /\ Row(b, a, k).after = a
  BY Rows, SMTT(30)
<1> QED
  BY ONLY <1>1, TypeUnfolds, Zenon

LEMMA RowOf ==
  ASSUME NEW b, NEW a, NEW k, NEW x, NEW y
  PROVE  Both(Row(b, a, k), x, y) = Row(x, y, k)
<1>1. PICK r, v : r = Row(b, a, k) /\ v = Row(x, a, k)
  OBVIOUS
<1>2. [r EXCEPT !.before = x] = v
  BY ONLY <1>1 DEF Row
<1>3. [v EXCEPT !.after = y] = Row(x, y, k)
  BY ONLY <1>1 DEF Row
<1>4. [r EXCEPT !.before = x, !.after = y] = [[r EXCEPT !.before = x] EXCEPT !.after = y]
  OBVIOUS
<1> QED
  BY ONLY <1>1, <1>2, <1>3, <1>4, Zenon DEF Both

LEMMA OneMore ==
  ASSUME NEW b \in Seq(Plain), NEW x \in Plain
  PROVE  <<x>> \in Seq(Plain) /\ Append(b, x) = b \o <<x>> /\ Append(b, x) \in Seq(Plain)
OBVIOUS

\* The byte of a key goes before the cursor if there is room for it.
Inserts(b, a, k, c, d) ==
  /\ d \in Seq(Plain) /\ insert_char(Text(b, a, k), c) = Text(d, a, k)
  /\ Len(Text(b, a, k)) < SIZE => Len(Text(d, a, k)) < SIZE
LEMMA InsertsOne ==
  ASSUME NEW b \in Seq(Plain), NEW a \in Seq(Plain), NEW k \in {1, 2}, NEW c \in 0 .. 127
  PROVE  Inserts(b, a, k, c, Accepted(b, <<c>>, a))
<1>1. PICK t, x, d : t = Text(b, a, k) /\ x = <<c>> /\ d = Append(b, <<c>>)
  OBVIOUS
<1>2. x \in Plain /\ x \in Seq(Byte) /\ Len(x) = 1
  BY <1>1, TypedIsPlain
<1>3. E!Used(b, a) = Len(t) /\ Len(t) \in Nat
  <2>1. E!Used(b, a) = Len(Text(b, a, k))
    BY RoomUsed
  <2>2. Text(b, a, k) \in Seq(Byte)
    BY Rows
  <2>3. PICK u \in Seq(Byte) : u = Text(b, a, k)
    BY ONLY <2>2
  <2>4. Len(u) \in Nat
    BY ONLY u \in Seq(Byte)
  <2> QED
    BY ONLY <1>1, <2>1, <2>3, <2>4, Zenon
<1>4. insert_char(t, c) = IF Len(t) + 1 >= SIZE THEN t ELSE Text(d, a, k)
  <2>1. insert_char(Text(b, a, k), c) =
          IF Len(Text(b, a, k)) + 1 >= SIZE THEN Text(b, a, k) ELSE Text(Append(b, <<c>>), a, k)
    BY InsertIs, ZenonT(40)
  <2> QED
    BY ONLY <1>1, <2>1, Zenon
<1>5. Accepted(b, x, a) = IF Len(t) + 1 < SIZE THEN d ELSE b
  BY ONLY <1>1, <1>2, <1>3, Zenon DEF Accepted
<1>6. SIZE \in Nat
  BY ImeAssumption
<1>7. CASE Len(t) + 1 < SIZE
  <2>1. ~ (Len(t) + 1 >= SIZE)
    BY ONLY <1>3, <1>6, <1>7
  <2>2. d \in Seq(Plain) /\ <<x>> \in Seq(Plain) /\ d = b \o <<x>>
    <3>1. Append(b, x) \in Seq(Plain) /\ <<x>> \in Seq(Plain) /\ Append(b, x) = b \o <<x>>
      BY ONLY <1>2, b \in Seq(Plain), OneMore
    <3> QED
      BY ONLY <1>1, <3>1, Zenon
  <2>3. Len(Text(d, a, k)) = Len(t) + 1
    <3>1. PICK y \in Seq(Plain) : y = <<x>>
      BY ONLY <2>2
    <3>2. Longer(b, y, a, k)
      BY ONLY b \in Seq(Plain), y \in Seq(Plain), a \in Seq(Plain), k \in {1, 2}, Lengths
    <3>3. FlattenSeq(y) = x
      BY <1>2, <3>1, FlatOne
    <3>4. d = b \o y
      BY ONLY <2>2, <3>1, Zenon
    <3>5. Len(Text(d, a, k)) = Len(t) + Len(x)
      BY ONLY <1>1, <3>2, <3>3, <3>4, Zenon DEF Longer
    <3> QED
      BY ONLY <1>2, <3>5, Zenon
  <2>4. Len(Text(d, a, k)) < SIZE
    BY ONLY <1>7, <2>3, Zenon
  <2>5. Accepted(b, x, a) = d /\ insert_char(t, c) = Text(d, a, k)
    BY ONLY <1>4, <1>5, <1>7, <2>1, Zenon
  <2> QED
    BY ONLY <1>1, <2>2, <2>4, <2>5, Zenon DEF Inserts
<1>8. CASE ~ (Len(t) + 1 < SIZE)
  <2>1. Len(t) + 1 >= SIZE
    BY ONLY <1>3, <1>6, <1>8
  <2>2. Accepted(b, x, a) = b /\ insert_char(t, c) = t
    BY ONLY <1>4, <1>5, <1>8, <2>1, Zenon
  <2> QED
    BY ONLY <1>1, <2>2, b \in Seq(Plain), Zenon DEF Inserts
<1> QED
  BY ONLY <1>7, <1>8, Zenon

\* What a key made of the array is what the editor made of the text, and the NUL has room.
Keeps(t1, t, u) == Holds(t1, u) /\ (Len(t) < SIZE => Len(t1) < SIZE)

LEMMA TypeKeeps ==
  ASSUME NEW b \in Seq(Plain), NEW a \in Seq(Plain), NEW k \in {1, 2}, NEW c \in 0 .. 127, c # NL
  PROVE  Keeps(convert(convert(insert_char(Text(b, a, k), c), Romaji), Kanji), Text(b, a, k),
               E!Type(Row(b, a, k), <<c>>))
<1>1. PICK t, x, d, R, v : /\ t = Text(b, a, k) /\ x = <<c>> /\ d = Accepted(b, <<c>>, a)
                          /\ R = Romaji \o Kanji /\ v = Row(b, a, k)
  OBVIOUS
<1>2. d \in Seq(Plain) /\ insert_char(t, c) = Text(d, a, k) /\ (Len(t) < SIZE => Len(Text(d, a, k)) < SIZE)
  <2>1. Inserts(b, a, k, c, Accepted(b, <<c>>, a))
    BY InsertsOne
  <2> QED
    BY ONLY <1>1, <2>1, Zenon DEF Inserts
<1>3. R \in Seq(RuleSet)
  <2>1. Romaji \in Seq(RuleSet) /\ Kanji \in Seq(RuleSet)
    BY ImeAssumption DEF RuleSet
  <2>2. PICK X, Y : X \in Seq(RuleSet) /\ Y \in Seq(RuleSet) /\ X = Romaji /\ Y = Kanji
    BY ONLY <2>1, Zenon
  <2>3. X \o Y \in Seq(RuleSet)
    BY ONLY <2>2
  <2> QED
    BY ONLY <1>1, <2>2, <2>3, Zenon
<1>4. PICK f : f = (CHOOSE g : Tries(g, d, a, R)) /\ Tries(f, d, a, R)
  <2>1. \E g : Tries(g, d, a, R)
    BY ONLY <1>2, <1>3, a \in Seq(Plain), SomeTries
  <2>2. PICK f : f = CHOOSE g : Tries(g, d, a, R)
    OBVIOUS
  <2> QED
    BY ONLY <2>1, <2>2, Zenon
<1>5. PICK e : e = f[Len(R)]
  OBVIOUS
<1>6. /\ e \in Pairs /\ convert(convert(Text(d, a, k), Romaji), Kanji) = TextOf(e, k)
      /\ Len(Text(d, a, k)) < SIZE => Len(TextOf(e, k)) < SIZE
  <2>1. Tries(f, d, a, Romaji \o Kanji)
    BY ONLY <1>1, <1>4, Zenon
  <2>2. /\ f[Len(Romaji \o Kanji)] \in Pairs
        /\ convert(convert(Text(d, a, k), Romaji), Kanji) = TextOf(f[Len(Romaji \o Kanji)], k)
        /\ Len(Text(d, a, k)) < SIZE => Len(TextOf(f[Len(Romaji \o Kanji)], k)) < SIZE
    BY ONLY <1>2, <2>1, a \in Seq(Plain), k \in {1, 2}, TablesConvert
  <2> QED
    BY ONLY <1>1, <1>5, <2>2, Zenon
<1>7. x # <<NL>>
  BY ONLY <1>1, c # NL
<1>8. E!Type(v, x) = Row(e[1], e[2], k)
  <2>1. E!Type(v, x) = TypeBy(v, b, x, a)
    BY ONLY <1>1, b \in Seq(Plain), a \in Seq(Plain), k \in {1, 2}, TypeIs
  <2>2. TypeAs(b, x, a, f) = e
    BY ONLY <1>1, <1>5, <1>7, Zenon DEF TypeAs
  <2>3. TypeBy(v, b, x, a) = Both(v, e[1], e[2])
    BY ONLY <1>1, <1>4, <2>2, Zenon DEF TypeBy
  <2>4. PICK y, z : y = e[1] /\ z = e[2]
    OBVIOUS
  <2>5. Both(v, y, z) = Row(y, z, k)
    <3>1. Both(Row(b, a, k), y, z) = Row(y, z, k)
      BY ONLY RowOf
    <3> QED
      BY ONLY <1>1, <3>1, Zenon
  <2> QED
    BY ONLY <2>1, <2>3, <2>4, <2>5, Zenon
<1>9. e[1] \in Seq(Plain) /\ e[2] \in Seq(Plain)
  BY <1>6 DEF Pairs
<1>10. Holds(Text(e[1], e[2], k), Row(e[1], e[2], k))
  <2>1. PICK y \in Seq(Plain), z \in Seq(Plain) : y = e[1] /\ z = e[2]
    BY <1>9
  <2>2. Holds(Text(y, z, k), Row(y, z, k))
    BY ONLY y \in Seq(Plain), z \in Seq(Plain), k \in {1, 2}, Rows
  <2> QED
    BY ONLY <2>1, <2>2, Zenon
<1> QED
  BY ONLY <1>1, <1>2, <1>6, <1>8, <1>10, Zenon DEF Keeps, TextOf

LEMMA EnterKeeps ==
  ASSUME NEW b \in Seq(Plain), NEW a \in Seq(Plain), NEW k \in {1, 2}
  PROVE  Keeps(insert_char(Text(b, a, k), NL), Text(b, a, k), E!Type(Row(b, a, k), <<NL>>))
<1>1. PICK t, x, d, R, v : /\ t = Text(b, a, k) /\ x = <<NL>> /\ d = Accepted(b, <<NL>>, a)
                          /\ R = Romaji \o Kanji /\ v = Row(b, a, k)
  OBVIOUS
<1>2. d \in Seq(Plain) /\ insert_char(t, NL) = Text(d, a, k) /\ (Len(t) < SIZE => Len(Text(d, a, k)) < SIZE)
  <2>0. NL \in 0 .. 127
    BY ImeAssumption
  <2>1. Inserts(b, a, k, NL, Accepted(b, <<NL>>, a))
    BY <2>0, InsertsOne
  <2> QED
    BY ONLY <1>1, <2>1, Zenon DEF Inserts
<1>3. R \in Seq(RuleSet)
  <2>1. Romaji \in Seq(RuleSet) /\ Kanji \in Seq(RuleSet)
    BY ImeAssumption DEF RuleSet
  <2>2. PICK X, Y : X \in Seq(RuleSet) /\ Y \in Seq(RuleSet) /\ X = Romaji /\ Y = Kanji
    BY ONLY <2>1, Zenon
  <2>3. X \o Y \in Seq(RuleSet)
    BY ONLY <2>2
  <2> QED
    BY ONLY <1>1, <2>2, <2>3, Zenon
<1>4. PICK f : f = (CHOOSE g : Tries(g, d, a, R)) /\ Tries(f, d, a, R)
  <2>1. \E g : Tries(g, d, a, R)
    BY ONLY <1>2, <1>3, a \in Seq(Plain), SomeTries
  <2>2. PICK f : f = CHOOSE g : Tries(g, d, a, R)
    OBVIOUS
  <2> QED
    BY ONLY <2>1, <2>2, Zenon
<1>5. f[0] = <<d, a>>
  <2>1. Tries(f, d, a, Romaji \o Kanji)
    BY ONLY <1>1, <1>4, Zenon
  <2> QED
    BY ONLY <1>2, <2>1, a \in Seq(Plain), k \in {1, 2}, TablesConvert
<1>8. E!Type(v, x) = Row(d, a, k)
  <2>1. E!Type(v, x) = TypeBy(v, b, x, a)
    BY ONLY <1>1, b \in Seq(Plain), a \in Seq(Plain), k \in {1, 2}, TypeIs
  <2>2. TypeAs(b, x, a, f) = f[0]
    BY ONLY <1>1, Zenon DEF TypeAs
  <2>3. TypeBy(v, b, x, a) = Both(v, f[0][1], f[0][2])
    BY ONLY <1>1, <1>4, <2>2, Zenon DEF TypeBy
  <2>4. f[0][1] = d /\ f[0][2] = a
    BY ONLY <1>5
  <2>5. Both(v, d, a) = Row(d, a, k)
    <3>1. Both(Row(b, a, k), d, a) = Row(d, a, k)
      BY ONLY RowOf
    <3> QED
      BY ONLY <1>1, <3>1, Zenon
  <2> QED
    BY ONLY <2>1, <2>3, <2>4, <2>5, Zenon
<1>10. Holds(Text(d, a, k), Row(d, a, k))
  BY ONLY <1>2, a \in Seq(Plain), k \in {1, 2}, Rows
<1> QED
  BY ONLY <1>1, <1>2, <1>8, <1>10, Zenon DEF Keeps

-----------------------------------------------------------------------------
\* The characters of a text are the characters it was put together from.
NextAt(t, i) == Min({Step(t, i), Len(t)})
ListsTo(f, t, z) ==
  f = [i \in 0 .. z |-> IF i = z THEN <<>> ELSE <<Part(t, i, NextAt(t, i))>> \o f[NextAt(t, i)]]
ListsFrom(f, t) == ListsTo(f, t, Len(t))

LEMMA CharsUnfolds ==
  ASSUME NEW t
  PROVE  Chars(t) = (CHOOSE f : ListsFrom(f, t))[0]
BY DEF Chars, ListsFrom, ListsTo, NextAt

LEMMA NextIs ==
  ASSUME NEW t, NEW z \in Nat, z = Len(t), NEW i \in 0 .. z - 1
  PROVE  NextAt(t, i) \in i + 1 .. z /\ (Step(t, i) <= z => NextAt(t, i) = Step(t, i))
<1>1. PICK q : q = Step(t, i) /\ q \in i + 1 .. i + 4
  BY StepLength
<1>2. {q, z} \in SUBSET Int
  BY <1>1
<1>3. CASE q <= z
  <2>1. \A x \in {q, z} : q <= x
    BY <1>1, <1>3
  <2>2. Min({q, z}) = q
    BY ONLY <1>2, <2>1, SetMin
  <2>3. NextAt(t, i) = q
    BY ONLY <1>1, <2>2, z = Len(t), Zenon DEF NextAt
  <2> QED
    BY <1>1, <1>3, <2>3
<1>4. CASE ~ (q <= z)
  <2>1. \A x \in {q, z} : z <= x
    BY <1>1, <1>4
  <2>2. Min({q, z}) = z
    BY ONLY <1>2, <2>1, SetMin
  <2>3. NextAt(t, i) = z
    BY ONLY <1>1, <2>2, z = Len(t), Zenon DEF NextAt
  <2> QED
    BY <1>1, <1>4, <2>3
<1> QED
  BY <1>3, <1>4

LEMMA SomeChars ==
  ASSUME NEW t \in Seq(Byte)
  PROVE  \E f : ListsFrom(f, t)
<1>1. PICK z \in Nat : z = Len(t)
  OBVIOUS
<1> DEFINE D == 0 .. z
           S == {z}
           m == [i \in D |-> z - i]
           b == [i \in S |-> <<>>]
           nx == [i \in D \ S |-> NextAt(t, i)]
           h == [i \in D \ S |-> [x \in Texts |-> <<Part(t, i, NextAt(t, i))>> \o x]]
<1>2. \A i \in D : i \in Nat /\ (i \in S <=> i = z)
  OBVIOUS
<1>3. \A i \in D \ S : NextAt(t, i) \in D /\ i < NextAt(t, i)
  <2> TAKE i \in D \ S
  <2>1. i \in 0 .. z - 1 /\ i \in Nat
    OBVIOUS
  <2>2. NextAt(t, i) \in i + 1 .. z
    BY <1>1, <2>1, NextIs
  <2> QED
    BY <2>1, <2>2
<1>4. \A i \in D \ S : \A x \in Texts : <<Part(t, i, NextAt(t, i))>> \o x \in Texts
  <2> TAKE i \in D \ S
  <2>1. PICK n \in Nat : n = NextAt(t, i) /\ n \in i .. z /\ i \in Nat
    BY <1>3
  <2>2. Part(t, i, n) \in Seq(Byte)
    BY <1>1, <2>1, PartAt DEF Part
  <2>3. PICK y \in Seq(Byte) : y = Part(t, i, n)
    BY <2>2
  <2>4. <<y>> \in Texts
    BY DEF Texts
  <2> TAKE x \in Texts
  <2>5. <<y>> \o x \in Texts
    BY ONLY <2>4, x \in Texts, ConcatProperties DEF Texts
  <2> QED
    BY ONLY <2>1, <2>3, <2>5, Zenon
<1>5. Founded(D, Texts, m, S, b, nx, h)
  <2>0. <<>> \in Texts
    BY DEF Texts
  <2>1. Texts # {} /\ S \in SUBSET D /\ b \in [S -> Texts] /\ m \in [D -> Nat]
    BY <2>0
  <2>2. h \in [D \ S -> [Texts -> Texts]]
    <3> HIDE DEF D, S
    <3> QED
      BY <1>4
  <2>3. nx \in [D \ S -> D]
    <3> HIDE DEF D, S
    <3> QED
      BY <1>3
  <2>4. \A i \in D \ S : m[nx[i]] < m[i]
    <3> TAKE i \in D \ S
    <3>1. nx[i] = NextAt(t, i) /\ NextAt(t, i) \in D /\ i < NextAt(t, i)
      BY <1>3
    <3>2. m[NextAt(t, i)] = z - NextAt(t, i) /\ m[i] = z - i
      BY <3>1
    <3>3. i \in Nat /\ NextAt(t, i) \in Nat
      BY <3>1
    <3> HIDE DEF m, nx
    <3> QED
      BY ONLY <3>1, <3>2, <3>3, z \in Nat
  <2> HIDE DEF D, S, m, b, nx, h
  <2> QED
    BY ONLY <2>1, <2>2, <2>3, <2>4, Zenon DEF Founded
<1>6. PICK f \in [D -> Texts] : Unfolds(f, D, S, b, nx, h)
  <2> HIDE DEF D, S, m, b, nx, h
  <2>1. PICK V : V = Texts
    OBVIOUS
  <2>2. \E f \in [D -> V] : Unfolds(f, D, S, b, nx, h) /\ \A g : Unfolds(g, D, S, b, nx, h) => g = f
    BY ONLY <1>5, <2>1, Recursion
  <2> QED
    BY ONLY <2>1, <2>2, Zenon
<1>7. \A i \in D : (IF i \in S THEN b[i] ELSE h[i][f[nx[i]]])
                     = IF i = z THEN <<>> ELSE <<Part(t, i, NextAt(t, i))>> \o f[NextAt(t, i)]
  <2> TAKE i \in D
  <2>1. CASE i \in S
    BY <1>2, <2>1
  <2>2. CASE i \notin S
    <3>1. i \in D \ S /\ i # z
      BY <1>2, <2>2
    <3>2. f[NextAt(t, i)] \in Texts
      <4> HIDE DEF D
      <4> QED
        BY <1>3, <3>1
    <3>3. nx[i] = NextAt(t, i) /\ \A x \in Texts : h[i][x] = <<Part(t, i, NextAt(t, i))>> \o x
      <4> HIDE DEF D, S
      <4> QED
        BY <3>1
    <3> HIDE DEF S, nx, h, b
    <3> QED
      BY ONLY <2>2, <3>1, <3>2, <3>3, Zenon
  <2> QED
    BY <2>1, <2>2
<1>8. f = [i \in D |-> IF i = z THEN <<>> ELSE <<Part(t, i, NextAt(t, i))>> \o f[NextAt(t, i)]]
  <2> HIDE DEF D, S, nx, h, b
  <2> QED
    BY ONLY <1>6, <1>7, Zenon DEF Unfolds
<1> QED
  <2>1. ListsTo(f, t, z)
    BY ONLY <1>8, Zenon DEF ListsTo
  <2> QED
    BY ONLY <1>1, <2>1, Zenon DEF ListsFrom

LEMMA CharsIs ==
  ASSUME NEW cs \in Seq(Character)
  PROVE  Chars(FlattenSeq(cs)) = cs
<1>1. PICK t, z, n : t = FlattenSeq(cs) /\ z = Len(t) /\ n = Len(cs)
  OBVIOUS
<1>2. /\ n \in Nat /\ z \in Nat /\ t \in Seq(Byte) /\ (\A l \in 0 .. n : Off(cs, l) \in Nat)
      /\ Off(cs, 0) = 0 /\ Off(cs, n) = z
  BY <1>1, Layout
<1>3. PICK f : f = (CHOOSE g : ListsFrom(g, t)) /\ ListsFrom(f, t)
  <2>1. \E g : ListsFrom(g, t)
    BY ONLY <1>2, SomeChars
  <2>2. PICK f : f = CHOOSE g : ListsFrom(g, t)
    OBVIOUS
  <2> QED
    BY ONLY <2>1, <2>2, Zenon
<1> DEFINE At(i) == IF i = z THEN <<>> ELSE <<Part(t, i, NextAt(t, i))>> \o f[NextAt(t, i)]
<1>4. \A i \in 0 .. z : f[i] = At(i)
  <2> TAKE i \in 0 .. z
  <2>1. f = [j \in 0 .. z |-> At(j)]
    <3>0. ListsFrom(f, t) /\ z = Len(t)
      BY ONLY <1>1, <1>3
    <3>1. ListsTo(f, t, z)
      BY ONLY <3>0, Zenon DEF ListsFrom
    <3> QED
      BY ONLY <3>1, Zenon DEF ListsTo
  <2>2. [j \in 0 .. z |-> At(j)][i] = At(i)
    <3> HIDE DEF At
    <3> QED
      OBVIOUS
  <2> HIDE DEF At
  <2> QED
    BY ONLY <2>1, <2>2, Zenon
<1>5. ASSUME NEW l \in 0 .. n - 1
      PROVE  f[Off(cs, l)] = <<cs[l + 1]>> \o f[Off(cs, l + 1)]
  <2>1. PICK p, q, m : p = Off(cs, l) /\ q = Off(cs, l + 1) /\ m = l + 1
    OBVIOUS
  <2>2. m \in 1 .. n /\ l \in 0 .. n /\ m \in 0 .. n /\ l = m - 1 /\ l \in 0 .. Len(cs) - 1 /\ m \in l .. n
    BY <1>1, <1>2, <2>1
  <2>3. p \in Nat /\ p < z /\ Step(t, p) = q /\ q \in Nat
    BY <1>1, <1>2, <2>1, <2>2, FirstByte
  <2>4. q <= z
    <3>1. ~ (Off(cs, n) < Off(cs, m))
      BY <1>1, <1>2, <2>2, OffLess
    <3> QED
      BY <1>2, <2>1, <2>3, <3>1
  <2>5. NextAt(t, p) = q
    <3>1. p \in 0 .. z - 1
      BY <1>2, <2>3
    <3> QED
      BY <1>1, <1>2, <2>3, <2>4, <3>1, NextIs
  <2>6. Part(t, p, q) = cs[m]
    <3>1. Part(t, p, q) = FlattenSeq(SubSeq(cs, l + 1, m))
      BY <1>1, <2>1, <2>2, Cuts
    <3>2. SubSeq(cs, (m - 1) + 1, m) = <<cs[m]>>
      BY ONLY <1>1, <2>2, cs \in Seq(Character), OneElement
    <3>3. FlattenSeq(<<cs[m]>>) = cs[m]
      <4>1. cs[m] \in Character
        BY <1>1, <2>2
      <4>2. cs[m] \in Seq(Byte)
        BY <4>1 DEF Character
      <4> QED
        BY <4>2, FlatOne
    <3> QED
      BY ONLY <2>2, <3>1, <3>2, <3>3, Zenon
  <2>7. p \in 0 .. z /\ p # z
    BY <1>2, <2>3
  <2>8. f[p] = <<cs[m]>> \o f[q]
    BY ONLY <1>4, <2>5, <2>6, <2>7, Zenon
  <2> QED
    BY ONLY <2>1, <2>8, Zenon
<1>6. f[Off(cs, n)] = <<>>
  <2>1. z \in 0 .. z
    BY <1>2
  <2> QED
    BY ONLY <1>2, <1>4, <2>1, Zenon
<1> DEFINE Rest(l) == SubSeq(cs, l + 1, n)
           I == {d \in Nat : d <= n => f[Off(cs, n - d)] = Rest(n - d)}
<1>7. 0 \in I
  <2>1. n - 0 = n /\ n + 1 > n /\ n + 1 \in Int /\ n \in Int
    BY <1>2
  <2>2. SubSeq(cs, n + 1, n) = <<>>
    BY <2>1, SubSeqEmpty
  <2>3. f[Off(cs, n - 0)] = Rest(n - 0)
    BY ONLY <1>6, <2>1, <2>2, Zenon
  <2> QED
    BY <2>3
<1>8. ASSUME NEW d \in Nat, d \in I PROVE d + 1 \in I
  <2> SUFFICES ASSUME d + 1 <= n PROVE f[Off(cs, n - (d + 1))] = Rest(n - (d + 1))
    OBVIOUS
  <2>0. n - (d + 1) \in Nat
    BY <1>2
  <2>1. PICK l \in Nat : l = n - (d + 1)
    BY <2>0
  <2>2. l \in 0 .. n - 1 /\ l + 1 = n - d /\ d <= n
    BY <1>2, <2>1
  <2>3. f[Off(cs, l)] = <<cs[l + 1]>> \o f[Off(cs, l + 1)]
    BY <1>5, <2>2
  <2>4. f[Off(cs, l + 1)] = Rest(l + 1)
    BY <1>8, <2>2
  <2>5. Rest(l) = <<cs[l + 1]>> \o Rest(l + 1)
    <3>1. PICK m \in 1 .. n : m = l + 1
      BY <1>2, <2>2
    <3>2. SubSeq(cs, m, n) = <<cs[m]>> \o SubSeq(cs, m + 1, n)
      <4>1. m \in Int /\ n \in Int /\ m <= n /\ \A i \in m .. n : cs[i] \in Character
        BY <1>1, <1>2
      <4> QED
        BY ONLY <4>1, SubSeqRecursiveFirst
    <3> QED
      BY ONLY <3>1, <3>2, Zenon
  <2> HIDE DEF Rest
  <2> QED
    BY ONLY <2>1, <2>3, <2>4, <2>5, Zenon
<1>9. \A d \in Nat : d \in I
  <2> HIDE DEF I
  <2> QED
    BY ONLY <1>7, <1>8, Induction
<1>10. f[0] = cs
  <2>0. PICK d \in Nat : d = n /\ d <= n
    BY <1>2
  <2>1. f[Off(cs, n - n)] = Rest(n - n)
    <3>1. d \in I
      <4> HIDE DEF I
      <4> QED
        BY ONLY <1>9, d \in Nat
    <3>2. f[Off(cs, n - d)] = Rest(n - d)
      <4> HIDE DEF Rest
      <4> QED
        BY <2>0, <3>1
    <3> HIDE DEF Rest, I
    <3> QED
      BY ONLY <2>0, <3>2, Zenon
  <2>2. n - n = 0 /\ 0 + 1 = 1
    BY <1>2
  <2>3. SubSeq(cs, 1, n) = cs
    BY <1>1, SubSeqFull
  <2> QED
    BY ONLY <1>2, <2>1, <2>2, <2>3, Zenon
<1>11. Chars(t) = f[0]
  BY ONLY <1>3, CharsUnfolds, Zenon
<1> QED
  BY ONLY <1>1, <1>10, <1>11, Zenon

-----------------------------------------------------------------------------
\* The text that the array stands for.
CursorIn(cs) == CHOOSE i \in DOMAIN cs : IsCursor(cs[i])
ViewOf(t) ==
  [before |-> SubSeq(Chars(t), 1, CursorIn(Chars(t)) - 1),
   after |-> SubSeq(Chars(t), CursorIn(Chars(t)) + 1, Len(Chars(t))),
   shape |-> IF Chars(t)[CursorIn(Chars(t))] = CURSOR1 THEN 1 ELSE 2]

LEMMA ViewUnfolds == View = ViewOf(s)
BY DEF View, ViewOf, CursorIn

\* One element of a text with the cursor in it is a cursor.
Sees(cs, b, a, k) ==
  /\ cs \in Seq(Character) /\ Chars(Text(b, a, k)) = cs
  /\ {i \in DOMAIN cs : IsCursor(cs[i])} = {Len(b) + 1}
  /\ CursorIn(cs) = Len(b) + 1 /\ cs[Len(b) + 1] = Shape(k)
  /\ SubSeq(cs, 1, Len(b)) = b /\ SubSeq(cs, Len(b) + 2, Len(cs)) = a

LEMMA SeesText ==
  ASSUME NEW b \in Seq(Plain), NEW a \in Seq(Plain), NEW k \in {1, 2}
  PROVE  Sees(Held(Row(b, a, k)), b, a, k)
<1>1. PICK v, cs, n, o : v = Row(b, a, k) /\ cs = Held(v) /\ n = Len(b) /\ o = <<Shape(k)>>
  OBVIOUS
<1>2. /\ v \in Line /\ v.before = b /\ v.after = a /\ v.shape = k /\ cs = (b \o o) \o a
      /\ FlattenSeq(cs) = Text(b, a, k)
  <2>1. InRow(Row(b, a, k), Text(b, a, k), b, a, k)
    BY RowHolds
  <2>2. v \in Line /\ v.before = b /\ v.after = a /\ v.shape = k /\ FlattenSeq(Held(v)) = Text(b, a, k)
    BY ONLY <1>1, <2>1, Zenon DEF InRow
  <2> QED
    BY ONLY <1>1, <2>2, Zenon DEF Held
<1>3. /\ cs \in Seq(Character) /\ n \in Nat /\ Len(a) \in Nat /\ Len(cs) = (n + 1) + Len(a)
      /\ cs[n + 1] = Shape(k) /\ b \in Seq(Character) /\ a \in Seq(Character)
  <2>1. /\ Held(v) \in Seq(Character) /\ Len(v.before) \in Nat /\ Len(v.after) \in Nat
        /\ Len(Held(v)) = Len(v.before) + 1 + Len(v.after)
        /\ Held(v)[Len(v.before) + 1] = Shape(v.shape)
        /\ v.before \in Seq(Character) /\ v.after \in Seq(Character)
    BY ONLY <1>2, HeldIs
  <2> QED
    BY ONLY <1>1, <1>2, <2>1, Zenon
<1>4. n + 1 \in DOMAIN cs /\ DOMAIN cs = 1 .. Len(cs) /\ n + 1 \in 1 .. Len(cs)
  BY <1>3
<1>5. IsCursor(cs[n + 1])
  BY <1>3 DEF IsCursor, Shape
<1>6. \A i \in DOMAIN cs : IsCursor(cs[i]) => i = n + 1
  <2> TAKE i \in DOMAIN cs
  <2> HAVE IsCursor(cs[i])
  <2>1. i \in 1 .. Len(Held(v)) /\ IsCursor(Held(v)[i])
    BY ONLY <1>1, <1>4, IsCursor(cs[i]), i \in DOMAIN cs, Zenon
  <2>2. i = Len(v.before) + 1
    BY ONLY <1>2, <2>1, OneCursor
  <2> QED
    BY ONLY <1>1, <1>2, <2>2, Zenon
<1>7. {i \in DOMAIN cs : IsCursor(cs[i])} = {n + 1}
  BY ONLY <1>4, <1>5, <1>6, Zenon
<1>8. CursorIn(cs) = n + 1
  BY ONLY <1>4, <1>5, <1>6, Zenon DEF CursorIn
<1>9. o \in Seq(Character) /\ Len(o) = 1
  <2>1. Shape(k) \in Character
    BY ShapeIs
  <2> QED
    BY <1>1, <2>1
<1>10. PICK d, e : d = b \o o /\ e = o \o a
  OBVIOUS
<1>11. d \in Seq(Character) /\ e \in Seq(Character) /\ Len(d) = n + 1 /\ cs = d \o a
  BY ONLY <1>1, <1>2, <1>3, <1>9, <1>10, ConcatProperties
<1>12. cs = b \o e
  <2>1. (b \o o) \o a = b \o (o \o a)
    BY ONLY <1>3, <1>9, SMTT(30)
  <2> QED
    BY ONLY <1>2, <1>10, <2>1, Zenon
<1>13. SubSeq(cs, 1, n) = b
  BY ONLY <1>1, <1>3, <1>11, <1>12, HeadAndRest
<1>14. SubSeq(cs, n + 2, Len(cs)) = a
  <2>1. SubSeq(d \o a, Len(d) + 1, Len(d \o a)) = a
    BY ONLY <1>3, <1>11, HeadAndRest
  <2>2. Len(d) + 1 = n + 2
    BY <1>3, <1>11
  <2> QED
    BY ONLY <1>11, <2>1, <2>2, Zenon
<1>15. Chars(Text(b, a, k)) = cs
  <2>1. Chars(FlattenSeq(cs)) = cs
    BY ONLY <1>3, CharsIs
  <2> QED
    BY ONLY <1>2, <2>1, Zenon
<1> QED
  BY ONLY <1>1, <1>3, <1>7, <1>8, <1>13, <1>14, <1>15, Zenon DEF Sees

LEMMA ViewIs ==
  ASSUME NEW b \in Seq(Plain), NEW a \in Seq(Plain), NEW k \in {1, 2}
  PROVE  ViewOf(Text(b, a, k)) = Row(b, a, k)
<1>1. PICK cs, n : cs = Held(Row(b, a, k)) /\ n = Len(b)
  OBVIOUS
<1>2. /\ Chars(Text(b, a, k)) = cs /\ CursorIn(cs) = n + 1 /\ cs[n + 1] = Shape(k)
      /\ SubSeq(cs, 1, n) = b /\ SubSeq(cs, n + 2, Len(cs)) = a
  <2>1. Sees(Held(Row(b, a, k)), b, a, k)
    BY SeesText
  <2> QED
    BY ONLY <1>1, <2>1, Zenon DEF Sees
<1>3. (n + 1) - 1 = n /\ (n + 1) + 1 = n + 2
  BY <1>1, PlainTexts
<1>4. k = IF Shape(k) = CURSOR1 THEN 1 ELSE 2
  BY ImeAssumption DEF Shape
<1> QED
  BY ONLY <1>2, <1>3, <1>4, Zenon DEF ViewOf, Row

\* What WholeCharacters says of an array.
WholeOf(t) ==
  /\ Len(t) < SIZE
  /\ Cardinality({i \in DOMAIN Chars(t) : IsCursor(Chars(t)[i])}) = 1
  /\ \A i \in DOMAIN Chars(t) : Whole(Chars(t)[i])
  /\ cur(t) - prev_char(t, cur(t)) <= 4

LEMMA WholeUnfolds == WholeCharacters <=> WholeOf(s)
BY DEF WholeCharacters, WholeOf

LEMMA TextIsWhole ==
  ASSUME NEW b \in Seq(Plain), NEW a \in Seq(Plain), NEW k \in {1, 2}, Len(Text(b, a, k)) < SIZE
  PROVE  WholeOf(Text(b, a, k))
<1>1. PICK cs, n, t : cs = Held(Row(b, a, k)) /\ n = Len(b) /\ t = Text(b, a, k)
  OBVIOUS
<1>2. /\ Chars(t) = cs /\ {i \in DOMAIN cs : IsCursor(cs[i])} = {n + 1} /\ cs \in Seq(Character)
  <2>1. Sees(Held(Row(b, a, k)), b, a, k)
    BY SeesText
  <2> QED
    BY ONLY <1>1, <2>1, Zenon DEF Sees
<1>3. Cardinality({n + 1}) = 1
  BY FS_Singleton
<1>4. \A i \in DOMAIN cs : Whole(cs[i])
  <2> TAKE i \in DOMAIN cs
  <2>1. i \in 1 .. Len(cs)
    BY <1>2
  <2>2. cs[i] \in Character
    BY ONLY <1>2, <2>1, ElementOfSeq
  <2> QED
    BY <2>2 DEF Character
<1>5. cur(t) - prev_char(t, cur(t)) <= 4
  <2>1. CASE b = <<>>
    <3>1. Around(Text(b, a, k), b, a, k)
      BY AroundCursor
    <3>2. Len(FlattenSeq(b)) = 0
      BY <2>1, FlatEmpty
    <3>3. cur(t) = 0
      BY ONLY <1>1, <3>1, <3>2, Zenon DEF Around
    <3>4. prev_char(t, 0) = 0
      BY DEF prev_char
    <3> QED
      BY <3>3, <3>4
  <2>2. CASE b # <<>>
    <3>1. PICK d \in Seq(Plain), x \in Plain : b = d \o <<x>>
      BY <2>2, LastOne
    <3>2. /\ prev_char(Text(d \o <<x>>, a, k), cur(Text(d \o <<x>>, a, k))) = Len(FlattenSeq(d))
          /\ cur(Text(d \o <<x>>, a, k)) - Len(FlattenSeq(d)) <= 4
      BY LeftPlace
    <3> QED
      BY ONLY <1>1, <3>1, <3>2, Zenon
  <2> QED
    BY <2>1, <2>2
<1> QED
  BY ONLY <1>1, <1>2, <1>3, <1>4, <1>5, Len(Text(b, a, k)) < SIZE, Zenon DEF WholeOf

-----------------------------------------------------------------------------
\* What holds of the array between keys: it is a text with a cursor, and the
\* NUL has room behind it.
ImeInv == \E b \in Seq(Plain), a \in Seq(Plain), k \in {1, 2} : s = Text(b, a, k) /\ Len(s) < SIZE

LEMMA DoesKeeps ==
  ASSUME NEW b \in Seq(Plain), NEW a \in Seq(Plain), NEW k \in {1, 2}, NEW t1, NEW u,
         Does(t1, Text(b, a, k), u)
  PROVE  Keeps(t1, Text(b, a, k), u)
<1>1. PICK t : t = Text(b, a, k)
  OBVIOUS
<1>2. Len(t) \in Nat
  <2>1. Text(b, a, k) \in Seq(Byte)
    BY Rows
  <2>2. t \in Seq(Byte)
    BY ONLY <1>1, <2>1, Zenon
  <2> QED
    BY ONLY <2>2
<1>3. Holds(t1, u) /\ Len(t1) <= Len(t)
  BY ONLY <1>1, Does(t1, Text(b, a, k), u), Zenon DEF Does
<1>4. Len(t1) \in Nat
  <2>1. u \in Line /\ t1 = FlattenSeq(Held(u))
    BY ONLY <1>3, Zenon DEF Holds
  <2>2. Held(u) \in Seq(Character)
    BY ONLY <2>1, HeldIs
  <2>3. Len(FlattenSeq(Held(u))) \in Nat
    BY ONLY <2>2, Layout
  <2> QED
    BY ONLY <2>1, <2>3, Zenon
<1>5. SIZE \in Nat
  BY ImeAssumption
<1>6. Len(t) < SIZE => Len(t1) < SIZE
  BY ONLY <1>2, <1>3, <1>4, <1>5
<1> QED
  BY ONLY <1>1, <1>3, <1>6, Zenon DEF Keeps

\* What a key has done to the text v: one of the edits, or one character typed.
KeyDone(v, e, w) ==
  \/ e \in E!Keys /\ w = E!Edit(v, e)
  \/ e = "type" /\ \E c \in Letter \cup {NL} : w = E!Type(v, <<c>>)

LEMMA KeySteps ==
  ASSUME NEW b \in Seq(Plain), NEW a \in Seq(Plain), NEW k \in {1, 2}, s = Text(b, a, k),
         Blink \/ Interrupt \/ Rubout \/ Enter \/ (\E c \in Letter : Type(c)) \/ Escape
  PROVE  \E w : Keeps(s', Text(b, a, k), w) /\ KeyDone(Row(b, a, k), key', w) /\ key = "none"
<1>1. PICK t, v : t = Text(b, a, k) /\ v = Row(b, a, k)
  OBVIOUS
<1>2. ASSUME NEW e \in E!Keys, NEW t1, On(e, t1), Does(t1, Text(b, a, k), E!Edit(Row(b, a, k), e))
      PROVE  \E w : Keeps(s', Text(b, a, k), w) /\ KeyDone(Row(b, a, k), key', w) /\ key = "none"
  <2>1. key = "none" /\ s' = t1 /\ key' = e
    BY ONLY <1>2, Zenon DEF On
  <2>2. Keeps(t1, Text(b, a, k), E!Edit(Row(b, a, k), e))
    BY <1>2, DoesKeeps
  <2> QED
    BY ONLY <1>2, <2>1, <2>2, Zenon DEF KeyDone
<1>3. ASSUME NEW c \in Letter \cup {NL}, NEW t1, On("type", t1),
             Keeps(t1, Text(b, a, k), E!Type(Row(b, a, k), <<c>>))
      PROVE  \E w : Keeps(s', Text(b, a, k), w) /\ KeyDone(Row(b, a, k), key', w) /\ key = "none"
  <2>1. key = "none" /\ s' = t1 /\ key' = "type"
    BY ONLY <1>3, Zenon DEF On
  <2> QED
    BY ONLY <1>3, <2>1, Zenon DEF KeyDone
<1>4. {"backspace", "delete", "left", "right", "up", "down", "blink", "other", "end"} \subseteq E!Keys
  BY DEF E!Keys
<1>5. Does(t, Text(b, a, k), v) /\ E!Edit(v, "other") = v /\ E!Edit(v, "end") = v
  <2>1. Len(t) <= Len(t)
    <3>1. Text(b, a, k) \in Seq(Byte)
      BY Rows
    <3> QED
      BY <1>1, <3>1
  <2>2. Does(Text(b, a, k), t, Row(b, a, k))
    BY <1>1, <2>1, DoesText
  <2>3. E!Edit(v, "other") = v /\ E!Edit(v, "end") = v
    BY DEF E!Edit
  <2> QED
    BY ONLY <1>1, <2>2, <2>3, Zenon
<1>6. CASE Blink
  <2>1. cur(Text(b, a, k)) # Null
    <3>1. Around(Text(b, a, k), b, a, k)
      BY AroundCursor
    <3> QED
      BY ONLY <3>1, Zenon DEF Around
  <2>2. On("blink", blink(Text(b, a, k)))
    BY ONLY <1>6, <2>1, s = Text(b, a, k), Zenon DEF Blink
  <2>3. Does(blink(Text(b, a, k)), Text(b, a, k), E!Edit(Row(b, a, k), "blink"))
    BY BlinkDoes
  <2> QED
    BY <1>2, <1>4, <2>2, <2>3
<1>7. CASE Interrupt
  <2>1. On("end", Text(b, a, k))
    BY ONLY <1>7, s = Text(b, a, k), Zenon DEF Interrupt
  <2>2. Does(Text(b, a, k), Text(b, a, k), E!Edit(Row(b, a, k), "end"))
    BY ONLY <1>1, <1>5, Zenon
  <2> QED
    BY <1>2, <1>4, <2>1, <2>2
<1>8. CASE Rubout
  <2>1. On("backspace", backspace(Text(b, a, k)))
    BY ONLY <1>8, s = Text(b, a, k), Zenon DEF Rubout
  <2>2. Does(backspace(Text(b, a, k)), Text(b, a, k), E!Edit(Row(b, a, k), "backspace"))
    BY LeftDoes
  <2> QED
    BY <1>2, <1>4, <2>1, <2>2
<1>9. CASE Enter
  <2>1. On("type", insert_char(Text(b, a, k), NL))
    BY ONLY <1>9, s = Text(b, a, k), Zenon DEF Enter
  <2>2. Keeps(insert_char(Text(b, a, k), NL), Text(b, a, k), E!Type(Row(b, a, k), <<NL>>))
    BY EnterKeeps
  <2> QED
    BY <1>3, <2>1, <2>2
<1>10. ASSUME NEW c \in Letter, Type(c)
       PROVE  \E w : Keeps(s', Text(b, a, k), w) /\ KeyDone(Row(b, a, k), key', w) /\ key = "none"
  <2>1. On("type", convert(convert(insert_char(Text(b, a, k), c), Romaji), Kanji))
    BY ONLY <1>10, s = Text(b, a, k), Zenon DEF Type
  <2>2. c \in 0 .. 127 /\ c # NL
    BY ImeAssumption
  <2>3. Keeps(convert(convert(insert_char(Text(b, a, k), c), Romaji), Kanji), Text(b, a, k),
              E!Type(Row(b, a, k), <<c>>))
    BY <2>2, TypeKeeps
  <2> QED
    BY <1>3, <2>1, <2>3
<1>11. CASE Escape
  <2>1. \/ On("up", up(Text(b, a, k))) \/ On("down", down(Text(b, a, k)))
        \/ On("right", right(Text(b, a, k))) \/ On("left", left(Text(b, a, k)))
        \/ On("delete", delete_char(Text(b, a, k))) \/ On("other", Text(b, a, k))
    BY ONLY <1>11, s = Text(b, a, k), Zenon DEF Escape
  <2>2. Does(Text(b, a, k), Text(b, a, k), E!Edit(Row(b, a, k), "other"))
    BY ONLY <1>1, <1>5, Zenon
  <2>3. /\ Does(up(Text(b, a, k)), Text(b, a, k), E!Edit(Row(b, a, k), "up"))
        /\ Does(down(Text(b, a, k)), Text(b, a, k), E!Edit(Row(b, a, k), "down"))
        /\ Does(left(Text(b, a, k)), Text(b, a, k), E!Edit(Row(b, a, k), "left"))
        /\ Does(right(Text(b, a, k)), Text(b, a, k), E!Edit(Row(b, a, k), "right"))
        /\ Does(delete_char(Text(b, a, k)), Text(b, a, k), E!Edit(Row(b, a, k), "delete"))
    BY UpDoes, DownDoes, LeftDoes, RightDoes
  <2>4. CASE On("up", up(Text(b, a, k)))
    BY <1>2, <1>4, <2>3, <2>4
  <2>5. CASE On("down", down(Text(b, a, k)))
    BY <1>2, <1>4, <2>3, <2>5
  <2>6. CASE On("right", right(Text(b, a, k)))
    BY <1>2, <1>4, <2>3, <2>6
  <2>7. CASE On("left", left(Text(b, a, k)))
    BY <1>2, <1>4, <2>3, <2>7
  <2>8. CASE On("delete", delete_char(Text(b, a, k)))
    BY <1>2, <1>4, <2>3, <2>8
  <2>9. CASE On("other", Text(b, a, k))
    BY <1>2, <1>4, <2>2, <2>9
  <2> QED
    BY <2>1, <2>4, <2>5, <2>6, <2>7, <2>8, <2>9
<1> QED
  BY <1>6, <1>7, <1>8, <1>9, <1>10, <1>11

\* An array that holds the text w.
LEMMA HoldsText ==
  ASSUME NEW t, NEW w, Holds(t, w)
  PROVE  \E b \in Seq(Plain), a \in Seq(Plain), k \in {1, 2} : t = Text(b, a, k) /\ w = Row(b, a, k)
<1>1. w \in Line /\ t = FlattenSeq(Held(w))
  BY DEF Holds
<1>2. PICK b \in Seq(Plain), a \in Seq(Plain), k \in {1, 2} : w = Row(b, a, k)
  BY <1>1, LineIsRow
<1>3. InRow(Row(b, a, k), Text(b, a, k), b, a, k)
  BY RowHolds
<1>4. FlattenSeq(Held(Row(b, a, k))) = Text(b, a, k)
  BY ONLY <1>3, Zenon DEF InRow
<1> QED
  BY ONLY <1>1, <1>2, <1>4, Zenon

LEMMA InitText ==
  ASSUME Init
  PROVE  ImeInv /\ ViewOf(s) = Row(<<>>, <<>>, 1) /\ key = "none"
<1>1. PICK e \in Seq(Plain) : e = <<>> /\ FlattenSeq(e) = <<>>
  <2>1. <<>> \in Seq(Plain)
    OBVIOUS
  <2> QED
    BY <2>1, FlatEmpty
<1>2. CURSOR1 \in Seq(Byte) /\ Len(CURSOR1) < SIZE
  BY ImeAssumption DEF Character
<1>3. Text(e, e, 1) = CURSOR1
  <2>1. Shape(1) = CURSOR1
    BY DEF Shape
  <2>2. (<<>> \o CURSOR1) \o <<>> = CURSOR1
    <3>1. <<>> \o CURSOR1 = CURSOR1 /\ CURSOR1 \o <<>> = CURSOR1
      BY <1>2, ConcatEmptySeq
    <3> QED
      BY ONLY <3>1, Zenon
  <2> QED
    BY ONLY <1>1, <2>1, <2>2, Zenon DEF Text
<1>4. s = CURSOR1 /\ key = "none"
  BY DEF Init
<1>5. 1 \in {1, 2}
  OBVIOUS
<1>6. ViewOf(Text(e, e, 1)) = Row(e, e, 1)
  BY <1>5, ViewIs
<1> QED
  BY ONLY <1>1, <1>2, <1>3, <1>4, <1>5, <1>6, e \in Seq(Plain), Zenon DEF ImeInv

LEMMA NextText == ImeInv /\ [Next]_vars => ImeInv' /\ [E!Next]_(E!vars)
<1> SUFFICES ASSUME ImeInv, [Next]_vars PROVE ImeInv' /\ [E!Next]_(E!vars)
  OBVIOUS
<1>1. PICK b \in Seq(Plain), a \in Seq(Plain), k \in {1, 2} : s = Text(b, a, k) /\ Len(s) < SIZE
  BY Zenon DEF ImeInv
<1>2. View = Row(b, a, k)
  <2>1. ViewOf(Text(b, a, k)) = Row(b, a, k)
    BY ViewIs
  <2> QED
    BY ONLY <1>1, <2>1, ViewUnfolds, Zenon
<1>3. View' = ViewOf(s')
  BY DEF View, ViewOf, CursorIn
<1>4. CASE Blink \/ Interrupt \/ Rubout \/ Enter \/ (\E c \in Letter : Type(c)) \/ Escape
  <2>1. PICK w : Keeps(s', Text(b, a, k), w) /\ KeyDone(Row(b, a, k), key', w) /\ key = "none"
    BY <1>1, <1>4, KeySteps
  <2>2. Holds(s', w) /\ Len(s') < SIZE
    BY ONLY <1>1, <2>1, Zenon DEF Keeps
  <2>3. PICK d \in Seq(Plain), c \in Seq(Plain), l \in {1, 2} : s' = Text(d, c, l) /\ w = Row(d, c, l)
    BY ONLY <2>2, HoldsText
  <2>4. ImeInv'
    BY ONLY <2>2, <2>3, Zenon DEF ImeInv
  <2>5. View' = w
    <3>1. ViewOf(Text(d, c, l)) = Row(d, c, l)
      BY ViewIs
    <3> QED
      BY ONLY <1>3, <2>3, <3>1, Zenon
  <2>6. E!Next
    <3>1. CASE key' \in E!Keys /\ w = E!Edit(Row(b, a, k), key')
      BY <1>2, <2>1, <2>5, <3>1 DEF E!Next
    <3>2. CASE key' = "type" /\ \E x \in Letter \cup {NL} : w = E!Type(Row(b, a, k), <<x>>)
      <4>1. PICK x \in Letter \cup {NL} : w = E!Type(Row(b, a, k), <<x>>)
        BY <3>2
      <4>2. <<x>> \in {<<y>> : y \in Letter \cup {NL}}
        OBVIOUS
      <4> QED
        BY <1>2, <2>1, <2>5, <3>2, <4>1, <4>2 DEF E!Next
    <3> QED
      BY ONLY <2>1, <3>1, <3>2, Zenon DEF KeyDone
  <2> QED
    BY <2>4, <2>6
<1>5. CASE Redraw
  <2>1. key \notin {"none", "end"} /\ key' = "none" /\ s' = s
    BY <1>5 DEF Redraw
  <2>2. View' = View
    BY ONLY <1>3, <2>1, ViewUnfolds, Zenon
  <2>3. ImeInv'
    BY ONLY <2>1, ImeInv, Zenon DEF ImeInv
  <2>4. E!Next
    BY <2>1, <2>2 DEF E!Next
  <2> QED
    BY <2>3, <2>4
<1>6. CASE UNCHANGED vars
  <2>1. s' = s /\ key' = key
    BY <1>6 DEF vars
  <2>2. View' = View
    BY ONLY <1>3, <2>1, ViewUnfolds, Zenon
  <2>3. ImeInv'
    BY ONLY <2>1, ImeInv, Zenon DEF ImeInv
  <2> QED
    BY <2>1, <2>2, <2>3 DEF E!vars
<1> QED
  BY <1>4, <1>5, <1>6 DEF Next

(***************************************************************************)
(* Whatever is typed, the array is whole characters, one of them the        *)
(* cursor, with room for the NUL, and the character that left() copies to   *)
(* tmp fits there.                                                          *)
(***************************************************************************)
THEOREM ImeKeepsCharacters == Spec => []WholeCharacters
<1>1. Init => ImeInv
  BY InitText
<1>2. ImeInv /\ [Next]_vars => ImeInv'
  BY NextText
<1>3. ImeInv => WholeCharacters
  <2> SUFFICES ASSUME ImeInv PROVE WholeCharacters
    OBVIOUS
  <2>1. PICK b \in Seq(Plain), a \in Seq(Plain), k \in {1, 2} : s = Text(b, a, k) /\ Len(s) < SIZE
    BY Zenon DEF ImeInv
  <2>2. WholeOf(Text(b, a, k))
    BY <2>1, TextIsWhole
  <2> QED
    BY ONLY <2>1, <2>2, WholeUnfolds, Zenon
<1> QED
  BY <1>1, <1>2, <1>3, PTL DEF Spec

(***************************************************************************)
(* Moving bytes is editing characters: every key of every sequence of keys  *)
(* does to the array what the editor of whole characters does to the text,  *)
(* whatever the tables, the letters and the size of the array are.          *)
(***************************************************************************)
THEOREM ImeImplementsEditor == Spec => ImplementsEditor
<1>1. Init => ImeInv /\ E!Init
  <2> SUFFICES ASSUME Init PROVE ImeInv /\ E!Init
    OBVIOUS
  <2>1. ImeInv /\ ViewOf(s) = Row(<<>>, <<>>, 1) /\ key = "none"
    BY InitText
  <2>2. View = [before |-> <<>>, after |-> <<>>, shape |-> 1]
    BY ONLY <2>1, ViewUnfolds, Zenon DEF Row
  <2> QED
    BY <2>1, <2>2 DEF E!Init
<1>2. ImeInv /\ [Next]_vars => ImeInv' /\ [E!Next]_(E!vars)
  BY NextText
<1> QED
  BY <1>1, <1>2, PTL DEF Spec, ImplementsEditor, E!Spec
=============================================================================
